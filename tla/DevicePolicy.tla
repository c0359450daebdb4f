----------------------------- MODULE DevicePolicy -----------------------------
(***************************************************************************)
(* Which USB devices mlos_host offers to the host PC, and what sharing     *)
(* them does to the next answer.  devices() reads the descriptors, the     *)
(* mounts, the routing table and the ALSA cards of the moment; exporting a *)
(* device takes its drivers away, and with them its card, its disk and its *)
(* network interface.  So the answer depends on what the last one led to.  *)
(*                                                                         *)
(* A bus id is the path of ports that leads to the device: <<2, 1>> is the *)
(* device in port 1 of the hub in port 2, as its sysfs path says.          *)
(***************************************************************************)
EXTENDS Naturals, FiniteSets, Sequences, SequencesExt

CONSTANTS
    Busids,      \* port paths
    Models,      \* kinds of devices that are plugged in and out
    Nothing,     \* an empty port
    NoId,        \* the hwid of a device whose descriptor cannot be read
    Mounted,     \* Busids of the disks this machine runs from
    AtBoot,      \* Busids -> what is in each port when the machine starts
    Lists,       \* contents of the include and the exclude list: sets of hwids
    Families,    \* address families that get a default route
    MaxPlugs,    \* bound: devices that come or go
    MaxSettings, \* bound: changes to the policy and its lists
    MaxRoutes    \* bound: default routes that appear or go

Classes == {"audio", "hid", "storage", "hub", "video", "wireless", "net", "other"}

\* What the descriptors say, and what ALSA will say once it has a card.
Device ==
    [classes : SUBSET Classes, bootHid : BOOLEAN, pcm : SUBSET {"c", "p"},
     hwid : Models \cup {NoId}]

CONSTANT Describe   \* Models -> Device

ASSUME DescribeType == Describe \in [Models -> Device]
ASSUME BusidsArePaths == Busids \subseteq Seq(Nat) \ {<<>>} /\ IsFiniteSet(Busids)
ASSUME NothingIsNoModel == Nothing \notin Models
ASSUME FamiliesType == Families \subseteq {"inet", "inet6"}
ASSUME AtBootType == AtBoot \in [Busids -> Models \cup {Nothing}]
\* What is plugged in behind something is plugged into a hub.
ASSUME AtBootBehindHubs ==
    \A b, c \in Busids : IsPrefix(b, c) /\ b # c /\ AtBoot[c] # Nothing =>
        AtBoot[b] # Nothing /\ "hub" \in Describe[AtBoot[b]].classes
ASSUME ListsType == Lists \subseteq SUBSET Models /\ {} \in Lists
ASSUME MountedType == \A b \in Mounted : b \in Busids /\ AtBoot[b] # Nothing
ASSUME BoundsType == {MaxPlugs, MaxSettings, MaxRoutes} \subseteq Nat

VARIABLES
    at,         \* at[b]: the model plugged into b, or Nothing
    cards,      \* devices ALSA has a card for
    routes,     \* <<b, family>>: the interface of b has a default route
    shared,     \* devices that belong to usbip-host
    settings,   \* the policy, the include list and the exclude list
    offer,      \* the survey a pass is acting on, or Nothing between passes
    carried,    \* (history) the default routes at the last survey
    spent       \* how much of each bound has been used up

vars == <<at, cards, routes, shared, settings, offer, carried, spent>>

Plugged == {b \in Busids : at[b] # Nothing}
Dev(b) == Describe[at[b]]

HasClass(b, class) == class \in Dev(b).classes
IsBootHid(b) == Dev(b).bootHid

\* Mutant of AudioRole: what cannot record is for playback.
PlaybackUnlessCapture(b) ==
    IF b \in cards /\ "c" \in Dev(b).pcm THEN "capture" ELSE "playback"

\* Without a card nobody knows: the card goes with the driver.
AudioRole(b) ==
    IF b \notin cards THEN "unknown"
    ELSE IF "c" \in Dev(b).pcm THEN "capture"
    ELSE IF "p" \in Dev(b).pcm THEN "playback"
    ELSE "unknown"

\* /proc/net/route and `ip route show default` both list IPv4 routes only.
RoutedInterfaces == {b \in Plugged : <<b, "inet">> \in routes}

\* Mutant of CriticalPaths: the boot medium alone.
BootMediumOnly == Mounted \cap Plugged

CriticalPaths == (Mounted \cap Plugged) \cup RoutedInterfaces

\* Losing b takes everything behind it along.
Critical(b) == \E c \in CriticalPaths : IsPrefix(b, c)

Protected(b) == Critical(b) \/ HasClass(b, "hub")

Named(b, list) == Dev(b).hwid # NoId /\ Dev(b).hwid \in list

\* What the "safe" policy leaves to Moonlight or keeps off USB/IP.
Skipped(b) ==
    \/ IsBootHid(b)
    \/ HasClass(b, "wireless")
    \/ HasClass(b, "audio") /\ AudioRole(b) = "playback"
    \/ HasClass(b, "video")
    \/ HasClass(b, "storage")

\* Mutant of Offered: the include list overrules everything else.
IncludeFirst(how) ==
    {b \in Plugged :
        \/ Named(b, how.include)
        \/ ~Protected(b) /\ ~Named(b, how.exclude) /\ (how.policy = "all" \/ ~Skipped(b))}

\* offered(): the devices without a reason.  The lists overrule the policy,
\* exclude overrules include, nothing overrules the hard rules.
Offered(how) ==
    {b \in Plugged :
        /\ ~Protected(b)
        /\ ~Named(b, how.exclude)
        /\ Named(b, how.include) \/ how.policy = "all" \/ ~Skipped(b)}

Settings == [policy : {"safe", "all"}, include : Lists, exclude : Lists]

Spend(what) == spent' = [spent EXCEPT ![what] = spent[what] + 1]

\* ------------------------------------------------ a pass of whoever shares

\* devices() of the moment; a pass with nothing to do is not a step.
Survey ==
    /\ offer = Nothing
    /\ offer' = Offered(settings)
    /\ offer' # shared
    /\ carried' = routes
    /\ UNCHANGED <<at, cards, routes, shared, settings, spent>>

\* usbip bind: the device's own drivers lose it.
Bind(b) ==
    /\ offer # Nothing /\ b \in offer \ shared
    /\ b \in Plugged
    /\ shared' = shared \cup {b}
    /\ cards' = cards \ {b}
    /\ routes' = {r \in routes : r[1] # b}
    /\ UNCHANGED <<at, settings, offer, carried, spent>>

\* usbip unbind: what is shared and no longer offered goes back.
Unbind(b) ==
    /\ offer # Nothing /\ b \in shared \ offer
    /\ shared' = shared \ {b}
    /\ UNCHANGED <<at, cards, routes, settings, offer, carried, spent>>

PassDone ==
    /\ offer # Nothing
    /\ offer \cap Plugged = shared
    /\ offer' = Nothing
    /\ UNCHANGED <<at, cards, routes, shared, settings, carried, spent>>

\* ---------------------------------------------- what changes underneath it

\* A device appears at the root or behind a hub that is plugged in, but not
\* in place of one that the running pass is about to share.
Plug(b, model) ==
    /\ at[b] = Nothing /\ (offer # Nothing => b \notin offer)
    /\ Len(b) = 1 \/ \E hub \in Plugged : hub = Front(b) /\ HasClass(hub, "hub")
    /\ spent["plugs"] < MaxPlugs /\ Spend("plugs")
    /\ at' = [at EXCEPT ![b] = model]
    /\ UNCHANGED <<cards, routes, shared, settings, offer, carried>>

\* A device goes, with everything behind it.
Unplug(b) ==
    /\ b \in Plugged /\ \A disk \in Mounted : ~IsPrefix(b, disk)
    /\ spent["plugs"] < MaxPlugs /\ Spend("plugs")
    /\ LET gone == {d \in Busids : IsPrefix(b, d)}
       IN  /\ at' = [d \in Busids |-> IF d \in gone THEN Nothing ELSE at[d]]
           /\ cards' = cards \ gone
           /\ routes' = {r \in routes : r[1] \notin gone}
           /\ shared' = shared \ gone
    /\ UNCHANGED <<settings, offer, carried>>

\* snd-usb-audio registers its card some time after the device appeared, or
\* after usbip-host has let go of it.
CardAppears(b) ==
    /\ b \in Plugged \ (shared \cup cards)
    /\ HasClass(b, "audio")
    /\ cards' = cards \cup {b}
    /\ UNCHANGED <<at, routes, shared, settings, offer, carried, spent>>

\* NetworkManager gains or loses a default route.
RouteChanges(b, family) ==
    /\ b \in Plugged \ shared
    /\ HasClass(b, "net")
    /\ spent["routes"] < MaxRoutes /\ Spend("routes")
    /\ routes' = IF <<b, family>> \in routes THEN routes \ {<<b, family>>}
                 ELSE routes \cup {<<b, family>>}
    /\ UNCHANGED <<at, cards, shared, settings, offer, carried>>

\* Mutant of Configure: a policy nobody knows.
ConfigureAnything(how) ==
    /\ how # settings
    /\ spent["settings"] < MaxSettings /\ Spend("settings")
    /\ settings' = [how EXCEPT !.policy = "unsafe"]
    /\ UNCHANGED <<at, cards, routes, shared, offer, carried>>

\* The panel or the console menu changes the policy or one of its lists.
Configure(how) ==
    /\ how # settings
    /\ spent["settings"] < MaxSettings /\ Spend("settings")
    /\ settings' = how
    /\ UNCHANGED <<at, cards, routes, shared, offer, carried>>

\* ------------------------------------------------------------------- the spec

Default == [policy |-> "safe", include |-> {}, exclude |-> {}]

Init ==
    /\ at = AtBoot
    /\ cards = {} /\ routes = {} /\ shared = {}
    /\ settings = Default
    /\ offer = Nothing /\ carried = {}
    /\ spent = [plugs |-> 0, settings |-> 0, routes |-> 0]

Pass == Survey \/ PassDone \/ \E b \in Busids : Bind(b) \/ Unbind(b)

Around ==
    \/ \E b \in Busids : Unplug(b) \/ \E model \in Models : Plug(b, model)
    \/ \E b \in Busids, family \in Families : RouteChanges(b, family)
    \/ \E how \in Settings : Configure(how)

Next == Pass \/ Around \/ \E b \in Busids : CardAppears(b)

Spec == Init /\ [][Next]_vars

\* Passes are repeated, and ALSA gets round to every sound card.
FairSpec == Spec /\ WF_vars(Pass) /\ \A b \in Busids : WF_vars(CardAppears(b))

\* ------------------------------------------------------------------ properties

\* The type of the state; nothing is shared, and no card stays, in an empty
\* port.
TypeOK ==
    /\ at \in [Busids -> Models \cup {Nothing}]
    /\ cards \subseteq Plugged /\ shared \subseteq Plugged
    /\ routes \cup carried \subseteq Busids \X {"inet", "inet6"}
    /\ settings \in Settings
    /\ offer = Nothing \/ offer \subseteq Busids
    /\ spent \in [plugs : 0..MaxPlugs, settings : 0..MaxSettings, routes : 0..MaxRoutes]

\* The disk this machine runs from is never handed over, nor a device it is
\* behind, whatever the policy and the lists say and whatever was plugged in
\* since (devices(), "hard rules").
BootStays == \A b \in shared, disk \in Mounted : ~IsPrefix(b, disk)

\* No pass takes an interface away that had a default route when the pass
\* looked and still has it, nor anything that interface is behind.
CarrierStays ==
    [][\A b \in shared' \ shared, r \in carried \cap routes : ~IsPrefix(b, r[1])]_vars

\* Sharing a device is never the reason for taking it back: under the same
\* settings it stays shared until it is unplugged, although the next survey
\* no longer sees its card (audio_role(), "flap forever").
SharedStays ==
    [][spent["settings"] = 0 => \A b \in shared \ shared' : b \notin Plugged']_vars

\* When nothing changes any more, neither does the set of shared devices.
Settles == <>[][FALSE]_shared
===============================================================================
