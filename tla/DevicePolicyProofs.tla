-------------------------- MODULE DevicePolicyProofs --------------------------
(***************************************************************************)
(* What the device rules promise for any ports, devices, lists and number  *)
(* of changes: the boot disk is never handed over; with default routes     *)
(* that are all IPv4 no pass takes a carrier away; and under the settings  *)
(* of a fresh installation no device is taken back while it is plugged in. *)
(***************************************************************************)
EXTENDS DevicePolicy, SequenceTheorems, TLAPS

\* ---- type correctness

\* An inet6 route counts as one for the type only.
LEMMA PlugsTyped ==
    ASSUME TypeOK, NEW b \in Busids, NEW model \in Models, Plug(b, model)
    PROVE  TypeOK'
  <1>1. at' \in [Busids -> Models \cup {Nothing}]
    BY DEF Plug, TypeOK
  <1>2. Plugged \subseteq Plugged'
    BY DEF Plug, TypeOK, Plugged
  <1>3. spent' \in [plugs : 0..MaxPlugs, settings : 0..MaxSettings, routes : 0..MaxRoutes]
    <2>1. spent["plugs"] + 1 \in 0..MaxPlugs
      BY BoundsType DEF Plug, TypeOK
    <2> QED
      BY <2>1 DEF Plug, Spend, TypeOK
  <1> QED
    BY <1>1, <1>2, <1>3 DEF Plug, TypeOK

LEMMA UnplugsTyped ==
    ASSUME TypeOK, NEW b \in Busids, Unplug(b)
    PROVE  TypeOK'
  <1> DEFINE gone == {d \in Busids : IsPrefix(b, d)}
  <1>1. /\ at' = [d \in Busids |-> IF d \in gone THEN Nothing ELSE at[d]]
        /\ cards' = cards \ gone
        /\ routes' = {r \in routes : r[1] \notin gone}
        /\ shared' = shared \ gone
    BY DEF Unplug
  <1> HIDE DEF gone
  <1>2. at' \in [Busids -> Models \cup {Nothing}]
    BY <1>1 DEF TypeOK
  <1>3. Plugged' = Plugged \ gone
    BY <1>1, <1>2 DEF Plugged, TypeOK
  <1>4. spent' \in [plugs : 0..MaxPlugs, settings : 0..MaxSettings, routes : 0..MaxRoutes]
    <2>1. spent["plugs"] + 1 \in 0..MaxPlugs
      BY BoundsType DEF Unplug, TypeOK
    <2> QED
      BY <2>1 DEF Unplug, Spend, TypeOK
  <1>5. routes' \cup carried' \subseteq Busids \X {"inet", "inet6"}
    BY <1>1 DEF Unplug, TypeOK
  <1> QED
    BY <1>1, <1>2, <1>3, <1>4, <1>5 DEF Unplug, TypeOK

LEMMA RoutesTyped ==
    ASSUME TypeOK, NEW b \in Busids, NEW family \in Families, RouteChanges(b, family)
    PROVE  TypeOK'
  <1>1. <<b, family>> \in Busids \X {"inet", "inet6"}
    BY FamiliesType
  <1>2. routes' \subseteq Busids \X {"inet", "inet6"}
    BY <1>1 DEF RouteChanges, TypeOK
  <1>3. spent' \in [plugs : 0..MaxPlugs, settings : 0..MaxSettings, routes : 0..MaxRoutes]
    <2>1. spent["routes"] + 1 \in 0..MaxRoutes
      BY BoundsType DEF RouteChanges, TypeOK
    <2> QED
      BY <2>1 DEF RouteChanges, Spend, TypeOK
  <1> QED
    BY <1>2, <1>3 DEF RouteChanges, TypeOK, Plugged

LEMMA SettingsTyped ==
    ASSUME TypeOK, NEW how \in Settings, Configure(how)
    PROVE  TypeOK'
  <1>1. spent' \in [plugs : 0..MaxPlugs, settings : 0..MaxSettings, routes : 0..MaxRoutes]
    <2>1. spent["settings"] + 1 \in 0..MaxSettings
      BY BoundsType DEF Configure, TypeOK
    <2> QED
      BY <2>1 DEF Configure, Spend, TypeOK
  <1> QED
    BY <1>1 DEF Configure, TypeOK, Plugged

LEMMA PassTyped ==
    ASSUME TypeOK, Pass
    PROVE  TypeOK'
  <1> USE DEF TypeOK, Plugged
  <1>1. CASE Survey
    BY <1>1 DEF Survey, Offered
  <1>2. CASE PassDone
    BY <1>2 DEF PassDone
  <1>3. ASSUME NEW b \in Busids, Bind(b)
        PROVE  TypeOK'
    BY <1>3 DEF Bind
  <1>4. ASSUME NEW b \in Busids, Unbind(b)
        PROVE  TypeOK'
    BY <1>4 DEF Unbind
  <1> QED
    BY <1>1, <1>2, <1>3, <1>4 DEF Pass

LEMMA StepTyped ==
    ASSUME TypeOK, [Next]_vars
    PROVE  TypeOK'
  <1>1. CASE UNCHANGED vars
    BY <1>1 DEF vars, TypeOK, Plugged
  <1>2. ASSUME NEW b \in Busids, CardAppears(b)
        PROVE  TypeOK'
    BY <1>2 DEF CardAppears, TypeOK, Plugged
  <1> QED
    BY <1>1, <1>2, PassTyped, PlugsTyped, UnplugsTyped, RoutesTyped, SettingsTyped
    DEF Next, Around

\* Every variable always has its type, and what is shared is plugged in.
THEOREM TypeCorrect == Spec => []TypeOK
  <1>1. Init => TypeOK
    <2> SUFFICES ASSUME Init
                 PROVE  TypeOK
      OBVIOUS
    <2>1. settings \in Settings
      BY ListsType DEF Init, Default, Settings
    <2>2. spent \in [plugs : 0..MaxPlugs, settings : 0..MaxSettings, routes : 0..MaxRoutes]
      BY BoundsType DEF Init
    <2> QED
      BY <2>1, <2>2, AtBootType DEF Init, TypeOK
  <1>2. TypeOK /\ [Next]_vars => TypeOK'
    BY StepTyped
  <1> QED
    BY <1>1, <1>2, PTL DEF Spec

\* ---- the boot disk stays

\* The disks this machine runs from are never unplugged.
MountedIn == Mounted \subseteq Plugged

\* What a pass set out to share has none of them behind it.
OfferSparesBoot ==
    offer # Nothing => \A b \in offer, disk \in Mounted : ~IsPrefix(b, disk)

BootInv == MountedIn /\ OfferSparesBoot /\ BootStays

LEMMA BootStep ==
    ASSUME TypeOK, BootInv, [Next]_vars
    PROVE  BootInv'
  <1> USE DEF BootInv, MountedIn, OfferSparesBoot, BootStays
  <1>1. CASE UNCHANGED vars
    BY <1>1 DEF vars, Plugged
  <1>2. CASE Survey
    <2>1. \A b \in Offered(settings), disk \in Mounted : ~IsPrefix(b, disk)
      BY DEF Offered, Protected, Critical, CriticalPaths
    <2> QED
      BY <1>2, <2>1 DEF Survey, Plugged
  <1>3. CASE PassDone
    BY <1>3 DEF PassDone, Plugged
  <1>4. ASSUME NEW b \in Busids, Bind(b) \/ Unbind(b)
        PROVE  BootInv'
    BY <1>4 DEF Bind, Unbind, Plugged
  <1>5. ASSUME NEW b \in Busids, NEW model \in Models, Plug(b, model)
        PROVE  BootInv'
    <2>1. Plugged \subseteq Plugged'
      BY <1>5 DEF Plug, Plugged, TypeOK
    <2> QED
      BY <1>5, <2>1 DEF Plug
  <1>6. ASSUME NEW b \in Busids, Unplug(b)
        PROVE  BootInv'
    <2>1. \A d \in Plugged : ~IsPrefix(b, d) => d \in Plugged'
      BY <1>6 DEF Unplug, Plugged, TypeOK
    <2>2. shared' \subseteq shared
      BY <1>6 DEF Unplug
    <2> QED
      BY <1>6, <2>1, <2>2 DEF Unplug
  <1>7. ASSUME NEW b \in Busids, NEW family \in Families, RouteChanges(b, family)
        PROVE  BootInv'
    BY <1>7 DEF RouteChanges, Plugged
  <1>8. ASSUME NEW how \in Settings, Configure(how)
        PROVE  BootInv'
    BY <1>8 DEF Configure, Plugged
  <1>9. ASSUME NEW b \in Busids, CardAppears(b)
        PROVE  BootInv'
    BY <1>9 DEF CardAppears, Plugged
  <1> QED
    BY <1>1, <1>2, <1>3, <1>4, <1>5, <1>6, <1>7, <1>8, <1>9 DEF Next, Pass, Around

LEMMA BootInit == Init => BootInv
  BY MountedType DEF Init, BootInv, MountedIn, OfferSparesBoot, BootStays, Plugged

LEMMA BootKept == Spec => [](TypeOK /\ BootInv)
  <1>1. TypeOK /\ BootInv /\ [Next]_vars => BootInv'
    BY BootStep
  <1> QED
    BY <1>1, BootInit, TypeCorrect, PTL DEF Spec

\* The disk this machine runs from is never handed over, nor a device it is
\* behind: for any tree of ports, any lists and either policy.
THEOREM BootCorrect == Spec => []BootStays
  <1>1. BootInv => BootStays
    BY DEF BootInv
  <1> QED
    BY <1>1, BootKept, PTL

\* ---- the carrier stays

\* Only devices that are plugged in have routes, and the rules see them all.
RoutesSeen == \A r \in routes : r[1] \in Plugged /\ r = <<r[1], "inet">>

\* What a pass set out to share has no interface behind it that had a route.
OfferSparesCarriers ==
    offer # Nothing => \A b \in offer, r \in carried : ~IsPrefix(b, r[1])

CarrierInv == RoutesSeen /\ OfferSparesCarriers

LEMMA CarrierStep ==
    ASSUME Families \subseteq {"inet"}, TypeOK, CarrierInv, [Next]_vars
    PROVE  CarrierInv'
  <1> USE DEF CarrierInv, RoutesSeen, OfferSparesCarriers, RoutedInterfaces
  <1>1. CASE UNCHANGED vars
    BY <1>1 DEF vars, Plugged
  <1>2. CASE Survey
    <2>1. \A b \in Offered(settings), r \in routes : ~IsPrefix(b, r[1])
      BY DEF Offered, Protected, Critical, CriticalPaths
    <2> QED
      BY <1>2, <2>1 DEF Survey, Plugged
  <1>3. CASE PassDone
    BY <1>3 DEF PassDone, Plugged
  <1>4. ASSUME NEW b \in Busids, Bind(b)
        PROVE  CarrierInv'
    <2>1. \A r \in routes' : r[1] \in Plugged' /\ r \in routes
      BY <1>4 DEF Bind, Plugged
    <2> QED
      BY <1>4, <2>1 DEF Bind
  <1>5. ASSUME NEW b \in Busids, Unbind(b)
        PROVE  CarrierInv'
    BY <1>5 DEF Unbind, Plugged
  <1>6. ASSUME NEW b \in Busids, NEW model \in Models, Plug(b, model)
        PROVE  CarrierInv'
    <2>1. Plugged \subseteq Plugged'
      BY <1>6 DEF Plug, Plugged, TypeOK
    <2> QED
      BY <1>6, <2>1 DEF Plug
  <1>7. ASSUME NEW b \in Busids, Unplug(b)
        PROVE  CarrierInv'
    <2>1. \A d \in Plugged : ~IsPrefix(b, d) => d \in Plugged'
      BY <1>7 DEF Unplug, Plugged, TypeOK
    <2>2. \A r \in routes' : r \in routes /\ ~IsPrefix(b, r[1])
      BY <1>7 DEF Unplug, Plugged, TypeOK
    <2>3. \A r \in routes' : r[1] \in Plugged'
      BY <2>1, <2>2
    <2> QED
      BY <1>7, <2>2, <2>3 DEF Unplug
  <1>8. ASSUME NEW b \in Busids, NEW family \in Families, RouteChanges(b, family)
        PROVE  CarrierInv'
    <2>1. family = "inet" /\ b \in Plugged
      BY <1>8 DEF RouteChanges
    <2>2. \A r \in routes' : r \in routes \/ r = <<b, family>>
      BY <1>8 DEF RouteChanges
    <2>3. \A r \in routes' : r[1] \in Plugged /\ r = <<r[1], "inet">>
      BY <2>1, <2>2
    <2> QED
      BY <1>8, <2>3 DEF RouteChanges, Plugged
  <1>9. ASSUME NEW how \in Settings, Configure(how)
        PROVE  CarrierInv'
    BY <1>9 DEF Configure, Plugged
  <1>10. ASSUME NEW b \in Busids, CardAppears(b)
         PROVE  CarrierInv'
    BY <1>10 DEF CardAppears, Plugged
  <1> QED
    BY <1>1, <1>2, <1>3, <1>4, <1>5, <1>6, <1>7, <1>8, <1>9, <1>10 DEF Next, Pass, Around

\* A device is shared by Bind alone, so it was on offer.
LEMMA OnlyBindShares ==
    ASSUME [Next]_vars, NEW b \in shared' \ shared
    PROVE  offer # Nothing /\ b \in offer
  BY DEF Next, Pass, Around, Survey, PassDone, Bind, Unbind, Plug, Unplug, RouteChanges,
         Configure, CardAppears, vars

\* With default routes that are all IPv4, no pass takes an interface away that
\* had one when the pass looked and still has it, nor what it is behind.
THEOREM CarrierCorrect == Families \subseteq {"inet"} => (Spec => CarrierStays)
  <1> SUFFICES ASSUME Families \subseteq {"inet"}
               PROVE  Spec => CarrierStays
    OBVIOUS
  <1>1. Init => CarrierInv
    BY DEF Init, CarrierInv, RoutesSeen, OfferSparesCarriers
  <1>2. TypeOK /\ CarrierInv /\ [Next]_vars => CarrierInv'
    BY CarrierStep
  <1>3. CarrierInv /\ [Next]_vars =>
            [\A b \in shared' \ shared, r \in carried \cap routes : ~IsPrefix(b, r[1])]_vars
    BY OnlyBindShares DEF CarrierInv, OfferSparesCarriers
  <1> QED
    BY <1>1, <1>2, <1>3, TypeCorrect, PTL DEF Spec, CarrierStays

\* ---- what is shared stays shared

\* A path that ends at c or before it, and not at c, ends at c's parent or before.
LEMMA PrefixOfFront ==
    ASSUME NEW b \in Seq(Nat), NEW c \in Seq(Nat), c # <<>>, IsPrefix(b, c), b # c
    PROVE  IsPrefix(b, Front(c))
  <1>1. SubSeq(b, 1, Len(b)) = b /\ SubSeq(c, 1, Len(c)) = c
    BY SubSeqFull
  <1>2. Len(c) \in Nat /\ Len(b) \in Nat /\ Len(c) > 0
    BY LenProperties, EmptySeq
  <1>3. Len(b) <= Len(c) - 1
    <2>1. Len(b) <= Len(c) /\ SubSeq(b, 1, Len(b)) = SubSeq(c, 1, Len(b))
      BY DEF IsPrefix
    <2>2. Len(b) # Len(c)
      BY <1>1, <2>1
    <2> QED
      BY <1>2, <2>1, <2>2
  <1>4. Front(c) = SubSeq(c, 1, Len(c) - 1)
    BY DEF Front
  <1>5. Len(Front(c)) = Len(c) - 1
    <2>1. \A i \in 1 .. Len(c) - 1 : c[i] \in Nat
      BY <1>2, LenProperties
    <2>2. Len(SubSeq(c, 1, Len(c) - 1)) = IF 1 <= Len(c) - 1 THEN Len(c) - 1 - 1 + 1 ELSE 0
      BY <1>2, <2>1, SubSeqProperties
    <2>3. PICK n \in Nat : Len(c) = n + 1
      BY <1>2
    <2>4. Len(SubSeq(c, 1, n)) = n
      <3>1. Len(c) - 1 = n /\ n \in Int /\ 1 \in Int /\ \A i \in 1 .. n : c[i] \in Nat
        BY <2>1, <2>3
      <3>2. Len(SubSeq(c, 1, n)) = IF 1 <= n THEN n - 1 + 1 ELSE 0
        BY <3>1, SubSeqProperties
      <3> QED
        BY <3>2
    <2> QED
      BY <1>4, <2>3, <2>4
  <1>6. SubSeq(Front(c), 1, Len(b)) = SubSeq(c, 1, Len(b))
    BY <1>2, <1>3, <1>4, SubSeqOfSubSeq
  <1> QED
    BY <1>3, <1>5, <1>6 DEF IsPrefix

\* What lies behind something that lies behind p lies behind p.
LEMMA PrefixTransitive ==
    ASSUME NEW p \in Seq(Nat), NEW s \in Seq(Nat), NEW t \in Seq(Nat),
           IsPrefix(p, s), IsPrefix(s, t)
    PROVE  IsPrefix(p, t)
  <1>1. Len(p) \in Nat /\ Len(s) \in Nat /\ Len(t) \in Nat
    BY LenProperties
  <1>2. Len(p) <= Len(s) /\ Len(s) <= Len(t)
    BY DEF IsPrefix
  <1>3. SubSeq(s, 1, Len(s)) = SubSeq(t, 1, Len(s)) /\ SubSeq(s, 1, Len(s)) = s
    BY SubSeqFull DEF IsPrefix
  <1>4. SubSeq(s, 1, Len(p)) = SubSeq(t, 1, Len(p))
    BY <1>1, <1>2, <1>3, SubSeqOfSubSeq
  <1> QED
    BY <1>1, <1>2, <1>4 DEF IsPrefix

\* Whatever is plugged in behind something is plugged into a hub.
BehindHubs ==
    \A b, c \in Busids : IsPrefix(b, c) /\ b # c /\ c \in Plugged =>
        b \in Plugged /\ HasClass(b, "hub")

\* A shared device has neither a card nor a route.
Idle == (\A b \in shared : b \notin cards) /\ \A r \in routes : r[1] \in Plugged \ shared

\* What the safe policy lets through whether the card of b is there or not.
Fits(b) ==
    /\ ~HasClass(b, "hub") /\ ~IsBootHid(b) /\ ~HasClass(b, "wireless")
    /\ ~HasClass(b, "video") /\ ~HasClass(b, "storage")

Unconfigured == spent["settings"] = 0

\* Until somebody changes the settings, every shared device is one the running
\* pass wants, and the descriptors alone speak for it.
KeptOnOffer ==
    Unconfigured =>
        /\ settings = Default
        /\ \A b \in shared : Fits(b)
        /\ offer # Nothing => shared \subseteq offer /\ \A b \in offer \cap Plugged : Fits(b)

StayInv == BehindHubs /\ Idle /\ KeptOnOffer

\* A shared device is on offer in the next survey, without its card.
LEMMA OfferedAgain ==
    ASSUME TypeOK, BootStays, StayInv, Unconfigured
    PROVE  shared \subseteq Offered(settings)
  <1> SUFFICES ASSUME NEW b \in shared
               PROVE  b \in Offered(settings)
    OBVIOUS
  <1>1. b \in Plugged /\ b \in Busids /\ b \notin cards /\ Fits(b) /\ settings = Default
    BY DEF TypeOK, StayInv, Idle, KeptOnOffer, Plugged
  <1>2. ~Critical(b)
    <2>1. \A c \in Mounted : ~IsPrefix(b, c)
      BY DEF BootStays
    <2>2. ASSUME NEW c \in RoutedInterfaces, IsPrefix(b, c)
          PROVE  FALSE
      <3>1. c \in Busids /\ c \in Plugged /\ <<c, "inet">> \in routes
        BY <2>2 DEF RoutedInterfaces, Plugged
      <3>2. <<c, "inet">>[1] \notin shared
        BY <3>1 DEF StayInv, Idle
      <3>3. c # b
        BY <3>2
      <3> QED
        BY <1>1, <2>2, <3>1, <3>3 DEF StayInv, BehindHubs, Fits
    <2> QED
      BY <2>1, <2>2 DEF Critical, CriticalPaths
  <1>3. ~Protected(b)
    BY <1>1, <1>2 DEF Protected, Fits
  <1>4. AudioRole(b) = "unknown"
    BY <1>1 DEF AudioRole
  <1>5. ~Skipped(b)
    BY <1>1, <1>4 DEF Skipped, Fits
  <1>6. ~Named(b, settings.exclude)
    BY <1>1 DEF Named, Default
  <1> QED
    BY <1>1, <1>3, <1>5, <1>6 DEF Offered

LEMMA OfferFits ==
    ASSUME NEW b \in Offered(Default)
    PROVE  Fits(b)
  BY DEF Offered, Default, Named, Skipped, Protected, Fits

LEMMA PlugStays ==
    ASSUME TypeOK, StayInv, NEW b \in Busids, NEW model \in Models, Plug(b, model)
    PROVE  StayInv'
  <1>1. /\ at[b] = Nothing /\ at' = [at EXCEPT ![b] = model]
        /\ UNCHANGED <<cards, routes, shared, settings, offer>>
        /\ offer # Nothing => b \notin offer
    BY DEF Plug
  <1>2. Plugged' = Plugged \cup {b} /\ b \notin Plugged
    BY <1>1, NothingIsNoModel DEF Plugged, TypeOK
  <1>3. \A d \in Plugged : Dev(d)' = Dev(d)
    BY <1>1, <1>2 DEF Dev, TypeOK, Plugged
  <1>4. BehindHubs'
    <2> SUFFICES ASSUME NEW p \in Busids, NEW c \in Busids,
                        IsPrefix(p, c), p # c, c \in Plugged'
                 PROVE  p \in Plugged' /\ HasClass(p, "hub")'
      BY DEF BehindHubs
    <2>1. CASE c # b
      <3>1. p \in Plugged /\ HasClass(p, "hub")
        BY <1>2, <2>1 DEF StayInv, BehindHubs
      <3> QED
        BY <1>2, <1>3, <3>1 DEF HasClass
    <2>2. CASE c = b
      <3>1. p \in Seq(Nat) /\ c \in Seq(Nat) /\ c # <<>> /\ p # <<>>
        BY BusidsArePaths
      <3>2. Len(c) # 1
        <4>1. Len(p) \in Nat /\ Len(c) \in Nat /\ Len(p) # 0
          BY <3>1, LenProperties, EmptySeq
        <4>2. Len(p) <= Len(c) /\ SubSeq(p, 1, Len(p)) = SubSeq(c, 1, Len(p))
          BY DEF IsPrefix
        <4>3. SubSeq(p, 1, Len(p)) = p /\ SubSeq(c, 1, Len(c)) = c
          BY <3>1, SubSeqFull
        <4>4. Len(p) # Len(c)
          BY <4>2, <4>3
        <4>5. Len(p) <= Len(c)
          BY <4>2
        <4>6. \A m, n \in Nat : m # 0 /\ m <= n /\ m # n => n # 1
          OBVIOUS
        <4> QED
          BY <4>1, <4>4, <4>5, <4>6
      <3>3. Front(c) \in Plugged /\ HasClass(Front(c), "hub")
        BY <2>2, <3>2 DEF Plug
      <3>4. IsPrefix(p, Front(c))
        BY <3>1, PrefixOfFront
      <3>5. p \in Plugged /\ HasClass(p, "hub")
        BY <3>3, <3>4 DEF StayInv, BehindHubs, Plugged
      <3> QED
        BY <1>2, <1>3, <3>5 DEF HasClass
    <2> QED
      BY <2>1, <2>2
  <1>5. Idle'
    BY <1>1, <1>2 DEF StayInv, Idle
  <1>6. KeptOnOffer'
    <2>1. spent'["settings"] = spent["settings"]
      BY DEF Plug, Spend, TypeOK
    <2>2. \A d \in Plugged : Fits(d) => Fits(d)'
      BY <1>3 DEF Fits, HasClass, IsBootHid
    <2>3. shared \subseteq Plugged
      BY DEF TypeOK
    <2> QED
      BY <1>1, <1>2, <2>1, <2>2, <2>3 DEF StayInv, KeptOnOffer, Unconfigured
  <1> QED
    BY <1>4, <1>5, <1>6 DEF StayInv

LEMMA UnplugStays ==
    ASSUME TypeOK, StayInv, NEW b \in Busids, Unplug(b)
    PROVE  StayInv'
  <1> DEFINE gone == {d \in Busids : IsPrefix(b, d)}
  <1>1. /\ at' = [d \in Busids |-> IF d \in gone THEN Nothing ELSE at[d]]
        /\ cards' = cards \ gone
        /\ routes' = {r \in routes : r[1] \notin gone}
        /\ shared' = shared \ gone
        /\ UNCHANGED <<settings, offer>>
    BY DEF Unplug
  <1>2. \A d \in gone, c \in Busids : IsPrefix(d, c) => c \in gone
    <2> SUFFICES ASSUME NEW d \in gone, NEW c \in Busids, IsPrefix(d, c)
                 PROVE  IsPrefix(b, c)
      OBVIOUS
    <2> QED
      BY BusidsArePaths, PrefixTransitive
  <1> HIDE DEF gone
  <1>3. Plugged' = Plugged \ gone
    BY <1>1 DEF Plugged, TypeOK
  <1>4. \A d \in Plugged' : Dev(d)' = Dev(d)
    BY <1>1, <1>3 DEF Dev, Plugged
  <1>5. BehindHubs'
    <2> SUFFICES ASSUME NEW p \in Busids, NEW c \in Busids,
                        IsPrefix(p, c), p # c, c \in Plugged'
                 PROVE  p \in Plugged' /\ HasClass(p, "hub")'
      BY DEF BehindHubs
    <2>1. p \in Plugged /\ HasClass(p, "hub") /\ p \notin gone
      BY <1>2, <1>3 DEF StayInv, BehindHubs
    <2> QED
      BY <1>3, <1>4, <2>1 DEF HasClass
  <1>6. Idle'
    BY <1>1, <1>3 DEF StayInv, Idle
  <1>7. KeptOnOffer'
    <2>1. spent'["settings"] = spent["settings"]
      BY DEF Unplug, Spend, TypeOK
    <2>2. \A d \in Plugged' : Fits(d) => Fits(d)'
      BY <1>4 DEF Fits, HasClass, IsBootHid
    <2>3. shared' \subseteq Plugged' /\ shared' \subseteq shared /\ Plugged' \subseteq Plugged
      BY <1>1, <1>3 DEF TypeOK
    <2> QED
      BY <1>1, <2>1, <2>2, <2>3 DEF StayInv, KeptOnOffer, Unconfigured
  <1> QED
    BY <1>5, <1>6, <1>7 DEF StayInv

LEMMA StayStep ==
    ASSUME TypeOK, BootStays, StayInv, [Next]_vars
    PROVE  StayInv'
  <1>1. CASE UNCHANGED vars
    BY <1>1 DEF vars, StayInv, BehindHubs, Idle, KeptOnOffer, Unconfigured, Fits, HasClass,
                IsBootHid, Dev, Plugged
  <1> USE DEF StayInv, BehindHubs, Idle, KeptOnOffer, Unconfigured, Plugged, Fits, HasClass,
              IsBootHid, Dev
  <1>2. CASE Survey
    <2>1. Unconfigured => shared \subseteq Offered(settings)
      BY OfferedAgain DEF StayInv
    <2>2. Unconfigured => \A b \in Offered(settings) : Fits(b)
      BY OfferFits
    <2>3. UNCHANGED <<at, cards, routes, shared, settings, spent>> /\ offer' = Offered(settings)
      BY <1>2 DEF Survey
    <2> HIDE DEF Fits
    <2>4. \A b : Fits(b)' = Fits(b)
      BY <2>3 DEF Fits
    <2> QED
      BY <2>1, <2>2, <2>3, <2>4
  <1>3. CASE PassDone
    BY <1>3 DEF PassDone
  <1>4. ASSUME NEW b \in Busids, Bind(b)
        PROVE  StayInv'
    BY <1>4 DEF Bind
  <1>5. ASSUME NEW b \in Busids, Unbind(b)
        PROVE  StayInv'
    BY <1>5 DEF Unbind
  <1>6. ASSUME NEW b \in Busids, NEW family \in Families, RouteChanges(b, family)
        PROVE  StayInv'
    <2>1. spent'["settings"] = spent["settings"]
      BY <1>6 DEF RouteChanges, Spend, TypeOK
    <2>2. \A r \in routes' : r[1] \in Plugged \ shared
      BY <1>6 DEF RouteChanges
    <2> QED
      BY <1>6, <2>1, <2>2 DEF RouteChanges
  <1>7. ASSUME NEW how \in Settings, Configure(how)
        PROVE  StayInv'
    <2>1. spent'["settings"] # 0
      BY <1>7 DEF Configure, Spend, TypeOK
    <2> QED
      BY <1>7, <2>1 DEF Configure
  <1>8. ASSUME NEW b \in Busids, CardAppears(b)
        PROVE  StayInv'
    BY <1>8 DEF CardAppears
  <1> QED
    BY <1>1, <1>2, <1>3, <1>4, <1>5, <1>6, <1>7, <1>8, PlugStays, UnplugStays
    DEF Next, Pass, Around

\* Sharing a device is never the reason for taking it back: until somebody
\* changes the settings, a device stays shared until it is unplugged.
THEOREM SharedCorrect == Spec => SharedStays
  <1>1. Init => StayInv
    <2>1. Init => BehindHubs
      BY AtBootBehindHubs DEF Init, BehindHubs, Plugged, HasClass, Dev
    <2>2. Init => Idle /\ KeptOnOffer
      BY DEF Init, Idle, KeptOnOffer
    <2> QED
      BY <2>1, <2>2 DEF StayInv
  <1>2. TypeOK /\ BootInv /\ StayInv /\ [Next]_vars => StayInv'
    BY StayStep DEF BootInv
  <1>3. ASSUME TypeOK, StayInv, [Next]_vars
        PROVE  [spent["settings"] = 0 => \A b \in shared \ shared' : b \notin Plugged']_vars
    <2> SUFFICES ASSUME Unconfigured, NEW b \in shared, b \notin shared'
                 PROVE  b \notin Plugged'
      BY DEF Unconfigured
    <2>1. ASSUME NEW c \in Busids, Unbind(c)
          PROVE  FALSE
      BY <1>3, <2>1 DEF Unbind, StayInv, KeptOnOffer
    <2>2. ASSUME NEW c \in Busids, Unplug(c)
          PROVE  b \notin Plugged'
      <3>1. b \in Busids /\ IsPrefix(c, b)
        BY <1>3, <2>2 DEF Unplug, TypeOK, Plugged
      <3> QED
        BY <2>2, <3>1 DEF Unplug, Plugged
    <2> QED
      BY <1>3, <2>1, <2>2 DEF Next, Pass, Around, Survey, PassDone, Bind, Plug, RouteChanges,
                              Configure, CardAppears, vars
  <1> QED
    BY <1>1, <1>2, <1>3, BootKept, PTL DEF Spec, SharedStays

===============================================================================
