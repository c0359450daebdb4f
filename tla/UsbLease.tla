------------------------------- MODULE UsbLease -------------------------------
(***************************************************************************)
(* The USB export lease of moonlight-helper.  A streaming client keeps one *)
(* connection to the helper open and polls usb.session.sync; every device  *)
(* the policy offers is exported for it (usbip bind), reference counted    *)
(* over all connections, and handed back when the last owner's connection  *)
(* closes.  The devices under lease are journalled so that a restarted     *)
(* helper can hand back what a killed one left exported.                   *)
(*                                                                         *)
(* USB_SESSION_LOCK is held exactly by the thread inside one of the two    *)
(* `with` blocks, so it is not a variable: LockFree reads it off pc.  Each *)
(* usbip call under the lock is a step of its own, because the helper can  *)
(* be killed, the call can time out, and the panel or the shell menu can   *)
(* share and unshare devices (without that lock) between any two of them.  *)
(***************************************************************************)
EXTENDS Naturals, FiniteSets

CONSTANTS
    Clients,        \* connections to the helper socket
    Busids,         \* USB ports by bus id
    Kind,           \* Busids -> Kinds: what is plugged into each port
    Preserve,       \* RuntimeDirectoryPreserve= of the unit: "no" or "restart"
    MaxCrashes,     \* bound: how often the helper dies
    MaxHangs,       \* bound: how many usbip calls exceed their 20 s timeout
    MaxOps          \* bound: how many operations come from outside the lease

\* "safe" is offered under every policy, "other" under "all", an "excluded"
\* one only by hand, a "protected" one never.
Kinds == {"safe", "other", "excluded", "protected"}

ASSUME ClientsFinite == IsFiniteSet(Clients)
ASSUME KindType == Kind \in [Busids -> Kinds]
ASSUME PreserveType == Preserve \in {"no", "restart"}
ASSUME BoundsType == MaxCrashes \in Nat /\ MaxHangs \in Nat /\ MaxOps \in Nat

VARIABLES
    helper,     \* "down", "recovering" or "serving"
    pc,         \* pc[c]: where the thread of connection c is
    owned,      \* owned[c]: usb_owned, the bus ids connection c claims
    wanted,     \* wanted[c]: what the policy offered when its sync began
    snap,       \* snap[c]: its bound_busids() answer, plus what it bound since
    todo,       \* todo[c]: bus ids its current loop has still to visit
    refs,       \* USB_SESSION_REFS; 0 stands for an absent key
    journal,    \* bus ids in /run/moonlight-os/usb-session-owned ({}: no file)
    stale,      \* what recover_usb_sessions has still to unbind
    export,     \* usbip-host's devices, and (history) who had them bound:
                \* "lease", "manual", or "orphan" once the lease lost track
    plugged,    \* bus ids present in sysfs
    auto,       \* USB_AUTOSHARE = yes
    policy,     \* USB_AUTOSHARE_POLICY
    handback,   \* bus ids a usb.handback in progress has still to unbind
    spent       \* how much of each bound has been used up

helperVars == <<refs, journal, stale>>
clientVars == <<pc, owned, wanted, snap, todo>>
outside == <<plugged, auto, policy, handback>>
vars == <<helper, clientVars, helperVars, export, outside, spent>>

Critical == {"drop", "start", "bind", "release"}
States == {"closed", "idle", "sync", "closing"} \cup Critical

\* ---------------------------------------------------------------- helpers

LockFree == \A c \in Clients : pc[c] \notin Critical

Bound == {b \in Busids : export[b] # "none"}

\* What the lease exported and has neither handed back nor given up.
LeaseExports == {b \in Busids : export[b] = "lease"}

Leased == {b \in Busids : refs[b] > 0}

\* mlos_host.offered() under the configuration read at the start of a sync.
Offered ==
    IF auto
    THEN {b \in plugged : Kind[b] = "safe" \/ (policy = "all" /\ Kind[b] = "other")}
    ELSE {}

\* `usbip bind`: a device that is bound already stays with whoever bound it
\* and still counts as a success.
BindResult(b, who) == IF export[b] = "none" THEN [export EXCEPT ![b] = who] ELSE export

Withdrawn(b) == [export EXCEPT ![b] = "none"]

\* What `usbip unbind` leaves.  It may refuse, and no caller looks at its exit
\* status: a device of its own that the lease gave up this way is an orphan.
UnbindResults(b) ==
    {Withdrawn(b), [export EXCEPT ![b] = IF @ = "lease" THEN "orphan" ELSE @]}

\* Mutant of DropClaim: unbinds although other connections still claim b.
DropClaimUnbinds(b) ==
    /\ refs' = [refs EXCEPT ![b] = IF @ <= 1 THEN 0 ELSE @ - 1]
    /\ export' \in UnbindResults(b)

\* Mutant of DropClaim: the last claim stays in the table as zero minus one.
DropClaimUnderflows(b) ==
    /\ refs' = [refs EXCEPT ![b] = IF @ = 1 THEN 0 - 1 ELSE @ - 1]
    /\ export' \in UnbindResults(b)

\* One claim on b ends: decrement, or pop the key and unbind the device.
DropClaim(b) ==
    IF refs[b] <= 1
    THEN /\ refs' = [refs EXCEPT ![b] = 0]
         /\ export' \in UnbindResults(b)
    ELSE /\ refs' = [refs EXCEPT ![b] = refs[b] - 1]
         /\ UNCHANGED export

Goto(c, where) == pc' = [pc EXCEPT ![c] = where]

\* The handler has returned or raised: its locals are gone.
Reply(c) ==
    /\ Goto(c, "idle")
    /\ wanted' = [wanted EXCEPT ![c] = {}]
    /\ snap' = [snap EXCEPT ![c] = {}]
    /\ todo' = [todo EXCEPT ![c] = {}]

Spend(what) == spent' = [spent EXCEPT ![what] = spent[what] + 1]
Hang == spent["hangs"] < MaxHangs /\ Spend("hangs")

\* --------------------------------------------------------- usb.session.sync

\* A client connects; serve() accepts only after recovery has run.
Connect(c) ==
    /\ helper = "serving" /\ pc[c] = "closed"
    /\ Goto(c, "idle")
    /\ UNCHANGED <<helper, owned, wanted, snap, todo, helperVars, export, outside, spent>>

\* The configuration and sysfs are read before the lock is taken.
SyncRead(c) ==
    /\ pc[c] = "idle"
    /\ wanted' = [wanted EXCEPT ![c] = Offered]
    /\ Goto(c, "sync")
    /\ UNCHANGED <<helper, owned, snap, todo, helperVars, export, outside, spent>>

SyncLock(c) ==
    /\ pc[c] = "sync" /\ LockFree
    /\ todo' = [todo EXCEPT ![c] = owned[c] \ wanted[c]]
    /\ Goto(c, "drop")
    /\ UNCHANGED <<helper, owned, wanted, snap, helperVars, export, outside, spent>>

\* One turn of the loop over owned - wanted.
SyncDrop(c, b) ==
    /\ pc[c] = "drop" /\ b \in todo[c]
    /\ DropClaim(b)
    /\ owned' = [owned EXCEPT ![c] = @ \ {b}]
    /\ todo' = [todo EXCEPT ![c] = @ \ {b}]
    /\ UNCHANGED <<helper, pc, wanted, snap, journal, stale, outside, spent>>

\* The unbind of that turn times out: the key is gone from the table but the
\* claim is not discarded, nothing is persisted and the reply is an error.
SyncDropHang(c, b) ==
    /\ pc[c] = "drop" /\ b \in todo[c] /\ refs[b] <= 1
    /\ Hang
    /\ refs' = [refs EXCEPT ![b] = 0]
    /\ export' \in {export, Withdrawn(b)}
    /\ Reply(c)
    /\ UNCHANGED <<helper, owned, journal, stale, outside>>

\* Mutant of SyncDropped: only the end of a sync persists the leases.
SyncDroppedUnsaved(c) ==
    /\ pc[c] = "drop" /\ todo[c] = {}
    /\ Goto(c, "start")
    /\ UNCHANGED <<helper, owned, wanted, snap, todo, helperVars, export, outside, spent>>

SyncDropped(c) ==
    /\ pc[c] = "drop" /\ todo[c] = {}
    /\ journal' = Leased
    /\ Goto(c, "start")
    /\ UNCHANGED <<helper, owned, wanted, snap, todo, refs, stale, export, outside, spent>>

\* usbipd does not come up: E_UNAVAILABLE, but only if something is wanted.
SyncNoDaemon(c) ==
    /\ pc[c] = "start" /\ wanted[c] # {}
    /\ Reply(c)
    /\ UNCHANGED <<helper, owned, helperVars, export, outside, spent>>

SyncListHang(c) ==
    /\ pc[c] = "start" /\ Hang
    /\ Reply(c)
    /\ UNCHANGED <<helper, owned, helperVars, export, outside>>

\* Mutant of SyncList: waits, inside the lock, for closing connections.
SyncListWaits(c) ==
    /\ pc[c] = "start"
    /\ \A d \in Clients : pc[d] # "closing"
    /\ snap' = [snap EXCEPT ![c] = Bound]
    /\ todo' = [todo EXCEPT ![c] = wanted[c]]
    /\ Goto(c, "bind")
    /\ UNCHANGED <<helper, owned, wanted, helperVars, export, outside, spent>>

SyncList(c) ==
    /\ pc[c] = "start"
    /\ snap' = [snap EXCEPT ![c] = Bound]
    /\ todo' = [todo EXCEPT ![c] = wanted[c]]
    /\ Goto(c, "bind")
    /\ UNCHANGED <<helper, owned, wanted, helperVars, export, outside, spent>>

\* The turns of the loop over wanted_devices.
Visit(c, b) ==
    /\ pc[c] = "bind" /\ b \in todo[c]
    /\ todo' = [todo EXCEPT ![c] = @ \ {b}]
    /\ UNCHANGED <<helper, pc, wanted, journal, stale, outside, spent>>

\* A device this turn calls bind() for: ours but no longer exported, or
\* neither leased by anyone nor in the snapshot.
NeedsBind(c, b) == b \notin snap[c] /\ (b \in owned[c] \/ refs[b] = 0)

\* Mutant of SyncShareClaim: joins a lease without counting itself.
SyncShareUncounted(c, b) ==
    /\ Visit(c, b) /\ ~NeedsBind(c, b)
    /\ IF b \notin owned[c] /\ refs[b] > 0
       THEN owned' = [owned EXCEPT ![c] = @ \cup {b}]
       ELSE UNCHANGED owned
    /\ UNCHANGED <<refs, snap, export>>

\* Nothing to call: ours and exported, another session's, or a manual share.
SyncShareClaim(c, b) ==
    /\ Visit(c, b) /\ ~NeedsBind(c, b)
    /\ IF b \notin owned[c] /\ refs[b] > 0
       THEN /\ refs' = [refs EXCEPT ![b] = @ + 1]
            /\ owned' = [owned EXCEPT ![c] = @ \cup {b}]
       ELSE UNCHANGED <<refs, owned>>
    /\ UNCHANGED <<snap, export>>

SyncBind(c, b) ==
    /\ Visit(c, b) /\ NeedsBind(c, b)
    /\ b \in plugged
    /\ export' = BindResult(b, "lease")
    /\ snap' = [snap EXCEPT ![c] = @ \cup {b}]
    /\ IF b \in owned[c]
       THEN UNCHANGED <<refs, owned>>
       ELSE /\ refs' = [refs EXCEPT ![b] = 1]
            /\ owned' = [owned EXCEPT ![c] = @ \cup {b}]

\* The device is gone or usbip refuses.  The failure is only reported; a claim
\* held before is kept.
SyncBindFails(c, b) ==
    /\ Visit(c, b) /\ NeedsBind(c, b)
    /\ UNCHANGED <<owned, snap, refs, export>>

SyncBindHang(c, b) ==
    /\ pc[c] = "bind" /\ b \in todo[c] /\ NeedsBind(c, b)
    /\ Hang
    /\ export' \in {export} \cup (IF b \in plugged THEN {BindResult(b, "lease")} ELSE {})
    /\ Reply(c)
    /\ UNCHANGED <<helper, owned, helperVars, outside>>

SyncDone(c) ==
    /\ pc[c] = "bind" /\ todo[c] = {}
    /\ journal' = Leased
    /\ Reply(c)
    /\ UNCHANGED <<helper, owned, refs, stale, export, outside, spent>>

\* ------------------------------------------------------ connection teardown

\* End of file, idle timeout or a failed write: the finally clause runs.
Disconnect(c) ==
    /\ pc[c] = "idle"
    /\ Goto(c, IF owned[c] = {} THEN "closed" ELSE "closing")
    /\ UNCHANGED <<helper, owned, wanted, snap, todo, helperVars, export, outside, spent>>

ReleaseLock(c) ==
    /\ pc[c] = "closing" /\ LockFree
    /\ todo' = [todo EXCEPT ![c] = owned[c]]
    /\ Goto(c, "release")
    /\ UNCHANGED <<helper, owned, wanted, snap, helperVars, export, outside, spent>>

ReleaseDrop(c, b) ==
    /\ pc[c] = "release" /\ b \in todo[c]
    /\ DropClaim(b)
    /\ todo' = [todo EXCEPT ![c] = @ \ {b}]
    /\ UNCHANGED <<helper, pc, owned, wanted, snap, journal, stale, outside, spent>>

\* The timeout escapes the finally clause and ends the thread: the claims not
\* yet visited are lost with it.
ReleaseHang(c, b) ==
    /\ pc[c] = "release" /\ b \in todo[c] /\ refs[b] <= 1
    /\ Hang
    /\ refs' = [refs EXCEPT ![b] = 0]
    /\ export' \in {export, Withdrawn(b)}
    /\ Goto(c, "closed")
    /\ owned' = [owned EXCEPT ![c] = {}]
    /\ todo' = [todo EXCEPT ![c] = {}]
    /\ UNCHANGED <<helper, wanted, snap, journal, stale, outside>>

ReleaseDone(c) ==
    /\ pc[c] = "release" /\ todo[c] = {}
    /\ owned' = [owned EXCEPT ![c] = {}]
    /\ journal' = Leased
    /\ Goto(c, "closed")
    /\ UNCHANGED <<helper, wanted, snap, todo, refs, stale, export, outside, spent>>

\* -------------------------------------------------------- crash and restart

\* The process dies.  Memory goes; the kernel's exports stay; the journal
\* stays only if systemd keeps the service's RuntimeDirectory.
Die ==
    /\ helper' = "down"
    /\ pc' = [c \in Clients |-> "closed"]
    /\ owned' = [c \in Clients |-> {}]
    /\ wanted' = [c \in Clients |-> {}]
    /\ snap' = [c \in Clients |-> {}]
    /\ todo' = [c \in Clients |-> {}]
    /\ refs' = [b \in Busids |-> 0]
    /\ stale' = {}
    /\ journal' = IF Preserve = "restart" THEN journal ELSE {}
    /\ UNCHANGED outside

\* What a restarted helper cannot know of: everything, when systemd deletes
\* the journal, else what a thread killed inside the lock had not saved yet.
Abandoned ==
    IF Preserve = "no" THEN LeaseExports
    ELSE IF LockFree THEN {} ELSE LeaseExports \ journal

Crash ==
    /\ helper # "down" /\ spent["crashes"] < MaxCrashes
    /\ Die
    /\ Spend("crashes")
    /\ export' = [b \in Busids |-> IF b \in Abandoned THEN "orphan" ELSE export[b]]

\* Mutant of Restart: nothing reads the journal.
RestartForgets ==
    /\ helper = "down"
    /\ helper' = "recovering"
    /\ stale' = {}
    /\ UNCHANGED <<clientVars, refs, journal, export, outside, spent>>

\* Restart=always: the helper comes back and reads its journal.
Restart ==
    /\ helper = "down"
    /\ helper' = "recovering"
    /\ stale' = journal
    /\ UNCHANGED <<clientVars, refs, journal, export, outside, spent>>

RecoverUnbind(b) ==
    /\ helper = "recovering" /\ b \in stale
    /\ export' \in UnbindResults(b)
    /\ stale' = stale \ {b}
    /\ UNCHANGED <<helper, clientVars, refs, journal, outside, spent>>

\* A timeout in recovery is caught by nobody: serve() dies with it.
RecoverHang(b) ==
    /\ helper = "recovering" /\ b \in stale
    /\ Hang
    /\ export' \in {export, Withdrawn(b)}
    /\ Die

RecoverDone ==
    /\ helper = "recovering" /\ stale = {}
    /\ helper' = "serving"
    /\ journal' = {}
    /\ refs' = [b \in Busids |-> 0]
    /\ UNCHANGED <<clientVars, stale, export, outside, spent>>

\* ------------------------------------------------------- outside the lease

OutsideOp == spent["ops"] < MaxOps /\ Spend("ops")

\* usb.share, which refuses protected devices, or the shell menu, which does
\* not; neither takes the lock.  A share made while a session claims the
\* device counts as the session's.
Share(b) ==
    /\ OutsideOp
    /\ b \in plugged /\ export[b] = "none"
    /\ export' = BindResult(b, IF refs[b] = 0 THEN "manual" ELSE "lease")
    /\ UNCHANGED <<helper, clientVars, helperVars, outside>>

Unshare(b) ==
    /\ OutsideOp
    /\ b \in Bound
    /\ export' = Withdrawn(b)
    /\ UNCHANGED <<helper, clientVars, helperVars, outside>>

\* usb.handback lists every export, then unbinds one after the other.
HandbackList ==
    /\ OutsideOp
    /\ helper = "serving" /\ handback = {} /\ Bound # {}
    /\ handback' = Bound
    /\ UNCHANGED <<helper, clientVars, helperVars, export, plugged, auto, policy>>

HandbackUnbind(b) ==
    /\ b \in handback
    /\ handback' = handback \ {b}
    /\ export' \in {export, Withdrawn(b)}
    /\ UNCHANGED <<helper, clientVars, helperVars, plugged, auto, policy, spent>>

\* usb.autoshare rewrites both settings at once.
Autoshare(enabled, pol) ==
    /\ OutsideOp
    /\ <<enabled, pol>> # <<auto, policy>>
    /\ auto' = enabled /\ policy' = pol
    /\ UNCHANGED <<helper, clientVars, helperVars, export, plugged, handback>>

Plug(b) ==
    /\ OutsideOp
    /\ b \notin plugged
    /\ plugged' = plugged \cup {b}
    /\ UNCHANGED <<helper, clientVars, helperVars, export, auto, policy, handback>>

Unplug(b) ==
    /\ OutsideOp
    /\ b \in plugged
    /\ plugged' = plugged \ {b}
    /\ export' = Withdrawn(b)
    /\ UNCHANGED <<helper, clientVars, helperVars, auto, policy, handback>>

\* ------------------------------------------------------------ specification

Init ==
    /\ helper = "down"
    /\ pc = [c \in Clients |-> "closed"]
    /\ owned = [c \in Clients |-> {}]
    /\ wanted = [c \in Clients |-> {}]
    /\ snap = [c \in Clients |-> {}]
    /\ todo = [c \in Clients |-> {}]
    /\ refs = [b \in Busids |-> 0]
    /\ journal = {}
    /\ stale = {}
    /\ export = [b \in Busids |-> "none"]
    /\ plugged = Busids
    /\ auto = TRUE
    /\ policy \in {"safe", "all"}
    /\ handback = {}
    /\ spent = [crashes |-> 0, hangs |-> 0, ops |-> 0]

SyncStep(c) ==
    \/ SyncRead(c) \/ SyncLock(c) \/ SyncDropped(c) \/ SyncNoDaemon(c)
    \/ SyncListHang(c) \/ SyncList(c) \/ SyncDone(c)
    \/ \E b \in Busids : \/ SyncDrop(c, b) \/ SyncDropHang(c, b)
                         \/ SyncShareClaim(c, b) \/ SyncBind(c, b)
                         \/ SyncBindFails(c, b) \/ SyncBindHang(c, b)

ReleaseStep(c) ==
    \/ ReleaseLock(c) \/ ReleaseDone(c)
    \/ \E b \in Busids : ReleaseDrop(c, b) \/ ReleaseHang(c, b)

RestartStep ==
    \/ Restart \/ RecoverDone
    \/ \E b \in Busids : RecoverUnbind(b) \/ RecoverHang(b)

LeaseStep == RestartStep \/ \E c \in Clients : SyncStep(c) \/ ReleaseStep(c)

OutsideStep ==
    \/ HandbackList
    \/ \E enabled \in BOOLEAN, pol \in {"safe", "all"} : Autoshare(enabled, pol)
    \/ \E b \in Busids : \/ Share(b) \/ Unshare(b) \/ HandbackUnbind(b)
                         \/ Plug(b) \/ Unplug(b)

Next ==
    \/ LeaseStep
    \/ OutsideStep
    \/ Crash
    \/ \E c \in Clients : Connect(c) \/ Disconnect(c)

Spec == Init /\ [][Next]_vars

\* A thread inside the lock keeps running; a thread waiting for it gets it if
\* it is free again and again (every holder leaves it, and clients poll with
\* pauses); systemd restarts the helper.  Nobody has to connect, sync, or act
\* from outside.
Fairness ==
    /\ WF_vars(RestartStep)
    /\ \A c \in Clients :
        /\ WF_vars(pc[c] \in Critical /\ (SyncStep(c) \/ ReleaseStep(c)))
        /\ SF_vars(SyncLock(c))
        /\ SF_vars(ReleaseLock(c))

FairSpec == Spec /\ Fairness

\* --------------------------------------------------------------- properties

\* Every variable has its type.
TypeOK ==
    /\ helper \in {"down", "recovering", "serving"}
    /\ pc \in [Clients -> States]
    /\ owned \in [Clients -> SUBSET Busids]
    /\ wanted \in [Clients -> SUBSET Busids]
    /\ snap \in [Clients -> SUBSET Busids]
    /\ todo \in [Clients -> SUBSET Busids]
    /\ refs \in [Busids -> Nat]
    /\ journal \subseteq Busids
    /\ stale \subseteq Busids
    /\ export \in [Busids -> {"none", "lease", "manual", "orphan"}]
    /\ plugged \subseteq Busids
    /\ auto \in BOOLEAN
    /\ policy \in {"safe", "all"}
    /\ handback \subseteq Busids
    /\ spent \in [{"crashes", "hangs", "ops"} -> Nat]

\* The claims connection c still has to give back: all it owns, or, while its
\* teardown runs, what the loop has not visited yet.
Claims(c) == IF pc[c] = "release" THEN todo[c] ELSE owned[c]

Holders(b) == {c \in Clients : b \in Claims(c)}

\* "overlapping native sessions share a reference count": the table always
\* says how many live connections claim each device, through overlapping
\* syncs, policy changes, unplugging, teardown and crashes.
RefsCountHolders == \A b \in Busids : refs[b] = Cardinality(Holders(b))

\* Whenever no thread is inside the lock the journal names exactly the leased
\* devices, on every way out of a sync or a release, the failing ones too.
JournalIsLease == helper = "serving" /\ LockFree => journal = Leased

\* As long as no usbip call timed out, a device the lease exported has an owner
\* once the helper serves and nobody is inside the lock: after any number of
\* sessions, failed binds, kills and recoveries.  The ways out of this are the
\* recorded ones, the orphans, and no others: usbip refused the last unbind,
\* systemd deleted the journal, or a kill came between a bind and its save.
NoOrphanExport ==
    helper = "serving" /\ LockFree /\ spent["hangs"] = 0 =>
        \A b \in Busids : export[b] = "lease" => refs[b] > 0

\* A step of the lease takes a device away from the host only if no
\* connection claims it afterwards: one session's end or policy change never
\* interrupts another session.
LastOwnerWithdraws ==
    [][LeaseStep => \A b \in Bound \ Bound' : Holders(b)' = {}]_vars

\* "Manual shares that predated the stream are never claimed or silently
\* returned": no step of the lease unbinds a device somebody shared by hand
\* while no session held it.  The code does not keep this promise (a share
\* made between SyncList and SyncBind), so no configuration asks for it.
ManualShareSurvives ==
    [][LeaseStep => \A b \in Busids : export[b] = "manual" => export'[b] = "manual"]_vars

\* A connection that closed gets rid of its claims, whatever else holds the
\* lock meanwhile.
ClosingReleases == \A c \in Clients : pc[c] = "closing" ~> pc[c] = "closed"

\* A sync that got going ends: no way out of it keeps the lock.
SyncEnds == \A c \in Clients : pc[c] = "sync" ~> pc[c] \in {"idle", "closed"}

\* Each port is a shared lease that others may withdraw (unplug, unshare) or
\* supply (a manual share).
Lease == INSTANCE SharedLease WITH
    Resources <- Busids,
    Withdrawable <- Busids,
    holders <- [b \in Busids |-> Holders(b)],
    up <- [b \in Busids |-> export[b] # "none"]

\* Every behaviour of the USB lease is one of the shared lease.
ImplementsLease == Lease!LeaseSpec
===============================================================================
