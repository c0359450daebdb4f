------------------------------ MODULE DiskLease ------------------------------
(***************************************************************************)
(* The read-only export of the system disk in moonlight-helper.  The first *)
(* connection that sends disk.session.acquire has a device-mapper view and *)
(* an iSCSI target on top of it built, later ones share them, and the last *)
(* one to close has both removed.  Unlike the USB lease this one writes    *)
(* its journal before it touches the kernel.                               *)
(*                                                                         *)
(* DISK_SESSION_LOCK is held exactly by the thread whose pc is in Critical *)
(* (LockFree).  At most one removal is ever under way, because every       *)
(* caller of disk_target_remove holds the lock or runs before the socket   *)
(* exists, so its progress is one variable.                                *)
(***************************************************************************)
EXTENDS Naturals, FiniteSets

CONSTANTS
    Clients,        \* connections to the helper socket
    Preserve,       \* RuntimeDirectoryPreserve= of the unit: "no" or "restart"
    MayFail,        \* probing or building the target may fail
    MayBeBusy,      \* removing the target or the mapping may fail
    MaxCrashes,     \* bound: how often the helper dies
    MaxHangs        \* bound: how many USB releases time out before this one

ASSUME ClientsFinite == IsFiniteSet(Clients)
ASSUME PreserveType == Preserve \in {"no", "restart"}
ASSUME FailureType == MayFail \in BOOLEAN /\ MayBeBusy \in BOOLEAN
ASSUME BoundsType == MaxCrashes \in Nat /\ MaxHangs \in Nat

VARIABLES
    helper,     \* "down", "recovering" or "serving"
    pc,         \* pc[c]: where the thread of connection c is
    owned,      \* owned[c]: disk_owned[0] of connection c
    refs,       \* DISK_SESSION_REFS
    info,       \* DISK_SESSION_INFO is not None
    journal,    \* /run/moonlight-os/disk-session-owned exists
    dm,         \* the device-mapper view exists
    lio,        \* the iSCSI target: "none", "partial" or "up"
    removal,    \* what disk_target_remove does next: "none", "lio", "dm", "end"
    complete,   \* its `complete`, kept (history) until the next removal
    lost,       \* (history) systemd has deleted the journal of what it named
    spent       \* how much of each bound has been used up

memory == <<owned, refs, info>>
kernel == <<dm, lio>>
removing == <<removal, complete>>
vars == <<helper, pc, memory, journal, lost, kernel, removing, spent>>

Critical == {"purge", "probe", "map", "target", "undo", "teardown"}
States == {"closed", "idle", "asking", "closing"} \cup Critical

\* ---------------------------------------------------------------- helpers

LockFree == \A c \in Clients : pc[c] \notin Critical

Goto(c, where) == pc' = [pc EXCEPT ![c] = where]

Spend(what) == spent' = [spent EXCEPT ![what] = spent[what] + 1]

BeginRemoval == removal = "none" /\ removal' = "lio" /\ complete' = TRUE
EndRemoval == removal = "end" /\ removal' = "none" /\ UNCHANGED complete

\* ------------------------------------------------------- disk_target_remove

\* rtslib deletes the target, then its backing storage, and may raise at
\* either.
RemoveTarget ==
    /\ removal = "lio"
    /\ removal' = "dm"
    /\ \/ lio' = "none" /\ UNCHANGED complete
       \/ MayBeBusy /\ lio # "none" /\ lio' \in {lio, "partial"} /\ complete' = FALSE
    /\ UNCHANGED <<helper, pc, memory, journal, lost, dm, spent>>

\* dmsetup remove: busy under a target that is still there; a mapping that
\* does not exist counts as removed; a timeout may come after the removal.
RemoveMapping ==
    /\ removal = "dm"
    /\ removal' = "end"
    /\ \/ dm /\ lio = "none" /\ dm' = FALSE /\ UNCHANGED complete
       \/ ~dm /\ UNCHANGED <<dm, complete>>
       \/ dm /\ (MayBeBusy \/ lio # "none") /\ UNCHANGED dm /\ complete' = FALSE
       \/ dm /\ MayBeBusy /\ lio = "none" /\ dm' = FALSE /\ complete' = FALSE
    /\ UNCHANGED <<helper, pc, memory, journal, lost, lio, spent>>

\* ----------------------------------------------------- disk.session.acquire

Connect(c) ==
    /\ helper = "serving" /\ pc[c] = "closed"
    /\ Goto(c, "idle")
    /\ UNCHANGED <<helper, memory, journal, lost, kernel, removing, spent>>

Ask(c) ==
    /\ pc[c] = "idle"
    /\ Goto(c, "asking")
    /\ UNCHANGED <<helper, memory, journal, lost, kernel, removing, spent>>

\* Mutant of AcquireShared: a connection that asks again is counted again.
AcquireSharedTwice(c) ==
    /\ pc[c] = "asking" /\ LockFree
    /\ owned[c] \/ refs > 0
    /\ owned' = [owned EXCEPT ![c] = TRUE]
    /\ refs' = refs + 1
    /\ Goto(c, "idle")
    /\ UNCHANGED <<helper, info, journal, lost, kernel, removing, spent>>

\* The lease is there already: this connection's own, or another's to join.
AcquireShared(c) ==
    /\ pc[c] = "asking" /\ LockFree
    /\ owned[c] \/ refs > 0
    /\ owned' = [owned EXCEPT ![c] = TRUE]
    /\ refs' = IF owned[c] THEN refs ELSE refs + 1
    /\ Goto(c, "idle")
    /\ UNCHANGED <<helper, info, journal, lost, kernel, removing, spent>>

\* The first reference: a journal means an earlier removal did not complete.
AcquireFirst(c) ==
    /\ pc[c] = "asking" /\ LockFree
    /\ ~owned[c] /\ refs = 0
    /\ IF journal
       THEN Goto(c, "purge") /\ BeginRemoval
       ELSE Goto(c, "probe") /\ UNCHANGED removing
    /\ UNCHANGED <<helper, memory, journal, lost, kernel, spent>>

\* E_UNAVAILABLE as long as the leftovers cannot be removed.
Purged(c) ==
    /\ pc[c] = "purge" /\ EndRemoval
    /\ IF complete
       THEN Goto(c, "probe") /\ journal' = FALSE
       ELSE Goto(c, "idle") /\ UNCHANGED journal
    /\ UNCHANGED <<helper, memory, lost, kernel, spent>>

\* Mutant of Probe: the journal is left for later.
ProbeUnjournalled(c) ==
    /\ pc[c] = "probe"
    /\ \/ Goto(c, "map")
       \/ MayFail /\ Goto(c, "idle")
    /\ UNCHANGED <<helper, memory, journal, lost, kernel, removing, spent>>

\* disk_backing_info, then the journal before anything is built.
Probe(c) ==
    /\ pc[c] = "probe"
    /\ \/ Goto(c, "map") /\ journal' = TRUE /\ lost' = FALSE
       \/ MayFail /\ Goto(c, "idle") /\ UNCHANGED <<journal, lost>>
    /\ UNCHANGED <<helper, memory, kernel, removing, spent>>

\* dmsetup create; it refuses a name that exists, and a timeout may come after
\* the mapping was made.
CreateMapping(c) ==
    /\ pc[c] = "map"
    /\ \/ ~dm /\ dm' = TRUE /\ Goto(c, "target") /\ UNCHANGED removing
       \/ dm /\ UNCHANGED dm /\ Goto(c, "undo") /\ BeginRemoval
       \/ MayFail /\ dm' \in {dm, TRUE} /\ Goto(c, "undo") /\ BeginRemoval
    /\ UNCHANGED <<helper, memory, journal, lost, lio, spent>>

\* The target is built; a failure can come after any part of it.
CreateTarget(c) ==
    /\ pc[c] = "target"
    /\ \/ /\ lio' = "up"
          /\ info' = TRUE
          /\ refs' = refs + 1
          /\ owned' = [owned EXCEPT ![c] = TRUE]
          /\ Goto(c, "idle")
          /\ UNCHANGED removing
       \/ /\ MayFail
          /\ lio' \in {lio, "partial"}
          /\ Goto(c, "undo") /\ BeginRemoval
          /\ UNCHANGED memory
    /\ UNCHANGED <<helper, journal, lost, dm, spent>>

\* The failed attempt is cleaned up; if that fails too the journal stays.
Undone(c) ==
    /\ pc[c] = "undo" /\ EndRemoval
    /\ journal' = (journal /\ ~complete)
    /\ Goto(c, "idle")
    /\ UNCHANGED <<helper, memory, lost, kernel, spent>>

\* ------------------------------------------------------ connection teardown

Disconnect(c) ==
    /\ pc[c] = "idle"
    /\ Goto(c, "closing")
    /\ UNCHANGED <<helper, memory, journal, lost, kernel, removing, spent>>

\* usb_session_release runs first in the same finally clause: if one of its
\* usbip calls times out, the thread ends before disk_session_release.
UsbReleaseHangs(c) ==
    /\ pc[c] = "closing" /\ spent["hangs"] < MaxHangs
    /\ owned' = [owned EXCEPT ![c] = FALSE]
    /\ Goto(c, "closed")
    /\ Spend("hangs")
    /\ UNCHANGED <<helper, refs, info, journal, lost, kernel, removing>>

ReleaseNothing(c) ==
    /\ pc[c] = "closing" /\ ~owned[c]
    /\ Goto(c, "closed")
    /\ UNCHANGED <<helper, memory, journal, lost, kernel, removing, spent>>

\* Mutant of Release: off by one, the last but one takes the disk away.
ReleaseEarly(c) ==
    /\ pc[c] = "closing" /\ owned[c] /\ LockFree
    /\ owned' = [owned EXCEPT ![c] = FALSE]
    /\ refs' = IF refs = 0 THEN 0 ELSE refs - 1
    /\ IF refs <= 2
       THEN Goto(c, "teardown") /\ BeginRemoval
       ELSE Goto(c, "closed") /\ UNCHANGED removing
    /\ UNCHANGED <<helper, info, journal, lost, kernel, spent>>

\* Mutant of Release: every connection gives a reference back, one or none.
ReleaseAlways(c) ==
    /\ pc[c] = "closing" /\ LockFree
    /\ owned' = [owned EXCEPT ![c] = FALSE]
    /\ refs' = refs - 1
    /\ IF refs <= 1
       THEN Goto(c, "teardown") /\ BeginRemoval
       ELSE Goto(c, "closed") /\ UNCHANGED removing
    /\ UNCHANGED <<helper, info, journal, lost, kernel, spent>>

Release(c) ==
    /\ pc[c] = "closing" /\ owned[c] /\ LockFree
    /\ owned' = [owned EXCEPT ![c] = FALSE]
    /\ refs' = IF refs = 0 THEN 0 ELSE refs - 1
    /\ IF refs <= 1
       THEN Goto(c, "teardown") /\ BeginRemoval
       ELSE Goto(c, "closed") /\ UNCHANGED removing
    /\ UNCHANGED <<helper, info, journal, lost, kernel, spent>>

\* Mutant of TornDown: waits, inside the lock, until nobody asks for the disk.
TornDownWaits(c) ==
    /\ pc[c] = "teardown" /\ EndRemoval
    /\ \A d \in Clients : pc[d] # "asking"
    /\ info' = (info /\ ~complete)
    /\ journal' = (journal /\ ~complete)
    /\ Goto(c, "closed")
    /\ UNCHANGED <<helper, owned, refs, lost, kernel, spent>>

\* An incomplete removal stays journalled for a later attempt.
TornDown(c) ==
    /\ pc[c] = "teardown" /\ EndRemoval
    /\ info' = (info /\ ~complete)
    /\ journal' = (journal /\ ~complete)
    /\ Goto(c, "closed")
    /\ UNCHANGED <<helper, owned, refs, lost, kernel, spent>>

\* -------------------------------------------------------- crash and restart

\* The process dies; the journal stays only if systemd keeps its directory.
Crash ==
    /\ helper # "down" /\ spent["crashes"] < MaxCrashes
    /\ helper' = "down"
    /\ pc' = [c \in Clients |-> "closed"]
    /\ owned' = [c \in Clients |-> FALSE]
    /\ refs' = 0
    /\ info' = FALSE
    /\ removal' = "none" /\ complete' = TRUE
    /\ journal' = (journal /\ Preserve = "restart")
    /\ lost' = (lost \/ (journal /\ Preserve = "no"))
    /\ Spend("crashes")
    /\ UNCHANGED kernel

\* Mutant of Restart: serves without looking for leftovers.
RestartServes ==
    /\ helper = "down"
    /\ helper' = "serving"
    /\ UNCHANGED <<pc, memory, journal, lost, kernel, removing, spent>>

\* Restart=always; without a journal the helper serves at once.
Restart ==
    /\ helper = "down"
    /\ IF journal
       THEN helper' = "recovering" /\ BeginRemoval
       ELSE helper' = "serving" /\ UNCHANGED removing
    /\ UNCHANGED <<pc, memory, journal, lost, kernel, spent>>

Recovered ==
    /\ helper = "recovering" /\ EndRemoval
    /\ helper' = "serving"
    /\ IF complete
       THEN refs' = 0 /\ info' = FALSE /\ journal' = FALSE
       ELSE UNCHANGED <<refs, info, journal>>
    /\ UNCHANGED <<pc, owned, lost, kernel, spent>>

\* ------------------------------------------------------------ specification

Init ==
    /\ helper = "down"
    /\ pc = [c \in Clients |-> "closed"]
    /\ owned = [c \in Clients |-> FALSE]
    /\ refs = 0 /\ info = FALSE
    /\ journal = FALSE /\ lost = FALSE /\ dm = FALSE /\ lio = "none"
    /\ removal = "none" /\ complete = TRUE
    /\ spent = [crashes |-> 0, hangs |-> 0]

RemoveStep == RemoveTarget \/ RemoveMapping

AcquireStep(c) ==
    \/ AcquireShared(c) \/ AcquireFirst(c) \/ Purged(c) \/ Probe(c)
    \/ CreateMapping(c) \/ CreateTarget(c) \/ Undone(c)

CloseStep(c) ==
    UsbReleaseHangs(c) \/ ReleaseNothing(c) \/ Release(c) \/ TornDown(c)

Next ==
    \/ RemoveStep \/ Crash \/ Restart \/ Recovered
    \/ \E c \in Clients : \/ Connect(c) \/ Ask(c) \/ Disconnect(c)
                          \/ AcquireStep(c) \/ CloseStep(c)

Spec == Init /\ [][Next]_vars

\* The thread in the lock and recovery keep running, waiting threads get a
\* lock that is free again and again, systemd restarts the helper.
Fairness ==
    /\ WF_vars(RemoveStep) /\ WF_vars(Restart \/ Recovered)
    /\ \A c \in Clients :
        /\ WF_vars(pc[c] \in Critical /\ (AcquireStep(c) \/ CloseStep(c)))
        /\ WF_vars(ReleaseNothing(c))
        /\ SF_vars(AcquireShared(c) \/ AcquireFirst(c))
        /\ SF_vars(Release(c))

FairSpec == Spec /\ Fairness

\* --------------------------------------------------------------- properties

\* Every variable has its type.
TypeOK ==
    /\ helper \in {"down", "recovering", "serving"}
    /\ pc \in [Clients -> States]
    /\ owned \in [Clients -> BOOLEAN]
    /\ refs \in Nat
    /\ info \in BOOLEAN /\ journal \in BOOLEAN /\ lost \in BOOLEAN
    /\ dm \in BOOLEAN
    /\ lio \in {"none", "partial", "up"}
    /\ removal \in {"none", "lio", "dm", "end"}
    /\ complete \in BOOLEAN
    /\ spent \in [{"crashes", "hangs"} -> Nat]

Owners == {c \in Clients : owned[c]}

\* "therefore release the same appliance-side lease": the reference count is
\* the number of live connections that acquired the disk.
RefsCountOwners == refs = Cardinality(Owners)

\* A connection that was told it has the disk has it: target and mapping stay
\* up, and their description stays available, until it closes, whatever other
\* connections' failures and teardowns do.
OwnedIsServed == Owners # {} => dm /\ lio = "up" /\ info

Leftover == dm \/ lio # "none"

\* "Journal first so a killed helper recovers even if it dies halfway": in
\* every state, also between two steps of a build or a removal, anything of
\* the export that exists in the kernel is journalled, unless systemd deleted
\* that journal with the runtime directory.
TargetJournalled == Leftover => journal \/ lost

\* Once the helper serves and no thread is inside the lock, nothing is
\* exported for nobody, but for two recorded causes: systemd deleted the
\* journal, or the last removal did not succeed, and then the journal is still
\* there for the next one.
LeftoverExplained ==
    helper = "serving" /\ LockFree /\ refs = 0 /\ Leftover =>
        lost \/ (journal /\ ~complete)

\* The same without exception, as the comment at the journal promises it for a
\* killed helper: the unit file that is shipped does not keep this.
NoIdleTarget == helper = "serving" /\ LockFree /\ refs = 0 => ~Leftover

\* Nobody waits for ever behind a lock that is held through removals with a
\* timeout each: a connection that closed is done with eventually, and an
\* acquire answered.
EveryoneEnds ==
    \A c \in Clients :
        /\ pc[c] = "closing" ~> pc[c] = "closed"
        /\ pc[c] = "asking" ~> pc[c] \in {"idle", "closed"}

\* The disk is a shared lease that nobody outside can withdraw.
Lease == INSTANCE SharedLease WITH
    Resources <- {"disk"},
    Withdrawable <- {},
    holders <- [r \in {"disk"} |-> Owners],
    up <- [r \in {"disk"} |-> dm /\ lio = "up"]

\* Every behaviour of the disk lease is one of the shared lease.
ImplementsLease == Lease!LeaseSpec
===============================================================================
