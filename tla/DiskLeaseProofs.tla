--------------------------- MODULE DiskLeaseProofs ---------------------------
(***************************************************************************)
(* Proofs about DiskLease for any number of connections and crashes, and   *)
(* that it implements SharedLease.  A USB release that times out before    *)
(* the disk's leaves a reference behind that nobody owns: only the exact   *)
(* count assumes that none does (MaxHangs = 0).                            *)
(***************************************************************************)
EXTENDS DiskLease, FiniteSetTheorems, TLAPS

(***************************************************************************)
(* The inductive invariant.  What each safety property needs from the      *)
(* control state: who can be inside the lock, that nobody holds the disk   *)
(* while it is built or removed, which steps a removal has completed, that *)
(* whoever builds has written the journal, and that a reference, owned or  *)
(* left behind, keeps the export.                                          *)
(***************************************************************************)
Removing == {"purge", "undo", "teardown"}

LockOnce ==
    \A c, d \in Clients : pc[c] \in Critical /\ pc[d] \in Critical => c = d

ServingOnly == helper # "serving" => refs = 0 /\ \A c \in Clients : pc[c] = "closed"

LockedIsUnused == \A c \in Clients : pc[c] \in Critical => refs = 0

RemovalRuns ==
    removal # "none" <=> helper = "recovering" \/ \E c \in Clients : pc[c] \in Removing

RemovalDid ==
    complete => /\ removal \in {"dm", "end"} => lio = "none"
                /\ removal = "end" => ~dm

TargetHasMapping == \A c \in Clients : pc[c] = "target" => dm

BuiltJournalled ==
    /\ TargetJournalled
    /\ \A c \in Clients : pc[c] \in {"map", "target"} => journal

RefsServed == refs > 0 => dm /\ lio = "up" /\ info

Flow ==
    /\ TypeOK /\ LockOnce /\ ServingOnly /\ LockedIsUnused
    /\ RemovalRuns /\ RemovalDid /\ TargetHasMapping /\ BuiltJournalled /\ RefsServed

OwnersCounted == Cardinality(Owners) <= refs

DiskInv == Flow /\ OwnersCounted

LEMMA OwnersFinite == IsFiniteSet(Owners) /\ Cardinality(Owners) \in Nat
  <1>1. Owners \in SUBSET Clients
    BY DEF Owners
  <1>2. IsFiniteSet(Owners)
    BY <1>1, ClientsFinite, FS_Subset
  <1> QED
    BY <1>2, FS_CardinalityType

LEMMA ZeroIsNone ==
    ASSUME TypeOK, OwnersCounted, refs = 0
    PROVE  Owners = {}
  <1>1. Cardinality(Owners) = 0
    BY OwnersFinite DEF OwnersCounted
  <1> QED
    BY <1>1, OwnersFinite, FS_EmptySet

LEMMA OwnedServed == DiskInv => OwnedIsServed
  <1> SUFFICES ASSUME DiskInv, Owners # {}
               PROVE  dm /\ lio = "up" /\ info
    BY DEF OwnedIsServed
  <1>1. refs > 0
    BY ZeroIsNone DEF DiskInv, Flow, TypeOK
  <1> QED
    BY <1>1 DEF DiskInv, Flow, RefsServed

\* Type correctness, timeouts included: what the other theorems exclude
\* breaks the count, never the types.
THEOREM TypeCorrect == Spec => []TypeOK
  <1>1. Init => TypeOK
    <2> SUFFICES ASSUME Init
                 PROVE  TypeOK
      OBVIOUS
    <2>1. spent \in [{"crashes", "hangs"} -> Nat] /\ refs \in Nat
      BY DEF Init
    <2>2. pc \in [Clients -> States] /\ owned \in [Clients -> BOOLEAN]
      BY DEF Init, States
    <2> QED
      BY <2>1, <2>2 DEF Init, TypeOK
  <1>2. TypeOK /\ [Next]_vars => TypeOK'
    <2> SUFFICES ASSUME TypeOK, [Next]_vars
                 PROVE  TypeOK'
      OBVIOUS
    <2> USE DEF TypeOK, States, Critical, Goto, Spend, BeginRemoval, EndRemoval, memory, kernel,
                removing
    <2>1. CASE RemoveStep
      BY <2>1 DEF RemoveStep, RemoveTarget, RemoveMapping
    <2>2. CASE Crash
      <3>1. pc' \in [Clients -> States] /\ owned' \in [Clients -> BOOLEAN]
        BY <2>2 DEF Crash
      <3>2. spent' \in [{"crashes", "hangs"} -> Nat]
        BY <2>2 DEF Crash
      <3> QED
        BY <2>2, <3>1, <3>2 DEF Crash
    <2>3. CASE Restart \/ Recovered
      <3>1. CASE Restart
        BY <3>1 DEF Restart
      <3>2. CASE Recovered
        <4>1. refs' \in Nat
          BY <3>2 DEF Recovered
        <4>2. info' \in BOOLEAN /\ journal' \in BOOLEAN
          BY <3>2 DEF Recovered
        <4> QED
          BY <3>2, <4>1, <4>2 DEF Recovered
      <3> QED
        BY <2>3, <3>1, <3>2
    <2>4. ASSUME NEW c \in Clients, Connect(c) \/ Ask(c) \/ Disconnect(c)
          PROVE  TypeOK'
      BY <2>4 DEF Connect, Ask, Disconnect
    <2>5. ASSUME NEW c \in Clients, AcquireStep(c)
          PROVE  TypeOK'
      <3>1. CASE AcquireShared(c)
        BY <3>1 DEF AcquireShared
      <3>2. CASE AcquireFirst(c)
        BY <3>2 DEF AcquireFirst
      <3>3. CASE Purged(c)
        BY <3>3 DEF Purged
      <3>4. CASE Probe(c)
        BY <3>4 DEF Probe
      <3>5. CASE CreateMapping(c)
        BY <3>5 DEF CreateMapping
      <3>6. CASE CreateTarget(c)
        <4>1. CASE owned' = [owned EXCEPT ![c] = TRUE] /\ refs' = refs + 1
          <5>1. owned' \in [Clients -> BOOLEAN] /\ refs' \in Nat
            BY <4>1
          <5>2. pc' \in [Clients -> States]
            BY <3>6 DEF CreateTarget
          <5> QED
            BY <3>6, <4>1, <5>1, <5>2 DEF CreateTarget
        <4>2. CASE UNCHANGED <<owned, refs>>
          BY <3>6, <4>2 DEF CreateTarget
        <4> QED
          BY <3>6, <4>1, <4>2 DEF CreateTarget
      <3>7. CASE Undone(c)
        BY <3>7 DEF Undone
      <3> QED
        BY <2>5, <3>1, <3>2, <3>3, <3>4, <3>5, <3>6, <3>7 DEF AcquireStep
    <2>6. ASSUME NEW c \in Clients, CloseStep(c)
          PROVE  TypeOK'
      <3>1. CASE UsbReleaseHangs(c)
        BY <3>1 DEF UsbReleaseHangs
      <3>2. CASE ReleaseNothing(c)
        BY <3>2 DEF ReleaseNothing
      <3>3. CASE Release(c)
        <4>1. owned' \in [Clients -> BOOLEAN] /\ refs' \in Nat
          BY <3>3 DEF Release
        <4>2. pc' \in [Clients -> States]
          BY <3>3 DEF Release
        <4> QED
          BY <3>3, <4>1, <4>2 DEF Release
      <3>4. CASE TornDown(c)
        BY <3>4 DEF TornDown
      <3> QED
        BY <2>6, <3>1, <3>2, <3>3, <3>4 DEF CloseStep
    <2>7. CASE UNCHANGED vars
      BY <2>7 DEF vars
    <2> QED
      BY <2>1, <2>2, <2>3, <2>4, <2>5, <2>6, <2>7 DEF Next
  <1> QED
    BY <1>1, <1>2, PTL DEF Spec

LEMMA FlowInit == Init => Flow
  <1> SUFFICES ASSUME Init
               PROVE  Flow
    OBVIOUS
  <1> USE DEF Init, Flow, TypeOK, States, Critical, Removing, LockOnce, ServingOnly,
              LockedIsUnused, RemovalRuns, RemovalDid, TargetHasMapping,
              BuiltJournalled, TargetJournalled, Leftover, RefsServed
  <1>1. TypeOK
    <2>1. spent \in [{"crashes", "hangs"} -> Nat] /\ refs \in Nat
      OBVIOUS
    <2>2. pc \in [Clients -> States] /\ owned \in [Clients -> BOOLEAN]
      OBVIOUS
    <2> QED
      BY <2>1, <2>2
  <1>2. LockOnce /\ ServingOnly /\ LockedIsUnused
    OBVIOUS
  <1>3. RemovalRuns /\ RemovalDid
    OBVIOUS
  <1>4. TargetHasMapping /\ BuiltJournalled /\ RefsServed
    OBVIOUS
  <1> QED
    BY <1>1, <1>2, <1>3, <1>4

\* Every step of a connection keeps the control part.
LEMMA FlowThread ==
    ASSUME Flow,
           NEW c \in Clients,
           Connect(c) \/ Ask(c) \/ Disconnect(c) \/ AcquireStep(c) \/ CloseStep(c)
    PROVE  Flow'
  <1> USE DEF Flow, TypeOK, States, Critical, Removing, LockOnce, ServingOnly,
              LockedIsUnused, RemovalRuns, RemovalDid, TargetHasMapping,
              BuiltJournalled, TargetJournalled, Leftover, RefsServed, LockFree, Goto, BeginRemoval, EndRemoval,
              memory, kernel, removing
  <1>1. CASE Connect(c)
    BY <1>1 DEF Connect
  <1>2. CASE Ask(c)
    BY <1>2 DEF Ask
  <1>3. CASE AcquireShared(c)
    BY <1>3 DEF AcquireShared
  <1>4. CASE AcquireFirst(c)
    <2>1. TypeOK'
      BY <1>4 DEF AcquireFirst
    <2>2. LockOnce' /\ ServingOnly' /\ LockedIsUnused'
      BY <1>4 DEF AcquireFirst
    <2>3. RemovalRuns' /\ RemovalDid'
      BY <1>4 DEF AcquireFirst
    <2>4. TargetHasMapping' /\ BuiltJournalled' /\ RefsServed'
      BY <1>4 DEF AcquireFirst
    <2> QED
      BY <2>1, <2>2, <2>3, <2>4
  <1>5. CASE Purged(c)
    <2>1. TypeOK'
      BY <1>5 DEF Purged
    <2>2. LockOnce' /\ ServingOnly' /\ LockedIsUnused'
      BY <1>5 DEF Purged
    <2>3. RemovalRuns' /\ RemovalDid'
      BY <1>5 DEF Purged
    <2>4. TargetHasMapping' /\ BuiltJournalled' /\ RefsServed'
      BY <1>5 DEF Purged
    <2> QED
      BY <2>1, <2>2, <2>3, <2>4
  <1>6. CASE Probe(c)
    <2>1. TypeOK'
      BY <1>6 DEF Probe
    <2>2. LockOnce' /\ ServingOnly' /\ LockedIsUnused'
      BY <1>6 DEF Probe
    <2>3. RemovalRuns' /\ RemovalDid'
      BY <1>6 DEF Probe
    <2>4. TargetHasMapping' /\ BuiltJournalled' /\ RefsServed'
      BY <1>6 DEF Probe
    <2> QED
      BY <2>1, <2>2, <2>3, <2>4
  <1>7. CASE CreateMapping(c)
    <2>1. TypeOK'
      BY <1>7 DEF CreateMapping
    <2>2. LockOnce' /\ ServingOnly' /\ LockedIsUnused'
      <3>1. pc[c] = "map" /\ \E at \in {"target", "undo"} : pc' = [pc EXCEPT ![c] = at]
        BY <1>7 DEF CreateMapping
      <3>2. UNCHANGED <<helper, owned, refs>>
        BY <1>7 DEF CreateMapping
      <3> QED
        BY <3>1, <3>2
    <2>3. RemovalRuns' /\ RemovalDid'
      BY <1>7 DEF CreateMapping
    <2>4. TargetHasMapping' /\ BuiltJournalled' /\ RefsServed'
      BY <1>7 DEF CreateMapping
    <2> QED
      BY <2>1, <2>2, <2>3, <2>4
  <1>8. CASE CreateTarget(c)
    <2>1. TypeOK'
      <3>1. owned' \in [Clients -> BOOLEAN] /\ refs' \in Nat
        <4>1. \/ owned' = [owned EXCEPT ![c] = TRUE] /\ refs' = refs + 1
              \/ owned' = owned /\ refs' = refs
          BY <1>8 DEF CreateTarget
        <4>2. owned' \in [Clients -> BOOLEAN]
          BY <4>1
        <4>3. refs' \in Nat
          BY <4>1
        <4> QED
          BY <4>2, <4>3
      <3>2. pc' \in [Clients -> States]
        BY <1>8 DEF CreateTarget
      <3>3. lio' \in {"none", "partial", "up"}
        BY <1>8 DEF CreateTarget
      <3> QED
        BY <1>8, <3>1, <3>2, <3>3 DEF CreateTarget
    <2>2. LockOnce' /\ ServingOnly' /\ LockedIsUnused'
      BY <1>8 DEF CreateTarget
    <2>3. RemovalRuns' /\ RemovalDid'
      BY <1>8 DEF CreateTarget
    <2>4. TargetHasMapping' /\ BuiltJournalled' /\ RefsServed'
      BY <1>8 DEF CreateTarget
    <2> QED
      BY <2>1, <2>2, <2>3, <2>4
  <1>9. CASE Undone(c)
    BY <1>9 DEF Undone
  <1>10. CASE Disconnect(c)
    BY <1>10 DEF Disconnect
  <1>11. CASE ReleaseNothing(c)
    BY <1>11 DEF ReleaseNothing
  <1>12. CASE Release(c)
    <2>1. TypeOK'
      <3>1. owned' \in [Clients -> BOOLEAN] /\ refs' \in Nat
        BY <1>12 DEF Release
      <3>2. pc' \in [Clients -> States]
        BY <1>12 DEF Release
      <3> QED
        BY <1>12, <3>1, <3>2 DEF Release
    <2>2. LockOnce' /\ ServingOnly' /\ LockedIsUnused'
      BY <1>12 DEF Release
    <2>3. RemovalRuns' /\ RemovalDid'
      BY <1>12 DEF Release
    <2>4. TargetHasMapping' /\ BuiltJournalled' /\ RefsServed'
      BY <1>12 DEF Release
    <2> QED
      BY <2>1, <2>2, <2>3, <2>4
  <1>13. CASE TornDown(c)
    BY <1>13 DEF TornDown
  <1>14. CASE UsbReleaseHangs(c)
    <2>1. TypeOK'
      <3>1. spent' \in [{"crashes", "hangs"} -> Nat]
        BY <1>14 DEF UsbReleaseHangs, Spend
      <3>2. pc' \in [Clients -> States] /\ owned' \in [Clients -> BOOLEAN]
        BY <1>14 DEF UsbReleaseHangs
      <3> QED
        BY <1>14, <3>1, <3>2 DEF UsbReleaseHangs
    <2>2. LockOnce' /\ ServingOnly' /\ LockedIsUnused'
      BY <1>14 DEF UsbReleaseHangs
    <2>3. RemovalRuns' /\ RemovalDid'
      BY <1>14 DEF UsbReleaseHangs
    <2>4. TargetHasMapping' /\ BuiltJournalled' /\ RefsServed'
      BY <1>14 DEF UsbReleaseHangs
    <2> QED
      BY <2>1, <2>2, <2>3, <2>4
  <1> QED
    BY <1>1, <1>2, <1>3, <1>4, <1>5, <1>6, <1>7, <1>8, <1>9, <1>10, <1>11,
       <1>12, <1>13, <1>14 DEF AcquireStep, CloseStep

\* So does every other step.
LEMMA FlowOther ==
    ASSUME Flow,
           RemoveStep \/ Crash \/ Restart \/ Recovered \/ UNCHANGED vars
    PROVE  Flow'
  <1> USE DEF Flow, TypeOK, States, Critical, Removing, LockOnce, ServingOnly,
              LockedIsUnused, RemovalRuns, RemovalDid, TargetHasMapping,
              BuiltJournalled, TargetJournalled, Leftover, RefsServed, BeginRemoval, EndRemoval, memory, kernel, removing
  <1>1. CASE RemoveTarget
    <2>1. TypeOK'
      BY <1>1 DEF RemoveTarget
    <2>2. LockOnce' /\ ServingOnly' /\ LockedIsUnused'
      BY <1>1 DEF RemoveTarget
    <2>3. RemovalRuns' /\ RemovalDid'
      BY <1>1 DEF RemoveTarget
    <2>4. TargetHasMapping' /\ BuiltJournalled' /\ RefsServed'
      BY <1>1 DEF RemoveTarget
    <2> QED
      BY <2>1, <2>2, <2>3, <2>4
  <1>2. CASE RemoveMapping
    <2>1. TypeOK'
      BY <1>2 DEF RemoveMapping
    <2>2. LockOnce' /\ ServingOnly' /\ LockedIsUnused'
      BY <1>2 DEF RemoveMapping
    <2>3. RemovalRuns' /\ RemovalDid'
      BY <1>2 DEF RemoveMapping
    <2>4. TargetHasMapping' /\ BuiltJournalled' /\ RefsServed'
      BY <1>2 DEF RemoveMapping
    <2> QED
      BY <2>1, <2>2, <2>3, <2>4
  <1>3. CASE Crash
    <2>1. TypeOK'
      <3>1. journal' \in BOOLEAN /\ info' \in BOOLEAN
        BY <1>3 DEF Crash
      <3>2. spent' \in [{"crashes", "hangs"} -> Nat]
        BY <1>3 DEF Crash, Spend
      <3>3. pc' \in [Clients -> States] /\ owned' \in [Clients -> BOOLEAN]
        BY <1>3 DEF Crash
      <3> QED
        BY <1>3, <3>1, <3>2, <3>3 DEF Crash
    <2>2. LockOnce' /\ ServingOnly' /\ LockedIsUnused'
      BY <1>3 DEF Crash, Spend
    <2>3. RemovalRuns' /\ RemovalDid'
      BY <1>3 DEF Crash, Spend
    <2>4. TargetHasMapping' /\ BuiltJournalled' /\ RefsServed'
      <3>1. Leftover' = Leftover
        BY <1>3 DEF Crash
      <3>2. journal \/ lost => journal' \/ lost'
        BY <1>3, PreserveType DEF Crash
      <3>3. TargetJournalled'
        BY <3>1, <3>2 DEF TargetJournalled
      <3> QED
        BY <1>3, <3>3 DEF Crash
    <2> QED
      BY <2>1, <2>2, <2>3, <2>4
  <1>4. CASE Restart
    <2>1. TypeOK'
      BY <1>4 DEF Restart
    <2>2. LockOnce' /\ ServingOnly' /\ LockedIsUnused'
      BY <1>4 DEF Restart
    <2>3. RemovalRuns' /\ RemovalDid'
      BY <1>4 DEF Restart
    <2>4. TargetHasMapping' /\ BuiltJournalled' /\ RefsServed'
      BY <1>4 DEF Restart
    <2> QED
      BY <2>1, <2>2, <2>3, <2>4
  <1>5. CASE Recovered
    <2>1. TypeOK'
      BY <1>5 DEF Recovered
    <2>2. LockOnce' /\ ServingOnly' /\ LockedIsUnused'
      BY <1>5 DEF Recovered
    <2>3. RemovalRuns' /\ RemovalDid'
      BY <1>5 DEF Recovered
    <2>4. TargetHasMapping' /\ BuiltJournalled' /\ RefsServed'
      BY <1>5 DEF Recovered
    <2> QED
      BY <2>1, <2>2, <2>3, <2>4
  <1>6. CASE UNCHANGED vars
    BY <1>6 DEF vars
  <1> QED
    BY <1>1, <1>2, <1>3, <1>4, <1>5, <1>6 DEF RemoveStep

\* What a step does to the owners, for the bound and for the exact count.
LEMMA SameOwners ==
    ASSUME UNCHANGED <<owned, refs>>
    PROVE  /\ OwnersCounted => OwnersCounted'
           /\ RefsCountOwners => RefsCountOwners'
  BY DEF OwnersCounted, RefsCountOwners, Owners

LEMMA GainOwner ==
    ASSUME TypeOK, NEW c \in Clients, ~owned[c],
           owned' = [owned EXCEPT ![c] = TRUE], refs' = refs + 1
    PROVE  /\ OwnersCounted => OwnersCounted'
           /\ RefsCountOwners => RefsCountOwners'
  <1>1. Owners' = Owners \cup {c} /\ c \notin Owners
    BY DEF Owners, TypeOK
  <1>2. Cardinality(Owners') = Cardinality(Owners) + 1
    BY <1>1, OwnersFinite, FS_AddElement
  <1> QED
    BY <1>2, OwnersFinite DEF OwnersCounted, RefsCountOwners, TypeOK

LEMMA LoseOwner ==
    ASSUME TypeOK, OwnersCounted, NEW c \in Clients, owned[c],
           owned' = [owned EXCEPT ![c] = FALSE]
    PROVE  /\ refs' = refs => OwnersCounted'
           /\ refs' = (IF refs = 0 THEN 0 ELSE refs - 1) =>
                OwnersCounted' /\ (RefsCountOwners => RefsCountOwners')
  <1>1. Owners' = Owners \ {c} /\ c \in Owners
    BY DEF Owners, TypeOK
  <1>2. Cardinality(Owners') = Cardinality(Owners) - 1
    BY <1>1, OwnersFinite, FS_RemoveElement
  <1>3. refs # 0
    BY <1>1, ZeroIsNone
  <1> QED
    BY <1>2, <1>3, OwnersFinite DEF OwnersCounted, RefsCountOwners, TypeOK

LEMMA NoOwners ==
    ASSUME refs' = 0, \A c \in Clients : ~owned'[c]
    PROVE  OwnersCounted' /\ RefsCountOwners'
  <1>1. Owners' = {}
    BY DEF Owners
  <1> QED
    BY <1>1, FS_EmptySet DEF OwnersCounted, RefsCountOwners

\* The count never falls behind the owners, and without a timeout it does not
\* run ahead of them either.
LEMMA CountStep ==
    ASSUME DiskInv, [Next]_vars
    PROVE  /\ OwnersCounted'
           /\ MaxHangs = 0 /\ RefsCountOwners => RefsCountOwners'
  <1> USE DEF DiskInv, Flow, memory, kernel, removing
  <1>1. CASE \E c \in Clients : AcquireShared(c)
    <2>1. PICK c \in Clients : AcquireShared(c)
      BY <1>1
    <2>2. CASE owned[c]
      BY <2>1, <2>2, SameOwners DEF AcquireShared, TypeOK
    <2>3. CASE ~owned[c]
      BY <2>1, <2>3, GainOwner DEF AcquireShared
    <2> QED
      BY <2>2, <2>3
  <1>2. CASE \E c \in Clients : CreateTarget(c)
    <2>1. PICK c \in Clients : CreateTarget(c)
      BY <1>2
    <2>2. ~owned[c]
      BY <2>1, ZeroIsNone DEF CreateTarget, LockedIsUnused, Critical, Owners
    <2> QED
      BY <2>1, <2>2, GainOwner, SameOwners DEF CreateTarget
  <1>3. CASE \E c \in Clients : Release(c)
    BY <1>3, LoseOwner DEF Release
  <1>4. CASE Crash
    BY <1>4, NoOwners DEF Crash
  <1>5. CASE Recovered
    <2>1. refs = 0 /\ owned' = owned
      BY <1>5 DEF Recovered, ServingOnly
    <2>2. refs' = 0
      BY <1>5, <2>1 DEF Recovered
    <2> QED
      BY <2>1, <2>2, SameOwners
  <1>6. CASE UNCHANGED <<owned, refs>>
    BY <1>6, SameOwners
  <1>7. ASSUME NEW c \in Clients, UsbReleaseHangs(c)
        PROVE  OwnersCounted' /\ MaxHangs # 0
    <2>1. MaxHangs # 0 /\ refs' = refs /\ owned' = [owned EXCEPT ![c] = FALSE]
      BY <1>7 DEF UsbReleaseHangs, TypeOK
    <2>2. CASE owned[c]
      BY <2>1, <2>2, LoseOwner
    <2>3. CASE ~owned[c]
      <3>1. owned' = owned
        BY <2>1, <2>3 DEF TypeOK
      <3> QED
        BY <2>1, <3>1, SameOwners
    <2> QED
      BY <2>1, <2>2, <2>3
  <1> QED
    BY <1>1, <1>2, <1>3, <1>4, <1>5, <1>6, <1>7
       DEF Next, RemoveStep, RemoveTarget, RemoveMapping, Restart, Connect, Ask,
           Disconnect, AcquireStep, CloseStep, AcquireFirst, Purged, Probe,
           CreateMapping, Undone, ReleaseNothing, TornDown, vars

\* The invariant holds in every reachable state, whatever fails or times out.
THEOREM DiskInvariant == Spec => []DiskInv
  <1>1. Init => DiskInv
    BY FlowInit, FS_EmptySet DEF Init, DiskInv, OwnersCounted, Owners
  <1>2. DiskInv /\ [Next]_vars => DiskInv'
    BY FlowThread, FlowOther, CountStep DEF DiskInv, Next
  <1> QED
    BY <1>1, <1>2, PTL DEF Spec

\* Without a timeout in the USB part of a teardown the reference count of the
\* disk export is the number of connections that acquired it and have not
\* closed.
THEOREM DiskCountCorrect == MaxHangs = 0 => (Spec => []RefsCountOwners)
  <1> SUFFICES ASSUME MaxHangs = 0
               PROVE  Spec => []RefsCountOwners
    OBVIOUS
  <1>1. Init => RefsCountOwners
    BY FS_EmptySet DEF Init, RefsCountOwners, Owners
  <1>2. DiskInv /\ RefsCountOwners /\ [Next]_vars => RefsCountOwners'
    BY CountStep
  <1> QED
    BY <1>1, <1>2, DiskInvariant, PTL DEF Spec

\* A connection that was told it has the disk keeps a complete export.
THEOREM DiskServed == Spec => []OwnedIsServed
  BY OwnedServed, DiskInvariant, PTL

\* Nothing of the export ever exists without the journal, wherever the helper
\* is killed, unless systemd deleted that journal.
THEOREM DiskJournalled == Spec => []TargetJournalled
  <1>1. DiskInv => TargetJournalled
    BY DEF DiskInv, Flow, BuiltJournalled
  <1> QED
    BY <1>1, DiskInvariant, PTL

(***************************************************************************)
(* What is left exported for nobody.  A removal that was complete left     *)
(* nothing (RemovalDid), an incomplete one leaves the journal, and a build *)
(* starts from nothing or from what a deleted journal hides.               *)
(***************************************************************************)
Cleared ==
    /\ \A c \in Clients : pc[c] = "probe" /\ Leftover => lost
    /\ LeftoverExplained

LEMMA ClearedThread ==
    ASSUME Flow, Cleared, NEW c \in Clients,
           Connect(c) \/ Ask(c) \/ Disconnect(c) \/ AcquireStep(c) \/ CloseStep(c)
    PROVE  Cleared'
  <1> USE DEF Flow, Cleared, LeftoverExplained, Leftover, TypeOK, LockOnce, ServingOnly,
              LockedIsUnused, RemovalDid, BuiltJournalled, TargetJournalled, LockFree,
              Critical, States, Goto, BeginRemoval, EndRemoval, memory, kernel, removing
  <1>1. CASE Connect(c) \/ Ask(c) \/ Disconnect(c) \/ ReleaseNothing(c)
    BY <1>1 DEF Connect, Ask, Disconnect, ReleaseNothing
  <1>2. CASE AcquireShared(c)
    BY <1>2 DEF AcquireShared
  <1>3. CASE AcquireFirst(c)
    BY <1>3 DEF AcquireFirst
  <1>4. CASE Purged(c)
    BY <1>4 DEF Purged
  <1>5. CASE Probe(c)
    BY <1>5 DEF Probe
  <1>6. CASE CreateMapping(c)
    BY <1>6 DEF CreateMapping
  <1>7. CASE CreateTarget(c)
    BY <1>7 DEF CreateTarget
  <1>8. CASE Undone(c) \/ TornDown(c)
    BY <1>8 DEF Undone, TornDown
  <1>9. CASE Release(c)
    BY <1>9 DEF Release
  <1>10. CASE UsbReleaseHangs(c)
    BY <1>10 DEF UsbReleaseHangs
  <1> QED
    BY <1>1, <1>2, <1>3, <1>4, <1>5, <1>6, <1>7, <1>8, <1>9, <1>10
       DEF AcquireStep, CloseStep

LEMMA ClearedOther ==
    ASSUME Flow, Cleared,
           RemoveStep \/ Crash \/ Restart \/ Recovered \/ UNCHANGED vars
    PROVE  Cleared'
  <1> USE DEF Flow, Cleared, LeftoverExplained, Leftover, TypeOK, LockOnce, ServingOnly,
              RemovalRuns, RemovalDid, Removing, BuiltJournalled, TargetJournalled,
              LockFree, Critical, BeginRemoval, EndRemoval, memory, kernel, removing
  <1>1. CASE RemoveTarget
    BY <1>1 DEF RemoveTarget
  <1>2. CASE RemoveMapping
    BY <1>2 DEF RemoveMapping
  <1>3. CASE Crash
    BY <1>3 DEF Crash
  <1>4. CASE Restart
    BY <1>4 DEF Restart
  <1>5. CASE Recovered
    BY <1>5 DEF Recovered
  <1>6. CASE UNCHANGED vars
    BY <1>6 DEF vars
  <1> QED
    BY <1>1, <1>2, <1>3, <1>4, <1>5, <1>6 DEF RemoveStep

\* Once the helper serves and nobody is inside the lock, the system disk is
\* exported only while a reference to it is held, or because the journal was
\* deleted, or with the journal of a removal that failed: through failed
\* builds, killed helpers and teardowns that time out.
THEOREM LeftoverCorrect == Spec => []LeftoverExplained
  <1>1. Init => Cleared
    BY DEF Init, Cleared, LeftoverExplained
  <1>2. Flow /\ Cleared /\ [Next]_vars => Cleared'
    BY ClearedThread, ClearedOther DEF Next
  <1>3. Cleared => LeftoverExplained
    BY DEF Cleared
  <1>4. DiskInv => Flow
    BY DEF DiskInv
  <1> QED
    BY <1>1, <1>2, <1>3, <1>4, DiskInvariant, PTL DEF Spec

(***************************************************************************)
(* Refinement: every step of the disk lease is a step of the shared lease  *)
(* or leaves holders and export as they are.                               *)
(***************************************************************************)
Exported == dm /\ lio = "up"

\* Owners and export stay: a stutter.
LEMMA StutterMaps ==
    ASSUME UNCHANGED <<owned, dm, lio>>
    PROVE  UNCHANGED Lease!leaseVars
  BY DEF Lease!leaseVars, Owners

\* The export goes while nobody holds it.
LEMMA ReclaimMaps ==
    ASSUME Owners = {}, owned' = owned, ~Exported'
    PROVE  Lease!LeaseNext
  <1>1. Owners' = {}
    BY DEF Owners
  <1>2. Lease!Reclaim("disk")
    BY <1>1 DEF Lease!Reclaim, Exported
  <1> QED
    BY <1>2 DEF Lease!LeaseNext

\* A connection becomes an owner of an export that is up afterwards.
LEMMA AcquireMaps ==
    ASSUME TypeOK, OwnedIsServed, NEW c \in Clients, ~owned[c],
           owned' = [owned EXCEPT ![c] = TRUE], Exported'
    PROVE  Lease!LeaseNext
  <1>1. Owners' = Owners \cup {c} /\ c \notin Owners
    BY DEF Owners, TypeOK
  <1>2. Owners # {} => Exported
    BY DEF OwnedIsServed, Exported
  <1>3. Lease!Acquire(c, "disk")
    BY <1>1, <1>2 DEF Lease!Acquire, Exported
  <1> QED
    BY <1>3 DEF Lease!LeaseNext

\* A connection stops being one; the export is taken down in later steps.
LEMMA ReleaseMaps ==
    ASSUME TypeOK, NEW c \in Clients, owned[c],
           owned' = [owned EXCEPT ![c] = FALSE], UNCHANGED kernel
    PROVE  Lease!LeaseNext
  <1>1. Owners' = Owners \ {c} /\ c \in Owners
    BY DEF Owners, TypeOK
  <1>2. Lease!Release(c, "disk")
    BY <1>1 DEF Lease!Release, kernel
  <1> QED
    BY <1>2 DEF Lease!LeaseNext

LEMMA CrashMaps ==
    ASSUME \A c \in Clients : ~owned'[c], UNCHANGED kernel
    PROVE  Lease!LeaseNext
  <1>1. Owners' = {}
    BY DEF Owners
  <1>2. Lease!LoseAll
    BY <1>1 DEF Lease!LoseAll, kernel
  <1> QED
    BY <1>2 DEF Lease!LeaseNext

LEMMA StepMaps ==
    ASSUME DiskInv, [Next]_vars
    PROVE  [Lease!LeaseNext]_(Lease!leaseVars)
  <1> USE DEF DiskInv, Flow, memory, kernel
  <1>1. refs = 0 => Owners = {}
    BY ZeroIsNone
  <1>2. CASE RemoveStep
    <2>1. Owners = {}
      BY <1>1, <1>2 DEF RemoveStep, RemoveTarget, RemoveMapping, RemovalRuns, ServingOnly,
                        LockedIsUnused, Removing, Critical
    <2>2. owned' = owned /\ (UNCHANGED kernel \/ ~Exported')
      BY <1>2 DEF RemoveStep, RemoveTarget, RemoveMapping, Exported
    <2> QED
      BY <2>1, <2>2, ReclaimMaps, StutterMaps
  <1>3. CASE \E c \in Clients : CreateMapping(c)
    <2>1. Owners = {}
      BY <1>1, <1>3 DEF CreateMapping, LockedIsUnused, Critical
    <2>2. owned' = owned /\ lio' = lio /\ dm' \in {dm, TRUE}
      BY <1>3 DEF CreateMapping, TypeOK
    <2>3. Owners' = {}
      BY <2>1, <2>2 DEF Owners
    <2>4. CASE Exported'
      <3>1. Lease!Supply("disk")
        BY <2>1, <2>3, <2>4 DEF Lease!Supply, Exported
      <3> QED
        BY <3>1 DEF Lease!LeaseNext
    <2>5. CASE ~Exported'
      BY <2>1, <2>2, <2>5, ReclaimMaps
    <2> QED
      BY <2>4, <2>5
  <1>4. CASE \E c \in Clients : CreateTarget(c)
    <2>1. PICK c \in Clients : CreateTarget(c)
      BY <1>4
    <2>2. Owners = {} /\ ~owned[c]
      BY <1>1, <2>1 DEF CreateTarget, LockedIsUnused, Critical, Owners
    <2>3. CASE lio' = "up" /\ owned' = [owned EXCEPT ![c] = TRUE]
      <3>1. Exported'
        BY <2>1, <2>3 DEF CreateTarget, TargetHasMapping, Exported
      <3> QED
        BY <2>2, <2>3, <3>1, OwnedServed, AcquireMaps
    <2>4. CASE lio' \in {lio, "partial"} /\ owned' = owned /\ dm' = dm
      BY <2>2, <2>4, ReclaimMaps, StutterMaps DEF Exported
    <2> QED
      BY <2>1, <2>3, <2>4 DEF CreateTarget
  <1>5. CASE \E c \in Clients : AcquireShared(c)
    <2>1. PICK c \in Clients : AcquireShared(c)
      BY <1>5
    <2>2. CASE owned[c]
      BY <2>1, <2>2, StutterMaps DEF AcquireShared, TypeOK
    <2>3. CASE ~owned[c]
      <3>1. Exported'
        BY <2>1, <2>3 DEF AcquireShared, RefsServed, Exported
      <3> QED
        BY <2>1, <2>3, <3>1, OwnedServed, AcquireMaps DEF AcquireShared
    <2> QED
      BY <2>2, <2>3
  <1>6. CASE \E c \in Clients : Release(c)
    BY <1>6, ReleaseMaps DEF Release
  <1>7. CASE Crash
    BY <1>7, CrashMaps DEF Crash
  <1>8. CASE UNCHANGED <<owned, dm, lio>>
    BY <1>8, StutterMaps
  <1>9. ASSUME NEW c \in Clients, UsbReleaseHangs(c)
        PROVE  [Lease!LeaseNext]_(Lease!leaseVars)
    <2>1. owned' = [owned EXCEPT ![c] = FALSE] /\ UNCHANGED <<dm, lio>>
      BY <1>9 DEF UsbReleaseHangs
    <2>2. CASE owned[c]
      BY <2>1, <2>2, ReleaseMaps
    <2>3. CASE ~owned[c]
      <3>1. owned' = owned
        BY <2>1, <2>3 DEF TypeOK
      <3> QED
        BY <2>1, <3>1, StutterMaps
    <2> QED
      BY <2>2, <2>3
  <1> QED
    BY <1>2, <1>3, <1>4, <1>5, <1>6, <1>7, <1>8, <1>9
       DEF Next, Restart, Recovered, Connect, Ask, Disconnect, AcquireStep,
           CloseStep, AcquireFirst, Purged, Probe, Undone, ReleaseNothing,
           TornDown, vars

\* The disk lease implements the shared lease: only the last holder's release
\* is followed by the export going down, for any number of connections, any
\* failures of building and removing it, any timeouts and any crashes.
THEOREM DiskImplements == Spec => ImplementsLease
  <1>1. Init => Lease!LeaseInit
    BY DEF Init, Lease!LeaseInit, Owners
  <1>2. DiskInv /\ [Next]_vars => [Lease!LeaseNext]_(Lease!leaseVars)
    BY StepMaps
  <1> QED
    BY <1>1, <1>2, DiskInvariant, PTL DEF Spec, ImplementsLease, Lease!LeaseSpec
===============================================================================
