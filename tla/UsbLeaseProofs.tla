---------------------------- MODULE UsbLeaseProofs ----------------------------
(***************************************************************************)
(* Proofs about UsbLease for every number of connections and ports, every  *)
(* policy kind and every bound.                                            *)
(***************************************************************************)
EXTENDS UsbLease, FiniteSetTheorems, TLAPS

\* What a bind and an unbind leave is an export table again.
LEMMA WithdrawnType ==
    ASSUME TypeOK, NEW b \in Busids
    PROVE  /\ Withdrawn(b) \in [Busids -> {"none", "lease", "manual", "orphan"}]
           /\ UnbindResults(b) \subseteq [Busids -> {"none", "lease", "manual", "orphan"}]
           /\ \A who \in {"lease", "manual"} :
                BindResult(b, who) \in [Busids -> {"none", "lease", "manual", "orphan"}]
  BY DEF TypeOK, Withdrawn, UnbindResults, BindResult

\* Ending a claim leaves a reference table and an export table.
LEMMA DropClaimType ==
    ASSUME TypeOK, NEW b \in Busids, DropClaim(b)
    PROVE  /\ refs' \in [Busids -> Nat]
           /\ export' \in [Busids -> {"none", "lease", "manual", "orphan"}]
  <1>1. refs \in [Busids -> Nat] /\ export \in [Busids -> {"none", "lease", "manual", "orphan"}]
    BY DEF TypeOK
  <1>2. CASE refs[b] <= 1
    BY <1>1, <1>2, WithdrawnType DEF DropClaim
  <1>3. CASE ~(refs[b] <= 1)
    <2>1. refs[b] - 1 \in Nat
      BY <1>1, <1>3
    <2> QED
      BY <1>1, <1>3, <2>1 DEF DropClaim
  <1> QED
    BY <1>2, <1>3

LEMMA InitType == Init => TypeOK
  BY DEF Init, TypeOK, States, Critical

LEMMA SyncType ==
    ASSUME TypeOK, NEW c \in Clients, SyncStep(c)
    PROVE  TypeOK'
  <1> USE DEF TypeOK, States, Critical, Goto, Reply, Hang, Spend,
              helperVars, clientVars, outside
  <1>1. CASE SyncRead(c)
    BY <1>1 DEF SyncRead, Offered
  <1>2. CASE SyncLock(c)
    BY <1>2 DEF SyncLock
  <1>3. CASE SyncDropped(c)
    BY <1>3 DEF SyncDropped, Leased
  <1>4. CASE SyncNoDaemon(c)
    BY <1>4 DEF SyncNoDaemon
  <1>5. CASE SyncListHang(c)
    BY <1>5 DEF SyncListHang
  <1>6. CASE SyncList(c)
    BY <1>6 DEF SyncList, Bound
  <1>7. CASE SyncDone(c)
    BY <1>7 DEF SyncDone, Leased
  <1>8. ASSUME NEW b \in Busids, SyncDrop(c, b)
        PROVE  TypeOK'
    <2>1. /\ refs' \in [Busids -> Nat]
          /\ export' \in [Busids -> {"none", "lease", "manual", "orphan"}]
      BY <1>8, DropClaimType DEF SyncDrop
    <2> QED
      BY <1>8, <2>1 DEF SyncDrop
  <1>9. ASSUME NEW b \in Busids, SyncDropHang(c, b)
        PROVE  TypeOK'
    BY <1>9, WithdrawnType DEF SyncDropHang
  <1>10. ASSUME NEW b \in Busids, SyncShareClaim(c, b)
         PROVE  TypeOK'
    BY <1>10 DEF SyncShareClaim, Visit
  <1>11. ASSUME NEW b \in Busids, SyncBind(c, b)
         PROVE  TypeOK'
    <2>1. BindResult(b, "lease") \in [Busids -> {"none", "lease", "manual", "orphan"}]
      BY WithdrawnType
    <2>2. /\ refs' \in [Busids -> Nat]
          /\ owned' \in [Clients -> SUBSET Busids]
      BY <1>11 DEF SyncBind
    <2> QED
      BY <1>11, <2>1, <2>2 DEF SyncBind, Visit
  <1>12. ASSUME NEW b \in Busids, SyncBindFails(c, b)
         PROVE  TypeOK'
    BY <1>12 DEF SyncBindFails, Visit
  <1>13. ASSUME NEW b \in Busids, SyncBindHang(c, b)
         PROVE  TypeOK'
    BY <1>13, WithdrawnType DEF SyncBindHang
  <1> QED
    BY <1>1, <1>2, <1>3, <1>4, <1>5, <1>6, <1>7, <1>8, <1>9, <1>10, <1>11,
       <1>12, <1>13 DEF SyncStep

LEMMA ReleaseType ==
    ASSUME TypeOK, NEW c \in Clients, ReleaseStep(c)
    PROVE  TypeOK'
  <1> USE DEF TypeOK, States, Critical, Goto, Hang, Spend,
              helperVars, clientVars, outside
  <1>1. CASE ReleaseLock(c)
    BY <1>1 DEF ReleaseLock
  <1>2. CASE ReleaseDone(c)
    BY <1>2 DEF ReleaseDone, Leased
  <1>3. ASSUME NEW b \in Busids, ReleaseDrop(c, b)
        PROVE  TypeOK'
    <2>1. /\ refs' \in [Busids -> Nat]
          /\ export' \in [Busids -> {"none", "lease", "manual", "orphan"}]
      BY <1>3, DropClaimType DEF ReleaseDrop
    <2> QED
      BY <1>3, <2>1 DEF ReleaseDrop
  <1>4. ASSUME NEW b \in Busids, ReleaseHang(c, b)
        PROVE  TypeOK'
    BY <1>4, WithdrawnType DEF ReleaseHang
  <1> QED
    BY <1>1, <1>2, <1>3, <1>4 DEF ReleaseStep

LEMMA RestartType ==
    ASSUME TypeOK, RestartStep \/ Crash
    PROVE  TypeOK'
  <1> USE DEF TypeOK, States, Critical, Hang, Spend, Die,
              helperVars, clientVars, outside
  <1>1. CASE Restart
    BY <1>1 DEF Restart
  <1>2. CASE RecoverDone
    BY <1>2 DEF RecoverDone
  <1>3. ASSUME NEW b \in Busids, RecoverUnbind(b)
        PROVE  TypeOK'
    BY <1>3, WithdrawnType DEF RecoverUnbind
  <1>4. ASSUME NEW b \in Busids, RecoverHang(b)
        PROVE  TypeOK'
    BY <1>4, WithdrawnType DEF RecoverHang
  <1>5. CASE Crash
    <2>1. export' \in [Busids -> {"none", "lease", "manual", "orphan"}]
      BY <1>5 DEF Crash
    <2> QED
      BY <1>5, <2>1 DEF Crash
  <1> QED
    BY <1>1, <1>2, <1>3, <1>4, <1>5 DEF RestartStep

LEMMA OutsideType ==
    ASSUME TypeOK, OutsideStep
    PROVE  TypeOK'
  <1> USE DEF TypeOK, OutsideOp, Spend, helperVars, clientVars
  <1>1. CASE HandbackList
    BY <1>1 DEF HandbackList, Bound
  <1>2. ASSUME NEW enabled \in BOOLEAN, NEW pol \in {"safe", "all"},
               Autoshare(enabled, pol)
        PROVE  TypeOK'
    BY <1>2 DEF Autoshare
  <1>3. ASSUME NEW b \in Busids, Share(b)
        PROVE  TypeOK'
    <2>1. export' \in [Busids -> {"none", "lease", "manual", "orphan"}]
      BY <1>3, WithdrawnType DEF Share
    <2> QED
      BY <1>3, <2>1 DEF Share, outside
  <1>4. ASSUME NEW b \in Busids, Unshare(b)
        PROVE  TypeOK'
    BY <1>4, WithdrawnType DEF Unshare, outside
  <1>5. ASSUME NEW b \in Busids, HandbackUnbind(b)
        PROVE  TypeOK'
    BY <1>5, WithdrawnType DEF HandbackUnbind
  <1>6. ASSUME NEW b \in Busids, Plug(b)
        PROVE  TypeOK'
    BY <1>6 DEF Plug
  <1>7. ASSUME NEW b \in Busids, Unplug(b)
        PROVE  TypeOK'
    BY <1>7, WithdrawnType DEF Unplug
  <1> QED
    BY <1>1, <1>2, <1>3, <1>4, <1>5, <1>6, <1>7 DEF OutsideStep

LEMMA ConnectType ==
    ASSUME TypeOK, NEW c \in Clients, Connect(c) \/ Disconnect(c)
    PROVE  TypeOK'
  BY DEF TypeOK, Connect, Disconnect, Goto, States, Critical,
         helperVars, outside

LEMMA TypeStep ==
    ASSUME TypeOK, [Next]_vars
    PROVE  TypeOK'
  <1>1. CASE LeaseStep
    BY <1>1, SyncType, ReleaseType, RestartType DEF LeaseStep
  <1>2. CASE OutsideStep
    BY <1>2, OutsideType
  <1>3. CASE Crash
    BY <1>3, RestartType
  <1>4. CASE \E c \in Clients : Connect(c) \/ Disconnect(c)
    BY <1>4, ConnectType
  <1>5. CASE UNCHANGED vars
    BY <1>5 DEF TypeOK, vars, clientVars, helperVars, outside
  <1> QED
    BY <1>1, <1>2, <1>3, <1>4, <1>5 DEF Next

\* Every reachable state is well typed, whatever the policy, the failures and
\* the bounds.
THEOREM TypeCorrect == Spec => []TypeOK
  <1>1. TypeOK /\ [Next]_vars => TypeOK'
    BY TypeStep
  <1> QED
    BY <1>1, InitType, PTL DEF Spec

(***************************************************************************)
(* The reference table.  RefsCountHolders alone is not inductive: a turn   *)
(* of the loop over owned - wanted must be known to end a claim that is    *)
(* there, a new connection must start without claims, recovery must not    *)
(* clear a table in use, and what the journal says at an early exit        *)
(* depends on no other thread being inside the lock.                       *)
(***************************************************************************)
LockOnce ==
    \A c, d \in Clients : pc[c] \in Critical /\ pc[d] \in Critical => c = d

TodoOwned == \A c \in Clients : pc[c] = "drop" => todo[c] \subseteq owned[c]

ClosedOwnsNothing == \A c \in Clients : pc[c] = "closed" => owned[c] = {}

ServingOnly == helper # "serving" => \A c \in Clients : pc[c] = "closed"

\* Nobody is between a change of the table and the write that follows it.
Settled == \A c \in Clients : pc[c] \notin {"drop", "bind", "release"}

JournalSettled == helper = "serving" /\ Settled => journal = Leased

\* No usbip call has exceeded its timeout so far.
Unhung == spent["hangs"] = 0

Control == LockOnce /\ TodoOwned /\ ClosedOwnsNothing /\ ServingOnly

CountInv == TypeOK /\ Control /\ RefsCountHolders /\ JournalSettled

\* Each set of holders is finite, so its cardinality is a number.
LEMMA HoldersFinite ==
    \A b \in Busids : IsFiniteSet(Holders(b)) /\ Cardinality(Holders(b)) \in Nat
  <1> TAKE b \in Busids
  <1>1. Holders(b) \in SUBSET Clients
    BY DEF Holders
  <1>2. IsFiniteSet(Holders(b))
    BY <1>1, ClientsFinite, FS_Subset
  <1> QED
    BY <1>2, FS_CardinalityType

\* A step that touches neither the table nor anybody's claims.
LEMMA SameClaims ==
    ASSUME RefsCountHolders, refs' = refs,
           \A c \in Clients : Claims(c)' = Claims(c)
    PROVE  RefsCountHolders'
  <1>1. \A b \in Busids : Holders(b)' = Holders(b)
    BY DEF Holders
  <1> QED
    BY <1>1 DEF RefsCountHolders

\* A step that counts one more claim and gives it to one connection.
LEMMA GainClaim ==
    ASSUME TypeOK, RefsCountHolders,
           NEW c \in Clients, NEW b \in Busids, b \notin Claims(c),
           refs' = [refs EXCEPT ![b] = refs[b] + 1],
           Claims(c)' = Claims(c) \cup {b},
           \A d \in Clients \ {c} : Claims(d)' = Claims(d)
    PROVE  RefsCountHolders'
  <1>1. Holders(b)' = Holders(b) \cup {c} /\ c \notin Holders(b)
    BY DEF Holders
  <1>2. Cardinality(Holders(b)') = Cardinality(Holders(b)) + 1
    BY <1>1, HoldersFinite, FS_AddElement
  <1>3. \A a \in Busids \ {b} : Holders(a)' = Holders(a)
    BY DEF Holders
  <1>4. /\ refs'[b] = refs[b] + 1
        /\ \A a \in Busids \ {b} : refs'[a] = refs[a]
    BY DEF TypeOK
  <1>5. refs'[b] = Cardinality(Holders(b)')
    BY <1>2, <1>4 DEF RefsCountHolders
  <1>6. \A a \in Busids \ {b} : refs'[a] = Cardinality(Holders(a)')
    BY <1>3, <1>4 DEF RefsCountHolders
  <1> QED
    BY <1>5, <1>6 DEF RefsCountHolders

\* A step that ends one connection's claim through DropClaim.
LEMMA LoseClaim ==
    ASSUME TypeOK, RefsCountHolders,
           NEW c \in Clients, NEW b \in Busids, b \in Claims(c),
           DropClaim(b),
           Claims(c)' = Claims(c) \ {b},
           \A d \in Clients \ {c} : Claims(d)' = Claims(d)
    PROVE  RefsCountHolders'
  <1>1. Holders(b)' = Holders(b) \ {c} /\ c \in Holders(b)
    BY DEF Holders
  <1>2. Cardinality(Holders(b)') = Cardinality(Holders(b)) - 1
    BY <1>1, HoldersFinite, FS_RemoveElement
  <1>3. Cardinality(Holders(b)) # 0
    BY <1>1, HoldersFinite, FS_EmptySet
  <1>4. \A a \in Busids \ {b} : Holders(a)' = Holders(a)
    BY DEF Holders
  <1>5. refs[b] = Cardinality(Holders(b)) /\ refs[b] \in Nat
    BY DEF RefsCountHolders, TypeOK
  <1>6. /\ refs'[b] = refs[b] - 1
        /\ \A a \in Busids \ {b} : refs'[a] = refs[a]
    <2>1. CASE refs[b] <= 1
      BY <2>1, <1>3, <1>5 DEF DropClaim, TypeOK
    <2>2. CASE ~(refs[b] <= 1)
      BY <2>2 DEF DropClaim, TypeOK
    <2> QED
      BY <2>1, <2>2
  <1>7. refs'[b] = Cardinality(Holders(b)')
    BY <1>2, <1>5, <1>6
  <1>8. \A a \in Busids \ {b} : refs'[a] = Cardinality(Holders(a)')
    BY <1>4, <1>6 DEF RefsCountHolders
  <1> QED
    BY <1>7, <1>8 DEF RefsCountHolders

\* A step after which nobody claims anything and the table is empty.
LEMMA NoClaims ==
    ASSUME refs' = [b \in Busids |-> 0],
           \A c \in Clients : Claims(c)' = {}
    PROVE  RefsCountHolders'
  <1>1. \A b \in Busids : Holders(b)' = {}
    BY DEF Holders
  <1> QED
    BY <1>1, FS_EmptySet DEF RefsCountHolders

\* Who is where: the lock admits one thread, a dropping thread works on what
\* it owns, closed connections own nothing, and only a serving helper has
\* connections.
LEMMA ControlSync ==
    ASSUME TypeOK, Control, NEW c \in Clients, SyncStep(c)
    PROVE  Control'
  <1> USE DEF TypeOK, Control, LockOnce, TodoOwned, ClosedOwnsNothing, ServingOnly,
              LockFree, States, Critical, Goto, Reply, clientVars
  <1>1. CASE SyncRead(c)
    BY <1>1 DEF SyncRead
  <1>2. CASE SyncLock(c)
    BY <1>2 DEF SyncLock
  <1>3. CASE SyncDropped(c)
    BY <1>3 DEF SyncDropped
  <1>4. CASE SyncNoDaemon(c)
    BY <1>4 DEF SyncNoDaemon
  <1>5. CASE SyncListHang(c)
    BY <1>5 DEF SyncListHang
  <1>6. CASE SyncList(c)
    BY <1>6 DEF SyncList
  <1>7. CASE SyncDone(c)
    BY <1>7 DEF SyncDone
  <1>8. ASSUME NEW b \in Busids, SyncDrop(c, b)
        PROVE  Control'
    BY <1>8 DEF SyncDrop
  <1>9. ASSUME NEW b \in Busids, SyncDropHang(c, b)
        PROVE  Control'
    BY <1>9 DEF SyncDropHang
  <1>10. ASSUME NEW b \in Busids, SyncShareClaim(c, b)
        PROVE  Control'
    BY <1>10 DEF SyncShareClaim, Visit
  <1>11. ASSUME NEW b \in Busids, SyncBind(c, b)
        PROVE  Control'
    BY <1>11 DEF SyncBind, Visit
  <1>12. ASSUME NEW b \in Busids, SyncBindFails(c, b)
        PROVE  Control'
    BY <1>12 DEF SyncBindFails, Visit
  <1>13. ASSUME NEW b \in Busids, SyncBindHang(c, b)
        PROVE  Control'
    BY <1>13 DEF SyncBindHang
  <1> QED
    BY <1>1, <1>2, <1>3, <1>4, <1>5, <1>6, <1>7, <1>8, <1>9, <1>10, <1>11,
       <1>12, <1>13 DEF SyncStep

LEMMA ControlRelease ==
    ASSUME TypeOK, Control, NEW c \in Clients,
           ReleaseStep(c) \/ Connect(c) \/ Disconnect(c)
    PROVE  Control'
  <1> USE DEF TypeOK, Control, LockOnce, TodoOwned, ClosedOwnsNothing, ServingOnly,
              LockFree, States, Critical, Goto
  <1>1. CASE ReleaseLock(c)
    BY <1>1 DEF ReleaseLock
  <1>2. CASE ReleaseDone(c)
    BY <1>2 DEF ReleaseDone
  <1>3. CASE Connect(c)
    BY <1>3 DEF Connect
  <1>4. CASE Disconnect(c)
    BY <1>4 DEF Disconnect
  <1>5. ASSUME NEW b \in Busids, ReleaseDrop(c, b)
        PROVE  Control'
    BY <1>5 DEF ReleaseDrop
  <1>6. ASSUME NEW b \in Busids, ReleaseHang(c, b)
        PROVE  Control'
    BY <1>6 DEF ReleaseHang
  <1> QED
    BY <1>1, <1>2, <1>3, <1>4, <1>5, <1>6 DEF ReleaseStep

LEMMA ControlOther ==
    ASSUME TypeOK, Control, RestartStep \/ Crash \/ OutsideStep \/ UNCHANGED vars
    PROVE  Control'
  <1>1. \/ UNCHANGED <<pc, owned, todo>> /\ (helper' # helper => helper' = "serving" \/ helper = "down")
        \/ /\ pc' = [c \in Clients |-> "closed"]
           /\ owned' = [c \in Clients |-> {}]
    BY DEF RestartStep, Restart, RecoverDone, RecoverUnbind, RecoverHang, Crash, Die,
           OutsideStep, HandbackList, Autoshare, Share, Unshare, HandbackUnbind,
           Plug, Unplug, vars, clientVars
  <1> QED
    BY <1>1 DEF TypeOK, Control, LockOnce, TodoOwned, ClosedOwnsNothing, ServingOnly, Critical

\* The table counts the holders through every step of a sync ...
LEMMA CountSync ==
    ASSUME ~Hang, TypeOK, Control, RefsCountHolders,
           NEW c \in Clients, SyncStep(c)
    PROVE  RefsCountHolders'
  <1> USE DEF TypeOK, Goto, Reply, clientVars, helperVars
  <1>2. CASE \/ SyncRead(c) \/ SyncLock(c) \/ SyncDropped(c) \/ SyncNoDaemon(c)
             \/ SyncList(c) \/ SyncDone(c)
    <2>1. refs' = refs /\ \A d \in Clients : Claims(d)' = Claims(d)
      BY <1>2 DEF SyncRead, SyncLock, SyncDropped, SyncNoDaemon, SyncList, SyncDone, Claims
    <2> QED
      BY <2>1, SameClaims
  <1>3. ASSUME NEW b \in Busids, SyncDrop(c, b)
        PROVE  RefsCountHolders'
    <2>1. b \in Claims(c) /\ DropClaim(b)
      BY <1>3 DEF SyncDrop, Control, TodoOwned, Claims
    <2>2. /\ Claims(c)' = Claims(c) \ {b}
          /\ \A d \in Clients \ {c} : Claims(d)' = Claims(d)
      BY <1>3 DEF SyncDrop, Claims
    <2> QED
      BY <2>1, <2>2, LoseClaim
  <1>4. ASSUME NEW b \in Busids, SyncShareClaim(c, b) \/ SyncBind(c, b)
        PROVE  RefsCountHolders'
    <2>1. CASE owned' = owned /\ refs' = refs
      <3>1. \A d \in Clients : Claims(d)' = Claims(d)
        BY <1>4, <2>1 DEF SyncShareClaim, SyncBind, Visit, Claims
      <3> QED
        BY <2>1, <3>1, SameClaims
    <2>2. CASE ~(owned' = owned /\ refs' = refs)
      <3>1. /\ b \notin owned[c] /\ pc[c] = "bind" /\ pc' = pc
            /\ owned' = [owned EXCEPT ![c] = owned[c] \cup {b}]
            /\ todo' = [todo EXCEPT ![c] = todo[c] \ {b}]
            /\ refs' = [refs EXCEPT ![b] = refs[b] + 1]
        BY <1>4, <2>2 DEF SyncShareClaim, SyncBind, Visit, NeedsBind
      <3>2. b \notin Claims(c) /\ Claims(c)' = Claims(c) \cup {b}
        BY <3>1 DEF Claims
      <3>3. \A d \in Clients \ {c} : Claims(d)' = Claims(d)
        BY <3>1 DEF Claims
      <3> QED
        BY <3>1, <3>2, <3>3, GainClaim
    <2> QED
      BY <2>1, <2>2
  <1>5. ASSUME NEW b \in Busids, SyncBindFails(c, b)
        PROVE  RefsCountHolders'
    <2>1. refs' = refs /\ \A d \in Clients : Claims(d)' = Claims(d)
      BY <1>5 DEF SyncBindFails, Visit, Claims
    <2> QED
      BY <2>1, SameClaims
  <1> QED
    BY <1>2, <1>3, <1>4, <1>5
       DEF SyncStep, SyncListHang, SyncDropHang, SyncBindHang

\* ... of a teardown or a new connection ...
LEMMA CountRelease ==
    ASSUME ~Hang, TypeOK, Control, RefsCountHolders,
           NEW c \in Clients, ReleaseStep(c) \/ Connect(c) \/ Disconnect(c)
    PROVE  RefsCountHolders'
  <1> USE DEF TypeOK, Goto, helperVars
  <1>2. CASE ReleaseLock(c) \/ ReleaseDone(c) \/ Connect(c) \/ Disconnect(c)
    <2>1. refs' = refs /\ \A d \in Clients : Claims(d)' = Claims(d)
      BY <1>2 DEF ReleaseLock, ReleaseDone, Connect, Disconnect, Claims
    <2> QED
      BY <2>1, SameClaims
  <1>3. ASSUME NEW b \in Busids, ReleaseDrop(c, b)
        PROVE  RefsCountHolders'
    <2>1. b \in Claims(c) /\ DropClaim(b)
      BY <1>3 DEF ReleaseDrop, Claims
    <2>2. /\ Claims(c)' = Claims(c) \ {b}
          /\ \A d \in Clients \ {c} : Claims(d)' = Claims(d)
      BY <1>3 DEF ReleaseDrop, Claims
    <2> QED
      BY <2>1, <2>2, LoseClaim
  <1> QED
    BY <1>2, <1>3 DEF ReleaseStep, ReleaseHang

\* ... and of everything else; recovery clears the table of a helper that has
\* no connection yet.
LEMMA CountOther ==
    ASSUME TypeOK, Control, RefsCountHolders,
           RestartStep \/ Crash \/ OutsideStep \/ UNCHANGED vars
    PROVE  RefsCountHolders'
  <1>1. CASE RecoverDone
    <2>1. \A c \in Clients : Claims(c)' = {}
      BY <1>1 DEF RecoverDone, Control, ServingOnly, ClosedOwnsNothing, Claims, clientVars
    <2> QED
      BY <1>1, <2>1, NoClaims DEF RecoverDone
  <1>2. CASE Die
    BY <1>2, NoClaims DEF Die, Claims
  <1>3. CASE UNCHANGED <<refs, pc, owned, todo>>
    BY <1>3, SameClaims DEF Claims
  <1> QED
    BY <1>1, <1>2, <1>3
       DEF RestartStep, Restart, RecoverUnbind, RecoverHang, Crash, OutsideStep,
           HandbackList, Autoshare, Share, Unshare, HandbackUnbind, Plug, Unplug,
           vars, clientVars, helperVars

\* The journal: the writes at the end of the two loops of a sync and of a
\* teardown settle it, and an early exit leaves it settled.
LEMMA JournalThread ==
    ASSUME ~Hang, TypeOK, Control, JournalSettled, NEW c \in Clients,
           SyncStep(c) \/ ReleaseStep(c) \/ Connect(c) \/ Disconnect(c)
    PROVE  JournalSettled'
  <1> USE DEF TypeOK, Goto, Reply, clientVars, helperVars
  <1>2. CASE \/ SyncRead(c) \/ SyncNoDaemon(c) \/ Connect(c) \/ Disconnect(c)
    <2>1. /\ UNCHANGED <<helper, journal, refs>>
          /\ pc[c] \notin {"drop", "bind", "release"}
          /\ \A d \in Clients \ {c} : pc'[d] = pc[d]
      BY <1>2 DEF SyncRead, SyncNoDaemon, Connect, Disconnect
    <2> QED
      BY <2>1 DEF JournalSettled, Settled, Leased
  <1>3. CASE \/ SyncLock(c) \/ SyncList(c) \/ ReleaseLock(c)
             \/ \E b \in Busids : \/ SyncDrop(c, b) \/ SyncShareClaim(c, b)
                                  \/ SyncBind(c, b) \/ SyncBindFails(c, b)
                                  \/ ReleaseDrop(c, b)
    <2>1. pc'[c] \in {"drop", "bind", "release"}
      BY <1>3 DEF SyncLock, SyncList, ReleaseLock, SyncDrop, SyncShareClaim,
                  SyncBind, SyncBindFails, Visit, ReleaseDrop
    <2> QED
      BY <2>1 DEF JournalSettled, Settled
  <1>4. CASE SyncDropped(c) \/ SyncDone(c) \/ ReleaseDone(c)
    <2>1. journal' = Leased /\ refs' = refs
      BY <1>4 DEF SyncDropped, SyncDone, ReleaseDone
    <2> QED
      BY <2>1 DEF JournalSettled, Leased
  <1> QED
    BY <1>2, <1>3, <1>4
       DEF SyncStep, ReleaseStep, SyncListHang, SyncDropHang, SyncBindHang, ReleaseHang

LEMMA JournalOther ==
    ASSUME TypeOK, Control, JournalSettled,
           RestartStep \/ Crash \/ OutsideStep \/ UNCHANGED vars
    PROVE  JournalSettled'
  <1>1. CASE RecoverDone
    BY <1>1 DEF RecoverDone, JournalSettled, Leased
  <1>2. CASE Die
    BY <1>2 DEF Die, JournalSettled
  <1>3. CASE Restart
    BY <1>3 DEF Restart, JournalSettled
  <1>4. CASE UNCHANGED <<helper, pc, refs, journal>>
    BY <1>4 DEF JournalSettled, Settled, Leased
  <1> QED
    BY <1>1, <1>2, <1>3, <1>4
       DEF RestartStep, RecoverUnbind, RecoverHang, Crash, OutsideStep,
           HandbackList, Autoshare, Share, Unshare, HandbackUnbind, Plug, Unplug,
           vars, clientVars, helperVars

LEMMA CountInit == Init => CountInv
  <1> SUFFICES ASSUME Init
               PROVE  CountInv
    OBVIOUS
  <1>1. TypeOK
    BY InitType
  <1>2. Control
    BY DEF Init, Control, LockOnce, TodoOwned, ClosedOwnsNothing, ServingOnly, Critical
  <1>3. RefsCountHolders
    <2>1. \A b \in Busids : Holders(b) = {}
      BY DEF Init, Holders, Claims
    <2> QED
      BY <2>1, FS_EmptySet DEF Init, RefsCountHolders
  <1>4. JournalSettled
    BY DEF Init, JournalSettled
  <1> QED
    BY <1>1, <1>2, <1>3, <1>4 DEF CountInv

\* A step after which no call has hung yet is not one of a hanging call.
LEMMA NoHangStep ==
    ASSUME TypeOK, [Next]_vars, Unhung'
    PROVE  ~Hang /\ Unhung
  <1>1. ~Hang
    BY DEF Hang, Spend, TypeOK, Unhung
  <1>2. \/ spent' = spent
        \/ \E what \in {"crashes", "hangs", "ops"} : Spend(what)
    BY DEF Next, LeaseStep, SyncStep, ReleaseStep, RestartStep, OutsideStep,
           SyncRead, SyncLock, SyncDrop, SyncDropHang, SyncDropped, SyncNoDaemon,
           SyncListHang, SyncList, Visit, SyncShareClaim, SyncBind, SyncBindFails,
           SyncBindHang, SyncDone, ReleaseLock, ReleaseDrop, ReleaseHang,
           ReleaseDone, Restart, RecoverUnbind, RecoverHang, RecoverDone, Crash,
           HandbackList, Autoshare, Share, Unshare, HandbackUnbind, Plug, Unplug,
           OutsideOp, Hang, Connect, Disconnect, vars
  <1>3. spent["hangs"] <= spent'["hangs"]
    BY <1>2 DEF Spend, TypeOK
  <1> QED
    BY <1>1, <1>3 DEF Unhung, TypeOK

\* With a bound of zero no call ever hangs.
LEMMA NeverHung == MaxHangs = 0 => (Spec => []Unhung)
  <1> SUFFICES ASSUME MaxHangs = 0
               PROVE  Spec => []Unhung
    OBVIOUS
  <1>1. Init => Unhung
    BY DEF Init, Unhung
  <1>2. TypeOK /\ Unhung /\ [Next]_vars => Unhung'
    <2> SUFFICES ASSUME TypeOK, Unhung, [Next]_vars
                 PROVE  Unhung'
      OBVIOUS
    <2>1. \/ spent' = spent
          \/ \E what \in {"crashes", "ops"} : Spend(what)
      BY DEF Next, LeaseStep, SyncStep, ReleaseStep, RestartStep, OutsideStep,
             SyncRead, SyncLock, SyncDrop, SyncDropHang, SyncDropped, SyncNoDaemon,
             SyncListHang, SyncList, Visit, SyncShareClaim, SyncBind, SyncBindFails,
             SyncBindHang, SyncDone, ReleaseLock, ReleaseDrop, ReleaseHang,
             ReleaseDone, Restart, RecoverUnbind, RecoverHang, RecoverDone, Crash,
             HandbackList, Autoshare, Share, Unshare, HandbackUnbind, Plug, Unplug,
             OutsideOp, Hang, Connect, Disconnect, vars, TypeOK
    <2> QED
      BY <2>1 DEF Spend, TypeOK, Unhung
  <1> QED
    BY <1>1, <1>2, TypeCorrect, PTL DEF Spec

LEMMA CountStep ==
    ASSUME TypeOK, Unhung => CountInv, [Next]_vars, Unhung'
    PROVE  CountInv'
  <1>1. ~Hang /\ CountInv
    BY NoHangStep
  <1> USE <1>1 DEF CountInv
  <1>2. TypeOK'
    BY TypeStep
  <1>3. Control'
    BY ControlSync, ControlRelease, ControlOther DEF Next, LeaseStep
  <1>4. RefsCountHolders'
    BY CountSync, CountRelease, CountOther DEF Next, LeaseStep
  <1>5. JournalSettled'
    BY JournalThread, JournalOther DEF Next, LeaseStep
  <1> QED
    BY <1>2, <1>3, <1>4, <1>5

\* The invariant holds in every reachable state before which no usbip call
\* exceeded its timeout, however many may do so later.
THEOREM CountInvariant == Spec => [](Unhung => CountInv)
  <1>1. TypeOK /\ (Unhung => CountInv) /\ [Next]_vars => (Unhung => CountInv)'
    BY CountStep
  <1> QED
    BY <1>1, CountInit, TypeCorrect, PTL DEF Spec

\* Without such a timeout the reference table counts exactly the connections
\* that claim each device, for any number of overlapping sessions.
THEOREM CountCorrect == MaxHangs = 0 => (Spec => []RefsCountHolders)
  <1> SUFFICES ASSUME MaxHangs = 0
               PROVE  Spec => []RefsCountHolders
    OBVIOUS
  <1>1. CountInv => RefsCountHolders
    BY DEF CountInv
  <1>2. Spec => []Unhung
    BY NeverHung
  <1> QED
    BY <1>1, <1>2, CountInvariant, PTL

\* Without such a timeout the journal names exactly the leased devices
\* whenever the lock is free.
THEOREM JournalCorrect == MaxHangs = 0 => (Spec => []JournalIsLease)
  <1> SUFFICES ASSUME MaxHangs = 0
               PROVE  Spec => []JournalIsLease
    OBVIOUS
  <1>1. CountInv => JournalIsLease
    BY DEF CountInv, JournalSettled, Settled, JournalIsLease, LockFree, Critical
  <1>2. Spec => []Unhung
    BY NeverHung
  <1> QED
    BY <1>1, <1>2, CountInvariant, PTL

\* A claim that ends takes a device away only with its last reference.
LEMMA DropWithdraws ==
    ASSUME TypeOK, NEW a \in Busids, DropClaim(a),
           NEW b \in Busids, export[b] # "none", export'[b] = "none"
    PROVE  refs'[b] = 0
  <1>1. export' # export
    OBVIOUS
  <1>2. refs[a] <= 1 /\ refs' = [refs EXCEPT ![a] = 0] /\ export' \in UnbindResults(a)
    BY <1>1 DEF DropClaim
  <1>4. a = b
    BY <1>2 DEF UnbindResults, Withdrawn, TypeOK
  <1> QED
    BY <1>2, <1>4 DEF TypeOK

LEMMA SyncWithdraws ==
    ASSUME ~Hang, TypeOK, NEW c \in Clients, SyncStep(c) \/ ReleaseStep(c),
           NEW b \in Busids, export[b] # "none", export'[b] = "none"
    PROVE  refs'[b] = 0
  <1>2. ~UNCHANGED export
    OBVIOUS
  <1>3. CASE \E a \in Busids : SyncDrop(c, a) \/ ReleaseDrop(c, a)
    BY <1>3, DropWithdraws DEF SyncDrop, ReleaseDrop
  <1>4. CASE \E a \in Busids : SyncBind(c, a)
    <2>1. PICK a \in Busids : export' = BindResult(a, "lease")
      BY <1>4 DEF SyncBind
    <2>2. export'[b] # "none"
      BY <2>1 DEF BindResult, TypeOK
    <2> QED
      BY <2>2
  <1> QED
    BY <1>2, <1>3, <1>4
       DEF SyncStep, ReleaseStep, SyncRead, SyncLock, SyncDropped, SyncNoDaemon,
           SyncListHang, SyncList, SyncDone, SyncDropHang, SyncShareClaim,
           SyncBindFails, SyncBindHang, ReleaseLock, ReleaseDone, ReleaseHang

\* Without such a timeout one session's end or policy change never takes a
\* device away from another session, nor does recovery.
THEOREM LastOwnerCorrect == MaxHangs = 0 => (Spec => LastOwnerWithdraws)
  <1> SUFFICES ASSUME MaxHangs = 0
               PROVE  Spec => LastOwnerWithdraws
    OBVIOUS
  <1>1. CountInv /\ CountInv' /\ [Next]_vars
        => [LeaseStep => \A b \in Bound \ Bound' : Holders(b)' = {}]_vars
    <2> SUFFICES ASSUME CountInv, CountInv', LeaseStep, NEW b \in Bound \ Bound'
                 PROVE  Holders(b)' = {}
      OBVIOUS
    <2> ~Hang
      BY DEF Hang, CountInv, TypeOK
    <2>1. b \in Busids /\ export[b] # "none" /\ export'[b] = "none"
      BY DEF Bound
    <2>2. CASE \E c \in Clients : SyncStep(c) \/ ReleaseStep(c)
      <3>1. refs'[b] = 0
        BY <2>1, <2>2, SyncWithdraws DEF CountInv
      <3>2. Cardinality(Holders(b)') = 0
        BY <2>1, <3>1 DEF CountInv, RefsCountHolders
      <3>3. IsFiniteSet(Holders(b)')
        <4>1. Holders(b)' \in SUBSET Clients
          BY DEF Holders
        <4> QED
          BY <4>1, ClientsFinite, FS_Subset
      <3> QED
        BY <3>2, <3>3, FS_EmptySet
    <2>3. CASE RestartStep
      <3>1. (helper # "serving" /\ UNCHANGED <<pc, owned, todo>>) \/ Die
        BY <2>3 DEF RestartStep, Restart, RecoverDone, RecoverUnbind, RecoverHang, clientVars
      <3>2. \A c \in Clients : Claims(c)' = {}
        BY <3>1 DEF CountInv, Control, ServingOnly, ClosedOwnsNothing, Claims, Die
      <3> QED
        BY <3>2 DEF Holders
    <2> QED
      BY <2>2, <2>3 DEF LeaseStep
  <1>2. Spec => []Unhung
    BY NeverHung
  <1> QED
    BY <1>1, <1>2, CountInvariant, PTL DEF Spec, LastOwnerWithdraws

(***************************************************************************)
(* Orphans.  What the lease has exported and not given up is backed by     *)
(* something that will hand it back: a reference while the helper serves,  *)
(* the journal while it is down, the list it still has to go through while *)
(* it recovers.                                                            *)
(***************************************************************************)
Backed ==
    /\ helper = "serving" => LeaseExports \subseteq Leased
    /\ helper # "serving" => Leased = {}
    /\ helper = "down" => LeaseExports \subseteq journal
    /\ helper = "recovering" => LeaseExports \subseteq stale /\ stale \subseteq journal

\* A step that exports nothing for the lease and forgets nothing it needs.
LEMMA SameBacking ==
    ASSUME Backed, LeaseExports' \subseteq LeaseExports,
           UNCHANGED <<helper, refs, journal, stale>>
    PROVE  Backed'
  BY DEF Backed, Leased

\* An unbind by the lease ends its hold on the device, done or refused.
LEMMA UnbindExports ==
    ASSUME TypeOK, NEW b \in Busids, export' \in UnbindResults(b)
    PROVE  LeaseExports' = LeaseExports \ {b}
  BY DEF TypeOK, UnbindResults, Withdrawn, LeaseExports

\* The end of a claim: the last one unbinds the device.
LEMMA DropBacked ==
    ASSUME TypeOK, Backed, helper = "serving",
           NEW b \in Busids, DropClaim(b), UNCHANGED <<helper, journal, stale>>
    PROVE  Backed'
  <1>1. LeaseExports \subseteq Leased
    BY DEF Backed
  <1>2. CASE refs[b] <= 1
    <2>1. refs' = [refs EXCEPT ![b] = 0] /\ export' \in UnbindResults(b)
      BY <1>2 DEF DropClaim
    <2>2. Leased' = Leased \ {b}
      BY <2>1 DEF TypeOK, Leased
    <2>3. LeaseExports' = LeaseExports \ {b}
      BY <2>1, UnbindExports
    <2> QED
      BY <1>1, <2>2, <2>3 DEF Backed
  <1>3. CASE ~(refs[b] <= 1)
    <2>1. refs' = [refs EXCEPT ![b] = refs[b] - 1] /\ export' = export
      BY <1>3 DEF DropClaim
    <2>2. Leased \subseteq Leased'
      BY <1>3, <2>1 DEF TypeOK, Leased
    <2>3. LeaseExports' = LeaseExports
      BY <2>1 DEF LeaseExports
    <2> QED
      BY <1>1, <2>2, <2>3 DEF Backed
  <1> QED
    BY <1>2, <1>3

LEMMA BackedThread ==
    ASSUME ~Hang, CountInv, Backed, NEW c \in Clients,
           SyncStep(c) \/ ReleaseStep(c) \/ Connect(c) \/ Disconnect(c)
    PROVE  Backed'
  <1> USE DEF CountInv
  <1>1. helper = "serving"
    BY DEF Control, ServingOnly, SyncStep, ReleaseStep, Connect, Disconnect, SyncRead,
           SyncLock, SyncDropped, SyncNoDaemon, SyncListHang, SyncList, SyncDone, SyncDrop,
           SyncDropHang, SyncShareClaim, SyncBind, SyncBindFails, SyncBindHang, Visit,
           ReleaseLock, ReleaseDone, ReleaseDrop, ReleaseHang
  <1>2. CASE \E b \in Busids : SyncDrop(c, b) \/ ReleaseDrop(c, b)
    BY <1>1, <1>2, DropBacked DEF SyncDrop, ReleaseDrop
  <1>3. ASSUME NEW b \in Busids, SyncBind(c, b)
        PROVE  Backed'
    <2>1. helper' = "serving"
      BY <1>1, <1>3 DEF SyncBind, Visit
    <2>2. LeaseExports' \subseteq LeaseExports \cup {b}
      BY <1>3 DEF SyncBind, BindResult, LeaseExports, TypeOK
    <2>3. Leased \cup {b} \subseteq Leased'
      <3>1. CASE b \in owned[c]
        <4>1. b \in Claims(c) /\ refs' = refs
          BY <1>3, <3>1 DEF SyncBind, Visit, Claims
        <4>2. refs[b] # 0
          BY <4>1, HoldersFinite, FS_EmptySet DEF RefsCountHolders, Holders
        <4> QED
          BY <4>1, <4>2 DEF Leased, TypeOK
      <3>2. CASE b \notin owned[c]
        BY <1>3, <3>2 DEF SyncBind, Leased, TypeOK
      <3> QED
        BY <3>1, <3>2
    <2> QED
      BY <1>1, <2>1, <2>2, <2>3 DEF Backed
  <1>4. ASSUME NEW b \in Busids, SyncShareClaim(c, b)
        PROVE  Backed'
    <2>1. UNCHANGED <<helper, export>>
      BY <1>4 DEF SyncShareClaim, Visit
    <2>2. Leased \subseteq Leased'
      BY <1>4 DEF SyncShareClaim, Leased, TypeOK
    <2> QED
      BY <1>1, <2>1, <2>2 DEF Backed, LeaseExports
  <1>5. CASE helper' = "serving" /\ UNCHANGED <<refs, export>>
    BY <1>1, <1>5 DEF Backed, Leased, LeaseExports
  <1> QED
    BY <1>1, <1>2, <1>3, <1>4, <1>5
       DEF SyncStep, ReleaseStep, Connect, Disconnect, SyncRead, SyncLock, SyncDropped,
           SyncNoDaemon, SyncListHang, SyncList, SyncDone, SyncDropHang, SyncBindFails,
           SyncBindHang, Visit, ReleaseLock, ReleaseDone, ReleaseHang, helperVars

LEMMA BackedRestart ==
    ASSUME ~Hang, CountInv, Backed, RestartStep \/ Crash
    PROVE  Backed'
  <1> USE DEF CountInv, Backed, helperVars
  <1>1. CASE Restart
    BY <1>1 DEF Restart, Leased, LeaseExports
  <1>2. ASSUME NEW b \in Busids, RecoverUnbind(b)
        PROVE  Backed'
    <2>2. LeaseExports' = LeaseExports \ {b}
      BY <1>2, UnbindExports DEF RecoverUnbind
    <2>3. UNCHANGED <<helper, refs, journal>> /\ stale' = stale \ {b}
      BY <1>2 DEF RecoverUnbind
    <2> QED
      BY <1>2, <2>2, <2>3 DEF RecoverUnbind, Leased
  <1>3. CASE RecoverDone
    BY <1>3 DEF RecoverDone, Leased, LeaseExports
  <1>4. CASE Crash
    <2>1. LeaseExports' = LeaseExports \ Abandoned
      BY <1>4 DEF Crash, LeaseExports
    <2>2. LeaseExports \ Abandoned \subseteq journal'
      <3>1. CASE Preserve = "no"
        BY <3>1 DEF Abandoned
      <3>2. CASE Preserve # "no" /\ ~LockFree
        BY <1>4, <3>2, PreserveType DEF Abandoned, Crash, Die
      <3>3. CASE Preserve # "no" /\ LockFree /\ helper = "serving"
        <4>1. journal = Leased
          BY <3>3 DEF JournalSettled, Settled, LockFree, Critical
        <4> QED
          BY <1>4, <3>3, <4>1, PreserveType DEF Crash, Die
      <3>4. CASE Preserve # "no" /\ helper = "recovering"
        BY <1>4, <3>4, PreserveType DEF Crash, Die
      <3> QED
        BY <1>4, <3>1, <3>2, <3>3, <3>4 DEF Crash, TypeOK
    <2>3. Leased' = {} /\ helper' = "down"
      BY <1>4 DEF Crash, Die, Leased
    <2> QED
      BY <2>1, <2>2, <2>3
  <1> QED
    BY <1>1, <1>2, <1>3, <1>4 DEF RestartStep, RecoverHang

LEMMA BackedOutside ==
    ASSUME TypeOK, Backed, OutsideStep \/ UNCHANGED vars
    PROVE  Backed'
  <1> USE DEF helperVars
  <1>1. ASSUME NEW b \in Busids, Share(b)
        PROVE  Backed'
    <2>1. UNCHANGED <<helper, refs, journal, stale>>
      BY <1>1 DEF Share
    <2>2. CASE refs[b] = 0
      <3>1. export' = [export EXCEPT ![b] = "manual"]
        BY <1>1, <2>2 DEF Share, BindResult
      <3>2. LeaseExports' \subseteq LeaseExports
        BY <3>1 DEF LeaseExports, TypeOK
      <3> QED
        BY <2>1, <3>2, SameBacking
    <2>3. CASE refs[b] # 0
      <3>1. b \in Leased
        BY <2>3 DEF Leased, TypeOK
      <3>2. LeaseExports' \subseteq LeaseExports \cup {b}
        BY <1>1, <2>3 DEF Share, BindResult, LeaseExports, TypeOK
      <3> QED
        BY <2>1, <3>1, <3>2 DEF Backed, TypeOK, Leased
    <2> QED
      BY <2>2, <2>3
  <1>2. ASSUME NEW b \in Busids, Unshare(b) \/ HandbackUnbind(b) \/ Unplug(b)
        PROVE  Backed'
    <2>1. export' \in {export, Withdrawn(b)}
      BY <1>2 DEF Unshare, HandbackUnbind, Unplug
    <2>2. LeaseExports' \subseteq LeaseExports
      BY <2>1 DEF Withdrawn, LeaseExports, TypeOK
    <2>3. UNCHANGED <<helper, refs, journal, stale>>
      BY <1>2 DEF Unshare, HandbackUnbind, Unplug
    <2> QED
      BY <2>2, <2>3, SameBacking
  <1>3. CASE UNCHANGED <<helper, helperVars, export>>
    BY <1>3, SameBacking DEF LeaseExports
  <1> QED
    BY <1>1, <1>2, <1>3
       DEF OutsideStep, HandbackList, Autoshare, Plug, vars

\* As long as no usbip call has timed out, every device the lease exported has
\* an owner once the helper serves and nobody is inside the lock, whatever the
\* unit file says, whatever usbip refuses and wherever the helper is killed:
\* the refused unbind, the deleted journal and the kill between a bind and its
\* save, each recorded as the step that caused it, are all there is.
THEOREM NoOrphanCorrect == Spec => []NoOrphanExport
  <1>1. Init => Backed
    BY DEF Init, Backed, Leased, LeaseExports
  <1>2. /\ TypeOK /\ (Unhung => CountInv) /\ (Unhung => Backed) /\ [Next]_vars
        => (Unhung => Backed)'
    <2> SUFFICES ASSUME TypeOK, Unhung => CountInv, Unhung => Backed, [Next]_vars, Unhung'
                 PROVE  Backed'
      OBVIOUS
    <2>1. ~Hang /\ CountInv /\ Backed
      BY NoHangStep
    <2> QED
      BY <2>1, BackedThread, BackedRestart, BackedOutside DEF Next, LeaseStep
  <1>3. TypeOK /\ (Unhung => Backed) => NoOrphanExport
    BY DEF NoOrphanExport, Backed, Unhung, LeaseExports, Leased
  <1> QED
    BY <1>1, <1>2, <1>3, TypeCorrect, CountInvariant, PTL DEF Spec

(***************************************************************************)
(* Refinement: every step of the USB lease is a step of the shared lease   *)
(* on one port, or leaves holders and exports as they are.                 *)
(***************************************************************************)
Up(b) == export[b] # "none"

\* Nobody gains or loses a claim and no device goes up or down: a stutter.
LEMMA StutterMaps ==
    ASSUME \A c \in Clients : Claims(c)' = Claims(c),
           \A b \in Busids : Up(b)' = Up(b)
    PROVE  UNCHANGED Lease!leaseVars
  <1>1. \A b \in Busids : Holders(b)' = Holders(b)
    BY DEF Holders
  <1> QED
    BY <1>1 DEF Lease!leaseVars, Up

\* A device is exported, by the lease for a holder whose export was taken
\* away or by somebody else.
LEMMA SupplyMaps ==
    ASSUME \A c \in Clients : Claims(c)' = Claims(c),
           NEW b \in Busids, Up(b)', \A a \in Busids \ {b} : Up(a)' = Up(a)
    PROVE  Lease!LeaseNext
  <1>1. \A a \in Busids : Holders(a)' = Holders(a)
    BY DEF Holders
  <1>2. Lease!Supply(b)
    BY <1>1 DEF Lease!Supply, Up
  <1> QED
    BY <1>2 DEF Lease!LeaseNext

\* A device is withdrawn: by recovery, by hand, or by unplugging it.
LEMMA WithdrawMaps ==
    ASSUME TypeOK, \A c \in Clients : Claims(c)' = Claims(c),
           NEW b \in Busids, export' = Withdrawn(b)
    PROVE  Lease!LeaseNext
  <1>1. \A a \in Busids : Holders(a)' = Holders(a)
    BY DEF Holders
  <1>2. export' = [export EXCEPT ![b] = "none"]
    BY DEF Withdrawn
  <1>3. \A a \in Busids : (export'[a] # "none") = (a # b /\ export[a] # "none")
    BY <1>2 DEF TypeOK
  <1>4. Lease!Withdraw(b)
    BY <1>1, <1>3 DEF Lease!Withdraw
  <1> QED
    BY <1>4 DEF Lease!LeaseNext

\* A connection joins the holders; the first one finds the device exported.
LEMMA AcquireMaps ==
    ASSUME NEW c \in Clients, NEW b \in Busids, b \notin Claims(c),
           Claims(c)' = Claims(c) \cup {b},
           \A d \in Clients \ {c} : Claims(d)' = Claims(d),
           \A a \in Busids \ {b} : Up(a)' = Up(a),
           IF Holders(b) = {} THEN Up(b)' ELSE Up(b)' = Up(b)
    PROVE  Lease!LeaseNext
  <1>1. Holders(b)' = Holders(b) \cup {c} /\ c \notin Holders(b)
    BY DEF Holders
  <1>2. \A a \in Busids \ {b} : Holders(a)' = Holders(a)
    BY DEF Holders
  <1>3. Lease!Acquire(c, b)
    BY <1>1, <1>2 DEF Lease!Acquire, Up
  <1> QED
    BY <1>3 DEF Lease!LeaseNext

\* An unbind that usbip refuses leaves every device up that was.
LEMMA RefusedUp ==
    ASSUME NEW b \in Busids,
           export' = [export EXCEPT ![b] = IF @ = "lease" THEN "orphan" ELSE @],
           TypeOK
    PROVE  \A a \in Busids : Up(a)' = Up(a)
  BY DEF Up, TypeOK

\* A claim ends; only the last one may take the device down.
LEMMA ReleaseMaps ==
    ASSUME TypeOK, RefsCountHolders,
           NEW c \in Clients, NEW b \in Busids, b \in Claims(c), DropClaim(b),
           Claims(c)' = Claims(c) \ {b},
           \A d \in Clients \ {c} : Claims(d)' = Claims(d)
    PROVE  Lease!LeaseNext
  <1>1. Holders(b)' = Holders(b) \ {c} /\ c \in Holders(b)
    BY DEF Holders
  <1>2. \A a \in Busids \ {b} : Holders(a)' = Holders(a)
    BY DEF Holders
  <1>3. CASE \A a \in Busids : Up(a)' = Up(a)
    <2>1. Lease!Release(c, b)
      BY <1>1, <1>2, <1>3 DEF Lease!Release, Up
    <2> QED
      BY <2>1 DEF Lease!LeaseNext
  <1>4. CASE ~\A a \in Busids : Up(a)' = Up(a)
    <2>0. export' # export /\ export' \in UnbindResults(b) /\ refs[b] <= 1
      BY <1>4 DEF DropClaim, Up
    <2>1. refs[b] <= 1 /\ export' = [export EXCEPT ![b] = "none"]
      BY <2>0, <1>4, RefusedUp DEF UnbindResults, Withdrawn
    <2>2. Holders(b) = {c}
      <3>1. IsFiniteSet(Holders(b)) /\ Cardinality(Holders(b)) \in Nat
        BY HoldersFinite
      <3>2. IsFiniteSet(Holders(b) \ {c})
            /\ Cardinality(Holders(b) \ {c}) = Cardinality(Holders(b)) - 1
        BY <1>1, <3>1, FS_RemoveElement
      <3>3. Cardinality(Holders(b)) <= 1
        BY <2>1 DEF RefsCountHolders
      <3>4. Cardinality(Holders(b) \ {c}) \in Nat
        BY <3>2, FS_CardinalityType
      <3>5. Cardinality(Holders(b) \ {c}) = 0
        BY <3>1, <3>2, <3>3, <3>4
      <3>6. Holders(b) \ {c} = {}
        BY <3>2, <3>5, FS_EmptySet
      <3> QED
        BY <1>1, <3>6
    <2>3. \A a \in Busids : (export'[a] # "none") = (a # b /\ export[a] # "none")
      BY <2>1 DEF TypeOK
    <2>4. Lease!Release(c, b)
      BY <1>1, <1>2, <2>2, <2>3 DEF Lease!Release
    <2> QED
      BY <2>4 DEF Lease!LeaseNext
  <1> QED
    BY <1>3, <1>4

LEMMA CrashMaps ==
    ASSUME TypeOK, Crash
    PROVE  Lease!LeaseNext
  <1>1. \A b \in Busids : Holders(b)' = {}
    BY DEF Crash, Die, Holders, Claims
  <1>2. \A b \in Busids : Up(b)' = Up(b)
    BY DEF Crash, Abandoned, LeaseExports, Up
  <1>3. Lease!LoseAll
    BY <1>1, <1>2 DEF Lease!LoseAll, Up
  <1> QED
    BY <1>3 DEF Lease!LeaseNext

LEMMA ThreadMaps ==
    ASSUME ~Hang, CountInv, NEW c \in Clients,
           SyncStep(c) \/ ReleaseStep(c) \/ Connect(c) \/ Disconnect(c)
    PROVE  [Lease!LeaseNext]_(Lease!leaseVars)
  <1> USE DEF CountInv, TypeOK, Goto, Reply, clientVars, helperVars
  <1>1. CASE \/ SyncRead(c) \/ SyncLock(c) \/ SyncDropped(c) \/ SyncNoDaemon(c)
             \/ SyncList(c) \/ SyncDone(c) \/ ReleaseLock(c) \/ ReleaseDone(c)
             \/ Connect(c) \/ Disconnect(c)
    <2>1. export' = export
      BY <1>1 DEF SyncRead, SyncLock, SyncDropped, SyncNoDaemon, SyncList, SyncDone,
                  ReleaseLock, ReleaseDone, Connect, Disconnect
    <2>2. \A d \in Clients : Claims(d)' = Claims(d)
      BY <1>1 DEF SyncRead, SyncLock, SyncDropped, SyncNoDaemon, SyncList, SyncDone,
                  ReleaseLock, ReleaseDone, Connect, Disconnect, Claims
    <2> QED
      BY <2>1, <2>2, StutterMaps DEF Up
  <1>2. ASSUME NEW b \in Busids, SyncDrop(c, b) \/ ReleaseDrop(c, b)
        PROVE  Lease!LeaseNext
    <2>1. b \in Claims(c) /\ DropClaim(b)
      BY <1>2 DEF SyncDrop, ReleaseDrop, Control, TodoOwned, Claims
    <2>2. /\ Claims(c)' = Claims(c) \ {b}
          /\ \A d \in Clients \ {c} : Claims(d)' = Claims(d)
      BY <1>2 DEF SyncDrop, ReleaseDrop, Claims
    <2> QED
      BY <2>1, <2>2, ReleaseMaps
  <1>3. ASSUME NEW b \in Busids, SyncShareClaim(c, b) \/ SyncBind(c, b) \/ SyncBindFails(c, b)
        PROVE  [Lease!LeaseNext]_(Lease!leaseVars)
    <2>1. CASE owned' = owned
      <3>1. \A d \in Clients : Claims(d)' = Claims(d)
        BY <1>3, <2>1 DEF SyncShareClaim, SyncBind, SyncBindFails, Visit, Claims
      <3>2. CASE export' = export
        BY <3>1, <3>2, StutterMaps DEF Up
      <3>3. CASE export' # export
        <4>1. export' = [export EXCEPT ![b] = "lease"]
          BY <1>3, <3>3 DEF SyncShareClaim, SyncBind, SyncBindFails, BindResult
        <4> QED
          BY <3>1, <4>1, SupplyMaps DEF Up
      <3> QED
        BY <3>2, <3>3
    <2>2. CASE owned' # owned
      <3>1. /\ b \notin owned[c] /\ pc[c] = "bind" /\ pc' = pc
            /\ owned' = [owned EXCEPT ![c] = owned[c] \cup {b}]
            /\ \/ refs[b] > 0 /\ export' = export
               \/ refs[b] = 0 /\ export' = BindResult(b, "lease")
            /\ todo' = [todo EXCEPT ![c] = todo[c] \ {b}]
        BY <1>3, <2>2 DEF SyncShareClaim, SyncBind, SyncBindFails, Visit, NeedsBind
      <3>2. b \notin Claims(c) /\ Claims(c)' = Claims(c) \cup {b}
        BY <3>1 DEF Claims
      <3>3. \A d \in Clients \ {c} : Claims(d)' = Claims(d)
        BY <3>1 DEF Claims
      <3>4. CASE refs[b] > 0 /\ export' = export
        <4>1. Holders(b) # {}
          <5>1. refs[b] # 0 /\ refs[b] = Cardinality(Holders(b))
            BY <3>4 DEF RefsCountHolders
          <5> QED
            BY <5>1, HoldersFinite, FS_EmptySet
        <4> QED
          BY <3>2, <3>3, <3>4, <4>1, AcquireMaps DEF Up
      <3>5. CASE export' = BindResult(b, "lease") /\ refs[b] = 0
        <4>1. Holders(b) = {}
          BY <3>5, HoldersFinite, FS_EmptySet DEF RefsCountHolders
        <4>2. Up(b)' /\ \A a \in Busids \ {b} : Up(a)' = Up(a)
          BY <3>5 DEF BindResult, Up
        <4> QED
          BY <3>2, <3>3, <4>1, <4>2, AcquireMaps
      <3> QED
        BY <3>1, <3>4, <3>5
    <2> QED
      BY <2>1, <2>2
  <1> QED
    BY <1>1, <1>2, <1>3
       DEF SyncStep, ReleaseStep, SyncListHang, SyncDropHang, SyncBindHang, ReleaseHang

LEMMA OtherMaps ==
    ASSUME ~Hang, CountInv, RestartStep \/ Crash \/ OutsideStep \/ UNCHANGED vars
    PROVE  [Lease!LeaseNext]_(Lease!leaseVars)
  <1> USE DEF CountInv, clientVars
  <1>1. CASE RecoverDone
    <2>1. \A c \in Clients : Claims(c)' = Claims(c)
      BY <1>1 DEF RecoverDone, Claims
    <2> QED
      BY <1>1, <2>1, StutterMaps DEF RecoverDone, Up
  <1>2. CASE Crash
    BY <1>2, CrashMaps
  <1>3. CASE UNCHANGED clientVars /\ export' = export
    BY <1>3, StutterMaps DEF Claims, Up
  <1>4. CASE UNCHANGED clientVars /\ \E b \in Busids : export' = Withdrawn(b)
    BY <1>4, WithdrawMaps DEF Claims
  <1>5. ASSUME NEW b \in Busids, RecoverUnbind(b), export' # Withdrawn(b)
        PROVE  UNCHANGED Lease!leaseVars
    <2>1. \A a \in Busids : Up(a)' = Up(a)
      BY <1>5, RefusedUp DEF RecoverUnbind, UnbindResults
    <2> QED
      BY <1>5, <2>1, StutterMaps DEF RecoverUnbind, Claims
  <1>6. ASSUME NEW b \in Busids, Share(b)
        PROVE  Lease!LeaseNext
    <2>1. Up(b)' /\ \A a \in Busids \ {b} : Up(a)' = Up(a)
      BY <1>6 DEF Share, BindResult, Up, TypeOK
    <2>2. \A c \in Clients : Claims(c)' = Claims(c)
      BY <1>6 DEF Share, Claims
    <2> QED
      BY <2>1, <2>2, SupplyMaps
  <1> QED
    BY <1>1, <1>2, <1>3, <1>4, <1>5, <1>6
       DEF RestartStep, Restart, RecoverUnbind, RecoverHang, OutsideStep, HandbackList,
           Autoshare, Unshare, HandbackUnbind, Plug, Unplug, vars

\* The USB lease implements the shared lease, port by port: whatever the
\* interleaving of sessions, manual shares, unplugging and crashes, a device
\* goes down with its last holder or from outside, never with another one.
THEOREM UsbImplements == MaxHangs = 0 => (Spec => ImplementsLease)
  <1> SUFFICES ASSUME MaxHangs = 0
               PROVE  Spec => ImplementsLease
    OBVIOUS
  <1>1. Init => Lease!LeaseInit
    BY DEF Init, Lease!LeaseInit, Holders, Claims
  <1>2. CountInv /\ [Next]_vars => [Lease!LeaseNext]_(Lease!leaseVars)
    <2> SUFFICES ASSUME CountInv, [Next]_vars
                 PROVE  [Lease!LeaseNext]_(Lease!leaseVars)
      OBVIOUS
    <2>1. ~Hang
      BY DEF Hang, CountInv, TypeOK
    <2> QED
      BY <2>1, ThreadMaps, OtherMaps DEF Next, LeaseStep
  <1> QED
    BY <1>1, <1>2, NeverHung, CountInvariant, PTL DEF Spec, ImplementsLease, Lease!LeaseSpec
===============================================================================
