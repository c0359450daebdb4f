-------------------------- MODULE SharedLeaseProofs --------------------------
(***************************************************************************)
(* The promise of the abstract lease to its holders, for any number of     *)
(* connections and resources.                                              *)
(***************************************************************************)
EXTENDS SharedLease, TLAPS

LeaseTypeOK ==
    /\ holders \in [Resources -> SUBSET Clients]
    /\ up \in [Resources -> BOOLEAN]

LEMMA LeaseStepKeeps ==
    ASSUME LeaseTypeOK, HeldIsUp, [LeaseNext]_leaseVars
    PROVE  LeaseTypeOK' /\ HeldIsUp'
  <1> USE DEF LeaseTypeOK, HeldIsUp
  <1>1. ASSUME NEW r \in Resources, Supply(r) \/ Reclaim(r) \/ Withdraw(r)
        PROVE  LeaseTypeOK' /\ HeldIsUp'
    BY <1>1 DEF Supply, Reclaim, Withdraw
  <1>2. ASSUME NEW r \in Resources, NEW c \in Clients, Acquire(c, r)
        PROVE  LeaseTypeOK' /\ HeldIsUp'
    BY <1>2 DEF Acquire
  <1>3. ASSUME NEW r \in Resources, NEW c \in Clients, Release(c, r)
        PROVE  LeaseTypeOK' /\ HeldIsUp'
    BY <1>3 DEF Release
  <1>4. CASE LoseAll
    BY <1>4 DEF LoseAll
  <1>5. CASE UNCHANGED leaseVars
    BY <1>5 DEF leaseVars
  <1> QED
    BY <1>1, <1>2, <1>3, <1>4, <1>5 DEF LeaseNext

\* Whoever holds a resource that nobody else can withdraw can use it, for any
\* number of connections and resources: what usb.session.sync and
\* disk.session.acquire promise a client that stays connected.
THEOREM HeldIsUpCorrect == LeaseSpec => []HeldIsUp
  <1>1. LeaseInit => LeaseTypeOK /\ HeldIsUp
    BY DEF LeaseInit, LeaseTypeOK, HeldIsUp
  <1>2. LeaseTypeOK /\ HeldIsUp /\ [LeaseNext]_leaseVars => LeaseTypeOK' /\ HeldIsUp'
    BY LeaseStepKeeps
  <1> QED
    BY <1>1, <1>2, PTL DEF LeaseSpec
===============================================================================
