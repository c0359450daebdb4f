----------------------------- MODULE SharedLease -----------------------------
(***************************************************************************)
(* What the helper promises about anything it exports for streaming        *)
(* sessions, a USB device or the system disk: connections hold the         *)
(* resource, the first one brings it up, and only the last one takes it    *)
(* down.  Where nobody outside the lease can withdraw a resource, whoever  *)
(* holds it can use it.                                                    *)
(***************************************************************************)
CONSTANTS
    Clients,        \* connections that may hold a resource
    Resources,      \* what can be leased
    Withdrawable    \* those that others may take down (unplug, unshare)

VARIABLES
    holders,    \* holders[r]: the connections that hold resource r
    up          \* up[r]: resource r is exported

leaseVars == <<holders, up>>

\* The resource is exported: before its first holder has it, again after it
\* was withdrawn, or by somebody else.
Supply(r) ==
    /\ up' = [up EXCEPT ![r] = TRUE]
    /\ UNCHANGED holders

\* The first holder finds the resource up; a later one joins the others.
Acquire(c, r) ==
    /\ c \notin holders[r]
    /\ holders' = [holders EXCEPT ![r] = @ \cup {c}]
    /\ IF holders[r] = {} THEN up' = [up EXCEPT ![r] = TRUE] ELSE UNCHANGED up

\* A holder leaves; the last one may take the resource down.
Release(c, r) ==
    /\ c \in holders[r]
    /\ holders' = [holders EXCEPT ![r] = @ \ {c}]
    /\ \/ UNCHANGED up
       \/ holders[r] = {c} /\ up' = [up EXCEPT ![r] = FALSE]

\* What nobody holds may be taken down at any time.
Reclaim(r) ==
    /\ holders[r] = {}
    /\ up' = [up EXCEPT ![r] = FALSE]
    /\ UNCHANGED holders

\* The helper dies: nobody holds anything, and what is up stays up.
LoseAll ==
    /\ holders' = [r \in Resources |-> {}]
    /\ UNCHANGED up

Withdraw(r) ==
    /\ r \in Withdrawable
    /\ up' = [up EXCEPT ![r] = FALSE]
    /\ UNCHANGED holders

LeaseInit ==
    /\ holders = [r \in Resources |-> {}]
    /\ up \in [Resources -> BOOLEAN]

LeaseNext ==
    \/ LoseAll
    \/ \E r \in Resources :
        \/ Supply(r) \/ Reclaim(r) \/ Withdraw(r)
        \/ \E c \in Clients : Acquire(c, r) \/ Release(c, r)

LeaseSpec == LeaseInit /\ [][LeaseNext]_leaseVars

\* A resource nobody else can withdraw is up for as long as anybody holds it,
\* whoever joins or leaves meanwhile.
HeldIsUp == \A r \in Resources \ Withdrawable : holders[r] # {} => up[r]
===============================================================================
