----------------------------- MODULE MCDiskLease -----------------------------
(***************************************************************************)
(* Instances of DiskLease for TLC.  Three connections let one close and    *)
(* another fail while a third holds the disk.                              *)
(***************************************************************************)
EXTENDS DiskLease, TLC

CONSTANTS c1, c2, c3

MCClients == {c1, c2, c3}
TwoClients == {c1, c2}

\* The connections are interchangeable.
Symmetry == Permutations(MCClients)
===============================================================================
