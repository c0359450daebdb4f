----------------------------- MODULE MCSlotUpdate -----------------------------
(* Small instances of the A/B updater for TLC.                             *)
EXTENDS SlotUpdate, TLC

CONSTANTS u1, u2

OneUpdater == {u1}
TwoUpdaters == {u1, u2}
Symmetry == Permutations(TwoUpdaters)

\* Release 2 hangs while it boots; 1 (installed) and 3 stay up.
GoodReleases == {1, 3}
===============================================================================
