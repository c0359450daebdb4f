------------------------------ MODULE MCUsbLease ------------------------------
(***************************************************************************)
(* Instances of UsbLease for TLC: two connections, two ports, one of them  *)
(* offered under every policy and one only under "all".                    *)
(***************************************************************************)
EXTENDS UsbLease, TLC

CONSTANTS c1, c2, wheel, webcam

MCClients == {c1, c2}
MCBusids == {wheel, webcam}
MCKind == [b \in MCBusids |-> IF b = wheel THEN "safe" ELSE "other"]

\* A single offered port, for the runs that explore more crashes.
OneBusid == {wheel}
OneKind == [b \in OneBusid |-> "safe"]

\* The connections are interchangeable; the ports differ in kind.
Symmetry == Permutations(MCClients)
===============================================================================
