------------------------------ MODULE MCUsbAuto ------------------------------
(***************************************************************************)
(* Instances of UsbAuto for TLC: one or two ports.                         *)
(***************************************************************************)
EXTENDS UsbAuto, TLC

CONSTANTS wheel, mic

OnePort == {wheel}
TwoPorts == {wheel, mic}
===============================================================================
