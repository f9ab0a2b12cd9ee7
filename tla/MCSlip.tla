------------------------------- MODULE MCSlip -------------------------------
(* Packets for TLC: each code as data, next to another and alone, and one  *)
(* packet longer than the receiver's buffer.                               *)
EXTENDS Slip

LinePackets == {<<END>>, <<ESC, ESC_END>>, <<Zero, ESC_ESC, END>>}
=============================================================================
