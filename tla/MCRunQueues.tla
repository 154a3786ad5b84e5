---------------------------- MODULE MCRunQueues ----------------------------
(* PCBs are numbers; the key of a PCB is its number with some made equal.  *)
EXTENDS RunQueues

MCPCB == 1 .. 10
MCKey == <<1, 2, 3, 4, 4, 5, 6, 7, 8, 9>>
=============================================================================
