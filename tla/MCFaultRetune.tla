--------------------------- MODULE MCFaultRetune ---------------------------
(* One analog check, a counter of two bits, limits zero to two.            *)
EXTENDS FaultRetune

MCCntMod == [i \in Checks |-> 4]
=============================================================================
