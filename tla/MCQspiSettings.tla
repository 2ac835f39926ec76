--------------------------- MODULE MCQspiSettings ---------------------------
(* Bounds: two channels, so that a command for one can disturb the other;  *)
(* two clients and no console; two commands; one bit per channel, stored   *)
(* or lost, in a sector that was erased or programmed before.              *)
EXTENDS QspiSettings
=============================================================================
