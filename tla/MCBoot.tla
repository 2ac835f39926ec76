------------------------------- MODULE MCBoot -------------------------------
(* Bounds: two channels, one of which the messages name, so that a command *)
(* can disturb the other; two clients and the console; two commands, saves *)
(* or loads, that may overlap or be preempted inside a transfer; one bit   *)
(* per channel, stored or lost, and at first programmed, so that an erase  *)
(* has something to do; one line of NET.CNF and one reset, anywhere.       *)
EXTENDS Boot
=============================================================================
