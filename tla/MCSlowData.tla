----------------------------- MODULE MCSlowData -----------------------------
(* Bounds: channel 4 with the mode of channel 1 and channel 1 itself; sums  *)
(* of 2, 3 and 1 words in a memory of 3 words and 4 addresses, as 167, 500  *)
(* and 10 in one of 500 and 512.                                            *)
EXTENDS SlowData

MCSumLen == <<2, 3, 1>>
=============================================================================
