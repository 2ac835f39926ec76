-------------------------- MODULE MCDacGainOffset ---------------------------
(* Bounds: 4 bit registers, a 2 bit DAC range and a gain with two bits      *)
(* after its point; gains below 0, 0, below 1, 1, just below 2 and above.  *)
EXTENDS DacGainOffset

AllRaws == -Half..(Half - 1)
SomeOffsets == {-3, 0, 5}
SomeGains == {-1, 0, 1, 4, 7, 13}
=============================================================================
