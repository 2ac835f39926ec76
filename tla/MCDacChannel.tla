---------------------------- MODULE MCDacChannel ----------------------------
(* Bounds: a half turn of eleven phase steps and setpoints a few bits      *)
(* apart, so that ramps of one sample to more than eleven occur, and a     *)
(* float of three bits, which rounds eleven up and five down; a phase      *)
(* register with room for the largest increment and for a few phases below *)
(* the half turn; a memory of two words behind addresses of two bits, with *)
(* a table that fits, one whose last point is beyond the DAC's range, one  *)
(* that is too long, and the largest length.  Two commands at any time (a  *)
(* ramp after a ramp, a command or a new table during a ramp), besides     *)
(* event triggers without a bound.                                         *)
EXTENDS DacChannel

Cosine == [ph \in -14..0 |->
             <<3, 8, 1, 0, 0, 1, 1, 2, 4, 5, 6, 7, 7, 8, 8>>[ph + 15]]
Both == {-1, 8}
Tables == {<<5, 7>>, <<-6, 40>>, <<1, 2, 3>>}
=============================================================================
