----------------------------- MODULE FixedPoint -----------------------------
(***************************************************************************)
(* Two's complement arithmetic as the gateware's gain and offset stages    *)
(* use it.  A signed register of w bits is an integer of -half..half-1     *)
(* with half = 2^(w-1); unit is 2^20, the fixed point of a gain.           *)
(***************************************************************************)
EXTENDS Integers

\* what a register keeps of a result that does not fit
Wrap(x, half) == ((x + half) % (2 * half)) - half

\* the low bits of a product, above its binary point
Scaled(fs, unit, half) == Wrap(fs \div unit, half)

\* CHECKFORSAT, 20 bits: a change of sign is taken for an overflow
SignSaturated(y, oc, half) ==
    IF y < 0 /\ oc >= 0 THEN half - 1
    ELSE IF y >= 0 /\ oc < 0 THEN -half
    ELSE y

\* CHECKFORSAT, 18 bits: compared with the limits
Clamped(y, limit) == IF y > limit - 1 THEN limit - 1
                     ELSE IF y < -limit THEN -limit
                     ELSE y
=============================================================================
