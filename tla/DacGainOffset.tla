--------------------------- MODULE DacGainOffset ----------------------------
(***************************************************************************)
(* The gain and offset stage of a DAC channel (dac_gainoffset.vhd): one    *)
(* state per clock, started by the 10 kHz tick that also loads a new raw   *)
(* setpoint.  Software rewrites gain and offset at any clock.              *)
(***************************************************************************)
EXTENDS FixedPoint

CONSTANTS
    Half,       \* 2^19: 20 bit registers
    Limit,      \* 2^17: the range of an 18 bit DAC
    Unit,       \* 2^20: the binary point of the gain
    Raws, Offsets, Gains,   \* what the registers are given
    Dly         \* clocks in MULT_DLY

ASSUME StageAssumption ==
    /\ Half \in Nat \ {0} /\ Limit \in 1..Half /\ Unit \in Nat \ {0}
    /\ Raws \subseteq -Half..(Half - 1) /\ Raws # {}
    /\ Offsets \subseteq -Half..(Half - 1) /\ Offsets # {}
    /\ Gains \subseteq Int /\ Gains # {}
    /\ Dly \in Nat

VARIABLES
    numbits_sel,              \* TRUE: 20 bit DAC
    dac_setpt_raw, offset, gain,
    state, dac_setpt_oc, dac_setpt_fs, dac_setpt, multdlycnt, done,
    used                      \* history: the gain in dac_setpt_fs

input == <<numbits_sel, dac_setpt_raw, offset, gain>>
product == <<dac_setpt_fs, used>>
vars == <<input, state, dac_setpt_oc, product, dac_setpt, multdlycnt, done>>

Init ==
    /\ numbits_sel \in BOOLEAN
    /\ dac_setpt_raw = 0 /\ offset \in Offsets /\ gain \in Gains
    /\ state = "idle" /\ dac_setpt_oc = 0 /\ dac_setpt_fs = 0
    /\ dac_setpt = 0 /\ multdlycnt = 0 /\ done = FALSE /\ used \in Gains

\* the tick loads the multiplexer's output and starts the stage
Tick ==
    /\ state = "idle"
    /\ dac_setpt_raw' \in Raws
    /\ state' = "apply_offsets" /\ done' = FALSE
    /\ UNCHANGED <<numbits_sel, offset, gain, dac_setpt_oc, product,
                   dac_setpt, multdlycnt>>

\* a clock in IDLE without the tick
Idle ==
    /\ state = "idle"
    /\ done' = FALSE
    /\ UNCHANGED <<input, state, dac_setpt_oc, product, dac_setpt, multdlycnt>>

\* Mutant: the difference is kept in more bits than the register has.
ApplyOffsetsWide ==
    /\ state = "apply_offsets"
    /\ dac_setpt_oc' = dac_setpt_raw - offset
    /\ state' = "apply_gains"
    /\ UNCHANGED <<input, product, dac_setpt, multdlycnt, done>>

ApplyOffsets ==
    /\ state = "apply_offsets"
    /\ dac_setpt_oc' = Wrap(dac_setpt_raw - offset, Half)
    /\ state' = "apply_gains"
    /\ UNCHANGED <<input, product, dac_setpt, multdlycnt, done>>

ApplyGains ==
    /\ state = "apply_gains"
    /\ dac_setpt_fs' = dac_setpt_oc * gain /\ used' = gain
    /\ state' = "scale" /\ multdlycnt' = 0
    /\ UNCHANGED <<input, dac_setpt_oc, dac_setpt, done>>

Scale ==
    /\ state = "scale"
    /\ dac_setpt' = Scaled(dac_setpt_fs, Unit, Half)
    /\ state' = "checkforsat"
    /\ UNCHANGED <<input, dac_setpt_oc, product, multdlycnt, done>>

\* Mutant: an overflow below is not looked for.
CheckForSatHigh ==
    /\ state = "checkforsat"
    /\ dac_setpt' = IF dac_setpt < 0 /\ dac_setpt_oc >= 0 THEN Half - 1
                    ELSE dac_setpt
    /\ state' = "mult_dly"
    /\ UNCHANGED <<input, dac_setpt_oc, product, multdlycnt, done>>

CheckForSat ==
    /\ state = "checkforsat"
    /\ dac_setpt' = IF numbits_sel THEN SignSaturated(dac_setpt, dac_setpt_oc, Half)
                    ELSE Clamped(dac_setpt, Limit)
    /\ state' = "mult_dly"
    /\ UNCHANGED <<input, dac_setpt_oc, product, multdlycnt, done>>

MultDly ==
    /\ state = "mult_dly"
    /\ IF multdlycnt = Dly
       THEN state' = "idle" /\ done' = TRUE /\ UNCHANGED multdlycnt
       ELSE multdlycnt' = multdlycnt + 1 /\ UNCHANGED <<state, done>>
    /\ UNCHANGED <<input, dac_setpt_oc, product, dac_setpt>>

\* reset only takes done back; the state machine stands still meanwhile
Reset ==
    /\ done' = FALSE
    /\ UNCHANGED <<input, state, dac_setpt_oc, product, dac_setpt, multdlycnt>>

\* DACSETPT_OFFSET and DACSETPT_GAIN messages
WriteOffset(v) ==
    /\ offset' = v
    /\ UNCHANGED <<numbits_sel, dac_setpt_raw, gain, state, dac_setpt_oc,
                   product, dac_setpt, multdlycnt, done>>

WriteGain(v) ==
    /\ gain' = v
    /\ UNCHANGED <<numbits_sel, dac_setpt_raw, offset, state, dac_setpt_oc,
                   product, dac_setpt, multdlycnt, done>>

Clock == \/ Tick \/ Idle \/ ApplyOffsets \/ ApplyGains \/ Scale
         \/ CheckForSat \/ MultDly

Next == \/ Clock \/ Reset
        \/ \E v \in Offsets : WriteOffset(v)
        \/ \E v \in Gains : WriteGain(v)

Spec == Init /\ [][Next]_vars

-----------------------------------------------------------------------------
TypeOK ==
    /\ numbits_sel \in BOOLEAN /\ done \in BOOLEAN
    /\ dac_setpt_raw \in Raws \cup {0} /\ offset \in Offsets /\ gain \in Gains
    /\ used \in Gains
    /\ state \in {"idle", "apply_offsets", "apply_gains", "scale",
                  "checkforsat", "mult_dly"}
    /\ dac_setpt_oc \in -Half..(Half - 1) /\ dac_setpt_fs \in Int
    /\ dac_setpt \in -Half..(Half - 1) /\ multdlycnt \in 0..Dly

\* what the DAC should be given for the product in dac_setpt_fs
Meant == Clamped(dac_setpt_fs \div Unit, IF numbits_sel THEN Half ELSE Limit)

\* for these the check can tell an overflow from a result
Fits == IF numbits_sel THEN used \in 1..(2 * Unit - 1)
        ELSE dac_setpt_fs \div Unit \in -Half..(Half - 1)

(* The value handed to the DAC when done is the product limited to the     *)
(* DAC's range, whenever software rewrote gain and offset meanwhile.  The  *)
(* sign gives every overflow away for gains above 0 and below 2; the 18    *)
(* bit comparison does as long as the product fits the register.           *)
SaturationExact == done /\ Fits => dac_setpt = Meant

\* what makes SaturationExact inductive: the registers follow one another
IInv ==
    /\ TypeOK
    /\ done => state = "idle"
    /\ state # "apply_gains" => dac_setpt_fs = dac_setpt_oc * used
    /\ state = "checkforsat" => dac_setpt = Scaled(dac_setpt_fs, Unit, Half)
    /\ (state = "mult_dly" \/ done) /\ Fits => dac_setpt = Meant
=============================================================================
