----------------------------- MODULE Interlock ------------------------------
(***************************************************************************)
(* The on command of a channel (digio_logic.vhd, pulse_enable.vhd) closed  *)
(* in a loop with its fault detector: the command is a pulse train, a      *)
(* latched fault takes it away, and the ON check of the detector compares  *)
(* what is left of it with the supply's AC ON status (fault_module.vhd).   *)
(* The other outputs of digio_logic.vhd are wires from registers.          *)
(***************************************************************************)
EXTENDS FaultBlock

CONSTANTS On,       \* the ON check, bit 10
          PERIOD    \* period_in: the counter of the pulse train runs 0..PERIOD

ASSUME InterlockAssumption ==
    /\ On \in DigChecks
    /\ PERIOD \in Nat /\ PERIOD \div 2 > TickDiv + 2

VARIABLES
    on1, acon,                               \* register and status line
    pulse_enable, pulse_counter, ch_enable,  \* pulse_enable.vhd
    sinceAck    \* history: clocks since a clear, a new mask or a reset

AckCap == 4

pulseVars == <<pulse_enable, pulse_counter, ch_enable>>
ivars == <<vars, on1, acon, pulseVars, sinceAck>>

\* rcom(0): the pulses, unless a fault is latched
rcom0 == ch_enable /\ ~flt_trig

\* what fault_module connects to the ON check: rcom(0) against rsts(0)
NoAc == rcom0 /\ ~acon

InterlockInit ==
    /\ Init /\ park = FALSE
    /\ on1 = FALSE /\ acon = FALSE
    /\ pulse_enable = FALSE /\ pulse_counter = 0 /\ ch_enable = FALSE
    /\ cond[On] = NoAc
    /\ sinceAck = 0

-----------------------------------------------------------------------------
\* Mutant: the low half is left out.
PulseEnableHigh(reset) ==
    /\ pulse_enable' = (~reset /\ on1)
    /\ pulse_counter' = IF reset \/ ~pulse_enable \/ pulse_counter = PERIOD
                        THEN 0 ELSE pulse_counter + 1
    /\ ch_enable' = (~reset /\ (ch_enable \/ (pulse_enable /\ pulse_counter # PERIOD)))

\* Mutant: a high half of a quarter of the period.
PulseEnableShort(reset) ==
    /\ pulse_enable' = (~reset /\ on1)
    /\ pulse_counter' = IF reset \/ ~pulse_enable \/ pulse_counter = PERIOD
                        THEN 0 ELSE pulse_counter + 1
    /\ ch_enable' = IF reset THEN FALSE
                    ELSE IF ~pulse_enable \/ pulse_counter = PERIOD THEN ch_enable
                    ELSE pulse_counter >= PERIOD - (PERIOD \div 4)

(* Low for the first half of the period and high for the second.  Without  *)
(* the command the counter stands at 0 and the output where it was.        *)
PulseEnable(reset) ==
    /\ pulse_enable' = (~reset /\ on1)
    /\ pulse_counter' = IF reset \/ ~pulse_enable \/ pulse_counter = PERIOD
                        THEN 0 ELSE pulse_counter + 1
    /\ ch_enable' = IF reset THEN FALSE
                    ELSE IF ~pulse_enable \/ pulse_counter = PERIOD THEN ch_enable
                    ELSE pulse_counter >= PERIOD \div 2

WriteOn == on1' \in BOOLEAN /\ UNCHANGED <<clear, enable>>

\* one clock: software writes at most one register, the plant does as it likes
Edge(reset) ==
    /\ acon' \in BOOLEAN
    /\ \/ WriteOn
       \/ WriteClear /\ UNCHANGED on1
       \/ WriteMask /\ UNCHANGED on1
    /\ PulseEnable(reset)
    /\ ClockEdge(reset)
    /\ PlantChange /\ cond'[On] = NoAc'
    /\ UNCHANGED <<cntlim, park>>
    /\ sinceAck' = IF reset \/ (clear' /\ ~clear) \/ enable' # enable THEN 0
                   ELSE Least(sinceAck + 1, AckCap)

InterlockClock == Edge(FALSE)
InterlockReset == Edge(TRUE)

InterlockNext == InterlockClock \/ InterlockReset

InterlockSpec ==
    InterlockInit /\ [][InterlockNext]_ivars /\ WF_ivars(InterlockClock)

-----------------------------------------------------------------------------
InterlockTypeOK ==
    /\ TypeOK
    /\ on1 \in BOOLEAN /\ acon \in BOOLEAN /\ pulse_enable \in BOOLEAN
    /\ pulse_counter \in 0..PERIOD /\ ch_enable \in BOOLEAN
    /\ sinceAck \in 0..AckCap

(* A trip holds: the command that a latched fault took away comes back     *)
(* only within three clocks of a clear, of a new mask or of a reset (edge  *)
(* detector, window, latch, mask register), never because the condition,   *)
(* which the trip itself removes from the ON check, is gone.               *)
TripHolds == [][flt_trig /\ ~flt_trig' => sinceAck <= 3]_ivars

\* ticks that fall into a high half of the pulse train
HighTicks == (PERIOD + 1 - PERIOD \div 2) \div (TickDiv + 1) + 1

(* The ON check sees one high half at a time: while the supply is          *)
(* commanded on, the evidence of a missing AC ON never exceeds the ticks   *)
(* of a half period, so that a limit beyond them never trips.              *)
OnSeesOneHalf ==
    pulse_enable /\ pulse_counter > PERIOD \div 2 => held[On] <= HighTicks

(* With a limit of fewer ticks, a supply that is commanded on and never    *)
(* reports AC ON is tripped.                                               *)
OnTrips ==
    /\ cntlim[On] < HighTicks - 1
    /\ <>[](on1 /\ ~acon /\ ~clear_pulse /\ On \in enable)
    /\ <>[][InterlockClock]_ivars
    => <>[]flt_trig
=============================================================================
