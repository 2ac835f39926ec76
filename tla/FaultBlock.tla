----------------------------- MODULE FaultBlock -----------------------------
(***************************************************************************)
(* The fault detector of one power supply channel (fault_block.vhd), with  *)
(* the 10 kHz tick generator that paces it (tenkhz_mux.vhd).               *)
(*                                                                         *)
(* One step is one rising edge of the 100 MHz clock.  Every VHDL process   *)
(* is an operator that gives the next value of the registers it drives;    *)
(* a clock edge is the conjunction of all of them, which is what VHDL's    *)
(* signal assignment means: every right-hand side reads the old values.    *)
(*                                                                         *)
(* An analog comparison or a digital status line is abstracted to one      *)
(* Boolean per check: cond[i] says that check i sees its fault condition.  *)
(* std_logic_vectors of fault bits are sets of checks.                     *)
(***************************************************************************)
EXTENDS Integers, FiniteSets

CONSTANTS
    Checks,      \* the debounced checks: bits 0..10 of fault_reg (bit 11 is
                 \* commented out, bit 12 is tied to 0 in fault_module.vhd)
    ErrChecks,   \* bits 3 and 4: ignored in park and while the setpoint moves
    GlitchChecks,\* bit 4: only triggers a snapshot, masked by x"1FEF"
    DigChecks,   \* bits 6..10: their counters have no reset branch
    CntMod,      \* CntMod[i] = 2^width of the counter of check i
    LimitValues, \* the count limits software may have written
    Setpoints,   \* values of the DAC setpoint
    TickDiv,     \* cnt_int counts 0..TickDiv (10000 in the gateware)
    HeldCap      \* where the history counter stops counting

ASSUME ChecksAssumption ==
    /\ ErrChecks \subseteq Checks
    /\ GlitchChecks \subseteq ErrChecks
    /\ DigChecks \subseteq Checks \ ErrChecks
ASSUME CounterAssumption ==
    /\ CntMod \in [Checks -> Nat \ {0}]
    /\ LimitValues \subseteq Nat
    /\ \A i \in Checks, l \in LimitValues : l < CntMod[i] /\ l < HeldCap
    /\ HeldCap \in Nat
ASSUME TickAssumption == TickDiv \in Nat /\ TickDiv >= 3
ASSUME SetpointAssumption == 0 \in Setpoints

VARIABLES
    \* inputs: comparators, registers written by software, the DAC setpoint
    cond, park, clear, enable, cntlim, dac_setpoint,
    \* tenkhz_mux
    cnt_int, tenkhz_trig,
    \* the tick delayed by three clocks, and the edge detector of clear
    dff0, dff1, ten_khz_pulse, re, re_reg, clear_pulse,
    \* setpoint change detection
    dac_setpoint_reg_new, dac_setpoint_reg_old, dac_change_flag,
    \* counters, live faults, latched faults, the two masked registers
    cnt, fault_reg, fault_reg_lat, fault_reg_lat_mask, error_reg_mask,
    \* history: ticks a condition has held, clocks since clear was raised
    held, sinceClear

inputs == <<cond, park, clear, enable, cntlim, dac_setpoint>>
tickVars == <<cnt_int, tenkhz_trig, dff0, dff1, ten_khz_pulse>>
clearVars == <<re, re_reg, clear_pulse>>
setptVars == <<dac_setpoint_reg_new, dac_setpoint_reg_old, dac_change_flag>>
faultVars == <<cnt, fault_reg, fault_reg_lat, fault_reg_lat_mask,
               error_reg_mask>>
history == <<held, sinceClear>>
vars == <<inputs, tickVars, clearVars, setptVars, faultVars, history>>

-----------------------------------------------------------------------------
\* fault_stat.flt_trig and fault_stat.err_trig
flt_trig == fault_reg_lat_mask # {}
err_trig == error_reg_mask # {}

Least(a, b) == IF a <= b THEN a ELSE b

Init ==
    /\ cond \in [Checks -> BOOLEAN] /\ park \in BOOLEAN
    /\ clear = FALSE /\ enable \in SUBSET Checks
    /\ cntlim \in [Checks -> LimitValues]
    /\ dac_setpoint = 0
    /\ cnt_int = 0 /\ tenkhz_trig = FALSE
    /\ dff0 = FALSE /\ dff1 = FALSE /\ ten_khz_pulse = FALSE
    /\ re = FALSE /\ re_reg = FALSE /\ clear_pulse = FALSE
    /\ dac_setpoint_reg_new = 0 /\ dac_setpoint_reg_old = 0
    /\ dac_change_flag = FALSE
    /\ cnt = [i \in Checks |-> 0]
    /\ fault_reg = {} /\ fault_reg_lat = {}
    /\ fault_reg_lat_mask = {} /\ error_reg_mask = {}
    /\ held = [i \in Checks |-> 0]
    /\ sinceClear = 0

-----------------------------------------------------------------------------
\* Mutant: the divider is compared with > instead of =.
TickGeneratorLate(reset) ==
    IF reset
    THEN cnt_int' = 0 /\ tenkhz_trig' = FALSE
    ELSE /\ cnt_int' = IF cnt_int > TickDiv THEN 0 ELSE cnt_int + 1
         /\ tenkhz_trig' = (cnt_int > TickDiv)

(* tenkhz_mux: the internal divider; the multiplexer to the EVR or FOFB    *)
(* tick is commented out in the source, O is always the internal tick.     *)
TickGenerator(reset) ==
    IF reset
    THEN cnt_int' = 0 /\ tenkhz_trig' = FALSE
    ELSE /\ cnt_int' = IF cnt_int = TickDiv THEN 0 ELSE cnt_int + 1
         /\ tenkhz_trig' = (cnt_int = TickDiv)

\* Mutant: the tick is passed on without delay.
TickDelayNone(reset) ==
    /\ dff0' = (~reset /\ tenkhz_trig)
    /\ dff1' = (~reset /\ dff0)
    /\ ten_khz_pulse' = (~reset /\ tenkhz_trig)

\* ten_khz_pulse is tenkhz_trig three clocks later
TickDelay(reset) ==
    /\ dff0' = (~reset /\ tenkhz_trig)
    /\ dff1' = (~reset /\ dff0)
    /\ ten_khz_pulse' = (~reset /\ dff1)

\* Mutants of the edge detector: it reacts to the level of clear; the window
\* lasts one clock; the closing tick has priority over a new edge.
ClearEdgeLevel ==
    /\ re' = clear /\ re_reg' = re
    /\ clear_pulse' = (re \/ (clear_pulse /\ ~ten_khz_pulse))

ClearEdgeShort ==
    /\ re' = clear /\ re_reg' = re
    /\ clear_pulse' = (re /\ ~re_reg)

ClearEdgeTickFirst ==
    /\ re' = clear /\ re_reg' = re
    /\ clear_pulse' = (~ten_khz_pulse /\ (clear_pulse \/ (re /\ ~re_reg)))

\* a rising edge of clear opens a window that the next tick closes
ClearEdge ==
    /\ re' = clear
    /\ re_reg' = re
    /\ clear_pulse' = \/ re /\ ~re_reg
                      \/ clear_pulse /\ ~ten_khz_pulse

SetpointRegs(reset) ==
    /\ dac_setpoint_reg_new' = IF reset THEN 0
                               ELSE IF tenkhz_trig THEN dac_setpoint
                               ELSE dac_setpoint_reg_new
    /\ dac_setpoint_reg_old' = IF reset THEN 0
                               ELSE IF tenkhz_trig THEN dac_setpoint_reg_new
                               ELSE dac_setpoint_reg_old
    /\ dac_change_flag' =
          (~reset /\ dac_setpoint_reg_new # dac_setpoint_reg_old)

\* the condition of check i as the main logic sees it at a tick
Asserted(i) ==
    /\ cond[i]
    /\ ~clear_pulse
    /\ i \in ErrChecks => ~park /\ ~dac_change_flag

\* Mutants of the counter: it is not reset when the condition goes away; it
\* stops at its maximum instead of wrapping.
CountNextSticky(i) ==
    IF ~Asserted(i) \/ cnt[i] = cntlim[i] THEN cnt[i]
    ELSE (cnt[i] + 1) % CntMod[i]

CountNextSaturating(i) ==
    IF ~Asserted(i) THEN 0
    ELSE IF cnt[i] = cntlim[i] THEN cnt[i]
    ELSE Least(cnt[i] + 1, CntMod[i] - 1)

\* one debounced check: the counter and the live bit after a tick
CountNext(i) ==
    IF ~Asserted(i) THEN 0
    ELSE IF cnt[i] = cntlim[i] THEN cnt[i]
    ELSE (cnt[i] + 1) % CntMod[i]

\* Mutant: the trip is declared one tick early.
FaultNextEarly(i) ==
    Asserted(i) /\ (cnt[i] + 1 >= cntlim[i] \/ i \in fault_reg)

FaultNext(i) ==
    Asserted(i) /\ (cnt[i] = cntlim[i] \/ i \in fault_reg)

\* the main fault process, its reset branch included
FaultLogic(reset) ==
    /\ cnt' = [i \in Checks |->
                  IF reset THEN (IF i \in DigChecks THEN cnt[i] ELSE 0)
                  ELSE IF ten_khz_pulse THEN CountNext(i) ELSE cnt[i]]
    /\ fault_reg' = IF reset THEN {}
                    ELSE IF ten_khz_pulse THEN {i \in Checks : FaultNext(i)}
                    ELSE fault_reg

\* Mutant: the latches follow the live bits.
LatchesLive(reset) ==
    fault_reg_lat' = IF reset \/ clear_pulse THEN {} ELSE fault_reg

\* the latches, written at every clock
Latches(reset) ==
    fault_reg_lat' = IF reset \/ clear_pulse THEN {}
                     ELSE fault_reg_lat \cup fault_reg

\* x"1FEF" and x"0010": the glitch bit never interlocks, only it triggers
MaskRegs ==
    /\ fault_reg_lat_mask' = (fault_reg_lat \cap enable) \ GlitchChecks
    /\ error_reg_mask' = fault_reg \cap enable \cap GlitchChecks

(* History.  held[i] is the number of consecutive ticks at which check i   *)
(* was asserted; a reset keeps the evidence only of the checks whose       *)
(* counter it does not clear, up to one tick short of the trip.            *)
Remember(reset) ==
    /\ held' = [i \in Checks |->
                  IF reset
                  THEN (IF i \in DigChecks THEN Least(held[i], cntlim[i]) ELSE 0)
                  ELSE IF ~ten_khz_pulse THEN held[i]
                  ELSE IF Asserted(i) THEN Least(held[i] + 1, HeldCap)
                  ELSE 0]
    /\ sinceClear' = IF reset \/ (clear' /\ ~clear) THEN 0
                     ELSE Least(sinceClear + 1, TickDiv + 6)

\* one rising edge of the clock
ClockEdge(reset) ==
    /\ TickGenerator(reset) /\ TickDelay(reset) /\ ClearEdge
    /\ SetpointRegs(reset)
    /\ FaultLogic(reset) /\ Latches(reset) /\ MaskRegs
    /\ Remember(reset)

(* Between two edges the comparators, the digital inputs and the DAC        *)
(* setpoint may change; software writes at most one register, since the    *)
(* register block has one AXI port.                                        *)
PlantChange ==
    /\ cond' \in [Checks -> BOOLEAN]
    /\ dac_setpoint' \in Setpoints

WriteClear == clear' \in BOOLEAN /\ UNCHANGED <<park, enable>>
WritePark == park' \in BOOLEAN /\ UNCHANGED <<clear, enable>>
WriteMask == enable' \in SUBSET Checks /\ UNCHANGED <<clear, park>>

InputsChange == PlantChange /\ (WriteClear \/ WritePark \/ WriteMask)

\* the limits keep the values that were loaded at boot
Clock == InputsChange /\ ClockEdge(FALSE) /\ UNCHANGED cntlim
ResetClock == InputsChange /\ ClockEdge(TRUE) /\ UNCHANGED cntlim

Next == Clock \/ ResetClock

Spec == Init /\ [][Next]_vars /\ WF_vars(Clock)

-----------------------------------------------------------------------------
TypeOK ==
    /\ cond \in [Checks -> BOOLEAN] /\ park \in BOOLEAN /\ clear \in BOOLEAN
    /\ enable \subseteq Checks
    /\ cntlim \in [Checks -> LimitValues]
    /\ dac_setpoint \in Setpoints
    /\ cnt_int \in 0..TickDiv /\ tenkhz_trig \in BOOLEAN
    /\ dff0 \in BOOLEAN /\ dff1 \in BOOLEAN /\ ten_khz_pulse \in BOOLEAN
    /\ re \in BOOLEAN /\ re_reg \in BOOLEAN /\ clear_pulse \in BOOLEAN
    /\ dac_setpoint_reg_new \in Setpoints
    /\ dac_setpoint_reg_old \in Setpoints
    /\ dac_change_flag \in BOOLEAN
    /\ cnt \in [Checks -> Nat] /\ \A i \in Checks : cnt[i] < CntMod[i]
    /\ fault_reg \subseteq Checks /\ fault_reg_lat \subseteq Checks
    /\ fault_reg_lat_mask \subseteq Checks /\ error_reg_mask \subseteq Checks
    /\ held \in [Checks -> 0..HeldCap]
    /\ sinceClear \in 0..(TickDiv + 6)

(* Debounce: check i is live exactly when its condition has been asserted  *)
(* at more than cntlim[i] consecutive ticks - neither earlier nor later,   *)
(* whatever clears, resets, park and setpoint changes come in between      *)
(* (the counters and fault_reg of the main fault process).                 *)
DebounceExact ==
    \A i \in Checks : i \in fault_reg <=> held[i] > cntlim[i]

(* A clear request opens a window in which nothing latches; it is closed   *)
(* by the tick that follows, so a clear bit that software leaves at one    *)
(* does not keep the interlock blind: one tick period and the three clocks *)
(* of tick delay, counted from the edge or from a reset, bound it.         *)
ClearWindowBounded == clear_pulse => sinceClear <= TickDiv + 4

(* When the clear window closes, no live or latched fault is left from     *)
(* before the clear, so nothing can latch again without fresh evidence:    *)
(* the tick that closes the window also clears the live bits.              *)
ClearLeavesNothing ==
    [][clear_pulse /\ ~clear_pulse' => fault_reg' = {} /\ fault_reg_lat' = {}]_vars

(* The comparison of setpoints that masks the error checks belongs to the  *)
(* tick that is being evaluated: an error check goes live only at a tick   *)
(* whose setpoint sample equals the previous one (SetpointRegs against the *)
(* delay of ten_khz_pulse).                                                *)
ErrorOnlyWhenSteady ==
    [][\A i \in ErrChecks : i \in fault_reg' \ fault_reg =>
            dac_setpoint_reg_new = dac_setpoint_reg_old]_vars

(* Every rising edge of the clear register empties the latches, also when  *)
(* it coincides with the tick that would close the window (fault_reg_lat). *)
ClearHonoured == (clear /\ ~re) ~> (fault_reg_lat = {})

(* The detector implements the promise: every clock edge is a tick, a      *)
(* settling step or a reset of FaultPromise, with the evidence as seen and *)
(* the clear window as clearing.                                           *)
Promise == INSTANCE FaultPromise WITH
    Kept <- DigChecks, Cap <- HeldCap, limit <- cntlim, seen <- held,
    live <- fault_reg, latched <- fault_reg_lat, clearing <- clear_pulse

Implements == Promise!Spec

-----------------------------------------------------------------------------
(* The strengthenings that make the invariants above inductive.            *)

\* the counter is the evidence, cut off at the limit
CountIsEvidence == \A i \in Checks : cnt[i] = Least(held[i], cntlim[i])

\* where the tick is in its delay line, in terms of the divider
TickInPipe ==
    /\ tenkhz_trig => cnt_int = 0
    /\ dff0 => cnt_int = 1
    /\ dff1 => cnt_int = 2
    /\ ten_khz_pulse => cnt_int = 3

\* how far a clear request has travelled, and how much window is left
ClearProgress ==
    /\ cnt_int = 0 /\ ~tenkhz_trig => sinceClear = 0
    /\ clear /\ ~re => sinceClear = 0
    /\ re /\ ~re_reg => sinceClear <= 1
    /\ clear_pulse =>
          /\ tenkhz_trig   => sinceClear <= TickDiv + 1
          /\ dff0          => sinceClear <= TickDiv + 2
          /\ dff1          => sinceClear <= TickDiv + 3
          /\ ten_khz_pulse => sinceClear <= TickDiv + 4
          /\ ~(tenkhz_trig \/ dff0 \/ dff1 \/ ten_khz_pulse) => sinceClear <= cnt_int

\* at a tick the change flag has caught up with the two setpoint samples
FlagCurrent ==
    ten_khz_pulse =>
        (dac_change_flag <=> dac_setpoint_reg_new # dac_setpoint_reg_old)

IInv == /\ TypeOK /\ CountIsEvidence /\ DebounceExact
        /\ TickInPipe /\ ClearProgress /\ FlagCurrent
=============================================================================
