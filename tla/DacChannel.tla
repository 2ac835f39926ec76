----------------------------- MODULE DacChannel -----------------------------
(***************************************************************************)
(* The setpoint of one channel on its way from software to the DAC:        *)
(* Set_dac, Set_dacOpmode and Calc_WriteSmooth (control.c), the raised     *)
(* cosine generator (smooth_ramp.vhd), the ramp table (RampTable), the     *)
(* mode multiplexer (dac_chan.vhd) and the gain and offset stage           *)
(* (dac_gainoffset.vhd).                                                   *)
(*                                                                         *)
(* One step is one 10 kHz tick of the gateware, one register write of      *)
(* software, or one of the two things that the gateware does a few clocks  *)
(* after a tick or a write.  Software's writes interleave with all of it.  *)
(* The CORDIC is a table: RaisedCos[ph] is (1 + cos ph)/2, scaled to Amp,  *)
(* for phases from -Pi to 0, and anything in the range of the output for   *)
(* the phases below, which the CORDIC does not promise to take.  The       *)
(* digital loop is off (digpid_enb = 0), so that the DAC gets the gain and *)
(* offset stage's output.                                                  *)
(***************************************************************************)
EXTENDS RampTable

CONSTANTS
    Pi, Amp, RaisedCos,  \* CORDIC_INIT_PHASE, the scale 2^20, the table
    Span,                \* 2^31: phase is a signed register of 32 bits
    Exact,               \* 2^24: a float holds the integers up to this one
    Setpoints,           \* setpoints, as limited by Set_dac
    Rate,                \* ramp_rate in bits per sample
    Offset, Gain, Unit,  \* gain/offset stage: Gain/Unit is the gain
    MaxCommands          \* bound on the commands software gives

SMOOTH == 0
RAMP == 1
JUMP == 3

ASSUME CosineAssumption ==
    /\ Pi \in Nat \ {0} /\ Amp \in Nat \ {0}
    /\ Span \in Nat /\ Pi < Span
    /\ RaisedCos \in [-Span..0 -> 0..Amp]
    /\ RaisedCos[-Pi] = 0 /\ RaisedCos[0] = Amp
    /\ \A a, b \in -Pi..0 : a <= b => RaisedCos[a] <= RaisedCos[b]

(* A number of 32 bits converted to float and back: floats that large lie  *)
(* Grain apart, and the nearest is taken, of two the even one.             *)
Grains == {1, 2, 4, 8, 16, 32, 64, 128, 256}
Grain(x) == CHOOSE g \in Grains : /\ x < Exact * g
                                  /\ \A h \in Grains : x < Exact * h => g <= h
Rounded(x) ==
    LET g == Grain(x)
        q == x \div g
        rest == x - q * g
    IN  IF 2 * rest > g \/ (2 * rest = g /\ q % 2 = 1) THEN (q + 1) * g ELSE q * g

\* the largest increment: a ramp of one sample, rounded up
IncMax == Pi + Grain(Pi) \div 2

ASSUME FloatAssumption ==
    Exact \in Nat \ {0} /\ Pi < Exact * 256 /\ IncMax < Span

ASSUME PathAssumption ==
    /\ Setpoints \subseteq Int
    /\ Rate \in Nat \ {0} /\ MaxCommands \in Nat
    /\ Offset \in Int /\ Gain \in Int /\ Unit \in Nat \ {0}
    /\ Setpoints \cup {Offset} \subseteq -Half..(Half - 1)

VARIABLES
    mode, setpoint, phase_inc,            \* registers written by software
    sw, commands,                         \* writes still to do, commands given
    state, new_setpt_prev, old_setpt, phase, phase_out, last_point,
    cos,                                  \* phase whose cosine is out
    raised_cos, rampout_wdiff, rampout_fp, rampout,
    dac_setpt_raw, dac_setpt, gainPending,
    steady,    \* history: ticks since old_setpt, setpoint or phase_inc changed
    onward     \* history: ticks since a phase below -Pi or the last one was out

regs == <<mode, setpoint, phase_inc>>
ramp == <<state, new_setpt_prev, old_setpt, phase, phase_out, last_point,
          cos, raised_cos, rampout_wdiff, rampout_fp, rampout>>
path == <<dac_setpt_raw, dac_setpt, gainPending>>
history == <<steady, onward>>
vars == <<regs, sw, commands, ramp, tableVars, path, history>>

SteadyCap == 6
OnwardCap == 5

Init ==
    /\ mode = SMOOTH /\ setpoint = 0 /\ phase_inc = 0
    /\ sw = <<>> /\ commands = 0
    /\ state = "idle" /\ new_setpt_prev = 0 /\ old_setpt = 0
    /\ phase = -Pi /\ phase_out = -Pi /\ last_point = FALSE /\ cos = -Pi
    /\ raised_cos = 0 /\ rampout_wdiff = 0 /\ rampout_fp = 0 /\ rampout = 0
    /\ TableInit
    /\ dac_setpt_raw = 0 /\ dac_setpt = 0 /\ gainPending = FALSE
    /\ steady = 0 /\ onward = 0

-----------------------------------------------------------------------------
(* Software.  A command is a list of register writes, done one by one.     *)
Distance(a, b) == IF a >= b THEN a - b ELSE b - a

\* Mutant: the number of samples is that of a whole turn.
PhaseIncTurn(new) ==
    LET num_samples == Distance(new, dac_setpt) \div Rate
    IN  IF num_samples = 0 THEN {0, -1} ELSE {Rounded((2 * Pi) \div num_samples)}

(* Calc_WriteSmooth: the phase increment for the number of samples at the  *)
(* ramp rate, an integer quotient that is kept in a float, so that the     *)
(* increment of a short ramp is rounded.  With no sample the division is   *)
(* by zero: the run-time library returns 0 or all ones, and all ones is -1 *)
(* to the gateware.                                                        *)
PhaseInc(new) ==
    LET num_samples == Distance(new, dac_setpt) \div Rate
    IN  IF num_samples = 0 THEN {0, -1} ELSE {Rounded(Pi \div num_samples)}

Calc_WriteSmooth(inc, new) ==
    <<Write("phase_inc", inc), Write("setpoint", new)>>

Command(writes) ==
    /\ sw = <<>> /\ commands < MaxCommands
    /\ sw' = writes /\ commands' = commands + 1
    /\ UNCHANGED <<regs, ramp, tableVars, path, history>>

\* in RAMP mode Set_dac writes nothing
Set_dac(new) ==
    \E inc \in PhaseInc(new) :
        Command(CASE mode = SMOOTH -> Calc_WriteSmooth(inc, new)
                  [] mode = JUMP   -> <<Write("setpoint", new)>>
                  [] OTHER         -> <<>>)

\* only changes to and from JUMP do anything
Set_dacOpmode(new) ==
    \E inc \in PhaseInc(0) :
        Command(IF (mode \in {SMOOTH, RAMP} /\ new = JUMP)
                   \/ (mode = JUMP /\ new \in {SMOOTH, RAMP})
                THEN Calc_WriteSmooth(inc, 0)
                     \o <<Write("setpoint", 0), Write("mode", new)>>
                ELSE <<>>)

\* Xil_Out32
WriteRegister ==
    /\ sw # <<>> /\ Head(sw).reg \in {"mode", "setpoint", "phase_inc"}
    /\ LET w == Head(sw) IN
       /\ mode' = IF w.reg = "mode" THEN w.val ELSE mode
       /\ setpoint' = IF w.reg = "setpoint" THEN w.val ELSE setpoint
       /\ phase_inc' = IF w.reg = "phase_inc" THEN w.val ELSE phase_inc
    /\ sw' = Tail(sw)
    /\ steady' = IF <<setpoint', phase_inc'>> = <<setpoint, phase_inc>>
                 THEN steady ELSE 0
    /\ UNCHANGED <<commands, ramp, tableVars, path, onward>>

TableRegs == {"ramplen", "table"}

WriteTableRegister ==
    /\ sw # <<>>
    /\ \/ Head(sw).reg = "ramplen" /\ WriteRampLen(Head(sw).val)
       \/ Head(sw).reg = "table" /\ WriteTable(Head(sw).val[1], Head(sw).val[2])
       \/ Head(sw).reg = "runramp" /\ RunRamp(TRUE)
    /\ sw' = Tail(sw)
    /\ UNCHANGED <<regs, commands, ramp, path, history>>

\* inj_trig of the event receiver, at any time; only channel 1 has it
InjTrig ==
    /\ RunRamp(\A i \in DOMAIN sw : sw[i].reg \notin TableRegs)
    /\ UNCHANGED <<regs, sw, commands, ramp, path, history>>

-----------------------------------------------------------------------------
(* smooth_ramp, state IDLE: a changed setpoint starts a ramp from the      *)
(* value at the DAC.  It takes one clock, long before the next tick.       *)
RampDue == state = "idle" /\ new_setpt_prev # setpoint

StartRamp ==
    /\ RampDue
    /\ new_setpt_prev' = setpoint
    /\ old_setpt' = dac_setpt
    /\ phase' = -Pi /\ phase_out' = -Pi /\ last_point' = FALSE
    /\ state' = "run_ramp" /\ steady' = 0 /\ onward' = 0
    /\ UNCHANGED <<regs, sw, commands, tableVars, path, cos, raised_cos,
                   rampout_wdiff, rampout_fp, rampout>>

\* Mutant: the product is added without the old setpoint.
PipelineNoOld ==
    /\ raised_cos' = RaisedCos[cos]
    /\ rampout_wdiff' = ((setpoint - old_setpt) * raised_cos) \div Amp
    /\ rampout_fp' = rampout_wdiff
    /\ rampout' = rampout_fp

\* Mutant: the cosine is not raised but lowered.
PipelineInverted ==
    /\ raised_cos' = Amp - RaisedCos[cos]
    /\ rampout_wdiff' = ((setpoint - old_setpt) * raised_cos) \div Amp
    /\ rampout_fp' = old_setpt + rampout_wdiff
    /\ rampout' = rampout_fp

(* The arithmetic is a pipeline of one stage per tick: the cosine of the   *)
(* phase, the raised cosine, times the difference, plus the old setpoint.  *)
Pipeline ==
    /\ raised_cos' = RaisedCos[cos]
    /\ rampout_wdiff' = ((setpoint - old_setpt) * raised_cos) \div Amp
    /\ rampout_fp' = old_setpt + rampout_wdiff
    /\ rampout' = rampout_fp

\* Mutants of the phase: the last point is declared at half of the turn; it
\* is never declared.
PhaseStepEarly ==
    /\ phase' = IF phase > -(Pi \div 2) THEN 0 ELSE Wrap(phase + phase_inc, Span)
    /\ phase_out' = IF phase > -(Pi \div 2) THEN phase_out ELSE phase
    /\ last_point' = (phase > -(Pi \div 2) \/ last_point)
    /\ state' = IF last_point THEN "idle" ELSE state

PhaseStepEndless ==
    /\ phase' = IF phase > 0 THEN 0 ELSE Wrap(phase + phase_inc, Span)
    /\ phase_out' = IF phase > 0 THEN phase_out ELSE phase
    /\ last_point' = last_point
    /\ state' = IF last_point THEN "idle" ELSE state

PhaseStep ==
    /\ phase' = IF phase > 0 THEN 0 ELSE Wrap(phase + phase_inc, Span)
    /\ phase_out' = IF phase > 0 THEN phase_out ELSE phase
    /\ last_point' = (phase > 0 \/ last_point)
    /\ state' = IF last_point THEN "idle" ELSE state

\* the CORDIC takes a phase at every tick and is done before the next one
RampTick ==
    /\ cos' = phase_out
    /\ IF state = "run_ramp" THEN Pipeline /\ PhaseStep
       ELSE UNCHANGED <<raised_cos, rampout_wdiff, rampout_fp, rampout, phase,
                        phase_out, last_point, state>>
    /\ UNCHANGED <<new_setpt_prev, old_setpt>>

\* dac_chan: the multiplexer, which sees the generators' previous outputs
Source == CASE mode = SMOOTH -> rampout
            [] mode = RAMP   -> ramp_dac_setpt
            [] OTHER         -> setpoint

Tick ==
    /\ ~RampDue /\ ~gainPending /\ TickMayCome
    /\ RampTick /\ TableTick
    /\ dac_setpt_raw' = Source /\ gainPending' = TRUE
    /\ steady' = IF steady < SteadyCap THEN steady + 1 ELSE steady
    /\ onward' = IF cos' \notin -Pi..phase_out' THEN 0
                 ELSE IF onward < OnwardCap THEN onward + 1 ELSE onward
    /\ UNCHANGED <<regs, sw, commands, dac_setpt>>

\* dac_gainoffset for a 20 bit DAC: DacGainOffset has it clock by clock
GainStage(raw) ==
    LET oc == Wrap(raw - Offset, Half)
    IN  SignSaturated(Scaled(oc * Gain, Unit, Half), oc, Half)

\* a few clocks after the tick
GainOffset ==
    /\ gainPending
    /\ dac_setpt' = GainStage(dac_setpt_raw)
    /\ gainPending' = FALSE
    /\ UNCHANGED <<regs, sw, commands, ramp, tableVars, dac_setpt_raw, history>>

FetchTable == Fetch /\ UNCHANGED <<regs, sw, commands, ramp, path, history>>

Gateware == StartRamp \/ Tick \/ GainOffset \/ FetchTable

Next == \/ \E v \in Setpoints : Set_dac(v)
        \/ \E m \in {SMOOTH, RAMP, JUMP} : Set_dacOpmode(m)
        \/ \E points \in Messages : Command(write_ramptable(points))
        \/ \E n \in RampLens : Command(<<Write("ramplen", n)>>)
        \/ Command(<<Write("runramp", 1)>>)
        \/ WriteRegister \/ WriteTableRegister \/ InjTrig
        \/ Gateware

\* the gateware never stops, and a command that was begun is finished
Spec == /\ Init /\ [][Next]_vars
        /\ WF_vars(Gateware) /\ WF_vars(WriteRegister \/ WriteTableRegister)

-----------------------------------------------------------------------------
Min2(a, b) == IF a <= b THEN a ELSE b
Max2(a, b) == IF a >= b THEN a ELSE b

TypeOK ==
    /\ mode \in {SMOOTH, RAMP, JUMP} /\ setpoint \in Setpoints \cup {0}
    /\ phase_inc \in -1..IncMax /\ commands \in 0..MaxCommands
    /\ state \in {"idle", "run_ramp"} /\ last_point \in BOOLEAN
    /\ new_setpt_prev \in Setpoints \cup {0} /\ old_setpt \in Int
    /\ phase \in -Span..(Span - 1) /\ phase_out \in -Span..0 /\ cos \in -Span..0
    /\ raised_cos \in 0..Amp /\ rampout_wdiff \in Int
    /\ rampout_fp \in Int /\ rampout \in Int
    /\ TableTypeOK
    /\ dac_setpt_raw \in Int /\ dac_setpt \in Int /\ gainPending \in BOOLEAN
    /\ steady \in 0..SteadyCap /\ onward \in 0..OnwardCap

(* Once three ticks have flushed the pipeline of what an earlier ramp or   *)
(* an earlier setpoint left in it, the generator's output stays between    *)
(* the value the ramp started from and the setpoint, whatever software     *)
(* wrote before (Pipeline, StartRamp).                                     *)
RampBounded ==
    steady >= 3 /\ state = "run_ramp" =>
        rampout \in Min2(old_setpt, setpoint)..Max2(old_setpt, setpoint)

(* It also only moves towards the setpoint, once five ticks have flushed   *)
(* the phases of an earlier ramp, and those of a division by zero, out of  *)
(* the pipeline (PhaseStep, Pipeline).                                     *)
RampMonotone ==
    [][steady >= 3 /\ onward >= 5 /\ state = "run_ramp" =>
        Distance(rampout', setpoint) <= Distance(rampout, setpoint)]_vars

(* A ramp that ends, undisturbed for its last ticks, ends at most four     *)
(* phase increments below the setpoint: what the pipeline has not pushed   *)
(* out is the error that stays at the DAC.  (A phase that was counted down *)
(* until its register wrapped around is no ramp.)                          *)
EndsWithinFour ==
    [][state = "run_ramp" /\ state' = "idle" /\ steady >= 6 /\ phase_inc >= 0 =>
        Distance(rampout', setpoint) <=
            Distance(old_setpt, setpoint)
            - (Distance(old_setpt, setpoint)
               * RaisedCos[Max2(-Pi, -(4 * phase_inc))]) \div Amp]_vars

(* A ramp with a phase increment comes to its end, and the generator sees  *)
(* the next setpoint.  An increment of all ones gets there only when the   *)
(* phase register wraps around.                                            *)
RampEnds == (state = "run_ramp" /\ phase_inc # 0)
                ~> (state = "idle" \/ phase_inc = 0)
=============================================================================
