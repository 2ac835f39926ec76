----------------------------- MODULE FaultProofs ----------------------------
(***************************************************************************)
(* Proofs about the fault detector, for every set of checks, counter width,*)
(* limit and tick period: alone (FaultBlock), while software rewrites its  *)
(* limits (FaultRetune), and in the loop of the on command (Interlock).    *)
(***************************************************************************)
EXTENDS FaultRetune, Interlock, TLAPS

-----------------------------------------------------------------------------
(* The detector alone.  Its inductive invariant IInv is in FaultBlock.     *)

\* Every step, the stuttering one apart, is a clock edge with legal inputs.
LEMMA StepIsEdge ==
    ASSUME TypeOK, Next
    PROVE  /\ \E r \in BOOLEAN : ClockEdge(r)
           /\ cond' \in [Checks -> BOOLEAN] /\ park' \in BOOLEAN
           /\ clear' \in BOOLEAN /\ enable' \subseteq Checks
           /\ dac_setpoint' \in Setpoints /\ cntlim' = cntlim
BY DEF TypeOK, Next, Clock, ResetClock, InputsChange, PlantChange,
       WriteClear, WritePark, WriteMask

\* A legal limit is below both the counter's modulus and the history's cap.
LEMMA LimitRange ==
    ASSUME TypeOK, NEW i \in Checks
    PROVE  /\ cntlim[i] \in Nat /\ CntMod[i] \in Nat \ {0} /\ HeldCap \in Nat
           /\ cntlim[i] < CntMod[i] /\ cntlim[i] < HeldCap
           /\ cnt[i] \in Nat /\ cnt[i] < CntMod[i]
           /\ held[i] \in Nat /\ held[i] <= HeldCap
<1>1. /\ cntlim[i] \in LimitValues /\ cnt[i] \in Nat /\ cnt[i] < CntMod[i]
      /\ held[i] \in 0..HeldCap
  BY DEF TypeOK
<1>2. /\ CntMod[i] \in Nat \ {0} /\ HeldCap \in Nat
      /\ cntlim[i] \in Nat /\ cntlim[i] < CntMod[i] /\ cntlim[i] < HeldCap
  BY <1>1, CounterAssumption DEF CounterAssumption
<1>3. QED
  BY <1>1, <1>2

\* The initial state satisfies the inductive invariant.
LEMMA InitIInv == Init => IInv
<1> SUFFICES ASSUME Init PROVE IInv
  OBVIOUS
<1> USE ChecksAssumption, CounterAssumption, TickAssumption, SetpointAssumption
    DEF ChecksAssumption, CounterAssumption, TickAssumption, SetpointAssumption
<1>1. TypeOK
  <2>1. /\ cnt \in [Checks -> Nat] /\ \A i \in Checks : cnt[i] < CntMod[i]
        /\ held \in [Checks -> 0..HeldCap]
    BY DEF Init
  <2>2. cnt_int \in 0..TickDiv /\ sinceClear \in 0..(TickDiv + 6)
    BY DEF Init
  <2>3. QED
    BY <2>1, <2>2 DEF Init, TypeOK
<1>2. CountIsEvidence /\ DebounceExact
  <2>1. ASSUME NEW i \in Checks PROVE cntlim[i] \in Nat
    BY <1>1, LimitRange
  <2>2. QED
    BY <2>1 DEF Init, CountIsEvidence, DebounceExact, Least
<1>3. TickInPipe /\ ClearProgress /\ FlagCurrent
  BY DEF Init, TickInPipe, ClearProgress, FlagCurrent
<1>4. QED
  BY <1>1, <1>2, <1>3 DEF IInv

\* A clock edge preserves the types.
LEMMA TypeStep ==
    ASSUME TypeOK, Next
    PROVE  TypeOK'
<1> USE ChecksAssumption, CounterAssumption, TickAssumption, SetpointAssumption
    DEF ChecksAssumption, CounterAssumption, TickAssumption, SetpointAssumption
<1>1. PICK reset \in BOOLEAN : ClockEdge(reset)
  BY StepIsEdge
<1>2. /\ cnt_int' \in 0..TickDiv /\ tenkhz_trig' \in BOOLEAN
      /\ dff0' \in BOOLEAN /\ dff1' \in BOOLEAN /\ ten_khz_pulse' \in BOOLEAN
  <2>1. cnt_int' \in 0..TickDiv
    BY <1>1 DEF ClockEdge, TickGenerator, TypeOK
  <2>2. tenkhz_trig' \in BOOLEAN
    BY <1>1 DEF ClockEdge, TickGenerator
  <2>3. dff0' \in BOOLEAN /\ dff1' \in BOOLEAN /\ ten_khz_pulse' \in BOOLEAN
    BY <1>1, Zenon DEF ClockEdge, TickDelay
  <2>4. QED
    BY <2>1, <2>2, <2>3
<1>3. re' \in BOOLEAN /\ re_reg' \in BOOLEAN /\ clear_pulse' \in BOOLEAN
  BY <1>1 DEF ClockEdge, ClearEdge, TypeOK
<1>4. /\ dac_setpoint_reg_new' \in Setpoints
      /\ dac_setpoint_reg_old' \in Setpoints /\ dac_change_flag' \in BOOLEAN
  BY <1>1 DEF ClockEdge, SetpointRegs, TypeOK
<1>5. cnt' \in [Checks -> Nat] /\ \A i \in Checks : cnt'[i] < CntMod[i]
  <2>1. ASSUME NEW i \in Checks
        PROVE  CountNext(i) \in Nat /\ CountNext(i) < CntMod[i]
    BY LimitRange DEF CountNext
  <2>2. QED
    BY <1>1, <2>1, LimitRange DEF ClockEdge, FaultLogic, TypeOK
<1>6. fault_reg' \subseteq Checks /\ fault_reg_lat' \subseteq Checks
  BY <1>1 DEF ClockEdge, FaultLogic, Latches, TypeOK
<1>7. fault_reg_lat_mask' \subseteq Checks /\ error_reg_mask' \subseteq Checks
  BY <1>1 DEF ClockEdge, MaskRegs, TypeOK
<1>8. held' \in [Checks -> 0..HeldCap]
  <2>1. ASSUME NEW i \in Checks
        PROVE  /\ Least(held[i], cntlim[i]) \in 0..HeldCap
               /\ Least(held[i] + 1, HeldCap) \in 0..HeldCap
               /\ held[i] \in 0..HeldCap /\ 0 \in 0..HeldCap
    BY LimitRange DEF Least
  <2>2. QED
    BY <1>1, <2>1 DEF ClockEdge, Remember
<1>9. sinceClear' \in 0..(TickDiv + 6)
  BY <1>1 DEF ClockEdge, Remember, TypeOK, Least
<1>10. QED
  BY <1>2, <1>3, <1>4, <1>5, <1>6, <1>7, <1>8, <1>9, StepIsEdge DEF TypeOK

\* A clock edge preserves the debounce relation between a counter, its live
\* bit and the evidence, check by check.
LEMMA DebounceStep ==
    ASSUME IInv, Next
    PROVE  CountIsEvidence' /\ DebounceExact'
<1>1. PICK reset \in BOOLEAN : ClockEdge(reset)
  BY StepIsEdge DEF IInv
<1>2. TypeOK /\ cntlim' = cntlim
  BY StepIsEdge DEF IInv
<1>3. ASSUME NEW i \in Checks
      PROVE  /\ cnt'[i] = Least(held'[i], cntlim[i])
             /\ i \in fault_reg' <=> held'[i] > cntlim[i]
  <2>1. /\ cnt[i] = Least(held[i], cntlim[i])
        /\ i \in fault_reg <=> held[i] > cntlim[i]
    BY DEF IInv, CountIsEvidence, DebounceExact
  <2>2. /\ cntlim[i] \in Nat /\ CntMod[i] \in Nat \ {0} /\ HeldCap \in Nat
        /\ cntlim[i] < CntMod[i] /\ cntlim[i] < HeldCap
        /\ held[i] \in Nat /\ held[i] <= HeldCap
    BY <1>2, LimitRange
  <2>3. CASE reset
    <3>1. /\ cnt'[i] = IF i \in DigChecks THEN cnt[i] ELSE 0
          /\ fault_reg' = {}
          /\ held'[i] = IF i \in DigChecks THEN Least(held[i], cntlim[i]) ELSE 0
      BY <1>1, <2>3 DEF ClockEdge, FaultLogic, Remember
    <3>2. QED
      BY <2>1, <2>2, <3>1 DEF Least
  <2>4. CASE ~reset /\ ~ten_khz_pulse
    <3>1. cnt'[i] = cnt[i] /\ fault_reg' = fault_reg /\ held'[i] = held[i]
      BY <1>1, <2>4 DEF ClockEdge, FaultLogic, Remember
    <3>2. QED
      BY <2>1, <3>1
  <2>5. CASE ~reset /\ ten_khz_pulse /\ Asserted(i)
    <3>1. /\ cnt'[i] = CountNext(i)
          /\ i \in fault_reg' <=> FaultNext(i)
          /\ held'[i] = Least(held[i] + 1, HeldCap)
      BY <1>1, <2>5 DEF ClockEdge, FaultLogic, Remember
    <3>2. /\ CountNext(i) = IF cnt[i] = cntlim[i] THEN cnt[i]
                            ELSE (cnt[i] + 1) % CntMod[i]
          /\ FaultNext(i) <=> cnt[i] = cntlim[i] \/ i \in fault_reg
      BY <2>5 DEF CountNext, FaultNext
    <3>3. CASE held[i] >= cntlim[i]
      <4>1. cnt[i] = cntlim[i] /\ held'[i] > cntlim[i]
        BY <2>1, <2>2, <3>1, <3>3 DEF Least
      <4>2. QED
        BY <2>2, <3>1, <3>2, <4>1 DEF Least
    <3>4. CASE held[i] < cntlim[i]
      <4>1. cnt[i] = held[i] /\ held'[i] = held[i] + 1 /\ i \notin fault_reg
        BY <2>1, <2>2, <3>1, <3>4 DEF Least
      <4>2. (held[i] + 1) % CntMod[i] = held[i] + 1
        BY <2>2, <3>4
      <4>3. QED
        BY <2>2, <3>1, <3>2, <3>4, <4>1, <4>2 DEF Least
    <3>5. QED
      BY <2>2, <3>3, <3>4
  <2>6. CASE ~reset /\ ten_khz_pulse /\ ~Asserted(i)
    <3>1. cnt'[i] = 0 /\ i \notin fault_reg' /\ held'[i] = 0
      BY <1>1, <2>6 DEF ClockEdge, FaultLogic, Remember, CountNext, FaultNext
    <3>2. QED
      BY <2>2, <3>1 DEF Least
  <2>7. QED
    BY <2>3, <2>4, <2>5, <2>6
<1>4. QED
  BY <1>2, <1>3 DEF CountIsEvidence, DebounceExact

\* A clock edge moves the tick one stage down its delay line; the divider
\* says which stage.
LEMMA TickStep ==
    ASSUME IInv, Next
    PROVE  TickInPipe'
<1>1. PICK reset \in BOOLEAN : ClockEdge(reset)
  BY StepIsEdge DEF IInv
<1>2. /\ cnt_int \in 0..TickDiv /\ TickDiv \in Nat /\ TickDiv >= 3
      /\ tenkhz_trig => cnt_int = 0
      /\ dff0 => cnt_int = 1
      /\ dff1 => cnt_int = 2
  BY TickAssumption DEF TickAssumption, IInv, TypeOK, TickInPipe
<1>3. CASE reset
  <2>1. ~tenkhz_trig' /\ ~dff0' /\ ~dff1' /\ ~ten_khz_pulse'
    BY <1>1, <1>3 DEF ClockEdge, TickGenerator, TickDelay
  <2>2. QED
    BY <2>1 DEF TickInPipe
<1>4. CASE ~reset
  <2>1. /\ cnt_int' = IF cnt_int = TickDiv THEN 0 ELSE cnt_int + 1
        /\ tenkhz_trig' <=> cnt_int = TickDiv
        /\ dff0' <=> tenkhz_trig
        /\ dff1' <=> dff0
        /\ ten_khz_pulse' <=> dff1
    BY <1>1, <1>4 DEF ClockEdge, TickGenerator, TickDelay
  <2>2. QED
    BY <1>2, <2>1 DEF TickInPipe
<1>5. QED
  BY <1>3, <1>4

\* A clock edge brings an open clear window closer to the tick that ends it.
LEMMA ClearStep ==
    ASSUME IInv, Next
    PROVE  ClearProgress'
<1>1. PICK reset \in BOOLEAN : ClockEdge(reset)
  BY StepIsEdge DEF IInv
<1>2. /\ cnt_int \in 0..TickDiv /\ TickDiv \in Nat /\ TickDiv >= 3
      /\ sinceClear \in 0..(TickDiv + 6)
  BY TickAssumption DEF TickAssumption, IInv, TypeOK
<1>3. TickInPipe /\ ClearProgress
  BY DEF IInv
<1>4. /\ re' = clear
      /\ re_reg' = re
      /\ clear_pulse' <=> (re /\ ~re_reg) \/ (clear_pulse /\ ~ten_khz_pulse)
  BY <1>1 DEF ClockEdge, ClearEdge
<1>5. /\ reset \/ (clear' /\ ~clear) => sinceClear' = 0
      /\ sinceClear' <= sinceClear + 1 /\ sinceClear' \in Nat
  BY <1>1, <1>2 DEF ClockEdge, Remember, Least
<1>6. CASE reset
  <2>1. /\ cnt_int' = 0 /\ ~tenkhz_trig' /\ sinceClear' = 0
        /\ ~dff0' /\ ~dff1' /\ ~ten_khz_pulse'
    BY <1>1, <1>5, <1>6 DEF ClockEdge, TickGenerator, TickDelay
  <2>2. QED
    BY <2>1 DEF ClearProgress
<1>7. CASE ~reset
  <2>1. /\ cnt_int' = IF cnt_int = TickDiv THEN 0 ELSE cnt_int + 1
        /\ tenkhz_trig' <=> cnt_int = TickDiv
        /\ dff0' <=> tenkhz_trig
        /\ dff1' <=> dff0
        /\ ten_khz_pulse' <=> dff1
    BY <1>1, <1>7 DEF ClockEdge, TickGenerator, TickDelay
  <2>2. cnt_int' = 0 => tenkhz_trig'
    BY <1>2, <2>1
  <2>3. clear' /\ ~re' => sinceClear' = 0
    BY <1>4, <1>5
  <2>4. re' /\ ~re_reg' => sinceClear' <= 1
    BY <1>2, <1>3, <1>4, <1>5 DEF ClearProgress
  <2>5. ASSUME clear_pulse'
        PROVE  /\ tenkhz_trig'   => sinceClear' <= TickDiv + 1
               /\ dff0'          => sinceClear' <= TickDiv + 2
               /\ dff1'          => sinceClear' <= TickDiv + 3
               /\ ten_khz_pulse' => sinceClear' <= TickDiv + 4
               /\ ~(tenkhz_trig' \/ dff0' \/ dff1' \/ ten_khz_pulse')
                     => sinceClear' <= cnt_int'
    <3>1. CASE re /\ ~re_reg
      <4>1. sinceClear <= 1 /\ sinceClear' <= 2
        BY <1>2, <1>3, <1>5, <3>1 DEF ClearProgress
      <4>2. ~tenkhz_trig' /\ ~dff0' => sinceClear' <= cnt_int'
        BY <1>2, <1>3, <1>5, <2>1, <4>1 DEF ClearProgress
      <4>3. QED
        BY <1>2, <1>5, <4>1, <4>2
    <3>2. CASE clear_pulse /\ ~ten_khz_pulse
      BY <1>2, <1>3, <1>5, <2>1, <3>2 DEF ClearProgress, TickInPipe
    <3>3. QED
      BY <1>4, <2>5, <3>1, <3>2
  <2>6. QED
    BY <2>2, <2>3, <2>4, <2>5 DEF ClearProgress
<1>8. QED
  BY <1>6, <1>7

\* When the tick reaches the fault logic, the change flag has been computed
\* from the two samples that this tick took.
LEMMA FlagStep ==
    ASSUME IInv, Next
    PROVE  FlagCurrent'
<1>1. PICK reset \in BOOLEAN : ClockEdge(reset)
  BY StepIsEdge DEF IInv
<1>2. ~(dff1 /\ tenkhz_trig)
  BY DEF IInv, TickInPipe
<1>3. SUFFICES ASSUME ten_khz_pulse'
               PROVE  dac_change_flag' <=>
                        dac_setpoint_reg_new' # dac_setpoint_reg_old'
  BY DEF FlagCurrent
<1>4. dff1 /\ ~reset
  BY <1>1, <1>3 DEF ClockEdge, TickDelay
<1>5. /\ dac_setpoint_reg_new' = dac_setpoint_reg_new
      /\ dac_setpoint_reg_old' = dac_setpoint_reg_old
      /\ dac_change_flag' <=> dac_setpoint_reg_new # dac_setpoint_reg_old
  BY <1>1, <1>2, <1>4 DEF ClockEdge, SetpointRegs
<1>6. QED
  BY <1>5

\* A stuttering step changes nothing the invariant speaks of.
LEMMA StutterIInv ==
    ASSUME IInv, UNCHANGED vars
    PROVE  IInv'
BY DEF IInv, TypeOK, CountIsEvidence, DebounceExact, TickInPipe,
       ClearProgress, FlagCurrent, vars, inputs, tickVars, clearVars,
       setptVars, faultVars, history

(* The inductive invariant of the fault detector: every reachable state    *)
(* has the types, the debounce relation, the position of the tick, the     *)
(* progress of a clear request and the age of the change flag in order.    *)
THEOREM Inductive == Spec => []IInv
<1>1. Init => IInv
  BY InitIInv
<1>2. IInv /\ [Next]_vars => IInv'
  <2>1. ASSUME IInv, Next PROVE IInv'
    BY <2>1, TypeStep, DebounceStep, TickStep, ClearStep, FlagStep DEF IInv
  <2>2. ASSUME IInv, UNCHANGED vars PROVE IInv'
    BY <2>2, StutterIInv
  <2>3. QED
    BY <2>1, <2>2
<1>3. QED
  BY <1>1, <1>2, PTL DEF Spec

(* Every register of the fault detector keeps its type; no counter leaves  *)
(* its width (fault_block.vhd, the signal declarations).                   *)
THEOREM TypeCorrect == Spec => []TypeOK
<1>1. IInv => TypeOK
  BY DEF IInv
<1>2. QED
  BY <1>1, Inductive, PTL

(* A check goes live exactly after cntlim + 1 consecutive asserted ticks,  *)
(* for every limit that fits its counter (fault_block.vhd, main process).  *)
THEOREM Debounce == Spec => []DebounceExact
<1>1. IInv => DebounceExact
  BY DEF IInv
<1>2. QED
  BY <1>1, Inductive, PTL

(* A clear request blinds the latches for at most one tick period and the  *)
(* delay of the tick, for every tick period (the clear_pulse process).     *)
THEOREM ClearWindow == Spec => []ClearWindowBounded
<1>1. IInv => ClearWindowBounded
  <2> SUFFICES ASSUME IInv, clear_pulse PROVE sinceClear <= TickDiv + 4
    BY DEF ClearWindowBounded
  <2>1. /\ cnt_int \in 0..TickDiv /\ TickDiv \in Nat
        /\ sinceClear \in 0..(TickDiv + 6)
    BY TickAssumption DEF TickAssumption, IInv, TypeOK
  <2>2. QED
    BY <2>1 DEF IInv, ClearProgress
<1>2. QED
  BY <1>1, Inductive, PTL

(* When the clear window closes no fault, live or latched, survives it     *)
(* (the latches and the clear_pulse terms of the main process).            *)
THEOREM ClearComplete == Spec => ClearLeavesNothing
<1>1. ASSUME IInv, [Next]_vars
      PROVE  [clear_pulse /\ ~clear_pulse' =>
                  fault_reg' = {} /\ fault_reg_lat' = {}]_vars
  <2>1. SUFFICES ASSUME Next, clear_pulse, ~clear_pulse'
                 PROVE  fault_reg' = {} /\ fault_reg_lat' = {}
    BY <1>1
  <2>2. PICK reset \in BOOLEAN : ClockEdge(reset)
    BY <1>1, <2>1, StepIsEdge DEF IInv
  <2>3. ten_khz_pulse
    BY <2>1, <2>2 DEF ClockEdge, ClearEdge
  <2>4. QED
    BY <2>1, <2>2, <2>3
       DEF ClockEdge, FaultLogic, Latches, FaultNext, Asserted
<1>2. QED
  BY <1>1, Inductive, PTL DEF Spec, ClearLeavesNothing

(* An error check goes live only at a tick whose setpoint sample equals    *)
(* the one before (SetpointRegs and the three stages of the tick).         *)
THEOREM ErrorSteady == Spec => ErrorOnlyWhenSteady
<1>1. ASSUME IInv, [Next]_vars
      PROVE  [\A i \in ErrChecks : i \in fault_reg' \ fault_reg =>
                  dac_setpoint_reg_new = dac_setpoint_reg_old]_vars
  <2>1. SUFFICES ASSUME Next, NEW i \in ErrChecks, i \in fault_reg' \ fault_reg
                 PROVE  dac_setpoint_reg_new = dac_setpoint_reg_old
    BY <1>1
  <2>2. PICK reset \in BOOLEAN : ClockEdge(reset)
    BY <1>1, <2>1, StepIsEdge DEF IInv
  <2>3. ten_khz_pulse /\ FaultNext(i)
    BY <2>1, <2>2 DEF ClockEdge, FaultLogic
  <2>4. ~dac_change_flag
    BY <2>1, <2>3 DEF FaultNext, Asserted
  <2>5. QED
    BY <1>1, <2>3, <2>4 DEF IInv, FlagCurrent
<1>2. QED
  BY <1>1, Inductive, PTL DEF Spec, ErrorOnlyWhenSteady

\* The initial states of the detector are initial states of the promise.
LEMMA PromiseInit == Init => Promise!Init
<1> SUFFICES ASSUME Init PROVE Promise!Init
  OBVIOUS
<1>1. \A l \in LimitValues : Checks # {} => l \in 0..(HeldCap - 1)
  BY CounterAssumption DEF CounterAssumption
<1>2. cntlim \in [Checks -> 0..(HeldCap - 1)]
  BY <1>1 DEF Init
<1>3. QED
  BY <1>2 DEF Init, Promise!Init

\* A step of the detector is a step of the promise: a clock edge with reset is
\* its reset, one with the delayed tick a tick at which the asserted checks are
\* seen, every other edge a settling step.
LEMMA PromiseStep ==
    ASSUME IInv, IInv', [Next]_vars
    PROVE  [Promise!Next]_(Promise!pvars)
<1>1. CASE UNCHANGED vars
  BY <1>1 DEF vars, inputs, clearVars, faultVars, history, Promise!pvars
<1>2. CASE Next
  <2>1. PICK reset \in BOOLEAN : ClockEdge(reset)
    BY <1>2, StepIsEdge DEF IInv
  <2>2. UNCHANGED cntlim /\ clear_pulse' \in BOOLEAN
    BY <1>2, StepIsEdge DEF IInv, TypeOK
  <2>3. CASE reset
    BY <2>1, <2>2, <2>3
       DEF ClockEdge, FaultLogic, Latches, Remember, Least,
           Promise!Next, Promise!Reset
  <2>4. ~reset => Promise!Latch
    BY <2>1 DEF ClockEdge, Latches, Promise!Latch
  <2>5. CASE ~reset /\ ~ten_khz_pulse
    <3>1. clear_pulse' \in {clear_pulse, TRUE}
      BY <2>1, <2>5 DEF ClockEdge, ClearEdge, IInv, TypeOK
    <3>2. held' = held
      BY <2>1, <2>5 DEF ClockEdge, Remember, IInv, TypeOK
    <3>3. fault_reg' = fault_reg
      BY <2>1, <2>5 DEF ClockEdge, FaultLogic
    <3>4. QED
      BY <2>2, <2>4, <2>5, <3>1, <3>2, <3>3 DEF Promise!Next, Promise!Settle
  <2>6. CASE ~reset /\ ten_khz_pulse
    <3> DEFINE A == {i \in Checks : Asserted(i)}
    <3>1. held' = [i \in Checks |->
                     IF i \notin A \/ clear_pulse THEN 0
                     ELSE IF held[i] < HeldCap THEN held[i] + 1 ELSE HeldCap]
      <4>1. ASSUME NEW i \in Checks
            PROVE  held[i] \in Nat /\ held[i] <= HeldCap /\ HeldCap \in Nat
        BY LimitRange DEF IInv
      <4>2. ASSUME NEW i \in Checks
            PROVE  Least(held[i] + 1, HeldCap) =
                     IF held[i] < HeldCap THEN held[i] + 1 ELSE HeldCap
        BY <4>1 DEF Least
      <4>3. held' = [i \in Checks |->
                       IF Asserted(i) THEN Least(held[i] + 1, HeldCap) ELSE 0]
        BY <2>1, <2>6 DEF ClockEdge, Remember
      <4>4. \A i \in Checks : Asserted(i) => ~clear_pulse
        BY DEF Asserted
      <4>5. QED
        BY <4>2, <4>3, <4>4
    <3>2. fault_reg' = {i \in Checks : held'[i] > cntlim[i]}
      BY <2>2 DEF IInv, TypeOK, DebounceExact
    <3>3. Promise!Tick(A)
      BY <2>2, <2>4, <2>6, <3>1, <3>2 DEF Promise!Tick
    <3>4. QED
      BY <3>3 DEF Promise!Next
  <2>7. QED
    BY <2>3, <2>5, <2>6
<1>3. QED
  BY <1>1, <1>2

\* The fault detector implements its promise.
THEOREM Refinement == Spec => Implements
BY PromiseInit, PromiseStep, Inductive, PTL DEF Spec, Implements, Promise!Spec

-----------------------------------------------------------------------------
(* Limits rewritten while a check counts: the inductive invariant.         *)

\* the registers and histories that the argument is about
Counts ==
    /\ cntlim \in [Checks -> LimitValues] /\ fault_reg \subseteq Checks
    /\ cnt \in [Checks -> Nat] /\ \A i \in Checks : cnt[i] < CntMod[i]
    /\ held \in [Checks -> Nat] /\ \A i \in Checks : held[i] <= HeldCap
    /\ underLimit \in [Checks -> Nat]

\* a counter never runs ahead of the evidence
CountBehind == \A i \in Checks : cnt[i] <= held[i] \/ held[i] = HeldCap

\* ticks until counter i meets its limit, through a wrap if it is past it
ToGo(i) == IF cnt[i] <= cntlim[i] THEN cntlim[i] - cnt[i]
           ELSE CntMod[i] + cntlim[i] - cnt[i]

\* every tick under the limit brings a check that is not live one closer
Approaching ==
    \A i \in Checks \ fault_reg : underLimit[i] + ToGo(i) < CntMod[i]

RetuneIInv == Counts /\ CountBehind /\ Approaching

-----------------------------------------------------------------------------
\* What the assumptions say of the numbers of one check.
LEMMA CheckNumbers ==
    ASSUME Counts, NEW i \in Checks
    PROVE  /\ cntlim[i] \in Nat /\ CntMod[i] \in Nat \ {0} /\ HeldCap \in Nat
           /\ cntlim[i] < CntMod[i] /\ cntlim[i] < HeldCap
           /\ cnt[i] \in Nat /\ cnt[i] < CntMod[i]
           /\ held[i] \in Nat /\ held[i] <= HeldCap
           /\ underLimit[i] \in Nat
           /\ UnderCap \in Nat /\ CntMod[i] + cntlim[i] < UnderCap
<1>1. /\ cntlim[i] \in LimitValues /\ cnt[i] \in Nat /\ cnt[i] < CntMod[i]
      /\ held[i] \in Nat /\ held[i] <= HeldCap /\ underLimit[i] \in Nat
  BY DEF Counts
<1>2. /\ CntMod[i] \in Nat \ {0} /\ HeldCap \in Nat
      /\ cntlim[i] \in Nat /\ cntlim[i] < CntMod[i] /\ cntlim[i] < HeldCap
  BY <1>1, CounterAssumption DEF CounterAssumption
<1>3. UnderCap \in Nat /\ CntMod[i] + cntlim[i] < UnderCap
  BY <1>1, UnderCapAssumption DEF UnderCapAssumption
<1>4. QED
  BY <1>1, <1>2, <1>3

\* The detector starts in a state of the invariant.
LEMMA RetuneInitIInv == RetuneInit => RetuneIInv
<1> SUFFICES ASSUME RetuneInit PROVE RetuneIInv
  OBVIOUS
<1>1. Counts
  BY CounterAssumption DEF CounterAssumption, RetuneInit, Init, Counts
<1>2. CountBehind
  BY DEF RetuneInit, Init, CountBehind
<1>3. ASSUME NEW i \in Checks PROVE underLimit[i] + ToGo(i) < CntMod[i]
  <2>1. cnt[i] = 0 /\ underLimit[i] = 0
    BY DEF RetuneInit, Init
  <2>2. QED
    BY <1>1, <2>1, CheckNumbers DEF ToGo
<1>4. QED
  BY <1>1, <1>2, <1>3 DEF RetuneIInv, Approaching

\* One clock edge for one check: what becomes of its counter, its live bit and
\* its histories at a tick, and that nothing does between ticks.
LEMMA CheckStep ==
    ASSUME Counts, NEW i \in Checks, ClockEdge(FALSE),
           NEW written \in SUBSET Checks, UnderNext(written)
    PROVE  \/ /\ ~ten_khz_pulse /\ cnt'[i] = cnt[i] /\ held'[i] = held[i]
              /\ i \in fault_reg' <=> i \in fault_reg
              /\ underLimit'[i] = IF i \in written THEN 0 ELSE underLimit[i]
           \/ /\ ten_khz_pulse /\ Asserted(i) /\ cnt'[i] = CountNext(i)
              /\ held'[i] = Least(held[i] + 1, HeldCap)
              /\ i \in fault_reg' <=> (cnt[i] = cntlim[i] \/ i \in fault_reg)
              /\ underLimit'[i] = IF i \in written THEN 0
                                  ELSE Least(underLimit[i] + 1, UnderCap)
           \/ /\ ten_khz_pulse /\ ~Asserted(i) /\ cnt'[i] = 0 /\ held'[i] = 0
              /\ i \notin fault_reg' /\ underLimit'[i] = 0
<1>1. /\ cnt'[i] = IF ten_khz_pulse THEN CountNext(i) ELSE cnt[i]
      /\ i \in fault_reg' <=> IF ten_khz_pulse THEN FaultNext(i) ELSE i \in fault_reg
  BY DEF ClockEdge, FaultLogic
<1>2. held'[i] = IF ~ten_khz_pulse THEN held[i]
                 ELSE IF Asserted(i) THEN Least(held[i] + 1, HeldCap) ELSE 0
  BY DEF ClockEdge, Remember
<1>3. underLimit'[i] = IF i \in written THEN 0
                       ELSE IF ~ten_khz_pulse THEN underLimit[i]
                       ELSE IF Asserted(i) THEN Least(underLimit[i] + 1, UnderCap)
                       ELSE 0
  BY DEF UnderNext
<1>4. CASE ~ten_khz_pulse
  BY <1>1, <1>2, <1>3, <1>4
<1>5. CASE ten_khz_pulse /\ Asserted(i)
  BY <1>1, <1>2, <1>3, <1>5 DEF FaultNext
<1>6. CASE ten_khz_pulse /\ ~Asserted(i)
  BY <1>1, <1>2, <1>3, <1>6 DEF FaultNext, CountNext
<1>7. QED
  BY <1>4, <1>5, <1>6

\* The counter of a check that is asserted, in terms of plain addition.
LEMMA CountNextValue ==
    ASSUME Counts, NEW i \in Checks, Asserted(i)
    PROVE  CountNext(i) = IF cnt[i] = cntlim[i] THEN cnt[i]
                          ELSE IF cnt[i] + 1 = CntMod[i] THEN 0 ELSE cnt[i] + 1
<1>1. cnt[i] \in Nat /\ CntMod[i] \in Nat \ {0} /\ cnt[i] + 1 <= CntMod[i]
  BY CheckNumbers
<1>2. (cnt[i] + 1) % CntMod[i] = IF cnt[i] + 1 = CntMod[i] THEN 0 ELSE cnt[i] + 1
  BY <1>1
<1>3. QED
  BY <1>2 DEF CountNext

\* A step is a clock edge with at most one limit written.
LEMMA RetuneStep ==
    ASSUME Counts, RetuneNext
    PROVE  /\ ClockEdge(FALSE)
           /\ \E written \in SUBSET Checks :
                 /\ UnderNext(written)
                 /\ cntlim' \in [Checks -> LimitValues]
                 /\ \A i \in Checks \ written : cntlim'[i] = cntlim[i]
<1>1. CASE Run
  BY <1>1 DEF Run, Clock, Counts
<1>2. ASSUME NEW i \in Checks, NEW l \in LimitValues, WriteLimit(i, l)
      PROVE  /\ ClockEdge(FALSE) /\ UnderNext({i})
             /\ cntlim' \in [Checks -> LimitValues]
             /\ \A j \in Checks \ {i} : cntlim'[j] = cntlim[j]
  BY <1>2 DEF WriteLimit, Counts
<1>3. QED
  BY <1>1, <1>2 DEF RetuneNext

\* Every step keeps the invariant.
LEMMA RetuneNextIInv == RetuneIInv /\ [RetuneNext]_rvars => RetuneIInv'
<1> SUFFICES ASSUME RetuneIInv, [RetuneNext]_rvars PROVE RetuneIInv'
  OBVIOUS
<1>1. CASE UNCHANGED rvars
  BY <1>1 DEF rvars, vars, inputs, faultVars, history, RetuneIInv, Counts,
              CountBehind, Approaching, ToGo
<1>2. CASE RetuneNext
  <2>1. Counts
    BY DEF RetuneIInv
  <2>2. ClockEdge(FALSE)
    BY <1>2, <2>1, RetuneStep
  <2>3. PICK written \in SUBSET Checks :
            /\ UnderNext(written) /\ cntlim' \in [Checks -> LimitValues]
            /\ \A i \in Checks \ written : cntlim'[i] = cntlim[i]
    BY <1>2, <2>1, RetuneStep
  <2>4. ASSUME NEW i \in Checks
        PROVE  /\ cnt'[i] \in Nat /\ cnt'[i] < CntMod[i]
               /\ held'[i] \in Nat /\ held'[i] <= HeldCap
               /\ underLimit'[i] \in Nat
               /\ cnt'[i] <= held'[i] \/ held'[i] = HeldCap
    <3>1. cnt[i] <= held[i] \/ held[i] = HeldCap
      BY DEF RetuneIInv, CountBehind
    <3>2. /\ CntMod[i] \in Nat \ {0} /\ HeldCap \in Nat /\ UnderCap \in Nat
          /\ cnt[i] \in Nat /\ cnt[i] < CntMod[i] /\ underLimit[i] \in Nat
          /\ held[i] \in Nat /\ held[i] <= HeldCap
      BY <2>1, CheckNumbers
    <3>3. CASE ~ten_khz_pulse
      <4>1. /\ cnt'[i] = cnt[i] /\ held'[i] = held[i]
            /\ underLimit'[i] \in {0, underLimit[i]}
        BY <2>1, <2>2, <2>3, <3>3, CheckStep
      <4>2. QED
        BY <3>1, <3>2, <4>1
    <3>4. CASE ten_khz_pulse /\ Asserted(i)
      <4>1. /\ cnt'[i] = CountNext(i) /\ held'[i] = Least(held[i] + 1, HeldCap)
            /\ underLimit'[i] \in {0, Least(underLimit[i] + 1, UnderCap)}
        BY <2>1, <2>2, <2>3, <3>4, CheckStep
      <4>2. CountNext(i) \in {cnt[i], 0, cnt[i] + 1} /\ CountNext(i) < CntMod[i]
        BY <2>1, <3>2, <3>4, CountNextValue
      <4>3. QED
        BY <3>1, <3>2, <4>1, <4>2 DEF Least
    <3>5. CASE ten_khz_pulse /\ ~Asserted(i)
      <4>1. cnt'[i] = 0 /\ held'[i] = 0 /\ underLimit'[i] = 0
        BY <2>1, <2>2, <2>3, <3>5, CheckStep
      <4>2. QED
        BY <3>2, <4>1
    <3>6. QED
      BY <3>3, <3>4, <3>5
  <2>5. Counts'
    <3>1. /\ cnt' = [i \in Checks |-> cnt'[i]] /\ held' = [i \in Checks |-> held'[i]]
          /\ underLimit' = [i \in Checks |-> underLimit'[i]]
      BY <2>2, <2>3 DEF ClockEdge, FaultLogic, Remember, UnderNext
    <3>2. fault_reg' \subseteq Checks
      BY <2>1, <2>2 DEF ClockEdge, FaultLogic, Counts
    <3>3. QED
      BY <2>3, <2>4, <3>1, <3>2 DEF Counts
  <2>6. CountBehind'
    BY <2>4 DEF CountBehind
  <2>7. ASSUME NEW i \in Checks, i \notin fault_reg'
        PROVE  underLimit'[i] + ToGo(i)' < CntMod[i]
    <3>1. /\ cntlim'[i] \in Nat /\ cntlim'[i] < CntMod[i]
          /\ cnt'[i] \in Nat /\ cnt'[i] < CntMod[i] /\ CntMod[i] \in Nat
      <4>1. cntlim'[i] \in LimitValues
        BY <2>3
      <4>2. QED
        BY <2>4, <4>1, CounterAssumption DEF CounterAssumption
    <3>2. CASE underLimit'[i] = 0
      BY <3>1, <3>2 DEF ToGo
    <3>3. CASE underLimit'[i] # 0
      <4>1. i \notin written /\ cntlim'[i] = cntlim[i]
        BY <2>1, <2>2, <2>3, <3>3, CheckStep
      <4>2. i \notin fault_reg
        BY <2>1, <2>2, <2>3, <2>7, <3>3, CheckStep
      <4>3. underLimit[i] + ToGo(i) < CntMod[i]
        BY <4>2 DEF RetuneIInv, Approaching
      <4>4. CASE ~ten_khz_pulse
        BY <2>1, <2>2, <2>3, <4>1, <4>3, <4>4, CheckStep DEF ToGo
      <4>5. CASE ten_khz_pulse
        <5>1. /\ Asserted(i) /\ cnt[i] # cntlim[i] /\ cnt'[i] = CountNext(i)
              /\ underLimit'[i] = Least(underLimit[i] + 1, UnderCap)
          BY <2>1, <2>2, <2>3, <2>7, <3>3, <4>1, <4>5, CheckStep
        <5>2. cnt'[i] = IF cnt[i] + 1 = CntMod[i] THEN 0 ELSE cnt[i] + 1
          BY <2>1, <5>1, CountNextValue
        <5>3. QED
          BY <2>1, <4>1, <4>3, <5>1, <5>2, CheckNumbers DEF ToGo, Least
      <4>6. QED
        BY <4>4, <4>5
    <3>4. QED
      BY <3>2, <3>3
  <2>8. QED
    BY <2>5, <2>6, <2>7 DEF RetuneIInv, Approaching
<1>3. QED
  BY <1>1, <1>2

-----------------------------------------------------------------------------
\* However the limit was rewritten, a check whose condition persists is live
\* after one wrap of its counter and the limit now in force.
THEOREM RetuneTrips == RetuneSpec => []TripsWithinOneWrap
<1>1. RetuneIInv => TripsWithinOneWrap
  <2> SUFFICES ASSUME RetuneIInv, NEW i \in Checks, i \notin fault_reg
               PROVE  ~ (underLimit[i] > CntMod[i] + cntlim[i])
    BY DEF TripsWithinOneWrap
  <2>1. underLimit[i] + ToGo(i) < CntMod[i]
    BY DEF RetuneIInv, Approaching
  <2>2. QED
    BY <2>1, CheckNumbers DEF RetuneIInv, ToGo
<1>2. QED
  BY RetuneInitIInv, RetuneNextIInv, <1>1, PTL DEF RetuneSpec

\* A check never goes live before its condition has been asserted at more
\* ticks than the limit in force at that tick, however it was rewritten.
THEOREM RetuneNotEarly == RetuneSpec => NoEarlyTrip
<1>1. ASSUME RetuneIInv, [RetuneNext]_rvars
      PROVE  [\A i \in Checks : i \in fault_reg' \ fault_reg =>
                  held'[i] > cntlim[i]]_rvars
  <2> SUFFICES ASSUME RetuneNext, NEW i \in Checks, i \in fault_reg' \ fault_reg
               PROVE  held'[i] > cntlim[i]
    BY <1>1
  <2>1. Counts /\ (cnt[i] <= held[i] \/ held[i] = HeldCap)
    BY <1>1 DEF RetuneIInv, CountBehind
  <2>2. PICK written \in SUBSET Checks : UnderNext(written)
    BY <2>1, RetuneStep
  <2>3. cnt[i] = cntlim[i] /\ held'[i] = Least(held[i] + 1, HeldCap)
    BY <2>1, <2>2, RetuneStep, CheckStep
  <2>4. QED
    BY <2>1, <2>3, CheckNumbers DEF Least
<1>2. QED
  BY RetuneInitIInv, RetuneNextIInv, <1>1, PTL DEF RetuneSpec, NoEarlyTrip

-----------------------------------------------------------------------------
(* The on command in its loop with the detector, for every tick period and *)
(* pulse period.  A step of the loop is a step of FaultBlock, whose        *)
(* invariant is at hand.                                                   *)

H == PERIOD \div 2

-----------------------------------------------------------------------------
(* The inductive invariant.                                                *)

\* clocks to the next clock at which the checks are evaluated
ToTick == IF ten_khz_pulse THEN 0 ELSE IF dff1 THEN 1 ELSE IF dff0 THEN 2
          ELSE IF tenkhz_trig THEN 3 ELSE TickDiv + 4 - cnt_int

\* the pulse train is low for the first half of the period
Halves == pulse_counter >= 1 => (ch_enable <=> pulse_counter > H)

\* a tick is never farther away than a period and what is left of a reset
TickNear == /\ pulse_enable => ToTick <= TickDiv + 3
            /\ pulse_counter >= 1 => ToTick <= TickDiv + 2

\* in the low half, old evidence lasts until the first tick only
LowHalf == pulse_counter >= 1 /\ pulse_counter <= H /\ held[On] > 0 =>
               pulse_counter + ToTick <= TickDiv + 3

\* in the high half, the evidence is the ticks since it began
HighHalf == pulse_counter > H =>
                held[On] * (TickDiv + 1) + H + 1 <= pulse_counter + ToTick

PulseInv == cond[On] = NoAc /\ Halves /\ TickNear /\ LowHalf /\ HighHalf

\* how far the last clear, mask or reset has travelled
AckInv ==
    /\ sinceAck >= 1 => /\ clear => re
                        /\ fault_reg_lat_mask \subseteq enable \ GlitchChecks
    /\ sinceAck >= 2 => (re => re_reg)
    /\ sinceAck >= 3 => (clear_pulse => fault_reg_lat = {})
    /\ sinceAck >= 4 => fault_reg_lat_mask \subseteq fault_reg_lat

LoopInv == InterlockTypeOK /\ IInv /\ PulseInv /\ AckInv

-----------------------------------------------------------------------------
\* What the assumptions say of the two periods.
LEMMA Periods ==
    /\ TickDiv \in Nat /\ TickDiv >= 3
    /\ PERIOD \in Nat /\ H \in Nat /\ H <= PERIOD /\ H > TickDiv + 2
    /\ On \in Checks
BY TickAssumption, InterlockAssumption, ChecksAssumption
   DEF TickAssumption, InterlockAssumption, ChecksAssumption, H

\* A step of the loop is a step of the fault detector.
LEMMA EdgeIsNext ==
    ASSUME TypeOK, NEW r \in BOOLEAN, Edge(r)
    PROVE  Next /\ ClockEdge(r)
<1>1. PlantChange /\ ClockEdge(r) /\ cntlim' = cntlim /\ park' = park
  BY DEF Edge
<1>2. WriteClear \/ WritePark \/ WriteMask
  BY DEF Edge, WriteOn, WriteClear, WritePark, WriteMask, TypeOK
<1>3. InputsChange
  BY <1>1, <1>2 DEF InputsChange
<1>4. CASE r = TRUE
  BY <1>1, <1>3, <1>4 DEF Next, ResetClock
<1>5. CASE r = FALSE
  BY <1>1, <1>3, <1>5 DEF Next, Clock
<1>6. QED
  BY <1>1, <1>4, <1>5

\* The detector's invariant holds in the loop as it does alone.
LEMMA EdgeIInv ==
    ASSUME IInv, NEW r \in BOOLEAN, Edge(r)
    PROVE  IInv'
<1>1. TypeOK /\ Next
  BY EdgeIsNext DEF IInv
<1>2. QED
  BY <1>1, TypeStep, DebounceStep, TickStep, ClearStep, FlagStep DEF IInv

\* The loop starts in a state of the invariant.
LEMMA InitLoopInv == InterlockInit => LoopInv
<1> SUFFICES ASSUME InterlockInit PROVE LoopInv
  OBVIOUS
<1>1. IInv
  BY InitIInv DEF InterlockInit
<1>2. InterlockTypeOK
  <2>1. TypeOK
    BY <1>1 DEF IInv
  <2>2. pulse_counter \in 0..PERIOD /\ sinceAck \in 0..AckCap
    BY Periods DEF InterlockInit, AckCap
  <2>3. QED
    BY <2>1, <2>2 DEF InterlockInit, InterlockTypeOK
<1>3. PulseInv
  BY Periods DEF InterlockInit, PulseInv, Halves, TickNear, LowHalf, HighHalf, Init
<1>4. AckInv
  BY DEF InterlockInit, AckInv
<1>5. QED
  BY <1>1, <1>2, <1>3, <1>4 DEF LoopInv

\* A step keeps the types.
LEMMA EdgeTypes ==
    ASSUME LoopInv, NEW r \in BOOLEAN, Edge(r)
    PROVE  InterlockTypeOK'
<1>1. TypeOK'
  BY EdgeIInv DEF LoopInv, IInv
<1>2. on1' \in BOOLEAN
  BY DEF Edge, WriteOn, LoopInv, InterlockTypeOK
<1>3. acon' \in BOOLEAN /\ pulse_enable' \in BOOLEAN
  BY DEF Edge, PulseEnable
<1>4. pulse_counter' \in 0..PERIOD
  BY Periods DEF Edge, PulseEnable, LoopInv, InterlockTypeOK
<1>5. ch_enable' \in BOOLEAN
  <2>1. ch_enable \in BOOLEAN /\ (pulse_counter >= PERIOD \div 2) \in BOOLEAN
    BY DEF LoopInv, InterlockTypeOK
  <2>2. ch_enable' \in {FALSE, ch_enable, pulse_counter >= PERIOD \div 2}
    BY Zenon DEF Edge, PulseEnable
  <2>3. QED
    BY <2>1, <2>2
<1>6. sinceAck' \in 0..AckCap
  BY DEF Edge, LoopInv, InterlockTypeOK, AckCap, Least
<1>7. QED
  BY <1>1, <1>2, <1>3, <1>4, <1>5, <1>6 DEF InterlockTypeOK

\* Without a reset the next tick comes one clock closer at every clock.
LEMMA TickComes ==
    ASSUME IInv, ClockEdge(FALSE)
    PROVE  /\ ToTick \in Nat /\ ToTick <= TickDiv + 4
           /\ ten_khz_pulse <=> ToTick = 0
           /\ ToTick' = IF ten_khz_pulse THEN TickDiv ELSE ToTick - 1
<1>1. /\ cnt_int \in 0..TickDiv /\ TickDiv \in Nat /\ TickDiv >= 3
      /\ tenkhz_trig \in BOOLEAN /\ dff0 \in BOOLEAN /\ dff1 \in BOOLEAN
      /\ ten_khz_pulse \in BOOLEAN
  BY Periods DEF IInv, TypeOK
<1>2. /\ cnt_int' = IF cnt_int = TickDiv THEN 0 ELSE cnt_int + 1
      /\ tenkhz_trig' <=> (cnt_int = TickDiv)
      /\ (dff0' <=> tenkhz_trig) /\ (dff1' <=> dff0) /\ (ten_khz_pulse' <=> dff1)
  BY DEF ClockEdge, TickGenerator, TickDelay
<1>3. /\ (tenkhz_trig => cnt_int = 0) /\ (dff0 => cnt_int = 1)
      /\ (dff1 => cnt_int = 2) /\ (ten_khz_pulse => cnt_int = 3)
  BY DEF IInv, TickInPipe
<1>4. ToTick \in Nat /\ ToTick <= TickDiv + 4 /\ (ten_khz_pulse <=> ToTick = 0)
  BY <1>1 DEF ToTick
<1>5. CASE ten_khz_pulse
  BY <1>1, <1>2, <1>3, <1>4, <1>5 DEF ToTick
<1>6. CASE ~ten_khz_pulse
  BY <1>1, <1>2, <1>3, <1>4, <1>6 DEF ToTick
<1>7. QED
  BY <1>4, <1>5, <1>6

\* A tick at which the command is low wipes out the evidence; a tick adds at
\* most one to it; between ticks it stays.
LEMMA OnEvidence ==
    ASSUME LoopInv, ClockEdge(FALSE)
    PROVE  /\ held[On] \in Nat /\ held'[On] \in Nat
           /\ ~ten_khz_pulse => held'[On] = held[On]
           /\ ten_khz_pulse /\ ~ch_enable => held'[On] = 0
           /\ held'[On] <= held[On] + 1
<1>1. On \in Checks /\ HeldCap \in Nat /\ held[On] \in 0..HeldCap
  BY Periods, CounterAssumption
     DEF CounterAssumption, LoopInv, InterlockTypeOK, TypeOK
<1>2. held'[On] = IF ~ten_khz_pulse THEN held[On]
                  ELSE IF Asserted(On) THEN Least(held[On] + 1, HeldCap) ELSE 0
  BY <1>1 DEF ClockEdge, Remember
<1>3. Asserted(On) => ch_enable
  BY DEF Asserted, LoopInv, PulseInv, NoAc, rcom0
<1>4. QED
  BY <1>1, <1>2, <1>3 DEF Least

\* A clock without reset keeps what is known of the pulse train.
LEMMA ClockPulse ==
    ASSUME LoopInv, Edge(FALSE)
    PROVE  PulseInv'
<1> DEFINE p == pulse_counter
           T == TickDiv + 1
           h == held[On]
<1>1. ClockEdge(FALSE) /\ IInv
  BY DEF Edge, LoopInv
<1>2. /\ ToTick \in Nat /\ ToTick <= TickDiv + 4
      /\ ten_khz_pulse <=> ToTick = 0
      /\ ToTick' = IF ten_khz_pulse THEN TickDiv ELSE ToTick - 1
  BY <1>1, TickComes
<1>3. /\ h \in Nat /\ h' \in Nat /\ h' <= h + 1
      /\ ~ten_khz_pulse => h' = h
      /\ ten_khz_pulse /\ ~ch_enable => h' = 0
  BY <1>1, OnEvidence
<1>4. /\ p' = IF ~pulse_enable \/ p = PERIOD THEN 0 ELSE p + 1
      /\ ch_enable' = IF ~pulse_enable \/ p = PERIOD THEN ch_enable ELSE p >= H
  BY DEF Edge, PulseEnable, H
<1>5. p \in Nat /\ p <= PERIOD /\ p' \in Nat
  BY <1>4, Periods DEF LoopInv, InterlockTypeOK
<1>6. (p' >= 1 => pulse_enable /\ p' = p + 1) /\ (p' = 0 \/ p' >= 1)
  BY <1>4, <1>5
<1>7. cond'[On] = NoAc'
  BY DEF Edge
<1>8. Halves'
  <2>1. p' >= 1 => pulse_enable /\ p # PERIOD
    BY <1>4, <1>5
  <2>2. pulse_enable /\ p # PERIOD => ch_enable' = (p >= H)
    BY <1>4, Zenon
  <2>3. p' >= 1 => ((p >= H) <=> (p' > H))
    BY <1>5, <1>6, Periods
  <2>4. p' >= 1 => (ch_enable' <=> (p' > H))
    BY <2>1, <2>2, <2>3
  <2>5. QED
    BY <2>4 DEF Halves
<1>9. TickNear'
  <2>1. (pulse_enable => ToTick <= TickDiv + 3) /\ (p >= 1 => ToTick <= TickDiv + 2)
    BY DEF LoopInv, PulseInv, TickNear
  <2>2. ToTick' <= TickDiv + 3
    BY <1>2, Periods
  <2>3. p' >= 1 => ToTick' <= TickDiv + 2
    BY <1>2, <1>6, <2>1, Periods
  <2>4. QED
    BY <2>2, <2>3 DEF TickNear
<1>10. LowHalf'
  <2>1. SUFFICES ASSUME p' >= 1, p' <= H, h' > 0
                 PROVE  p' + ToTick' <= TickDiv + 3
    BY DEF LowHalf
  <2>2. pulse_enable /\ p' = p + 1
    BY <1>6, <2>1
  <2>3. CASE p = 0
    BY <1>9, <2>1, <2>2, <2>3, <1>5, <1>2, Periods DEF TickNear
  <2>4. CASE p >= 1
    <3>1. ~ch_enable
      BY <2>1, <2>2, <2>4, <1>5, Periods DEF LoopInv, PulseInv, Halves
    <3>2. ~ten_khz_pulse /\ h > 0
      BY <1>3, <2>1, <3>1
    <3>3. p + ToTick <= TickDiv + 3
      BY <2>1, <2>2, <2>4, <3>2, <1>5, Periods DEF LoopInv, PulseInv, LowHalf
    <3>4. QED
      BY <1>2, <1>5, <2>2, <3>2, <3>3, Periods
  <2>5. QED
    BY <1>5, <2>3, <2>4
<1>11. HighHalf'
  <2>1. SUFFICES ASSUME p' > H PROVE h' * T + H + 1 <= p' + ToTick'
    BY DEF HighHalf
  <2>2. pulse_enable /\ p' = p + 1 /\ p >= H /\ p >= 1
    BY <1>5, <1>6, <2>1, Periods
  <2>3. CASE p = H
    <3>1. ~ch_enable
      BY <2>2, <2>3, Periods DEF LoopInv, PulseInv, Halves
    <3>2. h > 0 => H + ToTick <= TickDiv + 3
      BY <2>2, <2>3, Periods DEF LoopInv, PulseInv, LowHalf
    <3>3. h' = 0
      BY <1>2, <1>3, <3>1, <3>2, Periods
    <3>4. ToTick' >= 0 /\ ToTick' \in Int
      BY <1>2, Periods
    <3>5. h' * T = 0
      BY <3>3, Periods
    <3>6. QED
      BY <2>2, <2>3, <3>4, <3>5, Periods
  <2>4. CASE p > H
    <3>1. h * T + H + 1 <= p + ToTick
      BY <2>4 DEF LoopInv, PulseInv, HighHalf
    <3>2. CASE ~ten_khz_pulse
      <4>1. h' = h /\ ToTick' = ToTick - 1
        BY <1>2, <1>3, <3>2
      <4>2. QED
        BY <1>2, <1>3, <1>5, <2>2, <3>1, <4>1, Periods
    <3>3. CASE ten_khz_pulse
      <4>1. ToTick = 0 /\ ToTick' = TickDiv
        BY <1>2, <3>3
      <4>2. h' * T <= h * T + T
        <5>1. (h + 1) * T = h * T + T /\ T \in Nat
          BY <1>3, Periods
        <5>2. h' * T <= (h + 1) * T
          BY <1>3, <5>1
        <5>3. QED
          BY <5>1, <5>2
      <4>3. h * T \in Nat /\ h' * T \in Nat
        BY <1>3, Periods
      <4>4. QED
        BY <1>5, <2>2, <3>1, <4>1, <4>2, <4>3, Periods
    <3>4. QED
      BY <3>2, <3>3
  <2>5. QED
    BY <1>5, <2>2, <2>3, <2>4, Periods
<1>12. QED
  BY <1>7, <1>8, <1>9, <1>10, <1>11 DEF PulseInv

\* A clock with reset starts the pulse train anew.
LEMMA ResetPulse ==
    ASSUME LoopInv, Edge(TRUE)
    PROVE  PulseInv'
<1>1. ~pulse_enable' /\ pulse_counter' = 0 /\ cond'[On] = NoAc'
  BY DEF Edge, PulseEnable
<1>2. QED
  BY <1>1, Periods DEF PulseInv, Halves, TickNear, LowHalf, HighHalf

\* A step takes a clear, a mask or a reset one register further.
LEMMA EdgeAck ==
    ASSUME LoopInv, NEW r \in BOOLEAN, Edge(r)
    PROVE  AckInv'
<1>1. sinceAck \in 0..4 /\ TypeOK
  BY DEF LoopInv, InterlockTypeOK, AckCap
<1>2. SUFFICES ASSUME sinceAck' >= 1 PROVE AckInv'
  BY EdgeTypes DEF AckInv, InterlockTypeOK, AckCap
<1>3. /\ ~r /\ ~(clear' /\ ~clear) /\ enable' = enable
      /\ sinceAck' = Least(sinceAck + 1, 4)
  BY <1>2 DEF Edge, AckCap
<1>4. /\ (re' <=> clear) /\ (re_reg' <=> re)
      /\ clear_pulse' <=> (re /\ ~re_reg) \/ (clear_pulse /\ ~ten_khz_pulse)
      /\ fault_reg_lat' = IF clear_pulse THEN {} ELSE fault_reg_lat \cup fault_reg
      /\ fault_reg_lat_mask' = (fault_reg_lat \cap enable) \ GlitchChecks
  BY <1>3 DEF Edge, ClockEdge, ClearEdge, Latches, MaskRegs
<1>5. /\ sinceAck' >= 2 => sinceAck >= 1
      /\ sinceAck' >= 3 => sinceAck >= 2
      /\ sinceAck' >= 4 => sinceAck >= 3
  BY <1>1, <1>3 DEF Least
<1>6. (clear' => re') /\ fault_reg_lat_mask' \subseteq enable' \ GlitchChecks
  BY <1>3, <1>4
<1>7. sinceAck' >= 2 => (re' => re_reg')
  BY <1>4, <1>5 DEF LoopInv, AckInv
<1>8. sinceAck' >= 3 => (clear_pulse' => fault_reg_lat' = {})
  BY <1>4, <1>5 DEF LoopInv, AckInv
<1>9. sinceAck' >= 4 => fault_reg_lat_mask' \subseteq fault_reg_lat'
  BY <1>4, <1>5 DEF LoopInv, AckInv
<1>10. QED
  BY <1>6, <1>7, <1>8, <1>9 DEF AckInv

\* Every step keeps the invariant.
LEMMA NextLoopInv == LoopInv /\ [InterlockNext]_ivars => LoopInv'
<1> SUFFICES ASSUME LoopInv, [InterlockNext]_ivars PROVE LoopInv'
  OBVIOUS
<1>1. CASE InterlockClock
  BY <1>1, EdgeTypes, EdgeIInv, ClockPulse, EdgeAck DEF InterlockClock, LoopInv
<1>2. CASE InterlockReset
  BY <1>2, EdgeTypes, EdgeIInv, ResetPulse, EdgeAck DEF InterlockReset, LoopInv
<1>3. CASE UNCHANGED ivars
  <2>1. UNCHANGED vars
    BY <1>3 DEF ivars
  <2>2. IInv'
    BY <2>1, StutterIInv DEF LoopInv
  <2>3. InterlockTypeOK'
    BY <1>3, <2>2 DEF ivars, pulseVars, InterlockTypeOK, LoopInv, IInv
  <2>4. PulseInv' /\ AckInv'
    BY <1>3 DEF ivars, vars, pulseVars, inputs, tickVars, clearVars, faultVars,
                history, LoopInv, PulseInv, Halves, TickNear, LowHalf, HighHalf,
                ToTick, NoAc, rcom0, flt_trig, AckInv
  <2>5. QED
    BY <2>2, <2>3, <2>4 DEF LoopInv
<1>4. QED
  BY <1>1, <1>2, <1>3 DEF InterlockNext

-----------------------------------------------------------------------------
(* The theorems.                                                           *)

\* A product that fits below a number leaves its factor below the quotient.
LEMMA Quotient ==
    ASSUME NEW n \in Nat, NEW t \in Nat \ {0}, NEW x \in Nat, n * t <= x
    PROVE  n <= x \div t
<1> DEFINE q == x \div t
<1>1. q \in Nat /\ x < (q + 1) * t
  BY SMTT(30)
<1>2. SUFFICES ASSUME n >= q + 1 PROVE FALSE
  BY <1>1
<1>3. n * t >= (q + 1) * t
  <2> HIDE DEF q
  <2> QED BY <1>1, <1>2, SMTT(30)
<1>4. QED
  <2> HIDE DEF q
  <2> QED BY <1>1, <1>3

\* Registers of the on command and of the detector keep their types in the
\* loop, and everything the detector's invariant says holds in it.
THEOREM LoopTypes == InterlockSpec => [](InterlockTypeOK /\ IInv)
<1>1. LoopInv => InterlockTypeOK /\ IInv
  BY DEF LoopInv
<1>2. QED
  BY InitLoopInv, NextLoopInv, <1>1, PTL DEF InterlockSpec

\* A trip holds: the command comes back only within three clocks of a clear,
\* of a new mask or of a reset.
THEOREM TripStays == InterlockSpec => TripHolds
<1>1. ASSUME LoopInv, [InterlockNext]_ivars
      PROVE  [flt_trig /\ ~flt_trig' => sinceAck <= 3]_ivars
  <2> SUFFICES ASSUME NEW r \in BOOLEAN, Edge(r), flt_trig, ~flt_trig', ~(sinceAck <= 3)
               PROVE  FALSE
    BY <1>1 DEF InterlockNext, InterlockClock, InterlockReset
  <2>1. sinceAck >= 4 /\ sinceAck >= 1
    BY <1>1 DEF LoopInv, InterlockTypeOK, AckCap
  <2>2. /\ fault_reg_lat_mask \subseteq fault_reg_lat
        /\ fault_reg_lat_mask \subseteq enable \ GlitchChecks
    BY <1>1, <2>1 DEF LoopInv, AckInv
  <2>3. fault_reg_lat_mask' = (fault_reg_lat \cap enable) \ GlitchChecks
    BY DEF Edge, ClockEdge, MaskRegs
  <2>4. QED
    BY <2>2, <2>3 DEF flt_trig
<1>2. QED
  BY InitLoopInv, NextLoopInv, <1>1, PTL DEF InterlockSpec, TripHolds

\* The ON check sees one high half of the pulse train at a time, for every
\* tick period and every pulse period whose half outlasts a tick and its delay.
THEOREM OneHalf == InterlockSpec => []OnSeesOneHalf
<1>1. LoopInv => OnSeesOneHalf
  <2> SUFFICES ASSUME LoopInv, pulse_counter > H PROVE held[On] <= HighTicks
    BY DEF OnSeesOneHalf, H
  <2> DEFINE T == TickDiv + 1
             h == held[On]
             X == PERIOD + 1 - H
  <2>1. /\ h \in Nat /\ T \in Nat \ {0} /\ X \in Nat
        /\ pulse_counter \in Nat /\ pulse_counter <= PERIOD
    BY Periods, CounterAssumption
       DEF CounterAssumption, LoopInv, InterlockTypeOK, TypeOK
  <2>2. h * T + H + 1 <= pulse_counter + ToTick /\ ToTick <= TickDiv + 2
    BY <2>1, Periods DEF LoopInv, PulseInv, HighHalf, TickNear
  <2>3. ToTick \in Int
    BY Periods DEF ToTick, LoopInv, IInv, TypeOK
  <2>4. CASE h = 0
    <3>1. X \div T \in Nat
      BY <2>1, SMTT(30)
    <3>2. QED
      BY <2>4, <3>1 DEF HighTicks, H
  <2>5. CASE h >= 1
    <3>1. h * T = (h - 1) * T + T
      BY <2>1, <2>5
    <3>2. (h - 1) * T \in Int /\ (h - 1) * T <= X
      BY <2>1, <2>2, <2>3, <3>1, Periods
    <3>3. h - 1 <= X \div T
      BY <2>1, <2>5, <3>2, Quotient
    <3>4. X \div T \in Int
      BY <2>1, SMTT(30)
    <3>5. HighTicks = X \div T + 1
      BY DEF HighTicks, H
    <3>6. QED
      <4> HIDE DEF X, T
      <4> QED BY <2>1, <3>3, <3>4, <3>5
  <2>6. QED
    BY <2>1, <2>4, <2>5
<1>2. QED
  BY InitLoopInv, NextLoopInv, <1>1, PTL DEF InterlockSpec

\* In the loop the detector keeps its promise: closing the loop through the
\* pulse train, the gate and the ON check gives it no behaviour that
\* FaultPromise does not have.
THEOREM LoopKeepsPromise == InterlockSpec => Implements
<1>1. InterlockInit => Promise!Init
  BY PromiseInit DEF InterlockInit
<1>2. ASSUME LoopInv, LoopInv', [InterlockNext]_ivars
      PROVE  [Promise!Next]_(Promise!pvars)
  <2>1. IInv /\ IInv' /\ TypeOK
    BY <1>2 DEF LoopInv, IInv
  <2>2. [Next]_vars
    <3>1. CASE UNCHANGED ivars
      BY <3>1 DEF ivars
    <3>2. CASE InterlockNext
      BY <2>1, <3>2, EdgeIsNext DEF InterlockNext, InterlockClock, InterlockReset
    <3>3. QED
      BY <1>2, <3>1, <3>2
  <2>3. QED
    BY <2>1, <2>2, PromiseStep
<1>3. QED
  BY <1>1, <1>2, InitLoopInv, NextLoopInv, PTL DEF InterlockSpec, Implements, Promise!Spec
=============================================================================
