-------------------------- MODULE DacChannelProofs --------------------------
(***************************************************************************)
(* Proofs about the setpoint path: for every table of the cosine, every    *)
(* set of setpoints and ramp tables, every rate, gain and offset, the      *)
(* smooth ramp stays between its ends and moves towards the setpoint.      *)
(***************************************************************************)
EXTENDS DacChannel, SequenceTheorems, TLAPS

-----------------------------------------------------------------------------
(* The inductive invariant.                                                *)

\* the register writes of a command
Points == Setpoints \cup {0}
Writes ==
    [reg : {"mode"}, val : {SMOOTH, RAMP, JUMP}]
    \cup [reg : {"setpoint"}, val : Points]
    \cup [reg : {"phase_inc"}, val : -1..IncMax]
    \cup [reg : {"ramplen"}, val : 0..(AddrMod - 1)]
    \cup [reg : {"table"}, val : (0..(Depth - 1)) \X Int]
    \cup [reg : {"runramp"}, val : {1}]

\* the part of the way for a raised cosine
Part(r) == ((setpoint - old_setpt) * r) \div Amp

\* y is not behind x, seen in the direction of the ramp
Ahead(x, y) == IF setpoint >= old_setpt THEN x <= y ELSE y <= x

\* every stage of the pipeline stays between the ends once the stages before
\* it have seen the present ends, and is not ahead of the stage before it once
\* the phases that it has seen lie in order in the half turn
Between ==
    /\ steady >= 1 => Ahead(0, rampout_wdiff) /\ Ahead(rampout_wdiff, setpoint - old_setpt)
    /\ steady >= 2 => Ahead(old_setpt, rampout_fp) /\ Ahead(rampout_fp, setpoint)
    /\ steady >= 3 => Ahead(old_setpt, rampout) /\ Ahead(rampout, setpoint)
Ordered ==
    /\ onward >= 1 => -Pi <= cos /\ cos <= phase_out
    /\ onward >= 2 => raised_cos <= RaisedCos[cos]
    /\ steady >= 1 /\ onward >= 3 => Ahead(rampout_wdiff, Part(raised_cos))
    /\ steady >= 2 /\ onward >= 4 => Ahead(rampout_fp, old_setpt + rampout_wdiff)
    /\ steady >= 3 /\ onward >= 5 => Ahead(rampout, rampout_fp)
Flow == state = "run_ramp" => Between /\ Ordered

DacInv == TypeOK /\ sw \in Seq(Writes) /\ Flow

-----------------------------------------------------------------------------
(* Arithmetic.                                                             *)

\* What a quotient is.
LEMMA Quotient ==
    ASSUME NEW n \in Nat \ {0}, NEW x \in Int
    PROVE  x \div n \in Int /\ (x \div n) * n <= x /\ x < (x \div n) * n + n
OBVIOUS

\* Quotients are in the order of what is divided.
LEMMA QuotientMono ==
    ASSUME NEW n \in Nat \ {0}, NEW x \in Int, NEW y \in Int, x <= y
    PROVE  x \div n <= y \div n
<1> DEFINE p == x \div n
           q == y \div n
<1>1. p \in Int /\ q \in Int /\ p * n <= x /\ y < q * n + n
  BY Quotient
<1> HIDE DEF p, q
<1>2. p * n < (q + 1) * n
  BY <1>1
<1>3. ASSUME p >= q + 1 PROVE FALSE
  <2>1. p * n >= (q + 1) * n
    BY <1>1, <1>3
  <2>2. p * n \in Int /\ (q + 1) * n \in Int
    BY <1>1
  <2>3. QED
    BY <1>2, <2>1, <2>2
<1>4. p <= q
  BY <1>1, <1>3
<1>5. QED
  BY <1>4 DEF p, q

\* A quotient of a multiple.
LEMMA QuotientExact ==
    ASSUME NEW n \in Nat \ {0}, NEW k \in Int
    PROVE  (k * n) \div n = k
<1> DEFINE q == (k * n) \div n
<1>1. q \in Int /\ q * n <= k * n /\ k * n < q * n + n
  BY Quotient
<1> HIDE DEF q
<1>2. k * n < (q + 1) * n
  BY <1>1
<1>3. ~(q >= k + 1)
  <2>1. ASSUME q >= k + 1 PROVE FALSE
    <3>1. q * n >= (k + 1) * n /\ (k + 1) * n = k * n + n /\ k * n \in Int /\ q * n \in Int
      BY <1>1, <2>1
    <3>2. QED
      BY <1>1, <3>1
  <2>2. QED
    BY <2>1
<1>4. ~(k >= q + 1)
  <2>1. ASSUME k >= q + 1 PROVE FALSE
    <3>1. k * n >= (q + 1) * n /\ k * n \in Int /\ (q + 1) * n \in Int
      BY <1>1, <2>1
    <3>2. QED
      BY <1>2, <3>1
  <2>2. QED
    BY <2>1
<1>5. q = k
  BY <1>1, <1>3, <1>4
<1>6. QED
  BY <1>5 DEF q

\* A part of a way that is not negative, and of one that is not positive.
LEMMA PartOrder ==
    ASSUME NEW d \in Int, NEW r \in 0..Amp, NEW s \in 0..Amp, r <= s
    PROVE  /\ (d * r) \div Amp \in Int
           /\ d >= 0 => /\ 0 <= (d * r) \div Amp /\ (d * r) \div Amp <= d
                        /\ (d * r) \div Amp <= (d * s) \div Amp
           /\ d <= 0 => /\ (d * r) \div Amp <= 0 /\ d <= (d * r) \div Amp
                        /\ (d * s) \div Amp <= (d * r) \div Amp
<1>1. Amp \in Nat \ {0} /\ r \in Nat /\ s \in Nat /\ r <= Amp
  BY CosineAssumption DEF CosineAssumption
<1>2. d * r \in Int /\ d * s \in Int /\ d * Amp \in Int
  BY <1>1
<1>3. (0 * Amp) \div Amp = 0 /\ (d * Amp) \div Amp = d /\ 0 * Amp = 0
  BY <1>1, QuotientExact
<1>4. ASSUME d >= 0
      PROVE  /\ 0 <= (d * r) \div Amp /\ (d * r) \div Amp <= d
             /\ (d * r) \div Amp <= (d * s) \div Amp
  <2>1. 0 <= d * r /\ d * r <= d * Amp /\ d * r <= d * s
    BY <1>1, <1>4
  <2>2. 0 \div Amp <= (d * r) \div Amp
    BY <1>1, <1>2, <2>1, QuotientMono
  <2>3. (d * r) \div Amp <= (d * Amp) \div Amp /\ (d * r) \div Amp <= (d * s) \div Amp
    BY <1>1, <1>2, <2>1, QuotientMono
  <2>4. QED
    BY <1>3, <2>2, <2>3
<1>5. ASSUME d <= 0
      PROVE  /\ (d * r) \div Amp <= 0 /\ d <= (d * r) \div Amp
             /\ (d * s) \div Amp <= (d * r) \div Amp
  <2>1. d * r <= 0 /\ d * Amp <= d * r /\ d * s <= d * r
    BY <1>1, <1>5
  <2>2. (d * r) \div Amp <= 0 \div Amp
    BY <1>1, <1>2, <2>1, QuotientMono
  <2>3. (d * Amp) \div Amp <= (d * r) \div Amp /\ (d * s) \div Amp <= (d * r) \div Amp
    BY <1>1, <1>2, <2>1, QuotientMono
  <2>4. QED
    BY <1>3, <2>2, <2>3
<1>6. QED
  BY <1>1, <1>2, <1>4, <1>5, Quotient

-----------------------------------------------------------------------------
(* Commands.                                                               *)

\* The distance of floats is defined for numbers up to the half turn, and is
\* no larger for a smaller number.
LEMMA GrainType ==
    ASSUME NEW x \in 0..Pi
    PROVE  Grain(x) \in Nat \ {0} /\ Grain(x) <= Grain(Pi)
<1> DEFINE Fits(y, g) == y < Exact * g
           Least(y, g) == Fits(y, g) /\ \A h \in Grains : Fits(y, h) => g <= h
<1>1. Exact \in Nat \ {0} /\ Pi \in Nat \ {0} /\ Pi < Exact * 256
  BY CosineAssumption, FloatAssumption DEF CosineAssumption, FloatAssumption
<1>2. ASSUME NEW y \in 0..Pi PROVE \E g \in Grains : Least(y, g)
  <2>1. Fits(y, 256)
    BY <1>1
  <2> HIDE DEF Fits
  <2>2. QED
    BY <2>1 DEF Grains
<1>3. ASSUME NEW y \in 0..Pi PROVE Grain(y) \in Grains /\ Least(y, Grain(y))
  <2>1. \E g \in Grains : /\ y < Exact * g
                          /\ \A h \in Grains : y < Exact * h => g <= h
    BY <1>2
  <2>2. QED
    BY <2>1 DEF Grain
<1>4. Grain(x) \in Grains /\ Least(x, Grain(x)) /\ Grain(Pi) \in Grains /\ Fits(Pi, Grain(Pi))
  <2>1. Pi \in 0..Pi
    BY <1>1
  <2>2. QED
    BY <1>3, <2>1
<1>5. Grains \subseteq Nat \ {0}
  BY DEF Grains
<1>6. Fits(x, Grain(Pi))
  <2> DEFINE G == Grain(Pi)
  <2>1. Pi < Exact * G /\ G \in Nat
    BY <1>4, <1>5
  <2> HIDE DEF G
  <2>2. Exact * G \in Int
    BY <1>1, <2>1
  <2>3. x < Exact * G
    BY <1>1, <2>1, <2>2
  <2>4. QED
    BY <2>3 DEF G
<1>7. QED
  BY <1>4, <1>5, <1>6

\* Conversion to float and back: half the distance of two floats is added at
\* most.
LEMMA RoundedType ==
    ASSUME NEW x \in 0..Pi
    PROVE  Rounded(x) \in 0..IncMax
<1> DEFINE g == Grain(x)
           G == Grain(Pi)
           q == x \div g
           rest == x - q * g
<1>1. Pi \in Nat /\ x \in Nat /\ x <= Pi /\ g \in Nat \ {0} /\ G \in Nat \ {0} /\ g <= G
  <2>1. Pi \in Nat /\ Pi \in 0..Pi
    BY CosineAssumption DEF CosineAssumption
  <2>2. QED
    BY <2>1, GrainType
<1>2. IncMax = Pi + G \div 2 /\ G \div 2 \in Nat
  BY <1>1 DEF IncMax
<1>3. Rounded(x) = IF 2 * rest > g \/ (2 * rest = g /\ q % 2 = 1)
                   THEN (q + 1) * g ELSE q * g
  BY DEF Rounded
<1> HIDE DEF g, G
<1>4. q \in Nat /\ rest \in Nat /\ rest < g /\ x = q * g + rest
  <2>1. q \in Int /\ q * g <= x /\ x < q * g + g
    BY <1>1, Quotient
  <2>2. q >= 0
    <3>1. 0 \div g <= q
      BY <1>1, QuotientMono
    <3>2. 0 \div g = 0
      BY <1>1
    <3>3. QED
      BY <3>1, <3>2
  <2> HIDE DEF q
  <2>3. q * g \in Int
    BY <1>1, <2>1
  <2>4. QED
    BY <1>1, <2>1, <2>2, <2>3
<1> HIDE DEF q, rest
<1>5. q * g \in Nat /\ (q + 1) * g = q * g + g /\ (q + 1) * g \in Nat
  BY <1>1, <1>4
<1>6. CASE 2 * rest >= g
  <2>1. x + (g - rest) = (q + 1) * g /\ 2 * (g - rest) <= G
    BY <1>1, <1>4, <1>5, <1>6
  <2>2. g - rest <= G \div 2
    BY <1>1, <1>4, <2>1
  <2>3. (q + 1) * g \in 0..IncMax /\ q * g \in 0..IncMax
    BY <1>1, <1>2, <1>4, <1>5, <2>1, <2>2
  <2>4. QED
    BY <1>3, <2>3
<1>7. CASE ~(2 * rest >= g)
  <2>1. Rounded(x) = q * g
    BY <1>1, <1>3, <1>4, <1>7
  <2>2. QED
    BY <1>1, <1>2, <1>4, <1>5, <2>1
<1>8. QED
  BY <1>6, <1>7

\* The phase increment that Calc_WriteSmooth writes.
LEMMA PhaseIncType ==
    ASSUME NEW new \in Int, dac_setpt \in Int
    PROVE  PhaseInc(new) \subseteq -1..IncMax
<1> DEFINE n == Distance(new, dac_setpt) \div Rate
<1>1. Pi \in Nat /\ Rate \in Nat \ {0} /\ Distance(new, dac_setpt) \in Nat
  BY CosineAssumption, PathAssumption DEF CosineAssumption, PathAssumption, Distance
<1>2. n \in Nat
  BY <1>1
<1>3. IncMax \in Nat
  <2>1. Pi \in 0..Pi
    BY <1>1
  <2>2. Grain(Pi) \in Nat \ {0}
    BY <2>1, GrainType
  <2>3. QED
    BY <1>1, <2>2 DEF IncMax
<1> HIDE DEF n
<1>4. CASE n = 0
  <2>1. PhaseInc(new) = {0, -1}
    BY <1>4 DEF PhaseInc, n
  <2>2. QED
    BY <1>3, <2>1
<1>5. CASE n # 0
  <2>1. PhaseInc(new) = {Rounded(Pi \div n)}
    BY <1>5 DEF PhaseInc, n
  <2>2. Pi \div n \in Int /\ (Pi \div n) * n <= Pi /\ Pi < (Pi \div n) * n + n
    BY <1>1, <1>2, <1>5, Quotient
  <2>3. Pi \div n >= 0
    <3>1. 0 \div n <= Pi \div n
      BY <1>1, <1>2, <1>5, QuotientMono
    <3>2. 0 \div n = 0
      BY <1>2, <1>5
    <3>3. QED
      BY <3>1, <3>2
  <2>4. Pi \div n <= (Pi \div n) * n
    BY <1>2, <1>5, <2>2, <2>3
  <2>5. (Pi \div n) * n \in Int
    BY <1>2, <2>2
  <2>6. Pi \div n \in 0..Pi
    BY <1>1, <2>2, <2>3, <2>4, <2>5
  <2> DEFINE k == Pi \div n
  <2> HIDE DEF k
  <2>7. Rounded(k) \in 0..IncMax
    BY <2>6, RoundedType DEF k
  <2>8. QED
    BY <1>3, <2>1, <2>7 DEF k
<1>6. QED
  BY <1>4, <1>5

\* The sets of the path.
LEMMA Sets ==
    /\ Pi \in Nat \ {0} /\ Amp \in Nat \ {0} /\ Half \in Nat \ {0}
    /\ Depth \in Nat /\ Depth >= 1 /\ AddrMod \in Nat /\ Depth < AddrMod
    /\ Setpoints \subseteq Int /\ Points \subseteq Int /\ MaxCommands \in Nat
    /\ Messages \subseteq Seq(Int) /\ RampLens \subseteq 0..(AddrMod - 1)
    /\ RaisedCos \in [-Span..0 -> 0..Amp]
    /\ Span \in Nat /\ Pi < Span /\ IncMax \in Nat /\ IncMax < Span
<1>1. Pi \in 0..Pi /\ Pi \in Nat
  BY CosineAssumption DEF CosineAssumption
<1>2. IncMax \in Nat
  <2>1. Grain(Pi) \in Nat \ {0}
    BY <1>1, GrainType
  <2>2. QED
    BY <1>1, <2>1 DEF IncMax
<1>3. QED
  BY <1>2, CosineAssumption, FloatAssumption, PathAssumption, TableAssumption
     DEF CosineAssumption, FloatAssumption, PathAssumption, TableAssumption, Points

\* A function on 1..n is a sequence.
LEMMA MakesSeq ==
    ASSUME NEW S, NEW n \in Nat, NEW f \in [1..n -> S]
    PROVE  f \in Seq(S)
OBVIOUS

\* Set_dac and Set_dacOpmode.
LEMMA SmoothWrites ==
    ASSUME NEW new \in Points, dac_setpt \in Int, NEW inc \in PhaseInc(new)
    PROVE  Calc_WriteSmooth(inc, new) \in Seq(Writes)
<1>1. inc \in -1..IncMax
  BY Sets, PhaseIncType
<1>2. Write("phase_inc", inc) \in Writes /\ Write("setpoint", new) \in Writes
  BY <1>1 DEF Write, Writes
<1>3. QED
  BY <1>2 DEF Calc_WriteSmooth

\* write_ramptable.
LEMMA TableWrites ==
    ASSUME NEW points \in Messages
    PROVE  write_ramptable(points) \in Seq(Writes)
<1>1. points \in Seq(Int) /\ Len(points) \in Nat
  BY Sets
<1>2. CASE Len(points) > Depth
  BY <1>2 DEF write_ramptable
<1>3. CASE ~(Len(points) > Depth)
  <2> DEFINE n == Len(points)
             f == [i \in 1..n |-> Write("table", <<i - 1, points[i]>>)]
  <2>1. n \in 0..(AddrMod - 1) /\ n <= Depth
    BY <1>1, <1>3, Sets
  <2>2. Write("ramplen", n) \in Writes
    BY <2>1 DEF Write, Writes
  <2>3. ASSUME NEW i \in 1..n PROVE Write("table", <<i - 1, points[i]>>) \in Writes
    <3>1. points[i] \in Int /\ i - 1 \in 0..(Depth - 1)
      BY <1>1, <2>1, Sets
    <3>2. QED
      BY <3>1 DEF Write, Writes
  <2>4. f \in [1..n -> Writes]
    BY <2>3
  <2>5. f \in Seq(Writes)
    BY <1>1, <2>4, MakesSeq
  <2>6. <<Write("ramplen", n)>> \in Seq(Writes)
    BY <2>2
  <2>7. <<Write("ramplen", n)>> \o f \in Seq(Writes)
    BY <2>5, <2>6, ConcatProperties
  <2>8. QED
    BY <1>3, <2>7 DEF write_ramptable
<1>4. QED
  BY <1>2, <1>3

\* Every command is a list of writes.
LEMMA CommandSeq ==
    ASSUME TypeOK,
           \/ \E v \in Setpoints : Set_dac(v)
           \/ \E m \in {SMOOTH, RAMP, JUMP} : Set_dacOpmode(m)
           \/ \E points \in Messages : Command(write_ramptable(points))
           \/ \E n \in RampLens : Command(<<Write("ramplen", n)>>)
           \/ Command(<<Write("runramp", 1)>>)
    PROVE  \E w \in Seq(Writes) : Command(w)
<1>1. dac_setpt \in Int
  BY DEF TypeOK
<1>2. <<>> \in Seq(Writes)
  OBVIOUS
<1>3. ASSUME NEW v \in Setpoints, Set_dac(v) PROVE \E w \in Seq(Writes) : Command(w)
  <2>1. PICK inc \in PhaseInc(v) :
            Command(CASE mode = SMOOTH -> Calc_WriteSmooth(inc, v)
                      [] mode = JUMP   -> <<Write("setpoint", v)>>
                      [] OTHER         -> <<>>)
    BY <1>3 DEF Set_dac
  <2>2. Calc_WriteSmooth(inc, v) \in Seq(Writes)
    BY <1>1, SmoothWrites DEF Points
  <2>3. <<Write("setpoint", v)>> \in Seq(Writes)
    BY DEF Write, Writes, Points
  <2>4. QED
    BY <1>2, <2>1, <2>2, <2>3
<1>4. ASSUME NEW m \in {SMOOTH, RAMP, JUMP}, Set_dacOpmode(m)
      PROVE  \E w \in Seq(Writes) : Command(w)
  <2>1. PICK inc \in PhaseInc(0) :
            Command(IF (mode \in {SMOOTH, RAMP} /\ m = JUMP)
                       \/ (mode = JUMP /\ m \in {SMOOTH, RAMP})
                    THEN Calc_WriteSmooth(inc, 0)
                         \o <<Write("setpoint", 0), Write("mode", m)>>
                    ELSE <<>>)
    BY <1>4 DEF Set_dacOpmode
  <2>2. Calc_WriteSmooth(inc, 0) \in Seq(Writes)
    BY <1>1, SmoothWrites DEF Points
  <2>3. <<Write("setpoint", 0), Write("mode", m)>> \in Seq(Writes)
    BY DEF Write, Writes, Points
  <2>4. Calc_WriteSmooth(inc, 0) \o <<Write("setpoint", 0), Write("mode", m)>> \in Seq(Writes)
    BY <2>2, <2>3, ConcatProperties
  <2>5. QED
    BY <1>2, <2>1, <2>4
<1>5. ASSUME NEW n \in RampLens PROVE <<Write("ramplen", n)>> \in Seq(Writes)
  <2>1. n \in 0..(AddrMod - 1)
    BY Sets
  <2>2. QED
    BY <2>1 DEF Write, Writes
<1>6. <<Write("runramp", 1)>> \in Seq(Writes)
  BY DEF Write, Writes
<1>7. QED
  BY <1>3, <1>4, <1>5, <1>6, TableWrites

-----------------------------------------------------------------------------
(* Types.                                                                  *)

\* A register holds a word of its width.
LEMMA WrapWord ==
    ASSUME NEW x \in Int
    PROVE  Wrap(x, Half) \in Word20 /\ Wrap(x, Half) \in Int
<1>1. Half \in Nat \ {0}
  BY Sets
<1>2. (x + Half) % (2 * Half) \in 0..(2 * Half - 1)
  BY <1>1
<1>3. QED
  BY <1>1, <1>2 DEF Wrap, Word20

\* The setpoint's registers, the ramp and the path, apart from the table.
PathTypes ==
    /\ mode \in {SMOOTH, RAMP, JUMP} /\ setpoint \in Setpoints \cup {0}
    /\ phase_inc \in -1..IncMax /\ commands \in 0..MaxCommands
    /\ state \in {"idle", "run_ramp"} /\ last_point \in BOOLEAN
    /\ new_setpt_prev \in Setpoints \cup {0} /\ old_setpt \in Int
    /\ phase \in -Span..(Span - 1) /\ phase_out \in -Span..0 /\ cos \in -Span..0
    /\ raised_cos \in 0..Amp /\ rampout_wdiff \in Int
    /\ rampout_fp \in Int /\ rampout \in Int
    /\ dac_setpt_raw \in Int /\ dac_setpt \in Int /\ gainPending \in BOOLEAN
    /\ steady \in 0..SteadyCap /\ onward \in 0..OnwardCap

\* The types of the path and of the table make up the type invariant.
LEMMA TypeParts == TypeOK <=> PathTypes /\ TableTypeOK
BY DEF TypeOK, PathTypes

\* What leaves the table alone keeps its types.
LEMMA TableStays ==
    ASSUME TableTypeOK, UNCHANGED tableVars
    PROVE  TableTypeOK'
<1>1. UNCHANGED <<table, ramplen, running, dac_rdaddr, dac_rddata, fetch, ramp_dac_setpt,
                  clean, raced>>
  BY DEF tableVars, tableMem, tableGen
<1>2. QED
  BY <1>1 DEF TableTypeOK

\* A run that starts, or is asked for during a run.
LEMMA RunTypes ==
    ASSUME TableTypeOK, NEW settled \in BOOLEAN, RunRamp(settled)
    PROVE  TableTypeOK'
<1>1. CASE running
  BY <1>1, TableStays DEF RunRamp, tableVars
<1>2. CASE ~running
  <2>1. /\ running' = TRUE /\ dac_rdaddr' = 0 /\ fetch' = "just" /\ raced' = FALSE
        /\ clean' = settled
        /\ UNCHANGED <<table, ramplen, dac_rddata, ramp_dac_setpt>>
    BY <1>2 DEF RunRamp, tableMem
  <2>2. 0 \in 0..(AddrMod - 1)
    BY Sets
  <2>3. running' \in BOOLEAN /\ raced' \in BOOLEAN /\ clean' \in BOOLEAN
    BY <2>1
  <2>4. QED
    BY <2>1, <2>2, <2>3 DEF TableTypeOK
<1>3. QED
  BY <1>1, <1>2

\* The memory answers with a word.
LEMMA FetchTypes ==
    ASSUME TableTypeOK, Fetch
    PROVE  TableTypeOK'
<1>1. 0 \in Word20
  BY Sets DEF Word20
<1>2. dac_rdaddr \in Nat /\ \A a \in 0..(Depth - 1) : table[a] \in Word20
  BY Sets DEF TableTypeOK
<1>3. Words(dac_rdaddr) \subseteq Word20
  BY <1>1, <1>2, Sets DEF Words, TableTypeOK
<1>4. /\ dac_rddata' \in Word20 /\ fetch' = "done"
      /\ UNCHANGED <<table, ramplen, running, dac_rdaddr, ramp_dac_setpt, clean, raced>>
  BY <1>3 DEF Fetch, tableMem
<1>5. QED
  BY <1>4 DEF TableTypeOK

\* A tick of the table's generator.
LEMMA TableTickTypes ==
    ASSUME TableTypeOK, TableTick
    PROVE  TableTypeOK'
<1>1. UNCHANGED <<table, ramplen, clean>>
  BY DEF TableTick, tableMem
<1>2. CASE ~running
  BY <1>2, TableStays DEF TableTick, tableVars
<1>3. CASE running /\ (dac_rdaddr + 1) % AddrMod > ramplen
  <2>1. /\ running' = FALSE /\ fetch' = "done"
        /\ UNCHANGED <<dac_rdaddr, dac_rddata, ramp_dac_setpt, raced>>
    BY <1>3 DEF TableTick
  <2>2. QED
    BY <1>1, <2>1 DEF TableTypeOK
<1>4. CASE running /\ ~((dac_rdaddr + 1) % AddrMod > ramplen)
  <2>1. /\ dac_rdaddr' = (dac_rdaddr + 1) % AddrMod /\ ramp_dac_setpt' = dac_rddata
        /\ raced' = (raced \/ fetch = "just") /\ fetch' = "due"
        /\ UNCHANGED <<running, dac_rddata>>
    BY <1>4 DEF TableTick
  <2>2. dac_rdaddr' \in 0..(AddrMod - 1)
    BY <2>1, Sets DEF TableTypeOK
  <2>3. raced' \in BOOLEAN
    BY <2>1, Zenon DEF TableTypeOK
  <2>4. QED
    BY <1>1, <2>1, <2>2, <2>3 DEF TableTypeOK
<1>5. QED
  BY <1>2, <1>3, <1>4

\* A register write of the table.
LEMMA TableWriteTypes ==
    ASSUME TableTypeOK, sw \in Seq(Writes), WriteTableRegister
    PROVE  TableTypeOK' /\ sw' \in Seq(Writes)
<1>1. sw # <<>> /\ Head(sw) \in Writes /\ Tail(sw) \in Seq(Writes) /\ sw' = Tail(sw)
  BY HeadTailProperties DEF WriteTableRegister
<1>2. CASE Head(sw).reg = "ramplen" /\ WriteRampLen(Head(sw).val)
  <2>1. Head(sw).val \in 0..(AddrMod - 1)
    BY <1>1, <1>2 DEF Writes
  <2>2. /\ ramplen' = Head(sw).val /\ clean' = FALSE
        /\ UNCHANGED <<table, running, dac_rdaddr, dac_rddata, fetch, ramp_dac_setpt, raced>>
    BY <1>2 DEF WriteRampLen, tableGen
  <2>3. QED
    BY <1>1, <2>1, <2>2 DEF TableTypeOK
<1>3. CASE Head(sw).reg = "table" /\ WriteTable(Head(sw).val[1], Head(sw).val[2])
  <2>1. PICK a \in 0..(Depth - 1), p \in Int : Head(sw).val = <<a, p>>
    BY <1>1, <1>3 DEF Writes
  <2>2. WriteTable(a, p)
    BY <1>3, <2>1
  <2>3. TableWord(p) \in Word20
    <3>1. 2 * Half - 1 \in Int /\ -(2 * Half) \in Int
      BY Sets
    <3>2. QED
      BY <3>1, WrapWord DEF TableWord
  <2>4. /\ table' = [table EXCEPT ![a] = TableWord(p)] /\ clean' = FALSE
        /\ fetch' \in {"just", fetch}
        /\ UNCHANGED <<ramplen, running, dac_rdaddr, dac_rddata, ramp_dac_setpt, raced>>
    BY <2>2 DEF WriteTable
  <2>5. QED
    BY <1>1, <2>3, <2>4 DEF TableTypeOK
<1>4. CASE Head(sw).reg = "runramp" /\ RunRamp(TRUE)
  BY <1>1, <1>4, RunTypes
<1>5. QED
  BY <1>2, <1>3, <1>4 DEF WriteTableRegister

\* A register write of the setpoint path.
LEMMA RegisterTypes ==
    ASSUME DacInv, WriteRegister
    PROVE  PathTypes' /\ TableTypeOK' /\ sw' \in Seq(Writes)
<1>1. PathTypes /\ TableTypeOK /\ sw \in Seq(Writes)
  BY TypeParts DEF DacInv
<1>2. sw # <<>> /\ Head(sw) \in Writes /\ Tail(sw) \in Seq(Writes) /\ sw' = Tail(sw)
  BY <1>1, HeadTailProperties DEF WriteRegister
<1>3. /\ Head(sw).reg = "mode" => Head(sw).val \in {SMOOTH, RAMP, JUMP}
      /\ Head(sw).reg = "setpoint" => Head(sw).val \in Setpoints \cup {0}
      /\ Head(sw).reg = "phase_inc" => Head(sw).val \in -1..IncMax
  BY <1>2 DEF Writes, Points
<1>4. /\ mode' \in {SMOOTH, RAMP, JUMP} /\ setpoint' \in Setpoints \cup {0}
      /\ phase_inc' \in -1..IncMax /\ steady' \in {0, steady}
      /\ UNCHANGED <<commands, ramp, tableVars, path, onward>>
  BY <1>1, <1>3 DEF WriteRegister, PathTypes
<1>5. steady' \in 0..SteadyCap
  BY <1>1, <1>4 DEF PathTypes, SteadyCap
<1>6. PathTypes'
  BY <1>1, <1>4, <1>5 DEF PathTypes, ramp, path
<1>7. QED
  BY <1>1, <1>2, <1>4, <1>6, TableStays

\* A ramp starts.
LEMMA StartTypes ==
    ASSUME DacInv, StartRamp
    PROVE  PathTypes' /\ TableTypeOK' /\ sw' = sw
<1>1. PathTypes /\ TableTypeOK
  BY TypeParts DEF DacInv
<1>2. /\ new_setpt_prev' = setpoint /\ old_setpt' = dac_setpt
      /\ phase' = -Pi /\ phase_out' = -Pi /\ last_point' = FALSE
      /\ state' = "run_ramp" /\ steady' = 0 /\ onward' = 0 /\ sw' = sw
      /\ UNCHANGED tableVars
      /\ UNCHANGED <<mode, setpoint, phase_inc, commands, dac_setpt_raw, dac_setpt,
                     gainPending, cos, raised_cos, rampout_wdiff, rampout_fp, rampout>>
  BY DEF StartRamp, regs, path
<1>3. /\ phase' \in -Span..(Span - 1) /\ phase_out' \in -Span..0
      /\ steady' \in 0..SteadyCap /\ onward' \in 0..OnwardCap
  BY <1>2, Sets DEF SteadyCap, OnwardCap
<1>4. last_point' \in BOOLEAN /\ gainPending' \in BOOLEAN
  BY <1>1, <1>2 DEF PathTypes
<1>5. PathTypes'
  BY <1>1, <1>2, <1>3, <1>4 DEF PathTypes
<1>6. QED
  BY <1>1, <1>2, <1>3, <1>5, TableStays

\* A tick: the ramp, the table and the multiplexer.
LEMMA TickTypes ==
    ASSUME DacInv, Tick
    PROVE  PathTypes' /\ TableTypeOK' /\ sw' = sw
<1>1. PathTypes /\ TableTypeOK
  BY TypeParts DEF DacInv
<1>2. /\ RampTick /\ TableTick /\ dac_setpt_raw' = Source /\ gainPending' = TRUE
      /\ steady' = (IF steady < SteadyCap THEN steady + 1 ELSE steady) /\ sw' = sw
      /\ onward' = 0 \/ onward' = (IF onward < OnwardCap THEN onward + 1 ELSE onward)
      /\ UNCHANGED <<mode, setpoint, phase_inc, commands, dac_setpt>>
  BY DEF Tick, regs
<1>3. TableTypeOK'
  BY <1>1, <1>2, TableTickTypes
<1>4. steady' \in 0..SteadyCap /\ onward' \in 0..OnwardCap
  BY <1>1, <1>2 DEF PathTypes, SteadyCap, OnwardCap
<1>5. dac_setpt_raw' \in Int
  <2>1. rampout \in Int /\ setpoint \in Int
    BY <1>1, Sets DEF PathTypes
  <2>2. ramp_dac_setpt \in Int
    BY <1>1, Sets DEF TableTypeOK, Word20
  <2>3. QED
    BY <1>2, <2>1, <2>2 DEF Source
<1>6. cos' = phase_out /\ UNCHANGED <<new_setpt_prev, old_setpt>>
  BY <1>2 DEF RampTick
<1>7. cos' \in -Span..0 /\ gainPending' \in BOOLEAN
  BY <1>1, <1>2, <1>6 DEF PathTypes
<1>8. CASE state = "run_ramp"
  <2>1. Pipeline /\ PhaseStep
    BY <1>2, <1>8 DEF RampTick
  <2>2. raised_cos' \in 0..Amp
    BY <1>1, <2>1, Sets DEF Pipeline, PathTypes
  <2>3. rampout_wdiff' \in Int
    <3>1. setpoint - old_setpt \in Int /\ raised_cos \in 0..Amp
      BY <1>1, Sets DEF PathTypes
    <3>2. QED
      BY <2>1, <3>1, PartOrder DEF Pipeline
  <2>4. rampout_fp' \in Int /\ rampout' \in Int
    BY <1>1, <2>1 DEF Pipeline, PathTypes
  <2>5. phase' \in -Span..(Span - 1) /\ phase_out' \in -Span..0
    <3>1. /\ Span \in Nat /\ phase \in Int /\ -Span <= phase /\ phase < Span
          /\ phase_out \in -Span..0 /\ phase_inc \in Int /\ Span > 0
      BY <1>1, Sets DEF PathTypes
    <3>2. CASE phase > 0
      <4>1. phase' = 0 /\ phase_out' = phase_out
        BY <2>1, <3>2 DEF PhaseStep
      <4>2. QED
        BY <3>1, <4>1
    <3>3. CASE ~(phase > 0)
      <4>1. phase' = Wrap(phase + phase_inc, Span) /\ phase_out' = phase
        BY <2>1, <3>3 DEF PhaseStep
      <4>2. (phase + phase_inc + Span) % (2 * Span) \in 0..(2 * Span - 1)
        BY <3>1
      <4>3. QED
        BY <3>1, <3>3, <4>1, <4>2 DEF Wrap
    <3>4. QED
      BY <3>2, <3>3
  <2>6. state' \in {"idle", "run_ramp"}
    BY <1>1, <2>1 DEF PhaseStep, PathTypes
  <2>7. last_point' \in BOOLEAN
    BY <1>1, <2>1, Zenon DEF PhaseStep, PathTypes
  <2>8. PathTypes'
    BY <1>1, <1>2, <1>4, <1>5, <1>6, <1>7, <2>2, <2>3, <2>4, <2>5, <2>6, <2>7 DEF PathTypes
  <2>9. QED
    BY <1>2, <1>3, <2>5, <2>8
<1>9. CASE state # "run_ramp"
  <2>1. UNCHANGED <<raised_cos, rampout_wdiff, rampout_fp, rampout, phase, phase_out,
                    last_point, state>>
    BY <1>2, <1>9 DEF RampTick
  <2>2. PathTypes'
    BY <1>1, <1>2, <1>4, <1>5, <1>6, <1>7, <2>1 DEF PathTypes
  <2>3. QED
    BY <1>1, <1>2, <1>3, <2>1, <2>2
<1>10. QED
  BY <1>8, <1>9

\* The gain and offset stage.
LEMMA GainTypes ==
    ASSUME DacInv, GainOffset
    PROVE  PathTypes' /\ TableTypeOK'
<1>1. PathTypes /\ TableTypeOK
  BY TypeParts DEF DacInv
<1>2. /\ dac_setpt' = GainStage(dac_setpt_raw) /\ gainPending' = FALSE
      /\ UNCHANGED tableVars
      /\ UNCHANGED <<mode, setpoint, phase_inc, commands, dac_setpt_raw, steady, onward>>
      /\ UNCHANGED ramp
  BY DEF GainOffset, regs, history
<1>3. dac_setpt' \in Int
  <2>1. /\ dac_setpt_raw \in Int /\ Offset \in Int /\ Gain \in Int /\ Unit \in Nat \ {0}
        /\ Half \in Nat
    BY <1>1, PathAssumption, Sets DEF PathTypes, PathAssumption
  <2> DEFINE oc == Wrap(dac_setpt_raw - Offset, Half)
             y == Scaled(oc * Gain, Unit, Half)
  <2>2. oc \in Int
    BY <2>1, WrapWord
  <2> HIDE DEF oc
  <2>3. oc * Gain \in Int
    BY <2>1, <2>2
  <2>4. (oc * Gain) \div Unit \in Int
    BY <2>1, <2>3, Quotient
  <2>5. y \in Int
    BY <2>4, WrapWord DEF Scaled
  <2> HIDE DEF y
  <2>6. SignSaturated(y, oc, Half) \in Int
    BY <2>1, <2>5 DEF SignSaturated
  <2>7. QED
    BY <1>2, <2>6 DEF GainStage, oc, y
<1>4. gainPending' \in BOOLEAN
  BY <1>2
<1>5. PathTypes'
  BY <1>1, <1>2, <1>3, <1>4 DEF PathTypes, ramp
<1>6. QED
  BY <1>1, <1>2, <1>5, TableStays

-----------------------------------------------------------------------------
(* The ramp.                                                               *)

\* A tick moves every stage on by one.
LEMMA TickFlow ==
    ASSUME DacInv, Tick
    PROVE  Flow'
<1> SUFFICES ASSUME state' = "run_ramp" PROVE Between' /\ Ordered'
  BY DEF Flow
<1>1. PathTypes
  BY TypeParts DEF DacInv
<1>2. /\ RampTick /\ UNCHANGED <<setpoint, phase_inc>>
      /\ steady' = IF steady < SteadyCap THEN steady + 1 ELSE steady
      /\ onward' = IF cos' \notin -Pi..phase_out' THEN 0
                   ELSE IF onward < OnwardCap THEN onward + 1 ELSE onward
  BY DEF Tick, regs
<1>3. state = "run_ramp"
  BY <1>2 DEF RampTick
<1>4. /\ Pipeline /\ PhaseStep /\ cos' = phase_out /\ old_setpt' = old_setpt
      /\ Between /\ Ordered
  BY <1>2, <1>3 DEF RampTick, DacInv, Flow
<1>5. /\ setpoint \in Int /\ old_setpt \in Int /\ rampout_wdiff \in Int /\ rampout_fp \in Int
      /\ rampout \in Int /\ raised_cos \in 0..Amp /\ cos \in -Span..0
      /\ phase_out \in -Span..0 /\ Pi \in Nat /\ Pi < Span /\ Span \in Nat /\ Amp \in Nat
  BY <1>1, Sets DEF PathTypes
<1>6. /\ steady \in Int /\ steady' \in Int /\ steady >= 0
      /\ \A k \in 1..6 : steady' >= k => steady >= k - 1
  BY <1>1, <1>2 DEF PathTypes, SteadyCap
<1>9. /\ onward \in Int /\ onward' \in Int /\ onward >= 0
      /\ \A k \in 1..5 : onward' >= k => onward >= k - 1
      /\ onward' >= 1 => -Pi <= cos' /\ cos' <= phase_out'
  <2>1. onward \in 0..5 /\ OnwardCap = 5
    BY <1>1 DEF PathTypes, OnwardCap
  <2>2. CASE cos' \notin -Pi..phase_out'
    BY <1>2, <2>1, <2>2
  <2>3. CASE cos' \in -Pi..phase_out'
    BY <1>2, <2>1, <2>3
  <2>4. QED
    BY <2>2, <2>3
<1>7. /\ raised_cos' = RaisedCos[cos] /\ rampout_wdiff' = Part(raised_cos)
      /\ rampout_fp' = old_setpt + rampout_wdiff /\ rampout' = rampout_fp
  BY <1>4 DEF Pipeline, Part
<1>8. RaisedCos[cos] \in 0..Amp /\ RaisedCos[phase_out] \in 0..Amp
  BY <1>5, Sets
<1> DEFINE d == setpoint - old_setpt
<1>10. d \in Int /\ (setpoint >= old_setpt <=> d >= 0)
  BY <1>5
<1>11. /\ Part(raised_cos) \in Int
       /\ Ahead(0, Part(raised_cos)) /\ Ahead(Part(raised_cos), d)
  <2>1. /\ Part(raised_cos) \in Int
        /\ d >= 0 => 0 <= Part(raised_cos) /\ Part(raised_cos) <= d
        /\ d <= 0 => Part(raised_cos) <= 0 /\ d <= Part(raised_cos)
    <3>1. Amp \in 0..Amp /\ raised_cos <= Amp
      BY <1>5
    <3>2. QED
      BY <1>5, <1>10, <3>1, PartOrder DEF Part
  <2>2. QED
    BY <1>10, <2>1 DEF Ahead
<1>12. raised_cos <= RaisedCos[cos] => Ahead(Part(raised_cos), Part(RaisedCos[cos]))
  <2>1. ASSUME raised_cos <= RaisedCos[cos]
        PROVE  /\ d >= 0 => Part(raised_cos) <= Part(RaisedCos[cos])
               /\ d <= 0 => Part(RaisedCos[cos]) <= Part(raised_cos)
    BY <1>5, <1>8, <1>10, <2>1, PartOrder DEF Part
  <2>2. QED
    BY <1>10, <2>1 DEF Ahead
<1>13. Between'
  <2>1. steady' >= 1 => (Ahead(0, rampout_wdiff) /\ Ahead(rampout_wdiff, setpoint - old_setpt))'
    BY <1>2, <1>4, <1>7, <1>11 DEF Ahead
  <2>2. steady' >= 2 => (Ahead(old_setpt, rampout_fp) /\ Ahead(rampout_fp, setpoint))'
    <3>1. SUFFICES ASSUME steady >= 1
                   PROVE  (Ahead(old_setpt, rampout_fp) /\ Ahead(rampout_fp, setpoint))'
      BY <1>6
    <3>2. Ahead(0, rampout_wdiff) /\ Ahead(rampout_wdiff, setpoint - old_setpt)
      BY <1>4, <3>1 DEF Between
    <3>3. QED
      BY <1>2, <1>4, <1>5, <1>7, <3>2 DEF Ahead
  <2>3. steady' >= 3 => (Ahead(old_setpt, rampout) /\ Ahead(rampout, setpoint))'
    <3>1. SUFFICES ASSUME steady >= 2
                   PROVE  (Ahead(old_setpt, rampout) /\ Ahead(rampout, setpoint))'
      BY <1>6
    <3>2. QED
      BY <1>2, <1>4, <1>7, <3>1 DEF Ahead, Between
  <2>4. QED
    BY <2>1, <2>2, <2>3 DEF Between
<1>14. Ordered'
  <2>1. onward' >= 1 => -Pi <= cos' /\ cos' <= phase_out'
    BY <1>9
  <2>2. onward' >= 2 => raised_cos' <= RaisedCos[cos']
    <3>1. SUFFICES ASSUME onward >= 1 PROVE RaisedCos[cos] <= RaisedCos[phase_out]
      BY <1>4, <1>7, <1>9
    <3>2. cos \in -Pi..0 /\ phase_out \in -Pi..0 /\ cos <= phase_out
      BY <1>4, <1>5, <3>1 DEF Ordered
    <3>3. QED
      BY <3>2, CosineAssumption DEF CosineAssumption
  <2>3. steady' >= 1 /\ onward' >= 3 => Ahead(rampout_wdiff, Part(raised_cos))'
    <3>1. SUFFICES ASSUME onward >= 2 PROVE Ahead(rampout_wdiff, Part(raised_cos))'
      BY <1>9
    <3>2. Ahead(Part(raised_cos), Part(RaisedCos[cos]))
      BY <1>4, <1>12, <3>1 DEF Ordered
    <3>3. Part(raised_cos)' = Part(RaisedCos[cos])
      BY <1>2, <1>4, <1>7 DEF Part
    <3>4. QED
      BY <1>2, <1>4, <1>7, <3>2, <3>3 DEF Ahead
  <2>4. steady' >= 2 /\ onward' >= 4 => Ahead(rampout_fp, old_setpt + rampout_wdiff)'
    <3>1. SUFFICES ASSUME steady >= 1, onward >= 3
                   PROVE  Ahead(rampout_fp, old_setpt + rampout_wdiff)'
      BY <1>6, <1>9
    <3>2. Ahead(rampout_wdiff, Part(raised_cos))
      BY <1>4, <3>1 DEF Ordered
    <3>3. QED
      BY <1>2, <1>4, <1>5, <1>7, <1>11, <3>2 DEF Ahead
  <2>5. steady' >= 3 /\ onward' >= 5 => Ahead(rampout, rampout_fp)'
    <3>1. SUFFICES ASSUME steady >= 2, onward >= 4 PROVE Ahead(rampout, rampout_fp)'
      BY <1>6, <1>9
    <3>2. QED
      BY <1>2, <1>4, <1>7, <3>1 DEF Ahead, Ordered
  <2>6. QED
    BY <2>1, <2>2, <2>3, <2>4, <2>5 DEF Ordered
<1>15. QED
  BY <1>13, <1>14

\* What leaves the ramp and its ends alone.
LEMMA FlowStays ==
    ASSUME Flow, UNCHANGED <<setpoint, ramp, history>>
    PROVE  Flow'
<1>1. UNCHANGED <<setpoint, old_setpt, state, cos, phase_out, raised_cos, rampout_wdiff,
                  rampout_fp, rampout, steady, onward>>
  BY DEF ramp, history
<1>2. Between => Between'
  BY <1>1 DEF Between, Ahead
<1>3. Ordered => Ordered'
  BY <1>1 DEF Ordered, Ahead, Part
<1>4. QED
  BY <1>1, <1>2, <1>3 DEF Flow

\* New ends start the count of ticks anew; the phases stay in order.
LEMMA FlowAnew ==
    ASSUME Flow, steady' = 0, UNCHANGED <<ramp, onward>>
    PROVE  Flow'
<1>1. UNCHANGED <<state, cos, phase_out, raised_cos, onward>>
  BY DEF ramp
<1>2. QED
  BY <1>1 DEF Flow, Between, Ordered

\* A step of the table or of software that is not a register of the path.
LEMMA OthersDacInv ==
    ASSUME DacInv, UNCHANGED <<regs, ramp, path, history>>, sw' \in Seq(Writes),
           TableTypeOK', commands' \in 0..MaxCommands
    PROVE  DacInv'
<1>1. PathTypes /\ Flow
  BY TypeParts DEF DacInv
<1>2. PathTypes'
  BY <1>1 DEF PathTypes, regs, ramp, path, history
<1>3. Flow'
  BY <1>1, FlowStays DEF regs
<1>4. TypeOK'
  BY <1>2, TypeParts DEF TypeOK, PathTypes
<1>5. QED
  BY <1>2, <1>3, <1>4 DEF DacInv

\* The path at reset.
LEMMA InitDacInv == Init => DacInv
<1> SUFFICES ASSUME Init PROVE DacInv
  OBVIOUS
<1>1. TableTypeOK
  <2>1. /\ table = [a \in 0..(Depth - 1) |-> 0] /\ ramplen = 0 /\ running = FALSE
        /\ dac_rdaddr = 0 /\ dac_rddata = 0 /\ fetch = "done" /\ ramp_dac_setpt = 0
        /\ clean = FALSE /\ raced = FALSE
    BY DEF Init, TableInit
  <2>2. 0 \in Word20 /\ 0 \in 0..(AddrMod - 1)
    BY Sets DEF Word20
  <2>3. running \in BOOLEAN /\ clean \in BOOLEAN /\ raced \in BOOLEAN
    BY <2>1
  <2>4. QED
    BY <2>1, <2>2, <2>3 DEF TableTypeOK
<1>2. PathTypes
  <2>1. /\ 0 \in -1..IncMax /\ 0 \in 0..MaxCommands /\ -Pi \in -Span..(Span - 1)
        /\ -Pi \in -Span..0 /\ 0 \in 0..Amp /\ 0 \in 0..SteadyCap /\ 0 \in 0..OnwardCap
    BY Sets DEF SteadyCap, OnwardCap
  <2>2. last_point \in BOOLEAN /\ gainPending \in BOOLEAN
    BY DEF Init
  <2>3. QED
    BY <2>1, <2>2 DEF Init, PathTypes
<1>3. Flow /\ sw \in Seq(Writes)
  BY DEF Init, Flow
<1>4. QED
  BY <1>1, <1>2, <1>3, TypeParts DEF DacInv

\* Every step keeps the invariant.
LEMMA NextDacInv == DacInv /\ [Next]_vars => DacInv'
<1> SUFFICES ASSUME DacInv, [Next]_vars PROVE DacInv'
  OBVIOUS
<1>1. /\ TypeOK /\ PathTypes /\ TableTypeOK /\ sw \in Seq(Writes)
      /\ Flow /\ commands \in 0..MaxCommands
  BY TypeParts DEF DacInv, PathTypes
<1>2. CASE \/ \E v \in Setpoints : Set_dac(v)
           \/ \E m \in {SMOOTH, RAMP, JUMP} : Set_dacOpmode(m)
           \/ \E points \in Messages : Command(write_ramptable(points))
           \/ \E n \in RampLens : Command(<<Write("ramplen", n)>>)
           \/ Command(<<Write("runramp", 1)>>)
  <2>1. PICK w \in Seq(Writes) : Command(w)
    BY <1>1, <1>2, CommandSeq
  <2>2. /\ sw' = w /\ commands < MaxCommands /\ commands' = commands + 1
        /\ UNCHANGED <<regs, ramp, tableVars, path, history>>
    BY <2>1 DEF Command
  <2>3. commands' \in 0..MaxCommands
    BY <1>1, <2>2, Sets
  <2>4. QED
    BY <1>1, <2>2, <2>3, TableStays, OthersDacInv
<1>3. CASE WriteRegister
  <2>1. PathTypes' /\ TableTypeOK' /\ sw' \in Seq(Writes)
    BY <1>3, RegisterTypes
  <2>2. /\ UNCHANGED <<ramp, onward>>
        /\ steady' = 0 \/ (steady' = steady /\ setpoint' = setpoint)
    BY <1>3 DEF WriteRegister
  <2>3. Flow'
    BY <1>1, <2>2, FlowStays, FlowAnew DEF history
  <2>4. TypeOK'
    BY <2>1, TypeParts DEF TypeOK, PathTypes
  <2>5. QED
    BY <2>1, <2>3, <2>4 DEF DacInv
<1>4. CASE WriteTableRegister
  <2>1. TableTypeOK' /\ sw' \in Seq(Writes)
    BY <1>1, <1>4, TableWriteTypes
  <2>2. UNCHANGED <<regs, commands, ramp, path, history>>
    BY <1>4 DEF WriteTableRegister
  <2>3. QED
    BY <1>1, <2>1, <2>2, OthersDacInv
<1>5. CASE InjTrig
  <2>1. (\A i \in DOMAIN sw : sw[i].reg \notin TableRegs) \in BOOLEAN
    OBVIOUS
  <2>2. TableTypeOK' /\ UNCHANGED <<regs, sw, commands, ramp, path, history>>
    BY <1>1, <1>5, <2>1, RunTypes DEF InjTrig
  <2>3. QED
    BY <1>1, <2>2, OthersDacInv
<1>6. CASE FetchTable
  <2>1. TableTypeOK' /\ UNCHANGED <<regs, sw, commands, ramp, path, history>>
    BY <1>1, <1>6, FetchTypes DEF FetchTable
  <2>2. QED
    BY <1>1, <2>1, OthersDacInv
<1>7. CASE StartRamp
  <2>1. PathTypes' /\ TableTypeOK' /\ sw' = sw
    BY <1>7, StartTypes
  <2>2. Flow'
    BY <1>7 DEF StartRamp, Flow, Between, Ordered
  <2>3. TypeOK'
    BY <2>1, TypeParts DEF TypeOK, PathTypes
  <2>4. QED
    BY <1>1, <2>1, <2>2, <2>3 DEF DacInv
<1>8. CASE Tick
  <2>1. PathTypes' /\ TableTypeOK' /\ sw' = sw
    BY <1>8, TickTypes
  <2>2. TypeOK'
    BY <2>1, TypeParts DEF TypeOK, PathTypes
  <2>3. QED
    BY <1>1, <1>8, <2>1, <2>2, TickFlow DEF DacInv
<1>9. CASE GainOffset
  <2>1. PathTypes' /\ TableTypeOK'
    BY <1>9, GainTypes
  <2>2. UNCHANGED <<setpoint, ramp, history, sw>>
    BY <1>9 DEF GainOffset, regs
  <2>3. Flow'
    BY <1>1, <2>2, FlowStays
  <2>4. TypeOK'
    BY <2>1, TypeParts DEF TypeOK, PathTypes
  <2>5. QED
    BY <1>1, <2>2, <2>3, <2>4 DEF DacInv
<1>10. CASE UNCHANGED vars
  BY <1>1, <1>10, TableStays, OthersDacInv DEF vars
<1>11. QED
  BY <1>2, <1>3, <1>4, <1>5, <1>6, <1>7, <1>8, <1>9, <1>10 DEF Next, Gateware

(* The invariant holds for every cosine table, setpoint, rate and message. *)
THEOREM PathInvariant == Spec => []DacInv
BY InitDacInv, NextDacInv, PTL DEF Spec

(* Type correctness of the setpoint path: registers, ramp, table, output.  *)
THEOREM PathTypesHold == Spec => []TypeOK
<1>1. DacInv => TypeOK
  BY DEF DacInv
<1>2. QED
  BY <1>1, PathInvariant, PTL

(* The ramp's output stays between its start and the setpoint, three ticks *)
(* after either of them or the phase increment has changed.                *)
THEOREM RampStaysBetween == Spec => []RampBounded
<1>1. DacInv => RampBounded
  <2> SUFFICES ASSUME DacInv, steady >= 3, state = "run_ramp"
               PROVE  rampout \in Min2(old_setpt, setpoint)..Max2(old_setpt, setpoint)
    BY DEF RampBounded
  <2>1. Ahead(old_setpt, rampout) /\ Ahead(rampout, setpoint)
    BY DEF DacInv, Flow, Between
  <2>2. setpoint \in Int /\ old_setpt \in Int /\ rampout \in Int
    <3>1. PathTypes
      BY TypeParts DEF DacInv
    <3>2. QED
      BY <3>1, Sets DEF PathTypes
  <2>3. QED
    BY <2>1, <2>2 DEF Ahead, Min2, Max2
<1>2. QED
  BY <1>1, PathInvariant, PTL

(* Three ticks after its ends or its increment changed, and five after a   *)
(* phase that was not in order, every step moves the output towards the    *)
(* setpoint or leaves it where it is.                                      *)
THEOREM RampOnlyForward == Spec => RampMonotone
<1>1. DacInv /\ [Next]_vars =>
        [steady >= 3 /\ onward >= 5 /\ state = "run_ramp" =>
            Distance(rampout', setpoint) <= Distance(rampout, setpoint)]_vars
  <2> SUFFICES ASSUME DacInv, [Next]_vars, steady >= 3, onward >= 5, state = "run_ramp"
               PROVE  Distance(rampout', setpoint) <= Distance(rampout, setpoint)
    OBVIOUS
  <2>1. setpoint \in Int /\ old_setpt \in Int /\ rampout \in Int /\ rampout_fp \in Int
        /\ steady \in Int
    <3>1. PathTypes
      BY TypeParts DEF DacInv
    <3>2. QED
      BY <3>1, Sets DEF PathTypes, SteadyCap
  <2>2. CASE rampout' = rampout
    BY <2>1, <2>2 DEF Distance
  <2>3. CASE Tick
    <3>1. rampout' = rampout_fp
      BY <2>3 DEF Tick, RampTick, Pipeline
    <3>2. steady >= 2
      BY <2>1
    <3>3. Ahead(rampout, rampout_fp) /\ Ahead(rampout_fp, setpoint)
      BY <3>2 DEF DacInv, Flow, Between, Ordered
    <3>4. QED
      BY <2>1, <3>1, <3>3 DEF Ahead, Distance
  <2>4. ~Tick => rampout' = rampout
    BY DEF Next, vars, Set_dac, Set_dacOpmode, Command, WriteRegister, WriteTableRegister,
           InjTrig, Gateware, StartRamp, GainOffset, FetchTable, ramp
  <2>5. QED
    BY <2>2, <2>3, <2>4
<1>2. QED
  BY <1>1, PathInvariant, PTL DEF Spec, RampMonotone

-----------------------------------------------------------------------------
(* The end of a ramp.                                                      *)

\* how far each stage of the pipeline is behind the phase, in increments,
\* once the stages before it have seen the present increment; no phase wraps
\* around as long as it is not counted down
Trailing ==
    /\ steady >= 1 => phase - phase_inc <= phase_out
    /\ steady >= 2 => phase - 2 * phase_inc <= cos
    /\ steady >= 3 => \A a \in -Pi..0 :
           a <= phase - 3 * phase_inc => RaisedCos[a] <= raised_cos
    /\ steady >= 4 => \A a \in -Pi..0 :
           a <= phase - 4 * phase_inc => Ahead(Part(RaisedCos[a]), rampout_wdiff)

\* after the tick that declares the last point, for the value that is put out
Stopping ==
    steady >= 5 => \A a \in -Pi..0 :
        a <= -(4 * phase_inc) => Ahead(old_setpt + Part(RaisedCos[a]), rampout_fp)

Lag == state = "run_ramp" /\ phase_inc >= 0 => IF last_point THEN Stopping ELSE Trailing

\* What leaves the ramp, its ends and its increment alone.
LEMMA LagStays ==
    ASSUME Lag, UNCHANGED <<setpoint, phase_inc, ramp, history>>
    PROVE  Lag'
<1>1. UNCHANGED <<setpoint, phase_inc, old_setpt, state, last_point, phase, phase_out, cos,
                  raised_cos, rampout_wdiff, rampout_fp, steady>>
  BY DEF ramp, history
<1>2. Trailing => Trailing'
  BY <1>1 DEF Trailing, Ahead, Part
<1>3. Stopping => Stopping'
  BY <1>1 DEF Stopping, Ahead, Part
<1>4. QED
  BY <1>1, <1>2, <1>3 DEF Lag

\* A change starts the count of ticks anew.
LEMMA LagAnew ==
    ASSUME steady' = 0
    PROVE  Lag'
BY DEF Lag, Trailing, Stopping

\* A tick moves the phase and every stage on by one.
LEMMA TickLag ==
    ASSUME DacInv, Lag, Tick
    PROVE  Lag'
<1> SUFFICES ASSUME state' = "run_ramp", phase_inc' >= 0
             PROVE  IF last_point' THEN Stopping' ELSE Trailing'
  BY DEF Lag
<1>1. PathTypes
  BY TypeParts DEF DacInv
<1>2. /\ RampTick /\ UNCHANGED <<setpoint, phase_inc>>
      /\ steady' = IF steady < SteadyCap THEN steady + 1 ELSE steady
  BY DEF Tick, regs
<1>3. state = "run_ramp" /\ ~last_point
  BY <1>2 DEF RampTick, PhaseStep
<1>4. /\ Pipeline /\ PhaseStep /\ cos' = phase_out /\ old_setpt' = old_setpt /\ Trailing
  BY <1>2, <1>3 DEF RampTick, Lag
<1>5. /\ setpoint \in Int /\ old_setpt \in Int /\ rampout_wdiff \in Int
      /\ raised_cos \in 0..Amp /\ cos \in -Span..0 /\ phase_out \in -Span..0
      /\ phase \in Int /\ -Span <= phase /\ phase_inc \in Nat /\ phase_inc < Span
      /\ Pi \in Nat /\ Pi < Span /\ Span \in Nat /\ Span > 0 /\ Amp \in Nat
  BY <1>1, <1>2, Sets DEF PathTypes
<1>6. /\ steady \in Int /\ steady' \in Int /\ steady >= 0
      /\ \A k \in 1..6 : steady' >= k => steady >= k - 1
  BY <1>1, <1>2 DEF PathTypes, SteadyCap
<1>7. /\ raised_cos' = RaisedCos[cos] /\ rampout_wdiff' = Part(raised_cos)
      /\ rampout_fp' = old_setpt + rampout_wdiff
  BY <1>4 DEF Pipeline, Part
<1>8. \A a \in -Pi..0 : RaisedCos[a] \in 0..Amp
  BY <1>5, Sets
<1>11. CASE ~(phase > 0)
  <2>1. phase' = phase + phase_inc /\ phase_out' = phase /\ ~last_point'
    <3>1. ASSUME NEW n \in Nat \ {0}, NEW x \in 0..(n - 1) PROVE x % n = x
      BY SMTT(30)
    <3>2. phase + phase_inc + Span \in 0..(2 * Span - 1) /\ 2 * Span \in Nat \ {0}
      BY <1>5, <1>11
    <3>3. (phase + phase_inc + Span) % (2 * Span) = phase + phase_inc + Span
      BY <3>1, <3>2
    <3>4. Wrap(phase + phase_inc, Span) = phase + phase_inc
      BY <1>5, <3>3 DEF Wrap
    <3>5. QED
      BY <1>3, <1>4, <1>11, <3>4 DEF PhaseStep
  <2>2. phase' - phase_inc' <= phase_out'
    BY <1>2, <1>5, <2>1
  <2>3. steady' >= 2 => phase' - 2 * phase_inc' <= cos'
    <3>1. SUFFICES ASSUME steady >= 1 PROVE phase' - 2 * phase_inc' <= cos'
      BY <1>6
    <3>2. phase - phase_inc <= phase_out
      BY <1>4, <3>1 DEF Trailing
    <3>3. QED
      BY <1>2, <1>4, <1>5, <2>1, <3>2
  <2>4. steady' >= 3 => \A a \in -Pi..0 :
            a <= phase' - 3 * phase_inc' => RaisedCos[a] <= raised_cos'
    <3>1. SUFFICES ASSUME steady >= 2, NEW a \in -Pi..0, a <= phase' - 3 * phase_inc'
                   PROVE  RaisedCos[a] <= RaisedCos[cos]
      BY <1>6, <1>7
    <3>2. phase - 2 * phase_inc <= cos
      BY <1>4, <3>1 DEF Trailing
    <3>3. a <= cos /\ cos \in -Pi..0
      BY <1>2, <1>5, <2>1, <3>1, <3>2
    <3>4. QED
      BY <3>1, <3>3, CosineAssumption DEF CosineAssumption
  <2>5. steady' >= 4 => \A a \in -Pi..0 :
            a <= phase' - 4 * phase_inc' => Ahead(Part(RaisedCos[a]), rampout_wdiff)'
    <3>1. SUFFICES ASSUME steady >= 3, NEW a \in -Pi..0, a <= phase' - 4 * phase_inc'
                   PROVE  Ahead(Part(RaisedCos[a]), Part(raised_cos))
      BY <1>2, <1>4, <1>6, <1>7 DEF Ahead, Part
    <3>2. a <= phase - 3 * phase_inc
      BY <1>2, <1>5, <2>1, <3>1
    <3>3. RaisedCos[a] <= raised_cos
      BY <1>4, <3>1, <3>2 DEF Trailing
    <3>4. setpoint - old_setpt \in Int /\ RaisedCos[a] \in 0..Amp
      BY <1>5, <1>8
    <3>5. /\ setpoint - old_setpt >= 0 => Part(RaisedCos[a]) <= Part(raised_cos)
          /\ setpoint - old_setpt <= 0 => Part(raised_cos) <= Part(RaisedCos[a])
      BY <1>5, <3>3, <3>4, PartOrder DEF Part
    <3>6. QED
      BY <1>5, <3>5 DEF Ahead
  <2>6. Trailing'
    BY <2>2, <2>3, <2>4, <2>5 DEF Trailing
  <2>7. QED
    BY <2>1, <2>6
<1>12. CASE phase > 0
  <2>1. last_point'
    BY <1>4, <1>12 DEF PhaseStep
  <2>2. steady' >= 5 => \A a \in -Pi..0 :
            a <= -(4 * phase_inc') => Ahead(old_setpt + Part(RaisedCos[a]), rampout_fp)'
    <3>1. SUFFICES ASSUME steady >= 4, NEW a \in -Pi..0, a <= -(4 * phase_inc)
                   PROVE  Ahead(old_setpt + Part(RaisedCos[a]), old_setpt + rampout_wdiff)
      BY <1>2, <1>4, <1>6, <1>7 DEF Ahead, Part
    <3>2. a <= phase - 4 * phase_inc
      BY <1>5, <1>12, <3>1
    <3>3. Ahead(Part(RaisedCos[a]), rampout_wdiff)
      BY <1>4, <3>1, <3>2 DEF Trailing
    <3>4. Part(RaisedCos[a]) \in Int
      <4>1. setpoint - old_setpt \in Int /\ RaisedCos[a] \in 0..Amp
        BY <1>5, <1>8
      <4>2. QED
        BY <4>1, PartOrder DEF Part
    <3>5. QED
      BY <1>5, <3>3, <3>4 DEF Ahead
  <2>3. QED
    BY <2>1, <2>2 DEF Stopping
<1>13. QED
  BY <1>11, <1>12

\* Every step keeps it.
LEMMA NextLag == DacInv /\ Lag /\ [Next]_vars => Lag'
<1> SUFFICES ASSUME DacInv, Lag, [Next]_vars PROVE Lag'
  OBVIOUS
<1>1. CASE Tick
  BY <1>1, TickLag
<1>2. CASE StartRamp
  BY <1>2, LagAnew DEF StartRamp
<1>3. CASE WriteRegister
  <2>1. /\ UNCHANGED <<ramp, onward>>
        /\ steady' = 0 \/ (steady' = steady /\ UNCHANGED <<setpoint, phase_inc>>)
    BY <1>3 DEF WriteRegister
  <2>2. QED
    BY <2>1, LagStays, LagAnew DEF history
<1>4. CASE UNCHANGED <<regs, ramp, history>>
  BY <1>4, LagStays DEF regs
<1>5. Tick \/ StartRamp \/ WriteRegister \/ UNCHANGED <<regs, ramp, history>>
  BY DEF Next, vars, Set_dac, Set_dacOpmode, Command, WriteTableRegister, InjTrig,
         Gateware, GainOffset, FetchTable
<1>6. QED
  BY <1>1, <1>2, <1>3, <1>4, <1>5

\* The distance that is left, from the part of the way that is done.
LEMMA RestOfTheWay ==
    ASSUME setpoint \in Int, old_setpt \in Int, NEW y \in Int, NEW r \in 0..Amp,
           Ahead(old_setpt + Part(r), y), Ahead(y, setpoint)
    PROVE  Distance(y, setpoint) <=
               Distance(old_setpt, setpoint) - (Distance(old_setpt, setpoint) * r) \div Amp
<1> DEFINE d == setpoint - old_setpt
           q == (d * r) \div Amp
           e == (old_setpt - setpoint) * r
<1>1. Amp \in Nat \ {0} /\ r \in Int /\ d \in Int /\ e \in Int /\ d * r \in Int
  BY Sets
<1>2. q \in Int /\ q * Amp <= d * r /\ d * r < q * Amp + Amp
  BY <1>1, Quotient
<1>3. e \div Amp \in Int /\ (e \div Amp) * Amp <= e
  BY <1>1, Quotient
<1>4. Part(r) = q
  BY DEF Part
<1>5. CASE setpoint >= old_setpt
  <2>1. Distance(old_setpt, setpoint) = d /\ Distance(y, setpoint) = setpoint - y
    BY <1>5 DEF Distance, Ahead
  <2>2. old_setpt + q <= y
    BY <1>4, <1>5 DEF Ahead
  <2> HIDE DEF q
  <2>3. setpoint - y <= d - q
    BY <1>1, <1>2, <2>2
  <2>4. QED
    BY <2>1, <2>3 DEF q
<1>6. CASE ~(setpoint >= old_setpt)
  <2>1. /\ Distance(old_setpt, setpoint) = old_setpt - setpoint
        /\ Distance(y, setpoint) = y - setpoint
    BY <1>6 DEF Distance, Ahead
  <2>2. y <= old_setpt + q
    BY <1>4, <1>6 DEF Ahead
  \* rounded down, a negative part is not less than the positive one is
  <2>3. q <= -(e \div Amp)
    <3> DEFINE f == e \div Amp
    <3>1. e = -(d * r)
      BY <1>1
    <3>2. f \in Int /\ f * Amp <= e
      BY <1>3
    <3> HIDE DEF q, e, f, d
    <3>3. (q + f) * Amp <= 0
      <4>1. (q + f) * Amp = q * Amp + f * Amp /\ q * Amp \in Int /\ f * Amp \in Int
        BY <1>1, <1>2, <3>2
      <4>2. QED
        BY <1>1, <1>2, <3>1, <3>2, <4>1
    <3>4. q + f <= 0
      <4>1. ASSUME q + f >= 1 PROVE FALSE
        <5>1. (q + f) * Amp >= Amp
          BY <1>1, <1>2, <3>2, <4>1
        <5>2. (q + f) * Amp \in Int
          BY <1>1, <1>2, <3>2
        <5>3. QED
          BY <1>1, <3>3, <5>1, <5>2
      <4>2. QED
        BY <1>2, <3>2, <4>1
    <3>5. QED
      BY <1>2, <3>2, <3>4 DEF f
  <2> HIDE DEF q
  <2>4. y - setpoint <= (old_setpt - setpoint) - (e \div Amp)
    <3> HIDE DEF e
    <3> QED BY <1>1, <1>2, <1>3, <2>2, <2>3
  <2>5. QED
    BY <2>1, <2>4
<1>7. QED
  BY <1>5, <1>6

(* A ramp stops short of the setpoint by what lies within the last four    *)
(* phase increments of the cosine, and by no rounding beyond it.           *)
THEOREM RampStopsNear == Spec => EndsWithinFour
<1>1. Init => Lag
  BY DEF Init, Lag
<1>2. Spec => []Lag
  BY <1>1, NextLag, PathInvariant, PTL DEF Spec
<1>3. DacInv /\ Lag /\ [Next]_vars =>
        [state = "run_ramp" /\ state' = "idle" /\ steady >= 6 /\ phase_inc >= 0 =>
            Distance(rampout', setpoint) <=
                Distance(old_setpt, setpoint)
                - (Distance(old_setpt, setpoint)
                   * RaisedCos[Max2(-Pi, -(4 * phase_inc))]) \div Amp]_vars
  <2> DEFINE a == Max2(-Pi, -(4 * phase_inc))
  <2> SUFFICES ASSUME DacInv, Lag, [Next]_vars, state = "run_ramp", state' = "idle",
                      steady >= 6, phase_inc >= 0
               PROVE  Distance(rampout', setpoint) <=
                          Distance(old_setpt, setpoint)
                          - (Distance(old_setpt, setpoint) * RaisedCos[a]) \div Amp
    OBVIOUS
  <2>1. /\ setpoint \in Int /\ old_setpt \in Int /\ rampout_fp \in Int /\ steady \in Int
        /\ phase_inc \in Nat /\ Pi \in Nat /\ Pi < Span /\ Span \in Nat
    <3>1. PathTypes
      BY TypeParts DEF DacInv
    <3>2. QED
      BY <3>1, Sets DEF PathTypes, SteadyCap
  <2>2. Tick
    BY DEF Next, vars, Set_dac, Set_dacOpmode, Command, WriteRegister, WriteTableRegister,
           InjTrig, Gateware, StartRamp, GainOffset, FetchTable, ramp
  <2>3. rampout' = rampout_fp /\ last_point
    BY <2>2 DEF Tick, RampTick, Pipeline, PhaseStep
  <2>4. a \in -Pi..0 /\ (a = -Pi \/ a <= -(4 * phase_inc))
    BY <2>1 DEF Max2
  <2> HIDE DEF a
  <2>5. RaisedCos[a] \in 0..Amp
    BY <2>1, <2>4, Sets
  <2>6. Ahead(old_setpt, rampout_fp) /\ Ahead(rampout_fp, setpoint)
    <3>1. steady >= 2
      BY <2>1
    <3>2. QED
      BY <3>1 DEF DacInv, Flow, Between
  <2>7. Ahead(old_setpt + Part(RaisedCos[a]), rampout_fp)
    <3>1. CASE a <= -(4 * phase_inc)
      <4>1. steady >= 5
        BY <2>1
      <4>2. QED
        BY <2>3, <2>4, <3>1, <4>1 DEF Lag, Stopping
    <3>2. CASE a = -Pi
      <4>1. RaisedCos[a] = 0
        BY <3>2, CosineAssumption DEF CosineAssumption
      <4>2. Part(0) = 0
        <5>1. (setpoint - old_setpt) * 0 = 0 * Amp /\ 0 \in Int
          BY <2>1, Sets
        <5>2. (0 * Amp) \div Amp = 0
          BY Sets, QuotientExact
        <5>3. QED
          BY <5>1, <5>2 DEF Part
      <4>3. old_setpt + 0 = old_setpt
        BY <2>1
      <4>4. QED
        BY <2>6, <4>1, <4>2, <4>3
    <3>3. QED
      BY <2>4, <3>1, <3>2
  <2>8. QED
    BY <2>1, <2>3, <2>5, <2>6, <2>7, RestOfTheWay
<1>4. QED
  BY <1>2, <1>3, PathInvariant, PTL DEF Spec, EndsWithinFour

-----------------------------------------------------------------------------
(* The ramp table.                                                         *)

\* the memory holds the points that were written, as words
Stored == /\ msg \in Seq(Int) /\ Len(msg) <= Depth
          /\ \A i \in 1..Len(msg) : table[i - 1] = TableWord(msg[i])

\* points are written without a gap: the next one follows what is written,
\* every other one starts the table or follows the one before it
InOrder(s, n) ==
    \A i \in DOMAIN s : s[i].reg = "table" =>
        IF i = 1 THEN s[1].val[1] <= n
        ELSE s[i].val[1] = 0
             \/ (s[i - 1].reg = "table" /\ s[i].val[1] = s[i - 1].val[1] + 1)

\* what a run without disturbance has played; a length that is the largest
\* number is left out, since such a run does not end
Played ==
    /\ Len(played) = dac_rdaddr /\ dac_rdaddr <= ramplen
    /\ \A i \in 1..dac_rdaddr : played[i] = table[i - 1] \/ (i = 1 /\ raced)
    /\ fetch = "just" => dac_rdaddr = 0
    /\ fetch = "done" /\ dac_rdaddr < Depth => dac_rddata = table[dac_rdaddr]

TableInv ==
    /\ Stored /\ InOrder(sw, Len(msg)) /\ played \in Seq(Int)
    /\ running /\ clean /\ ramplen <= Len(msg) /\ ramplen < AddrMod - 1 => Played

\* What leaves the table and the writes alone.
LEMMA TableInvStays ==
    ASSUME TableInv, UNCHANGED <<tableVars, sw>>
    PROVE  TableInv'
<1>1. UNCHANGED <<table, ramplen, msg, running, dac_rdaddr, dac_rddata, fetch, played,
                  raced, clean, sw>>
  BY DEF tableVars, tableMem, tableGen
<1>2. QED
  BY <1>1 DEF TableInv, Stored, InOrder, Played

\* A word of the table's register is the point, if it fits.
LEMMA WordOfPoint ==
    ASSUME NEW p \in Word20
    PROVE  TableWord(p) = p
<1>1. Half \in Nat \ {0} /\ p \in Int /\ -Half <= p /\ p < Half
  BY Sets DEF Word20
<1>2. TableWord(p) = Wrap(p, Half)
  BY <1>1 DEF TableWord
<1>3. p + Half \in 0..(2 * Half - 1) /\ 2 * Half \in Nat \ {0}
  BY <1>1
<1>4. ASSUME NEW n \in Nat \ {0}, NEW x \in 0..(n - 1) PROVE x % n = x
  BY SMTT(30)
<1>5. (p + Half) % (2 * Half) = p + Half
  BY <1>3, <1>4
<1>6. QED
  BY <1>1, <1>2, <1>5 DEF Wrap

\* What is left of the writes after one of them is in order, too.
LEMMA TailInOrder ==
    ASSUME sw \in Seq(Writes), sw # <<>>, NEW n \in Nat, NEW k \in Nat, InOrder(sw, n),
           Head(sw).reg = "table" => k = Head(sw).val[1] + 1
    PROVE  InOrder(Tail(sw), k)
<1>1. /\ Len(sw) \in Nat \ {0} /\ Tail(sw) \in Seq(Writes) /\ Len(Tail(sw)) = Len(sw) - 1
      /\ \A i \in 1..Len(Tail(sw)) : Tail(sw)[i] = sw[i + 1]
      /\ Head(sw) = sw[1] /\ DOMAIN Tail(sw) = 1..Len(Tail(sw)) /\ DOMAIN sw = 1..Len(sw)
  BY HeadTailProperties, LenProperties, EmptySeq
<1> SUFFICES ASSUME NEW i \in DOMAIN Tail(sw), Tail(sw)[i].reg = "table"
             PROVE  IF i = 1 THEN Tail(sw)[1].val[1] <= k
                    ELSE Tail(sw)[i].val[1] = 0
                         \/ (Tail(sw)[i - 1].reg = "table"
                             /\ Tail(sw)[i].val[1] = Tail(sw)[i - 1].val[1] + 1)
  BY DEF InOrder
<1>2. i \in 1..(Len(sw) - 1) /\ Tail(sw)[i] = sw[i + 1] /\ i + 1 \in DOMAIN sw /\ i + 1 # 1
      /\ (i + 1) - 1 = i
  BY <1>1
<1>3. sw[i + 1].val[1] = 0
      \/ (sw[i].reg = "table" /\ sw[i + 1].val[1] = sw[i].val[1] + 1)
  BY <1>2 DEF InOrder
<1>4. CASE i = 1
  BY <1>1, <1>2, <1>3, <1>4
<1>5. CASE i # 1
  <2>1. i - 1 \in 1..Len(Tail(sw)) /\ (i - 1) + 1 = i
    BY <1>1, <1>2, <1>5
  <2>2. Tail(sw)[i - 1] = sw[i]
    BY <1>1, <2>1
  <2>3. QED
    BY <1>2, <1>3, <1>5, <2>2
<1>6. QED
  BY <1>4, <1>5

\* The writes of a command are in order.
LEMMA CommandInOrder ==
    ASSUME TypeOK, sw' \in Seq(Writes), NEW n \in Nat,
           \/ \E v \in Setpoints : Set_dac(v)
           \/ \E m \in {SMOOTH, RAMP, JUMP} : Set_dacOpmode(m)
           \/ \E points \in Messages : Command(write_ramptable(points))
           \/ \E r \in RampLens : Command(<<Write("ramplen", r)>>)
           \/ Command(<<Write("runramp", 1)>>)
    PROVE  InOrder(sw', n)
<1>1. ASSUME \A i \in DOMAIN sw' : sw'[i].reg # "table" PROVE InOrder(sw', n)
  BY <1>1 DEF InOrder
<1>2. ASSUME NEW points \in Messages, Command(write_ramptable(points))
      PROVE  InOrder(sw', n)
  <2>1. points \in Seq(Int) /\ Len(points) \in Nat
    BY Sets
  <2>2. CASE Len(points) > Depth
    BY <1>1, <1>2, <2>2 DEF Command, write_ramptable
  <2>3. CASE ~(Len(points) > Depth)
    <3> DEFINE h == <<Write("ramplen", Len(points))>>
               f == [i \in 1..Len(points) |-> Write("table", <<i - 1, points[i]>>)]
               S == [reg : {"ramplen"}, val : Nat] \cup [reg : {"table"}, val : Nat \X Int]
    <3>1. h \in Seq(S) /\ Len(h) = 1 /\ h[1].reg = "ramplen"
      BY <2>1 DEF Write
    <3>2. f \in [1..Len(points) -> S]
      <4>1. ASSUME NEW i \in 1..Len(points) PROVE Write("table", <<i - 1, points[i]>>) \in S
        <5>1. points[i] \in Int /\ i - 1 \in Nat
          BY <2>1
        <5>2. QED
          BY <5>1 DEF Write
      <4>2. QED
        BY <4>1
    <3>3. f \in Seq(S) /\ Len(f) = Len(points)
      <4>1. f \in Seq(S)
        BY <2>1, <3>2, MakesSeq
      <4>2. QED
        BY <2>1, <3>2, <4>1, LenProperties
    <3>4. ASSUME NEW i \in 1..Len(points)
          PROVE  f[i].reg = "table" /\ f[i].val[1] = i - 1
      BY DEF Write
    <3>5. sw' = h \o f
      BY <1>2, <2>3 DEF Command, write_ramptable
    <3> HIDE DEF h, f, S
    <3>6. /\ DOMAIN sw' = 1..(1 + Len(points)) /\ sw'[1] = h[1]
          /\ \A i \in 1..(1 + Len(points)) : i # 1 => sw'[i] = f[i - 1]
      <4>1. h \in Seq(S) /\ f \in Seq(S)
        BY <3>1, <3>3
      <4>2. /\ h \o f \in Seq(S) /\ Len(h \o f) = Len(h) + Len(f)
            /\ \A i \in 1..(Len(h) + Len(f)) :
                   (h \o f)[i] = IF i <= Len(h) THEN h[i] ELSE f[i - Len(h)]
        BY ONLY <4>1, ConcatProperties
      <4>3. Len(h) = 1 /\ Len(f) = Len(points)
        BY <3>1, <3>3
      <4>4. DOMAIN sw' = 1..(1 + Len(points))
        BY <3>5, <4>2, <4>3, LenProperties
      <4>5. \A i \in 1..(1 + Len(points)) : sw'[i] = IF i <= 1 THEN h[i] ELSE f[i - 1]
        BY <3>5, <4>2, <4>3
      <4>6. sw'[1] = h[1]
        BY <2>1, <4>5
      <4>7. ASSUME NEW i \in 1..(1 + Len(points)), i # 1 PROVE sw'[i] = f[i - 1]
        <5>1. ~(i <= 1)
          BY <2>1, <4>7
        <5>2. QED
          BY <4>5, <5>1
      <4>8. QED
        BY <4>4, <4>6, <4>7
    <3>7. ASSUME NEW i \in DOMAIN sw', sw'[i].reg = "table"
          PROVE  IF i = 1 THEN sw'[1].val[1] <= n
                 ELSE sw'[i].val[1] = 0
                      \/ (sw'[i - 1].reg = "table" /\ sw'[i].val[1] = sw'[i - 1].val[1] + 1)
      <4>1. i # 1 /\ i \in 1..(1 + Len(points))
        BY <3>1, <3>6, <3>7
      <4>2. i - 1 \in 1..Len(points) /\ sw'[i] = f[i - 1]
        BY <2>1, <3>6, <4>1
      <4>3. sw'[i].val[1] = (i - 1) - 1
        BY <3>4, <4>2
      <4>4. CASE i = 2
        BY <4>1, <4>3, <4>4
      <4>5. CASE i # 2
        <5>1. i - 1 \in 1..(1 + Len(points)) /\ i - 1 # 1 /\ (i - 1) - 1 \in 1..Len(points)
          BY <2>1, <4>1, <4>5
        <5>2. sw'[i - 1].reg = "table" /\ sw'[i - 1].val[1] = ((i - 1) - 1) - 1
          BY <3>4, <3>6, <5>1
        <5>3. QED
          BY <4>1, <4>3, <5>2
      <4>6. QED
        BY <4>4, <4>5
    <3>8. QED
      BY <3>7 DEF InOrder
  <2>4. QED
    BY <2>2, <2>3
<1>3. ASSUME NEW v \in Setpoints, Set_dac(v) PROVE InOrder(sw', n)
  BY <1>1, <1>3 DEF Set_dac, Command, Calc_WriteSmooth, Write
<1>4. ASSUME NEW m \in {SMOOTH, RAMP, JUMP}, Set_dacOpmode(m) PROVE InOrder(sw', n)
  BY <1>1, <1>4 DEF Set_dacOpmode, Command, Calc_WriteSmooth, Write
<1>5. ASSUME NEW r \in RampLens, Command(<<Write("ramplen", r)>>) PROVE InOrder(sw', n)
  BY <1>1, <1>5 DEF Command, Write
<1>6. ASSUME Command(<<Write("runramp", 1)>>) PROVE InOrder(sw', n)
  BY <1>1, <1>6 DEF Command, Write
<1>7. QED
  BY <1>2, <1>3, <1>4, <1>5, <1>6

\* A point is written: it follows what is written, and disturbs a run.
LEMMA WriteTableInv ==
    ASSUME TableInv, TableTypeOK, NEW a \in 0..(Depth - 1), NEW p \in Int,
           a <= Len(msg), WriteTable(a, p)
    PROVE  Stored' /\ Len(msg') = a + 1 /\ played' = played /\ clean' = FALSE
<1>1. /\ msg \in Seq(Int) /\ Len(msg) \in Nat /\ Len(msg) <= Depth /\ a \in Nat
      /\ a < Depth /\ Depth \in Nat
      /\ \A i \in 1..Len(msg) : table[i - 1] = TableWord(msg[i])
  BY Sets DEF TableInv, Stored
<1>2. /\ table' = [table EXCEPT ![a] = TableWord(p)] /\ clean' = FALSE /\ played' = played
      /\ msg' = Append(SubSeq(msg, 1, a), p)
  BY DEF WriteTable
<1> DEFINE s == SubSeq(msg, 1, a)
<1>3. s \in Seq(Int) /\ Len(s) = a /\ \A i \in 1..a : s[i] = msg[i]
  <2>1. 1 \in 1..(Len(msg) + 1) /\ a \in 0..Len(msg)
    BY <1>1
  <2>2. \A i \in 1..a : msg[i] \in Int
    BY <1>1
  <2>3. QED
    BY <1>1, <2>1, <2>2, SubSeqProperties
<1> HIDE DEF s
<1>4. /\ msg' \in Seq(Int) /\ Len(msg') = a + 1 /\ msg'[a + 1] = p
      /\ \A i \in 1..a : msg'[i] = msg[i]
  <2>1. msg' = Append(s, p)
    BY <1>2 DEF s
  <2>2. /\ Append(s, p) \in Seq(Int) /\ Len(Append(s, p)) = Len(s) + 1
        /\ \A i \in 1..Len(s) : Append(s, p)[i] = s[i]
        /\ Append(s, p)[Len(s) + 1] = p
    BY <1>3, AppendProperties
  <2>3. QED
    BY <1>3, <2>1, <2>2
<1>5. ASSUME NEW i \in 1..Len(msg') PROVE table'[i - 1] = TableWord(msg'[i])
  <2>1. i - 1 \in 0..(Depth - 1) /\ table \in [0..(Depth - 1) -> Word20]
    BY <1>1, <1>4 DEF TableTypeOK
  <2>2. CASE i = a + 1
    BY <1>1, <1>2, <1>4, <2>1, <2>2
  <2>3. CASE i # a + 1
    <3>1. i \in 1..a /\ i \in 1..Len(msg) /\ i - 1 # a
      BY <1>1, <1>4, <2>3
    <3>2. QED
      BY <1>1, <1>2, <1>4, <2>1, <3>1
  <2>4. QED
    BY <2>2, <2>3
<1>6. QED
  BY <1>1, <1>2, <1>4, <1>5 DEF Stored

\* A run is asked for: an idle generator starts at the first word.
LEMMA RunTableInv ==
    ASSUME TableInv, TableTypeOK, NEW settled, RunRamp(settled)
    PROVE  /\ Stored' /\ msg' = msg /\ played' \in Seq(Int)
           /\ running' /\ clean' /\ ramplen' <= Len(msg') /\ ramplen' < AddrMod - 1 => Played'
<1>1. UNCHANGED <<table, ramplen, msg>>
  BY DEF RunRamp, tableMem
<1>2. Stored'
  BY <1>1 DEF TableInv, Stored
<1>3. CASE running
  <2>1. UNCHANGED <<tableGen, clean>>
    BY <1>3 DEF RunRamp
  <2>2. QED
    BY <1>1, <1>2, <2>1 DEF TableInv, Played, tableGen
<1>4. CASE ~running
  <2>1. dac_rdaddr' = 0 /\ fetch' = "just" /\ played' = <<>>
    BY <1>4 DEF RunRamp
  <2>2. Len(played') = 0 /\ played' \in Seq(Int) /\ ramplen \in Nat
    BY <2>1, Sets DEF TableTypeOK
  <2>3. Played'
    BY <1>1, <2>1, <2>2 DEF Played
  <2>4. QED
    BY <1>1, <1>2, <2>2, <2>3
<1>5. QED
  BY <1>3, <1>4

\* A tick of the generator: the next word is played, or the run ends.
LEMMA TickTableInv ==
    ASSUME TableInv, TableTypeOK, TableTick, TickMayCome, sw' = sw
    PROVE  TableInv'
<1>1. UNCHANGED <<table, ramplen, msg, clean>>
  BY DEF TableTick, tableMem
<1>2. Stored' /\ InOrder(sw, Len(msg))'
  BY <1>1 DEF TableInv, Stored, InOrder
<1>3. CASE ~running
  BY <1>1, <1>3, TableInvStays DEF TableTick, tableVars, tableMem
<1>4. CASE running /\ (dac_rdaddr + 1) % AddrMod > ramplen
  BY <1>2, <1>4 DEF TableTick, TableInv
<1>5. CASE running /\ ~((dac_rdaddr + 1) % AddrMod > ramplen)
  <2>1. /\ dac_rdaddr' = (dac_rdaddr + 1) % AddrMod /\ fetch' = "due"
        /\ played' = (IF Len(played) > Depth THEN played ELSE Append(played, dac_rddata))
        /\ raced' = (raced \/ fetch = "just") /\ running' = running
    BY <1>5 DEF TableTick
  <2>2. /\ dac_rdaddr \in Nat /\ ramplen \in Nat /\ dac_rddata \in Int
        /\ fetch \in {"done", "just"} /\ played \in Seq(Int)
        /\ AddrMod \in Nat \ {0} /\ Depth \in Nat /\ Len(msg) \in Nat /\ Len(msg) <= Depth
    <3>1. dac_rddata \in Int
      BY Sets DEF TableTypeOK, Word20
    <3>2. fetch \in {"done", "just"}
      BY <1>5 DEF TickMayCome, TableTypeOK
    <3>3. dac_rdaddr \in Nat /\ ramplen \in Nat
      BY Sets DEF TableTypeOK
    <3>4. msg \in Seq(Int) /\ Len(msg) <= Depth /\ played \in Seq(Int)
      BY DEF TableInv, Stored
    <3>5. QED
      BY <3>1, <3>2, <3>3, <3>4, Sets, LenProperties
  <2>3. /\ Append(played, dac_rddata) \in Seq(Int)
        /\ Len(Append(played, dac_rddata)) = Len(played) + 1
        /\ \A i \in 1..Len(played) : Append(played, dac_rddata)[i] = played[i]
        /\ Append(played, dac_rddata)[Len(played) + 1] = dac_rddata
    BY <2>2, AppendProperties
  <2>4. played' \in Seq(Int)
    BY <2>1, <2>2, <2>3
  <2>5. ASSUME clean, ramplen <= Len(msg), ramplen < AddrMod - 1
        PROVE  Played'
    <3>1. /\ Len(played) = dac_rdaddr /\ dac_rdaddr <= ramplen
          /\ \A i \in 1..dac_rdaddr : played[i] = table[i - 1] \/ (i = 1 /\ raced)
          /\ fetch = "just" => dac_rdaddr = 0
          /\ fetch = "done" /\ dac_rdaddr < Depth => dac_rddata = table[dac_rdaddr]
      BY <1>5, <2>5 DEF TableInv, Played
    <3>2. (dac_rdaddr + 1) % AddrMod = dac_rdaddr + 1
      <4>1. dac_rdaddr + 1 \in 0..(AddrMod - 1)
        BY <2>2, <2>5, <3>1
      <4>2. ASSUME NEW n \in Nat \ {0}, NEW x \in 0..(n - 1) PROVE x % n = x
        BY SMTT(30)
      <4>3. QED
        BY <2>2, <4>1, <4>2
    <3>3. dac_rdaddr + 1 <= ramplen /\ dac_rdaddr < Depth /\ ~(Len(played) > Depth)
      BY <1>5, <2>2, <2>5, <3>1, <3>2
    <3>4. dac_rdaddr' = dac_rdaddr + 1 /\ played' = Append(played, dac_rddata)
      BY <2>1, <3>2, <3>3
    <3>5. ASSUME NEW i \in 1..(dac_rdaddr + 1)
          PROVE  played'[i] = table[i - 1] \/ (i = 1 /\ raced')
      <4>1. CASE i = dac_rdaddr + 1
        <5>1. played'[i] = dac_rddata /\ i - 1 = dac_rdaddr
          BY <2>2, <2>3, <3>1, <3>4, <4>1
        <5>2. CASE fetch = "done"
          BY <3>1, <3>3, <5>1, <5>2
        <5>3. CASE fetch = "just"
          <6>1. i = 1
            BY <3>1, <4>1, <5>3
          <6>2. raced'
            BY <2>1, <5>3
          <6>3. QED
            BY <6>1, <6>2
        <5>4. QED
          BY <2>2, <5>2, <5>3
      <4>2. CASE i # dac_rdaddr + 1
        <5>1. i \in 1..dac_rdaddr /\ i \in 1..Len(played)
          BY <2>2, <3>1, <4>2
        <5>2. played'[i] = played[i]
          BY <2>3, <3>4, <5>1
        <5>3. raced => raced'
          BY <2>1
        <5>4. QED
          BY <3>1, <5>1, <5>2, <5>3
      <4>3. QED
        BY <4>1, <4>2
    <3>6. Len(played') = dac_rdaddr' /\ dac_rdaddr' <= ramplen'
      BY <1>1, <2>3, <3>1, <3>3, <3>4
    <3>7. \A i \in 1..dac_rdaddr' : played'[i] = table'[i - 1] \/ (i = 1 /\ raced')
      BY <1>1, <3>4, <3>5
    <3>8. QED
      BY <2>1, <3>6, <3>7 DEF Played
  <2>6. QED
    BY <1>1, <1>2, <1>5, <2>1, <2>4, <2>5 DEF TableInv
<1>6. QED
  BY <1>3, <1>4, <1>5

\* Every step keeps it.
LEMMA NextTableInv == DacInv /\ TableInv /\ [Next]_vars => TableInv'
<1> SUFFICES ASSUME DacInv, TableInv, [Next]_vars PROVE TableInv'
  OBVIOUS
<1>1. TypeOK /\ TableTypeOK /\ sw \in Seq(Writes) /\ Len(msg) \in Nat
  BY TypeParts, LenProperties DEF DacInv, TableInv, Stored
<1>2. CASE \/ \E v \in Setpoints : Set_dac(v)
           \/ \E m \in {SMOOTH, RAMP, JUMP} : Set_dacOpmode(m)
           \/ \E points \in Messages : Command(write_ramptable(points))
           \/ \E n \in RampLens : Command(<<Write("ramplen", n)>>)
           \/ Command(<<Write("runramp", 1)>>)
  <2>1. PICK w \in Seq(Writes) : Command(w)
    BY <1>1, <1>2, CommandSeq
  <2>2. sw' \in Seq(Writes) /\ UNCHANGED tableVars
    BY <2>1 DEF Command
  <2>3. InOrder(sw', Len(msg))
    BY <1>1, <1>2, <2>2, CommandInOrder
  <2>4. UNCHANGED <<table, ramplen, msg, running, dac_rdaddr, dac_rddata, fetch, played,
                    raced, clean>>
    BY <2>2 DEF tableVars, tableMem, tableGen
  <2>5. InOrder(sw, Len(msg))'
    BY <2>3, <2>4
  <2>6. QED
    BY <2>4, <2>5 DEF TableInv, Stored, Played
<1>3. CASE WriteRegister
  <2>1. /\ sw # <<>> /\ Head(sw).reg # "table" /\ sw' = Tail(sw)
        /\ UNCHANGED tableVars
    BY <1>3 DEF WriteRegister
  <2>2. InOrder(sw', Len(msg))
    BY <1>1, <2>1, TailInOrder DEF TableInv
  <2>3. UNCHANGED <<table, ramplen, msg, running, dac_rdaddr, dac_rddata, fetch, played,
                    raced, clean>>
    BY <2>1 DEF tableVars, tableMem, tableGen
  <2>4. InOrder(sw, Len(msg))'
    BY <2>2, <2>3
  <2>5. QED
    BY <2>3, <2>4 DEF TableInv, Stored, Played
<1>4. CASE WriteTableRegister
  <2>1. sw # <<>> /\ Head(sw) \in Writes /\ sw' = Tail(sw) /\ Head(sw) = sw[1]
        /\ 1 \in DOMAIN sw
    BY <1>1, <1>4, HeadTailProperties, LenProperties, EmptySeq DEF WriteTableRegister
  <2>2. CASE Head(sw).reg = "ramplen" /\ WriteRampLen(Head(sw).val)
    <3>1. clean' = FALSE /\ UNCHANGED <<table, msg, played>>
      BY <2>2 DEF WriteRampLen, tableGen
    <3>2. InOrder(sw', Len(msg))
      BY <1>1, <2>1, <2>2, TailInOrder DEF TableInv
    <3>3. InOrder(sw, Len(msg))'
      BY <3>1, <3>2
    <3>4. QED
      BY <3>1, <3>3 DEF TableInv, Stored
  <2>3. CASE Head(sw).reg = "table" /\ WriteTable(Head(sw).val[1], Head(sw).val[2])
    <3>1. PICK a \in 0..(Depth - 1), p \in Int : Head(sw).val = <<a, p>>
      BY <2>1, <2>3 DEF Writes
    <3>2. WriteTable(a, p) /\ a <= Len(msg) /\ Head(sw).val[1] = a
      <4>1. Head(sw).val[1] = a /\ Head(sw).val[2] = p
        BY <3>1
      <4>2. WriteTable(a, p)
        BY <2>3, <4>1
      <4>3. InOrder(sw, Len(msg)) /\ sw[1].reg = "table" /\ sw[1].val[1] = a
        BY <2>1, <2>3, <4>1 DEF TableInv
      <4>4. sw[1].val[1] <= Len(msg)
        BY <2>1, <4>3 DEF InOrder
      <4>5. QED
        BY <4>1, <4>2, <4>3, <4>4
    <3>3. Stored' /\ Len(msg') = a + 1 /\ played' = played /\ clean' = FALSE
      BY <1>1, <3>2, WriteTableInv
    <3>4. a + 1 \in Nat
      BY <3>1, Sets
    <3>5. InOrder(Tail(sw), a + 1)
      BY <1>1, <2>1, <3>2, <3>4, TailInOrder DEF TableInv
    <3>6. InOrder(sw, Len(msg))'
      BY <2>1, <3>3, <3>5
    <3>7. QED
      BY <3>3, <3>6 DEF TableInv
  <2>4. CASE Head(sw).reg = "runramp" /\ RunRamp(TRUE)
    <3>1. /\ Stored' /\ msg' = msg /\ played' \in Seq(Int)
          /\ running' /\ clean' /\ ramplen' <= Len(msg') /\ ramplen' < AddrMod - 1 => Played'
      BY <1>1, <2>4, RunTableInv
    <3>2. InOrder(sw', Len(msg))
      BY <1>1, <2>1, <2>4, TailInOrder DEF TableInv
    <3>3. InOrder(sw, Len(msg))'
      BY <3>1, <3>2
    <3>4. QED
      BY <3>1, <3>3 DEF TableInv
  <2>5. QED
    BY <1>4, <2>2, <2>3, <2>4 DEF WriteTableRegister
<1>5. CASE InjTrig
  <2>1. RunRamp(\A i \in DOMAIN sw : sw[i].reg \notin TableRegs) /\ sw' = sw
    BY <1>5 DEF InjTrig
  <2>2. /\ Stored' /\ msg' = msg /\ played' \in Seq(Int)
        /\ running' /\ clean' /\ ramplen' <= Len(msg') /\ ramplen' < AddrMod - 1 => Played'
    BY <1>1, <2>1, RunTableInv
  <2>3. InOrder(sw, Len(msg))'
    BY <2>1, <2>2 DEF TableInv
  <2>4. QED
    BY <2>2, <2>3 DEF TableInv
<1>6. CASE FetchTable
  <2>1. /\ dac_rddata' \in Words(dac_rdaddr) /\ fetch' = "done" /\ sw' = sw
        /\ UNCHANGED <<table, ramplen, msg, running, dac_rdaddr, played, clean, raced>>
    BY <1>6 DEF FetchTable, Fetch, tableMem
  <2>2. dac_rdaddr < Depth => dac_rddata' = table[dac_rdaddr]
    BY <2>1 DEF Words
  <2>3. Stored' /\ InOrder(sw, Len(msg))'
    BY <2>1 DEF TableInv, Stored
  <2>4. Played => Played'
    BY <2>1, <2>2 DEF Played
  <2>5. QED
    BY <2>1, <2>3, <2>4 DEF TableInv
<1>7. CASE Tick
  BY <1>1, <1>7, TickTableInv DEF Tick
<1>8. CASE StartRamp \/ GainOffset \/ UNCHANGED vars
  BY <1>8, TableInvStays DEF StartRamp, GainOffset, vars
<1>9. QED
  BY <1>2, <1>3, <1>4, <1>5, <1>6, <1>7, <1>8 DEF Next, Gateware

(* A run of the table plays the points of the message, each once and in    *)
(* order, when nothing is written meanwhile: for every memory and address  *)
(* width, every message and every order of requests, writes and ticks.     *)
THEOREM TablePlayed == Spec => PlaysTheMessage
<1>1. Init => TableInv
  <2> SUFFICES ASSUME Init PROVE TableInv
    OBVIOUS
  <2>1. msg = <<>> /\ played = <<>> /\ sw = <<>> /\ running = FALSE
    BY DEF Init, TableInit
  <2>2. QED
    BY <2>1, Sets DEF TableInv, Stored, InOrder
<1>2. Spec => []TableInv
  BY <1>1, NextTableInv, PathInvariant, PTL DEF Spec
<1>3. DacInv /\ TableInv /\ [Next]_vars =>
        [/\ running /\ ~running' /\ clean
         /\ ramplen <= Len(msg)
         /\ \A i \in 1..ramplen : msg[i] \in Word20
         => /\ Len(played) = ramplen
            /\ \A i \in 1..ramplen : played[i] = msg[i] \/ (i = 1 /\ raced)]_tableVars
  <2> SUFFICES ASSUME DacInv, TableInv, [Next]_vars, running, ~running', clean,
                      ramplen <= Len(msg), \A i \in 1..ramplen : msg[i] \in Word20
               PROVE  /\ Len(played) = ramplen
                      /\ \A i \in 1..ramplen : played[i] = msg[i] \/ (i = 1 /\ raced)
    OBVIOUS
  <2>1. TableTick
    BY DEF Next, vars, Set_dac, Set_dacOpmode, Command, WriteRegister, WriteTableRegister,
           InjTrig, Gateware, StartRamp, GainOffset, FetchTable, Tick, Fetch, RunRamp,
           WriteTable, WriteRampLen, tableVars, tableGen
  <2>2. (dac_rdaddr + 1) % AddrMod > ramplen
    BY <2>1 DEF TableTick
  <2>3. /\ dac_rdaddr \in Nat /\ dac_rdaddr < AddrMod /\ ramplen \in Nat
        /\ ramplen < AddrMod /\ AddrMod \in Nat \ {0} /\ Len(msg) \in Nat
    BY TypeParts, Sets, LenProperties DEF DacInv, TableTypeOK, TableInv, Stored
  <2>4. (dac_rdaddr + 1) % AddrMod < AddrMod /\ (dac_rdaddr + 1) % AddrMod \in Nat
    BY <2>3
  <2>5. Played
    BY <2>2, <2>3, <2>4 DEF TableInv
  <2>6. dac_rdaddr = ramplen
    <3>1. dac_rdaddr <= ramplen
      BY <2>5 DEF Played
    <3>2. ASSUME dac_rdaddr < ramplen PROVE FALSE
      <4>1. dac_rdaddr + 1 \in 0..(AddrMod - 1)
        BY <2>3, <3>2
      <4>2. ASSUME NEW n \in Nat \ {0}, NEW x \in 0..(n - 1) PROVE x % n = x
        BY SMTT(30)
      <4>3. (dac_rdaddr + 1) % AddrMod = dac_rdaddr + 1
        BY <2>3, <4>1, <4>2
      <4>4. QED
        BY <2>2, <2>3, <3>2, <4>3
    <3>3. QED
      BY <2>3, <3>1, <3>2
  <2>7. ASSUME NEW i \in 1..ramplen PROVE played[i] = msg[i] \/ (i = 1 /\ raced)
    <3>1. i \in 1..Len(msg) /\ i \in 1..dac_rdaddr /\ msg[i] \in Word20
      BY <2>3, <2>6
    <3>2. table[i - 1] = msg[i]
      BY <3>1, WordOfPoint DEF TableInv, Stored
    <3>3. QED
      BY <2>5, <3>1, <3>2 DEF Played
  <2>8. QED
    BY <2>5, <2>6, <2>7 DEF Played
<1>4. QED
  BY <1>2, <1>3, PathInvariant, PTL DEF Spec, PlaysTheMessage
=============================================================================
