----------------------- MODULE DacGainOffsetProofs --------------------------
(***************************************************************************)
(* Proof that the gain and offset stage saturates exactly (DacGainOffset)  *)
(* for every width, every set of gains and offsets, and software that      *)
(* rewrites both at any clock.                                             *)
(***************************************************************************)
EXTENDS DacGainOffset, TLAPS

-----------------------------------------------------------------------------
(* A remainder is determined by its range.                                 *)
LEMMA ModUnique ==
    ASSUME NEW n \in Nat \ {0}, NEW x \in Int, NEW k \in Int,
           NEW r \in 0..(n - 1), x = k * n + r
    PROVE  x % n = r
  OBVIOUS

(* What a quotient is.                                                     *)
LEMMA DivBounds ==
    ASSUME NEW n \in Nat \ {0}, NEW x \in Int
    PROVE  /\ x \div n \in Int
           /\ (x \div n) * n <= x
           /\ x < (x \div n) * n + n
  OBVIOUS

(* One factor no larger, and the other not negative: neither the product.  *)
LEMMA MulMono ==
    ASSUME NEW a \in Int, NEW b \in Int, NEW c \in Nat, a <= b
    PROVE  a * c <= b * c
  OBVIOUS

(* What a register keeps of a result within one turn of its range.         *)
LEMMA WrapTurn ==
    ASSUME NEW h \in Nat \ {0}, NEW x \in Int
    PROVE  /\ x \in -h..(h - 1) => Wrap(x, h) = x
           /\ x \in h..(2 * h - 1) => Wrap(x, h) = x - 2 * h
           /\ x \in (-2 * h)..(-h - 1) => Wrap(x, h) = x + 2 * h
  <1> DEFINE n == 2 * h
  <1>1. n \in Nat \ {0}
    OBVIOUS
  <1>2. ASSUME x \in -h..(h - 1) PROVE (x + h) % n = x + h
    <2>1. x + h \in 0..(n - 1) /\ x + h = 0 * n + (x + h)
      BY <1>2
    <2> QED BY <1>1, <2>1, ModUnique
  <1>3. ASSUME x \in h..(2 * h - 1) PROVE (x + h) % n = x - h
    <2>1. x - h \in 0..(n - 1) /\ x + h = 1 * n + (x - h)
      BY <1>3
    <2> QED BY <1>1, <2>1, ModUnique
  <1>4. ASSUME x \in (-2 * h)..(-h - 1) PROVE (x + h) % n = x + 3 * h
    <2>1. x + 3 * h \in 0..(n - 1) /\ x + h = (-1) * n + (x + 3 * h)
      BY <1>4
    <2> QED BY <1>1, <2>1, ModUnique
  <1> QED BY <1>2, <1>3, <1>4 DEF Wrap

(* A register holds what it holds.                                         *)
LEMMA WrapType ==
    ASSUME NEW h \in Nat \ {0}, NEW x \in Int
    PROVE  Wrap(x, h) \in -h..(h - 1)
  <1>1. (x + h) % (2 * h) \in 0..(2 * h - 1)
    OBVIOUS
  <1> QED BY <1>1 DEF Wrap

(* With a gain above 0 and below 2 the product keeps the sign of its       *)
(* factor and overflows by less than one turn.                             *)
LEMMA ProductRange ==
    ASSUME NEW h \in Nat \ {0}, NEW u \in Nat \ {0},
           NEW oc \in -h..(h - 1), NEW g \in 1..(2 * u - 1)
    PROVE  /\ (oc * g) \div u \in (-2 * h)..(2 * h - 1)
           /\ (oc >= 0) <=> ((oc * g) \div u >= 0)
  <1> DEFINE p == oc * g
             q == p \div u
  <1>1. p \in Int /\ q \in Int /\ q * u <= p /\ p < q * u + u
    BY DivBounds
  <1>2. ASSUME oc >= 0 PROVE 0 <= p /\ p < (2 * h) * u
    <2>1. oc * g <= oc * (2 * u)
      BY <1>2
    <2>2. oc * (2 * u) <= h * (2 * u)
      BY <1>2, MulMono
    <2>3. 0 <= oc * g
      BY <1>2
    <2>4. oc * (2 * u) < h * (2 * u)
      BY <1>2
    <2> QED BY <2>1, <2>3, <2>4
  <1>3. ASSUME oc < 0 PROVE p < 0 /\ (-2 * h) * u <= p
    <2>1. (-oc) * g <= (-oc) * (2 * u)
      BY <1>3
    <2>2. (-oc) * (2 * u) <= h * (2 * u)
      BY <1>3, MulMono
    <2>3. (-oc) * g > 0
      BY <1>3
    <2> QED BY <2>1, <2>2, <2>3
  <1>4. ASSUME oc >= 0 PROVE q \in 0..(2 * h - 1)
    <2>1. q >= 0
      <3> SUFFICES ASSUME q <= -1 PROVE FALSE
        BY <1>1
      <3>1. q * u <= (-1) * u
        BY <1>1, MulMono
      <3> QED BY <1>1, <1>2, <1>4, <3>1
    <2>2. q <= 2 * h - 1
      <3> SUFFICES ASSUME 2 * h <= q PROVE FALSE
        BY <1>1
      <3>1. (2 * h) * u <= q * u
        BY <1>1, MulMono
      <3> QED BY <1>1, <1>2, <1>4, <3>1
    <2> QED BY <1>1, <2>1, <2>2
  <1>5. ASSUME oc < 0 PROVE q \in (-2 * h)..(-1)
    <2>1. q <= -1
      <3> SUFFICES ASSUME 0 <= q PROVE FALSE
        BY <1>1
      <3>1. 0 * u <= q * u
        BY <1>1, MulMono
      <3> QED BY <1>1, <1>3, <1>5, <3>1
    <2>2. q >= -2 * h
      <3> SUFFICES ASSUME q <= -2 * h - 1 PROVE FALSE
        BY <1>1
      <3>1. q * u <= (-2 * h - 1) * u
        BY <1>1, MulMono
      <3>2. (-2 * h - 1) * u = (-2 * h) * u - u
        OBVIOUS
      <3> QED BY <1>1, <1>3, <1>5, <3>1, <3>2
    <2> QED BY <1>1, <2>1, <2>2
  <1> QED BY <1>4, <1>5

(* CHECKFORSAT, 20 bits, is the limit of the product.                      *)
LEMMA SignTells ==
    ASSUME NEW h \in Nat \ {0}, NEW u \in Nat \ {0},
           NEW oc \in -h..(h - 1), NEW g \in 1..(2 * u - 1)
    PROVE  SignSaturated(Scaled(oc * g, u, h), oc, h) = Clamped((oc * g) \div u, h)
  <1> DEFINE q == (oc * g) \div u
  <1>1. /\ q \in (-2 * h)..(2 * h - 1)
        /\ (oc >= 0) <=> (q >= 0)
    BY ProductRange
  <1>2. /\ q \in -h..(h - 1) => Wrap(q, h) = q
        /\ q \in h..(2 * h - 1) => Wrap(q, h) = q - 2 * h
        /\ q \in (-2 * h)..(-h - 1) => Wrap(q, h) = q + 2 * h
    BY <1>1, WrapTurn
  <1>3. Scaled(oc * g, u, h) = Wrap(q, h)
    BY DEF Scaled
  <1> HIDE DEF q
  <1>4. SignSaturated(Wrap(q, h), oc, h) = Clamped(q, h)
    BY <1>1, <1>2 DEF SignSaturated, Clamped
  <1> QED BY <1>3, <1>4 DEF q

(* CHECKFORSAT, 18 bits: a product that fits the register is compared as   *)
(* it is.                                                                  *)
LEMMA ClampTells ==
    ASSUME NEW h \in Nat \ {0}, NEW q \in -h..(h - 1), NEW l \in 1..h
    PROVE  Clamped(Wrap(q, h), l) = Clamped(q, l)
  BY WrapTurn

-----------------------------------------------------------------------------
LEMMA InitEstablishes == Init => IInv
  <1> SUFFICES ASSUME Init PROVE IInv
    OBVIOUS
  <1>1. \A g \in Int : 0 * g = 0
    OBVIOUS
  <1>2. TypeOK
    <2>1. numbits_sel \in BOOLEAN /\ done \in BOOLEAN
      BY Zenon DEF Init
    <2>2. 0 \in -Half..(Half - 1) /\ 0 \in 0..Dly /\ 0 \in Int
      BY StageAssumption DEF StageAssumption
    <2> QED BY <2>1, <2>2, Zenon DEF Init, TypeOK
  <1>3. dac_setpt_fs = dac_setpt_oc * used
    BY <1>1, StageAssumption DEF Init, StageAssumption
  <1> QED BY <1>2, <1>3 DEF Init, IInv

(* The only action that can break exactness is CheckForSat; the two widths *)
(* are SignTells and ClampTells.                                           *)
LEMMA CheckExact ==
    ASSUME IInv, CheckForSat
    PROVE  Fits' => dac_setpt' = Meant'
  <1> SUFFICES ASSUME Fits' PROVE dac_setpt' = Meant'
    OBVIOUS
  <1> USE StageAssumption DEF StageAssumption
  <1>1. /\ dac_setpt_fs' = dac_setpt_fs /\ used' = used
        /\ numbits_sel' = numbits_sel
    BY DEF CheckForSat, product, input
  <1>2. /\ dac_setpt_fs = dac_setpt_oc * used
        /\ dac_setpt = Scaled(dac_setpt_fs, Unit, Half)
        /\ dac_setpt_oc \in -Half..(Half - 1) /\ used \in Int
    BY DEF CheckForSat, IInv, TypeOK
  <1>3. CASE numbits_sel
    <2>1. used \in 1..(2 * Unit - 1)
      BY <1>1, <1>3 DEF Fits
    <2>2. SignSaturated(Scaled(dac_setpt_oc * used, Unit, Half), dac_setpt_oc, Half)
            = Clamped((dac_setpt_oc * used) \div Unit, Half)
      BY <1>2, <2>1, SignTells
    <2> QED BY <1>1, <1>2, <1>3, <2>2 DEF CheckForSat, Meant
  <1>4. CASE ~numbits_sel
    <2>1. dac_setpt_fs \div Unit \in -Half..(Half - 1)
      BY <1>1, <1>4 DEF Fits
    <2>2. dac_setpt = Wrap(dac_setpt_fs \div Unit, Half)
      BY <1>2 DEF Scaled
    <2>3. Clamped(dac_setpt, Limit) = Clamped(dac_setpt_fs \div Unit, Limit)
      BY <2>1, <2>2, ClampTells
    <2> QED BY <1>1, <1>4, <2>3 DEF CheckForSat, Meant
  <1> QED BY <1>3, <1>4

(* The registers keep their widths.                                        *)
LEMMA TypeStep ==
    ASSUME TypeOK, [Next]_vars
    PROVE  TypeOK'
  <1> USE StageAssumption DEF StageAssumption
  <1>1. CASE Tick
    BY <1>1 DEF TypeOK, Tick, product, input
  <1>2. CASE Idle
    BY <1>2 DEF TypeOK, Idle, product, input
  <1>3. CASE ApplyOffsets
    <2>1. dac_setpt_oc' \in -Half..(Half - 1)
      BY <1>3, WrapType DEF TypeOK, ApplyOffsets
    <2> QED BY <1>3, <2>1 DEF TypeOK, ApplyOffsets, product, input
  <1>4. CASE ApplyGains
    BY <1>4 DEF TypeOK, ApplyGains, product, input
  <1>5. CASE Scale
    <2>1. dac_setpt_fs \div Unit \in Int
      BY DivBounds DEF TypeOK
    <2>2. dac_setpt' \in -Half..(Half - 1)
      BY <1>5, <2>1, WrapType DEF Scale, Scaled
    <2> QED BY <1>5, <2>2 DEF TypeOK, Scale, product, input
  <1>6. CASE CheckForSat
    <2>1. dac_setpt' \in -Half..(Half - 1)
      BY <1>6 DEF TypeOK, CheckForSat, SignSaturated, Clamped
    <2> QED BY <1>6, <2>1 DEF TypeOK, CheckForSat, product, input
  <1>7. CASE MultDly
    <2>1. multdlycnt' \in 0..Dly
      BY <1>7 DEF TypeOK, MultDly
    <2>2. done' \in BOOLEAN
      BY <1>7, Zenon DEF TypeOK, MultDly
    <2>3. state' \in {"idle", "mult_dly"}
      BY <1>7 DEF MultDly
    <2>4. UNCHANGED <<numbits_sel, dac_setpt_raw, offset, gain, dac_setpt_oc,
                      dac_setpt_fs, used, dac_setpt>>
      BY <1>7 DEF MultDly, product, input
    <2> QED BY <2>1, <2>2, <2>3, <2>4 DEF TypeOK
  <1>8. ASSUME NEW v \in Offsets, WriteOffset(v) PROVE TypeOK'
    BY <1>8 DEF TypeOK, WriteOffset, product
  <1>9. ASSUME NEW v \in Gains, WriteGain(v) PROVE TypeOK'
    BY <1>9 DEF TypeOK, WriteGain, product
  <1>10. CASE UNCHANGED vars
    BY <1>10 DEF TypeOK, vars, product, input
  <1>11. CASE Reset
    BY <1>11 DEF TypeOK, Reset, product, input
  <1> QED BY <1>1, <1>2, <1>3, <1>4, <1>5, <1>6, <1>7, <1>8, <1>9, <1>10, <1>11
          DEF Next, Clock

(* The rest of the inductive invariant, action by action.                  *)
LEMMA InductiveStep ==
    ASSUME IInv, [Next]_vars
    PROVE  IInv'
  <1>1. TypeOK'
    BY TypeStep DEF IInv
  <1> DEFINE Rest == /\ done => state = "idle"
                     /\ state # "apply_gains" => dac_setpt_fs = dac_setpt_oc * used
                     /\ state = "checkforsat" =>
                           dac_setpt = Scaled(dac_setpt_fs, Unit, Half)
                     /\ (state = "mult_dly" \/ done) /\ Fits => dac_setpt = Meant
  <1> SUFFICES Rest'
    BY <1>1 DEF IInv
  <1>2. Rest
    BY DEF IInv
  <1>3. CASE Tick
    BY <1>2, <1>3 DEF Tick, product
  <1>4. CASE Idle
    BY <1>2, <1>4 DEF Idle, product, input
  <1>5. CASE ApplyOffsets
    BY <1>2, <1>5 DEF ApplyOffsets, product, input
  <1>6. CASE ApplyGains
    BY <1>2, <1>6 DEF ApplyGains, input
  <1>7. CASE Scale
    BY <1>2, <1>7 DEF Scale, product, input
  <1>8. CASE CheckForSat
    <2>1. Fits' => dac_setpt' = Meant'
      BY <1>8, CheckExact
    <2> QED BY <1>2, <1>8, <2>1 DEF CheckForSat, product, input
  <1>9. CASE MultDly
    BY <1>2, <1>9 DEF MultDly, product, input, Fits, Meant
  <1>10. ASSUME NEW v \in Offsets, WriteOffset(v) PROVE Rest'
    BY <1>2, <1>10 DEF WriteOffset, product, Fits, Meant
  <1>11. ASSUME NEW v \in Gains, WriteGain(v) PROVE Rest'
    BY <1>2, <1>11 DEF WriteGain, product, Fits, Meant
  <1>12. CASE UNCHANGED vars
    BY <1>2, <1>12 DEF vars, product, input, Fits, Meant
  <1>13. CASE Reset
    BY <1>2, <1>13 DEF Reset, product, input, Fits, Meant
  <1> QED BY <1>3, <1>4, <1>5, <1>6, <1>7, <1>8, <1>9, <1>10, <1>11, <1>12,
             <1>13
          DEF Next, Clock

(* The inductive invariant holds in every state of dac_gainoffset.vhd.     *)
THEOREM StageInductive == Spec => []IInv
  BY InitEstablishes, InductiveStep, PTL DEF Spec

(* Every register of the stage keeps its width.                            *)
THEOREM StageTypes == Spec => []TypeOK
  <1>1. IInv => TypeOK
    BY DEF IInv
  <1> QED BY <1>1, StageInductive, PTL

(* CHECKFORSAT of dac_gainoffset.vhd: the DAC is handed the limited        *)
(* product, for every width, every gain above 0 and below 2, and every     *)
(* order of software's writes.                                             *)
THEOREM Saturation == Spec => []SaturationExact
  <1>1. IInv => SaturationExact
    BY DEF IInv, SaturationExact
  <1> QED BY <1>1, StageInductive, PTL
=============================================================================
