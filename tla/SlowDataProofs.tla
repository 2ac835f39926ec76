--------------------------- MODULE SlowDataProofs ---------------------------
(***************************************************************************)
(* Proofs about the averages and their report, for every length of the     *)
(* sums, every size of the memory and every range of its counter.          *)
(***************************************************************************)
EXTENDS SlowData, TLAPS

-----------------------------------------------------------------------------
(* The inductive invariant.                                                *)

\* the length of the sum, and the address the counter stands for
N(c) == SumLen[ModeOf(c)]
Low(c) == ram_cnt[c] % Depth

\* conversions since word i was written, with the counter in range all along
Turn(c, i) == IF i < ram_cnt[c] THEN ram_cnt[c] - 1 - i
              ELSE ram_cnt[c] + N(c) - i

\* no more conversions than these, in range or running away
Stale(c, i) == IF ram_cnt[c] <= N(c)
               THEN IF i < ram_cnt[c] THEN ram_cnt[c] - 1 - i
                    ELSE ram_cnt[c] - i + Depth
               ELSE IF i < Low(c) THEN Low(c) - 1 - i
                    ELSE Low(c) - 1 - i + Depth

\* the sum is made of the words as they are, once there has been a conversion
Current(c) ==
    since[c] >= 1 \/ lap[c] >= 1 =>
        avg_out[c] = IF ModeOf(c) = 0 THEN [i \in {0} |-> 0]
                     ELSE [i \in 0..(N(c) - 1) |-> ram[c][i]]

\* the words written since the counter is in range have the ages of the turn
LapInv(c) ==
    lap[c] >= 1 => /\ ModeOf(c) # 0 /\ ram_cnt[c] <= N(c)
                   /\ \A i \in 0..(N(c) - 1) :
                          Turn(c, i) < lap[c] => ram[c][i] = Turn(c, i)

\* the words written since the mode stands are no older than a turn of the
\* address range
FreshInv(c) ==
    ModeOf(c) # 0 => \A i \in 0..(N(c) - 1) :
                         Stale(c, i) < since[c] => ram[c][i] <= Stale(c, i)

\* the mode that sadata_push has read is still the mode
ModeInv == clean => /\ sa.mode = ave_mode[sa.chan] /\ since[sa.chan] >= 1
                    /\ sa.pc \in {"sums", "status"}

SlowInv == /\ TypeOK /\ ModeInv
           /\ \A c \in Chans : Current(c) /\ LapInv(c) /\ FreshInv(c)

-----------------------------------------------------------------------------
(* Numbers.                                                                *)

\* What the assumptions say of the sizes.
LEMMA Sizes ==
    /\ RamSize \in Nat \ {0} /\ Depth \in Nat \ {0} /\ RamSize <= Depth
    /\ CntRange \in Nat \ {0} /\ Depth < CntRange /\ CntRange % Depth = 0
    /\ NumRegs \in Nat \ {0} /\ Old \in Nat /\ Depth < Old
    /\ \A m \in Averaging : SumLen[m] \in 1..RamSize
<1>1. SumLen[1] \in 1..RamSize
  BY SlowDataAssumption DEF SlowDataAssumption, Averaging, Modes
<1>2. QED
  BY <1>1, SlowDataAssumption DEF SlowDataAssumption

\* A remainder is determined by its range.
LEMMA ModUnique ==
    ASSUME NEW n \in Nat \ {0}, NEW x \in Int, NEW k \in Int,
           NEW r \in 0..(n - 1), x = k * n + r
    PROVE  x % n = r
OBVIOUS

\* A remainder counts up and returns.
LEMMA ModStep ==
    ASSUME NEW n \in Nat \ {0}, NEW x \in Nat
    PROVE  /\ x % n \in 0..(n - 1)
           /\ x < n => x % n = x
           /\ (x + 1) % n = IF x % n = n - 1 THEN 0 ELSE (x % n) + 1
<1>1. x % n \in 0..(n - 1) /\ (x < n => x % n = x)
  BY SMTT(30)
<1>2. (x + 1) % n = IF x % n = n - 1 THEN 0 ELSE (x % n) + 1
  <2> DEFINE q == x \div n
             r == x % n
  <2>1. q \in Int /\ r \in 0..(n - 1) /\ x = q * n + r
    BY <1>1, SMTT(30)
  <2>2. CASE r = n - 1
    <3>1. x + 1 = (q + 1) * n + 0
      <4> HIDE DEF q, r
      <4> QED BY <2>1, <2>2
    <3>2. (x + 1) % n = 0
      <4> HIDE DEF q, r
      <4> QED BY <2>1, <3>1, ModUnique
    <3>3. QED
      BY <2>2, <3>2
  <2>3. CASE r # n - 1
    <3>1. x + 1 = q * n + (r + 1) /\ r + 1 \in 0..(n - 1)
      <4> HIDE DEF q, r
      <4> QED BY <2>1, <2>3
    <3>2. (x + 1) % n = r + 1
      <4> HIDE DEF q, r
      <4> QED BY <2>1, <3>1, ModUnique
    <3>3. QED
      BY <2>3, <3>2
  <2>4. QED
    BY <2>2, <2>3
<1>3. QED
  BY <1>1, <1>2

\* There is a first one of any channels.
LEMMA LeastChan ==
    ASSUME NEW S, S \subseteq Chans, S # {}
    PROVE  (CHOOSE c \in S : \A d \in S : c <= d) \in S
<1>1. S \subseteq 1..4
  BY SlowDataAssumption DEF SlowDataAssumption
<1>2. \A d \in S : d = 1 \/ d = 2 \/ d = 3 \/ d = 4
  BY <1>1
<1>3. \E c \in S : \A d \in S : c <= d
  <2>1. CASE 1 \in S
    BY <1>2, <2>1
  <2>2. CASE 1 \notin S /\ 2 \in S
    BY <1>2, <2>2
  <2>3. CASE 1 \notin S /\ 2 \notin S /\ 3 \in S
    BY <1>2, <2>3
  <2>4. CASE 1 \notin S /\ 2 \notin S /\ 3 \notin S
    BY <1>2, <2>4
  <2>5. QED
    BY <2>1, <2>2, <2>3, <2>4
<1>4. QED
  BY <1>3

\* The types of what belongs to one channel.
LEMMA Channel ==
    ASSUME TypeOK, NEW c \in Chans
    PROVE  /\ Wire(c) \in Chans /\ ModeOf(c) \in Modes
           /\ ModeOf(c) # 0 => N(c) \in 1..RamSize
           /\ ram[c] \in [0..(RamSize - 1) -> 0..Old]
           /\ ram_cnt[c] \in Nat /\ ram_cnt[c] < CntRange
           /\ since[c] \in 0..Old /\ lap[c] \in 0..Old
<1>1. Wire(c) \in Chans
  BY SlowDataAssumption DEF SlowDataAssumption, Wire
<1>2. ModeOf(c) \in Modes
  BY <1>1 DEF ModeOf, TypeOK
<1>3. ModeOf(c) # 0 => N(c) \in 1..RamSize
  BY <1>2, Sizes DEF N, Averaging
<1>4. /\ ram[c] \in [0..(RamSize - 1) -> 0..Old] /\ ram_cnt[c] \in 0..(CntRange - 1)
      /\ since[c] \in 0..Old /\ lap[c] \in 0..Old
  BY DEF TypeOK
<1>5. ram_cnt[c] \in Nat /\ ram_cnt[c] < CntRange
  BY <1>4, Sizes
<1>6. QED
  BY <1>1, <1>2, <1>3, <1>4, <1>5

-----------------------------------------------------------------------------
(* A conversion.                                                           *)

\* What it does to one channel: nothing but ageing without an average, a
\* return of the counter at the end of the sum, a word written otherwise.
LEMMA ConversionOf ==
    ASSUME TypeOK, Conversion, NEW c \in Chans
    PROVE  /\ since'[c] = Cap(since[c] + 1)
           /\ lap'[c] = IF ModeOf(c) # 0 /\ ram_cnt[c] <= N(c)
                        THEN Cap(lap[c] + 1) ELSE 0
           /\ ram'[c] \in [0..(RamSize - 1) -> 0..Old]
           /\ ModeOf(c) = 0 => /\ ram_cnt'[c] = ram_cnt[c]
                               /\ avg_out'[c] = [i \in {0} |-> 0]
           /\ ModeOf(c) # 0 =>
                avg_out'[c] = [i \in 0..(N(c) - 1) |-> ram'[c][i]]
           /\ ModeOf(c) # 0 /\ ram_cnt[c] = N(c) =>
                /\ ram_cnt'[c] = 0
                /\ \A i \in 0..(RamSize - 1) : ram'[c][i] = Cap(ram[c][i] + 1)
           /\ ModeOf(c) # 0 /\ ram_cnt[c] # N(c) =>
                /\ ram_cnt'[c] = (ram_cnt[c] + 1) % CntRange
                /\ \A i \in 0..(RamSize - 1) :
                     ram'[c][i] = IF i = Low(c) THEN 0 ELSE Cap(ram[c][i] + 1)
<1>1. /\ DOMAIN ram[c] = 0..(RamSize - 1)
      /\ \A i \in 0..(RamSize - 1) : ram[c][i] \in 0..Old
  BY Channel
<1>2. /\ ram'[c] = WriteToRam(c).ram /\ ram_cnt'[c] = WriteToRam(c).cnt
      /\ avg_out'[c] = Accumulate(c)
  BY DEF Conversion
<1>3. \A i \in 0..(RamSize - 1) : Cap(ram[c][i] + 1) \in 0..Old
  BY <1>1, Sizes DEF Cap
<1>4. CASE ModeOf(c) = 0
  <2>1. WriteToRam(c) = [cnt |-> ram_cnt[c], ram |-> Aged(c)]
    BY <1>4 DEF WriteToRam
  <2>2. ram'[c] \in [0..(RamSize - 1) -> 0..Old] /\ ram_cnt'[c] = ram_cnt[c]
    BY <1>1, <1>2, <1>3, <2>1 DEF Aged
  <2>3. QED
    BY <1>2, <1>4, <2>2 DEF Accumulate, Conversion
<1>5. CASE ModeOf(c) # 0 /\ ram_cnt[c] = N(c)
  <2>1. WriteToRam(c) = [cnt |-> 0, ram |-> Aged(c)]
    BY <1>5 DEF WriteToRam, N
  <2>2. ram_cnt'[c] = 0 /\ ram'[c] = [i \in 0..(RamSize - 1) |-> Cap(ram[c][i] + 1)]
    BY <1>1, <1>2, <2>1 DEF Aged
  <2>3. /\ ram'[c] \in [0..(RamSize - 1) -> 0..Old]
        /\ \A i \in 0..(RamSize - 1) : ram'[c][i] = Cap(ram[c][i] + 1)
    BY <1>3, <2>2
  <2>4. avg_out'[c] = [i \in 0..(N(c) - 1) |-> ram'[c][i]]
    BY <1>2, <1>5 DEF Accumulate, N
  <2>5. QED
    BY <1>5, <2>2, <2>3, <2>4 DEF Conversion, N
<1>6. CASE ModeOf(c) # 0 /\ ram_cnt[c] # N(c)
  <2>1. WriteToRam(c) =
          [cnt |-> (ram_cnt[c] + 1) % CntRange,
           ram |-> [i \in DOMAIN ram[c] |->
                      IF i = ram_cnt[c] % Depth THEN 0 ELSE Aged(c)[i]]]
    BY <1>6 DEF WriteToRam, N
  <2>2. /\ ram_cnt'[c] = (ram_cnt[c] + 1) % CntRange
        /\ ram'[c] = [i \in 0..(RamSize - 1) |->
                        IF i = Low(c) THEN 0 ELSE Cap(ram[c][i] + 1)]
    BY <1>1, <1>2, <2>1 DEF Aged, Low
  <2>3. 0 \in 0..Old
    BY Sizes
  <2>4. /\ ram'[c] \in [0..(RamSize - 1) -> 0..Old]
        /\ \A i \in 0..(RamSize - 1) :
             ram'[c][i] = IF i = Low(c) THEN 0 ELSE Cap(ram[c][i] + 1)
    BY <1>3, <2>2, <2>3
  <2>5. avg_out'[c] = [i \in 0..(N(c) - 1) |-> ram'[c][i]]
    BY <1>2, <1>6 DEF Accumulate, N
  <2>6. QED
    BY <1>6, <2>2, <2>4, <2>5 DEF Conversion, N
<1>7. QED
  BY <1>4, <1>5, <1>6

\* A conversion changes no mode.
LEMMA ConversionMode ==
    ASSUME Conversion, NEW c
    PROVE  ModeOf(c)' = ModeOf(c) /\ N(c)' = N(c)
BY DEF Conversion, ModeOf, N

\* Ages and histories while they are below the bound.
LEMMA CapUp ==
    ASSUME NEW n \in 0..Old
    PROVE  /\ Cap(n + 1) \in 1..Old \/ Old = 0
           /\ n < Old => Cap(n + 1) = n + 1
           /\ n = Old => Cap(n + 1) = Old
           /\ Cap(n + 1) \in 0..Old /\ Cap(n + 1) <= n + 1
BY Sizes DEF Cap

\* A conversion keeps the ages of the turn.
LEMMA ConversionLap ==
    ASSUME TypeOK, Conversion, NEW c \in Chans, LapInv(c)
    PROVE  LapInv(c)'
<1> SUFFICES ASSUME lap'[c] >= 1
             PROVE  /\ ModeOf(c)' # 0 /\ ram_cnt'[c] <= N(c)'
                    /\ \A i \in 0..(N(c)' - 1) :
                         Turn(c, i)' < lap'[c] => ram'[c][i] = Turn(c, i)'
  BY DEF LapInv
<1>1. ModeOf(c)' = ModeOf(c) /\ N(c)' = N(c)
  BY ConversionMode
<1>2. /\ ModeOf(c) # 0 /\ N(c) \in 1..RamSize /\ ram_cnt[c] \in Nat
      /\ ram_cnt[c] <= N(c) /\ lap'[c] = Cap(lap[c] + 1) /\ lap[c] \in 0..Old
  <2>1. lap'[c] = IF ModeOf(c) # 0 /\ ram_cnt[c] <= N(c) THEN Cap(lap[c] + 1) ELSE 0
    BY ConversionOf
  <2>2. ModeOf(c) # 0 /\ ram_cnt[c] <= N(c) /\ lap'[c] = Cap(lap[c] + 1)
    BY <2>1
  <2>3. QED
    BY <2>2, Channel
<1>3. \A i \in 0..(RamSize - 1) : ram[c][i] \in 0..Old
  BY Channel
<1>4. /\ lap[c] < Old => lap'[c] = lap[c] + 1
      /\ lap[c] = Old => lap'[c] = Old
  BY <1>2, CapUp
<1>5. ASSUME NEW i \in 0..(N(c) - 1), Turn(c, i) < lap[c]
      PROVE  Cap(ram[c][i] + 1) = Turn(c, i) + 1
  <2>1. Turn(c, i) \in 0..N(c) /\ N(c) < Old /\ i \in 0..(RamSize - 1)
    BY <1>2, Sizes DEF Turn
  <2>2. lap[c] >= 1
    BY <1>2, <1>5, <2>1
  <2>3. ram[c][i] = Turn(c, i)
    BY <1>5, <2>2 DEF LapInv
  <2>4. Turn(c, i) \in 0..Old /\ Turn(c, i) < Old
    BY <1>2, <2>1, Sizes
  <2>5. QED
    BY <2>3, <2>4, CapUp
<1>6. CASE ram_cnt[c] = N(c)
  <2>1. ram_cnt'[c] = 0 /\ \A i \in 0..(RamSize - 1) : ram'[c][i] = Cap(ram[c][i] + 1)
    BY <1>2, <1>6, ConversionOf
  <2>2. ASSUME NEW i \in 0..(N(c) - 1), Turn(c, i)' < lap'[c]
        PROVE  ram'[c][i] = Turn(c, i)'
    <3>1. Turn(c, i)' = N(c) - i /\ Turn(c, i) = N(c) - 1 - i
      BY <1>1, <1>2, <1>6, <2>1 DEF Turn
    <3>2. Turn(c, i) < lap[c] /\ i \in 0..(RamSize - 1)
      BY <1>2, <1>4, <2>2, <3>1, Sizes
    <3>3. QED
      BY <1>2, <1>5, <2>1, <3>1, <3>2
  <2>3. QED
    BY <1>1, <1>2, <2>1, <2>2
<1>7. CASE ram_cnt[c] < N(c)
  <2>1. ram_cnt[c] < Depth /\ ram_cnt[c] + 1 < CntRange
    BY <1>2, <1>7, Sizes
  <2>2. Low(c) = ram_cnt[c] /\ (ram_cnt[c] + 1) % CntRange = ram_cnt[c] + 1
    <3>1. ram_cnt[c] + 1 \in Nat
      BY <1>2
    <3>2. QED
      BY <1>2, <2>1, <3>1, Sizes, ModStep DEF Low
  <2>3. /\ ram_cnt'[c] = ram_cnt[c] + 1
        /\ \A i \in 0..(RamSize - 1) :
             ram'[c][i] = IF i = ram_cnt[c] THEN 0 ELSE Cap(ram[c][i] + 1)
    <3>1. ram_cnt[c] # N(c)
      BY <1>2, <1>7
    <3>2. /\ ram_cnt'[c] = (ram_cnt[c] + 1) % CntRange
          /\ \A i \in 0..(RamSize - 1) :
               ram'[c][i] = IF i = Low(c) THEN 0 ELSE Cap(ram[c][i] + 1)
      BY <1>2, <3>1, ConversionOf
    <3>3. QED
      BY <2>2, <3>2
  <2>4. ASSUME NEW i \in 0..(N(c) - 1), Turn(c, i)' < lap'[c]
        PROVE  ram'[c][i] = Turn(c, i)'
    <3>1. i \in 0..(RamSize - 1)
      BY <1>2, Sizes
    <3>2. CASE i = ram_cnt[c]
      BY <1>1, <1>2, <2>3, <3>1, <3>2 DEF Turn
    <3>3. CASE i # ram_cnt[c]
      <4>1. Turn(c, i)' = Turn(c, i) + 1 /\ Turn(c, i) \in 0..N(c)
        BY <1>1, <1>2, <2>3, <3>3 DEF Turn
      <4>2. Turn(c, i) < lap[c]
        BY <1>2, <1>4, <2>4, <4>1, Sizes
      <4>3. QED
        BY <1>5, <2>3, <3>1, <3>3, <4>1, <4>2
    <3>4. QED
      BY <3>2, <3>3
  <2>5. QED
    BY <1>1, <1>2, <1>7, <2>3, <2>4
<1>8. QED
  BY <1>2, <1>6, <1>7

\* How far back a word can be, and that a limit that is reached ends it there.
LEMMA StaleRange ==
    ASSUME TypeOK, NEW c \in Chans, ModeOf(c) # 0, NEW i \in 0..(N(c) - 1)
    PROVE  Stale(c, i) \in 0..Depth /\ i \in 0..(RamSize - 1)
<1>1. N(c) \in 1..RamSize /\ ram_cnt[c] \in Nat
  BY Channel
<1>2. Low(c) \in 0..(Depth - 1)
  BY <1>1, Sizes, ModStep DEF Low
<1>3. QED
  BY <1>1, <1>2, Sizes DEF Stale

\* A conversion keeps the bounds on the ages.
LEMMA ConversionFresh ==
    ASSUME TypeOK, Conversion, NEW c \in Chans, FreshInv(c)
    PROVE  FreshInv(c)'
<1>1. ModeOf(c)' = ModeOf(c) /\ N(c)' = N(c)
  BY ConversionMode
<1> SUFFICES ASSUME ModeOf(c) # 0, NEW i \in 0..(N(c) - 1), Stale(c, i)' < since'[c]
             PROVE  ram'[c][i] <= Stale(c, i)'
  BY <1>1 DEF FreshInv
<1> DEFINE p == ram_cnt[c]
<1>2. /\ N(c) \in 1..RamSize /\ p \in Nat /\ p < CntRange
      /\ since[c] \in 0..Old /\ ram[c][i] \in 0..Old
      /\ Stale(c, i) \in 0..Depth /\ i \in 0..(RamSize - 1)
  <2>1. Stale(c, i) \in 0..Depth /\ i \in 0..(RamSize - 1)
    BY StaleRange
  <2>2. QED
    BY <2>1, Channel
<1>3. since'[c] = Cap(since[c] + 1)
  BY ConversionOf
<1>4. /\ since[c] < Old => since'[c] = since[c] + 1
      /\ since[c] = Old => since'[c] = Old
  BY <1>2, <1>3, CapUp
<1>5. Low(c) \in 0..(Depth - 1) /\ (p < Depth => Low(c) = p)
  BY <1>2, Sizes, ModStep DEF Low
\* a word that is not written ages by one
<1>6. ASSUME ram'[c][i] = Cap(ram[c][i] + 1), Stale(c, i)' \in Int,
             Stale(c, i) + 1 <= Stale(c, i)'
      PROVE  ram'[c][i] <= Stale(c, i)'
  <2>1. Stale(c, i) < since[c]
    BY <1>2, <1>4, <1>6, Sizes
  <2>2. ram[c][i] <= Stale(c, i)
    BY <2>1 DEF FreshInv
  <2>3. Cap(ram[c][i] + 1) <= ram[c][i] + 1 /\ Cap(ram[c][i] + 1) \in Int
    BY <1>2, CapUp
  <2>4. QED
    BY <1>2, <1>6, <2>2, <2>3
<1>7. CASE p = N(c)
  <2>1. ram_cnt'[c] = 0 /\ ram'[c][i] = Cap(ram[c][i] + 1)
    BY <1>2, <1>7, ConversionOf
  <2>2. Stale(c, i)' = Depth - i /\ Stale(c, i) = N(c) - 1 - i
    BY <1>1, <1>2, <1>7, <2>1, Sizes DEF Stale
  <2>3. QED
    BY <1>2, <1>6, <2>1, <2>2, Sizes
<1>8. ASSUME p # N(c)
      PROVE  /\ ram_cnt'[c] = (p + 1) % CntRange
             /\ ram'[c][i] = IF i = Low(c) THEN 0 ELSE Cap(ram[c][i] + 1)
  BY <1>2, <1>8, ConversionOf
<1>9. CASE p < N(c)
  <2>1. p < Depth /\ p + 1 < CntRange /\ p # N(c) /\ p + 1 \in Nat
    BY <1>2, <1>9, Sizes
  <2>2. ram_cnt'[c] = p + 1
    BY <1>8, <2>1, Sizes, ModStep
  <2>3. CASE i = p
    <3>1. Stale(c, i)' = 0 /\ ram'[c][i] = 0
      BY <1>1, <1>2, <1>5, <1>8, <1>9, <2>1, <2>2, <2>3 DEF Stale
    <3>2. QED
      BY <3>1
  <2>4. CASE i # p
    <3>1. Stale(c, i)' = Stale(c, i) + 1
      BY <1>1, <1>2, <1>9, <2>2, <2>4, Sizes DEF Stale
    <3>2. ram'[c][i] = Cap(ram[c][i] + 1)
      BY <1>5, <1>8, <2>1, <2>4
    <3>3. QED
      BY <1>2, <1>6, <3>1, <3>2
  <2>5. QED
    BY <2>3, <2>4
<1>10. CASE p > N(c) /\ p + 1 < CntRange
  <2>1. p # N(c) /\ p + 1 \in Nat
    BY <1>2, <1>10
  <2>2. ram_cnt'[c] = p + 1
    BY <1>8, <1>10, <2>1, Sizes, ModStep
  <2>3. Low(c)' = IF Low(c) = Depth - 1 THEN 0 ELSE Low(c) + 1
    <3>1. Low(c)' = (p + 1) % Depth /\ Low(c) = p % Depth
      BY <2>2 DEF Low
    <3>2. (p + 1) % Depth = IF p % Depth = Depth - 1 THEN 0 ELSE (p % Depth) + 1
      BY <1>2, Sizes, ModStep
    <3>3. QED
      BY <3>1, <3>2
  <2>4. Low(c)' \in 0..(Depth - 1)
    BY <1>5, <2>3, Sizes
  <2>5. /\ Stale(c, i)' = IF i < Low(c)' THEN Low(c)' - 1 - i ELSE Low(c)' - 1 - i + Depth
        /\ Stale(c, i) = IF i < Low(c) THEN Low(c) - 1 - i ELSE Low(c) - 1 - i + Depth
    BY <1>1, <1>2, <1>10, <2>2 DEF Stale
  <2>6. CASE i = Low(c)
    <3>1. Stale(c, i)' = 0 /\ ram'[c][i] = 0
      BY <1>2, <1>5, <1>8, <2>1, <2>3, <2>4, <2>5, <2>6, Sizes
    <3>2. QED
      BY <3>1
  <2>7. CASE i # Low(c)
    <3>1. Stale(c, i)' = Stale(c, i) + 1
      BY <1>2, <1>5, <2>3, <2>4, <2>5, <2>7, Sizes
    <3>2. ram'[c][i] = Cap(ram[c][i] + 1)
      BY <1>8, <2>1, <2>7
    <3>3. QED
      BY <1>2, <1>6, <3>1, <3>2
  <2>8. QED
    BY <2>6, <2>7
<1>11. CASE p > N(c) /\ p + 1 = CntRange
  <2>1. p # N(c) /\ CntRange % CntRange = 0
    <3>1. CntRange = 1 * CntRange + 0 /\ 0 \in 0..(CntRange - 1)
      BY Sizes
    <3>2. CntRange % CntRange = 0
      BY <3>1, Sizes, ModUnique
    <3>3. QED
      BY <1>2, <1>11, <3>2
  <2>2. ram_cnt'[c] = 0
    BY <1>8, <1>11, <2>1
  <2>3. Low(c) = Depth - 1
    <3>1. (p + 1) % Depth = IF Low(c) = Depth - 1 THEN 0 ELSE Low(c) + 1
      BY <1>2, Sizes, ModStep DEF Low
    <3>2. (p + 1) % Depth = 0
      BY <1>11, Sizes
    <3>3. QED
      BY <1>5, <3>1, <3>2
  <2>4. Stale(c, i)' = Depth - i
    BY <1>1, <1>2, <2>2, Sizes DEF Stale
  <2>5. CASE i = Depth - 1
    <3>1. ram'[c][i] = 0
      BY <1>8, <2>1, <2>3, <2>5
    <3>2. QED
      BY <1>2, <2>4, <2>5, <3>1, Sizes
  <2>6. CASE i # Depth - 1
    <3>1. Stale(c, i) = Depth - 2 - i
      BY <1>2, <1>11, <2>3, <2>6, Sizes DEF Stale
    <3>2. ram'[c][i] = Cap(ram[c][i] + 1)
      BY <1>8, <2>1, <2>3, <2>6
    <3>3. QED
      BY <1>2, <1>6, <2>4, <3>1, <3>2, Sizes
  <2>7. QED
    BY <2>5, <2>6
<1>12. QED
  <2>1. p = N(c) \/ p < N(c) \/ (p > N(c) /\ p + 1 < CntRange)
          \/ (p > N(c) /\ p + 1 = CntRange)
    BY <1>2, Sizes
  <2>2. QED
    BY <1>7, <1>9, <1>10, <1>11, <2>1

\* A conversion keeps the invariant.
LEMMA ConversionSlow ==
    ASSUME SlowInv, Conversion
    PROVE  SlowInv'
<1>1. TypeOK
  BY DEF SlowInv
<1>2. TypeOK'
  <2>1. /\ ram' \in [Chans -> [0..(RamSize - 1) -> 0..Old]]
        /\ since' \in [Chans -> 0..Old] /\ lap' \in [Chans -> 0..Old]
    <3>1. \A c \in Chans : ram'[c] \in [0..(RamSize - 1) -> 0..Old]
      BY <1>1, ConversionOf
    <3>2. \A c \in Chans : Cap(since[c] + 1) \in 0..Old /\ Cap(lap[c] + 1) \in 0..Old
      BY <1>1, Channel, CapUp
    <3>3. 0 \in 0..Old
      BY Sizes
    <3>4. since' \in [Chans -> 0..Old] /\ lap' \in [Chans -> 0..Old]
      BY <3>2, <3>3 DEF Conversion
    <3>5. QED
      BY <3>1, <3>4 DEF Conversion
  <2>2. ram_cnt' \in [Chans -> 0..(CntRange - 1)]
    <3>1. ASSUME NEW c \in Chans PROVE ram_cnt'[c] \in 0..(CntRange - 1)
      <4>1. ram_cnt[c] \in Nat /\ ram_cnt[c] < CntRange /\ ram_cnt[c] + 1 \in Nat
        BY <1>1, Channel
      <4>2. (ram_cnt[c] + 1) % CntRange \in 0..(CntRange - 1) /\ 0 \in 0..(CntRange - 1)
        <5>1. (ram_cnt[c] + 1) % CntRange \in 0..(CntRange - 1)
          BY <4>1, Sizes, ModStep
        <5>2. QED
          BY <5>1, Sizes
      <4>3. ram_cnt'[c] \in {ram_cnt[c], 0, (ram_cnt[c] + 1) % CntRange}
        BY <1>1, ConversionOf
      <4>4. ram_cnt[c] \in 0..(CntRange - 1)
        BY <4>1, Sizes
      <4>5. QED
        BY <4>2, <4>3, <4>4
    <3>2. QED
      BY <3>1 DEF Conversion
  <2>3. ASSUME NEW c \in Chans
        PROVE  \E n \in 1..RamSize : avg_out'[c] \in [0..(n - 1) -> 0..Old]
    <3>1. CASE ModeOf(c) = 0
      <4>1. avg_out'[c] = [i \in {0} |-> 0]
        BY <1>1, <3>1, ConversionOf
      <4>2. 1 \in 1..RamSize /\ 0..(1 - 1) = {0} /\ 0 \in 0..Old
        BY Sizes
      <4>3. avg_out'[c] \in [0..(1 - 1) -> 0..Old]
        BY <4>1, <4>2
      <4>4. QED
        BY <4>2, <4>3
    <3>2. CASE ModeOf(c) # 0
      <4>1. avg_out'[c] = [i \in 0..(N(c) - 1) |-> ram'[c][i]] /\ N(c) \in 1..RamSize
        BY <1>1, <3>2, Channel, ConversionOf
      <4>2. ram'[c] \in [0..(RamSize - 1) -> 0..Old]
        BY <1>1, ConversionOf
      <4>3. \A i \in 0..(N(c) - 1) : i \in 0..(RamSize - 1)
        BY <4>1, Sizes
      <4>4. \A i \in 0..(N(c) - 1) : ram'[c][i] \in 0..Old
        BY <4>2, <4>3
      <4>5. avg_out'[c] \in [0..(N(c) - 1) -> 0..Old]
        BY <4>1, <4>4
      <4>6. QED
        BY <4>1, <4>5
    <3>3. QED
      BY <3>1, <3>2
  <2>4. ave_mode' = ave_mode /\ clean' = clean
    BY DEF Conversion
  <2>5. sa' \in [pc : {"delay", "ready", "sums", "status"}, chan : Chans,
                 reg : 1..NumRegs, mode : Modes]
    BY <1>1 DEF Conversion, TypeOK
  <2>6. QED
    BY <1>1, <2>1, <2>2, <2>3, <2>4, <2>5 DEF TypeOK
<1>3. ModeInv'
  <2>1. ASSUME NEW c \in Chans, since[c] >= 1 PROVE since'[c] >= 1
    <3>1. since[c] \in 0..Old /\ since'[c] = Cap(since[c] + 1)
      BY <1>1, Channel, ConversionOf
    <3>2. QED
      BY <2>1, <3>1, Sizes DEF Cap
  <2>2. /\ sa'.mode = sa.mode /\ sa'.chan = sa.chan /\ sa.chan \in Chans
        /\ sa'.pc = IF sa.pc = "delay" THEN "ready" ELSE sa.pc
    BY <1>1 DEF Conversion, TypeOK
  <2>3. ave_mode' = ave_mode /\ clean' = clean
    BY DEF Conversion
  <2>4. QED
    BY <2>1, <2>2, <2>3 DEF SlowInv, ModeInv
<1>4. ASSUME NEW c \in Chans PROVE Current(c)' /\ LapInv(c)' /\ FreshInv(c)'
  <2>1. ModeOf(c)' = ModeOf(c) /\ N(c)' = N(c)
    BY ConversionMode
  <2>2. Current(c)'
    BY <1>1, <2>1, ConversionOf DEF Current
  <2>3. QED
    BY <1>1, <2>2, ConversionLap, ConversionFresh DEF SlowInv
<1>5. QED
  BY <1>2, <1>3, <1>4 DEF SlowInv

-----------------------------------------------------------------------------
(* The other steps.                                                        *)

\* The start: no average, nothing read.
LEMMA InitSlow == Init => SlowInv
<1> SUFFICES ASSUME Init PROVE SlowInv
  OBVIOUS
<1>1. FirstChan \in Chans
  BY LeastChan, SlowDataAssumption DEF FirstChan, SlowDataAssumption
<1>2. TypeOK
  <2>1. /\ 0 \in 0..Old /\ Old \in 0..Old /\ 0 \in 0..(CntRange - 1) /\ 1 \in 1..NumRegs
        /\ 0 \in Modes /\ 1 \in 1..RamSize /\ 0..(1 - 1) = {0}
    BY Sizes DEF Modes
  <2>2. ASSUME NEW c \in Chans
        PROVE  \E n \in 1..RamSize : avg_out[c] \in [0..(n - 1) -> 0..Old]
    <3>1. avg_out[c] \in [0..(1 - 1) -> 0..Old]
      BY <2>1 DEF Init
    <3>2. QED
      BY <2>1, <3>1
  <2>3. sa \in [pc : {"delay", "ready", "sums", "status"}, chan : Chans,
                reg : 1..NumRegs, mode : Modes]
    BY <1>1, <2>1 DEF Init, Waiting
  <2>4. QED
    BY <2>1, <2>2, <2>3 DEF Init, TypeOK
<1>3. ASSUME NEW c \in Chans PROVE Current(c) /\ LapInv(c) /\ FreshInv(c)
  <2>1. ModeOf(c) = 0 /\ lap[c] = 0 /\ avg_out[c] = [i \in {0} |-> 0]
    BY <1>2, Channel DEF Init, ModeOf
  <2>2. QED
    BY <2>1 DEF Current, LapInv, FreshInv
<1>4. QED
  BY <1>2, <1>3 DEF SlowInv, ModeInv, Init

\* A mode is written: the histories of the channels it is wired to start again.
LEMMA WriteSlow ==
    ASSUME SlowInv, NEW w \in Chans, NEW m \in Modes, WriteAveMode(w, m)
    PROVE  SlowInv'
<1>1. TypeOK
  BY DEF SlowInv
<1>2. TypeOK'
  <2>1. ave_mode' \in [Chans -> Modes] /\ clean' \in BOOLEAN
    BY <1>1 DEF TypeOK, WriteAveMode
  <2>2. since' \in [Chans -> 0..Old] /\ lap' \in [Chans -> 0..Old]
    <3>1. 0 \in 0..Old
      BY Sizes
    <3>2. QED
      BY <1>1, <3>1 DEF TypeOK, WriteAveMode
  <2>3. UNCHANGED <<ram, ram_cnt, avg_out, sa>>
    BY DEF WriteAveMode
  <2>4. QED
    BY <1>1, <2>1, <2>2, <2>3 DEF TypeOK
<1>3. ModeInv'
  <2>1. CASE ~clean'
    BY <2>1 DEF ModeInv
  <2>2. CASE clean'
    <3>1. clean /\ w # sa.chan /\ w # Wire(sa.chan) /\ sa' = sa /\ sa.chan \in Chans
      BY <1>1, <2>2 DEF WriteAveMode, TypeOK
    <3>2. ave_mode'[sa.chan] = ave_mode[sa.chan] /\ since'[sa.chan] = since[sa.chan]
      BY <1>1, <3>1 DEF WriteAveMode, TypeOK
    <3>3. QED
      BY <3>1, <3>2 DEF SlowInv, ModeInv
  <2>3. QED
    BY <2>1, <2>2
<1>4. ASSUME NEW c \in Chans PROVE Current(c)' /\ LapInv(c)' /\ FreshInv(c)'
  <2>1. Wire(c) \in Chans
    BY <1>1, Channel
  <2>2. CASE w = Wire(c)
    <3>1. since'[c] = 0 /\ lap'[c] = 0
      BY <2>2 DEF WriteAveMode
    <3>2. Current(c)' /\ LapInv(c)'
      BY <3>1 DEF Current, LapInv
    <3>3. ASSUME ModeOf(c)' # 0, NEW i \in 0..(N(c)' - 1) PROVE ~(Stale(c, i)' < since'[c])
      <4>1. ModeOf(c)' = m
        BY <1>1, <2>1, <2>2 DEF WriteAveMode, TypeOK, ModeOf
      <4>2. N(c)' \in 1..RamSize
        BY <3>3, <4>1, Sizes DEF N, Averaging
      <4>3. ram_cnt'[c] = ram_cnt[c] /\ ram_cnt[c] \in Nat
        BY <1>1, Channel DEF WriteAveMode
      <4>4. Low(c)' \in 0..(Depth - 1)
        BY <4>3, Sizes, ModStep DEF Low
      <4>5. Stale(c, i)' >= 0
        BY <4>2, <4>3, <4>4, Sizes DEF Stale
      <4>6. Stale(c, i)' \in Int
        BY <4>2, <4>3, <4>4, Sizes DEF Stale
      <4>7. QED
        BY <3>1, <4>5, <4>6
    <3>4. QED
      BY <3>2, <3>3 DEF FreshInv
  <2>3. CASE w # Wire(c)
    <3>1. /\ ModeOf(c)' = ModeOf(c) /\ N(c)' = N(c) /\ lap'[c] = lap[c]
          /\ UNCHANGED <<ram, ram_cnt, avg_out>>
      BY <1>1, <2>1, <2>3 DEF WriteAveMode, TypeOK, ModeOf, N
    <3>2. since'[c] \in {since[c], 0}
      BY DEF WriteAveMode
    <3>3. \A i : Stale(c, i)' = Stale(c, i) /\ Turn(c, i)' = Turn(c, i)
      BY <3>1 DEF Stale, Turn, Low
    <3>4. Current(c) /\ LapInv(c) /\ FreshInv(c)
      BY DEF SlowInv
    <3>5. Current(c)'
      BY <3>1, <3>2, <3>4 DEF Current
    <3>6. LapInv(c)'
      BY <3>1, <3>3, <3>4 DEF LapInv
    <3>7. FreshInv(c)'
      <4>1. CASE since'[c] = since[c]
        BY <3>1, <3>3, <3>4, <4>1 DEF FreshInv
      <4>2. CASE since'[c] = 0
        <5>1. ASSUME ModeOf(c) # 0, NEW i \in 0..(N(c) - 1) PROVE ~(Stale(c, i) < 0)
          BY <1>1, <5>1, StaleRange, Sizes
        <5>2. QED
          BY <3>1, <3>3, <4>2, <5>1 DEF FreshInv
      <4>3. QED
        BY <3>2, <4>1, <4>2
    <3>8. QED
      BY <3>5, <3>6, <3>7
  <2>4. QED
    BY <2>2, <2>3
<1>5. QED
  BY <1>2, <1>3, <1>4 DEF SlowInv

\* A step of the report leaves the gateware alone.
LEMMA GatewareStays ==
    ASSUME SlowInv, UNCHANGED gateware
    PROVE  \A c \in Chans : Current(c)' /\ LapInv(c)' /\ FreshInv(c)'
<1>1. /\ ave_mode' = ave_mode /\ ram' = ram /\ ram_cnt' = ram_cnt
      /\ avg_out' = avg_out /\ since' = since /\ lap' = lap
  BY DEF gateware
<1>2. ASSUME NEW c \in Chans PROVE Current(c)' /\ LapInv(c)' /\ FreshInv(c)'
  <2>1. ModeOf(c)' = ModeOf(c) /\ N(c)' = N(c)
    BY <1>1 DEF ModeOf, N
  <2>2. \A i : Stale(c, i)' = Stale(c, i) /\ Turn(c, i)' = Turn(c, i)
    BY <1>1, <2>1 DEF Stale, Turn, Low
  <2>3. Current(c) /\ LapInv(c) /\ FreshInv(c)
    BY DEF SlowInv
  <2>4. QED
    BY <1>1, <2>1, <2>2, <2>3 DEF Current, LapInv, FreshInv
<1>3. QED
  BY <1>2

\* The report keeps the invariant: what it has read is the mode as it stands.
LEMMA ReportSlow ==
    ASSUME SlowInv, ReadMode \/ ReadAccumSA \/ ReadStatus
    PROVE  SlowInv'
<1> DEFINE Sa == [pc : {"delay", "ready", "sums", "status"}, chan : Chans,
                  reg : 1..NumRegs, mode : Modes]
<1>1. TypeOK /\ ModeInv /\ sa \in Sa
  BY DEF SlowInv, TypeOK
<1>2. /\ UNCHANGED gateware /\ ave_mode' = ave_mode /\ since' = since
      /\ ram' = ram /\ ram_cnt' = ram_cnt /\ avg_out' = avg_out /\ lap' = lap
  BY DEF ReadMode, ReadAccumSA, ReadStatus, gateware
<1>3. /\ ave_mode \in [Chans -> Modes] /\ 1 \in 1..NumRegs /\ 0 \in Modes
      /\ since \in [Chans -> 0..Old]
  BY <1>1, Sizes DEF TypeOK, Modes
<1>4. sa' \in Sa /\ clean' \in BOOLEAN /\ ModeInv'
  <2>1. CASE ReadMode
    <3>1. sa' = [sa EXCEPT !.pc = "sums", !.reg = 1, !.mode = ave_mode[sa.chan]]
          /\ clean' = (since[sa.chan] >= 1)
      BY <2>1 DEF ReadMode
    <3>2. sa' \in Sa /\ sa'.chan = sa.chan /\ sa'.mode = ave_mode[sa.chan] /\ sa'.pc = "sums"
      BY <1>1, <1>3, <3>1
    <3>3. clean' \in BOOLEAN
      BY <3>1
    <3>4. QED
      BY <1>2, <3>1, <3>2, <3>3 DEF ModeInv
  <2>2. CASE ReadAccumSA
    <3>1. clean' = clean /\ sa.pc = "sums" /\ clean \in BOOLEAN
      BY <1>1, <2>2 DEF ReadAccumSA, TypeOK
    <3>2. sa' = IF sa.reg < NumRegs THEN [sa EXCEPT !.reg = sa.reg + 1]
                ELSE [sa EXCEPT !.pc = "status"]
      BY <2>2 DEF ReadAccumSA
    <3>3. sa.reg < NumRegs => sa.reg + 1 \in 1..NumRegs
      BY <1>1, Sizes
    <3>4. sa' \in Sa /\ sa'.chan = sa.chan /\ sa'.mode = sa.mode
          /\ sa'.pc \in {"sums", "status"}
      BY <1>1, <3>1, <3>2, <3>3
    <3>5. QED
      BY <1>1, <1>2, <3>1, <3>4 DEF ModeInv
  <2>3. CASE ReadStatus
    <3> DEFINE later == {c \in Chans : c > sa.chan}
               next == CHOOSE c \in later : \A d \in later : c <= d
    <3>1. clean' = FALSE
      BY <2>3 DEF ReadStatus
    <3>2. sa' = IF later = {} THEN Waiting ELSE [sa EXCEPT !.pc = "ready", !.chan = next]
      BY <2>3 DEF ReadStatus
    <3>3. Waiting \in Sa
      <4>1. FirstChan \in Chans
        BY LeastChan, SlowDataAssumption DEF FirstChan, SlowDataAssumption
      <4>2. QED
        BY <1>3, <4>1 DEF Waiting
    <3>4. later # {} => next \in Chans
      BY LeastChan
    <3>5. sa' \in Sa
      <4> HIDE DEF next
      <4> QED BY <1>1, <3>2, <3>3, <3>4
    <3>6. QED
      BY <3>1, <3>5 DEF ModeInv
  <2>4. QED
    BY <2>1, <2>2, <2>3
<1>5. TypeOK'
  BY <1>1, <1>2, <1>4 DEF TypeOK
<1>6. QED
  BY <1>2, <1>4, <1>5, GatewareStays DEF SlowInv

\* Every step keeps the invariant.
LEMMA NextSlow == SlowInv /\ [Next]_vars => SlowInv'
<1> SUFFICES ASSUME SlowInv, [Next]_vars PROVE SlowInv'
  OBVIOUS
<1>1. CASE UNCHANGED vars
  <2>1. UNCHANGED gateware /\ UNCHANGED <<sa, clean, ave_mode, since>>
    BY <1>1 DEF vars, gateware
  <2>2. TypeOK' /\ ModeInv'
    BY <1>1 DEF vars, SlowInv, TypeOK, ModeInv
  <2>3. QED
    BY <2>1, <2>2, GatewareStays DEF SlowInv
<1>2. CASE Next
  BY <1>2, ConversionSlow, ReportSlow, WriteSlow DEF Next
<1>3. QED
  BY <1>1, <1>2

-----------------------------------------------------------------------------
(* The theorems.                                                           *)

\* The inductive invariant holds.
THEOREM SlowInvariant == Spec => []SlowInv
BY InitSlow, NextSlow, PTL DEF Spec

\* Memory, counter, sums and thread keep their types, and every sum has the
\* length of some part of the memory.
THEOREM SlowTypes == Spec => []TypeOK
<1>1. SlowInv => TypeOK
  BY DEF SlowInv
<1>2. QED
  BY <1>1, SlowInvariant, PTL

\* A sum has no sample twice and none older than a turn, for every length of
\* the sum and size of the memory (average.vhd).
THEOREM SumOfOneTurn == Spec => []WindowOfOneTurn
<1>1. SlowInv => WindowOfOneTurn
  <2> SUFFICES ASSUME SlowInv, NEW c \in Chans, ModeOf(c) # 0, lap[c] > SumLen[ModeOf(c)]
               PROVE  Distinct(c) /\ AgesOf(c) \subseteq 0..SumLen[ModeOf(c)]
    BY DEF WindowOfOneTurn
  <2>1. N(c) \in 1..RamSize /\ ram_cnt[c] \in Nat /\ lap[c] \in 0..Old /\ lap[c] > N(c)
    BY Channel DEF SlowInv, N
  <2>2. lap[c] >= 1
    BY <2>1
  <2>3. /\ ram_cnt[c] <= N(c) /\ avg_out[c] = [i \in 0..(N(c) - 1) |-> ram[c][i]]
        /\ \A i \in 0..(N(c) - 1) : Turn(c, i) < lap[c] => ram[c][i] = Turn(c, i)
    BY <2>2 DEF SlowInv, LapInv, Current
  <2>4. ASSUME NEW i \in 0..(N(c) - 1)
        PROVE  avg_out[c][i] = Turn(c, i) /\ Turn(c, i) \in 0..N(c)
    <3>1. Turn(c, i) \in 0..N(c)
      BY <2>1, <2>3 DEF Turn
    <3>2. QED
      BY <2>1, <2>3, <3>1
  <2>5. ASSUME NEW i \in 0..(N(c) - 1), NEW j \in 0..(N(c) - 1), Turn(c, i) = Turn(c, j)
        PROVE  i = j
    BY <2>1, <2>3, <2>5 DEF Turn
  <2>6. Summed(c) = 0..(N(c) - 1)
    BY <2>3 DEF Summed
  <2>7. Distinct(c)
    BY <2>4, <2>5, <2>6 DEF Distinct
  <2>8. AgesOf(c) \subseteq 0..N(c)
    BY <2>4, <2>6 DEF AgesOf
  <2>9. QED
    BY <2>7, <2>8 DEF N
<1>2. QED
  BY <1>1, SlowInvariant, PTL

\* Even with a counter that has passed its limit, no sample of a sum is older
\* than a turn of the address range, for every range of the counter that is a
\* multiple of it.
THEOREM SumStaysFresh == Spec => []SamplesStayFresh
<1>1. SlowInv => SamplesStayFresh
  <2> SUFFICES ASSUME SlowInv, NEW c \in Chans, ModeOf(c) # 0, since[c] > Depth
               PROVE  AgesOf(c) \subseteq 0..Depth
    BY DEF SamplesStayFresh
  <2>1. /\ TypeOK /\ N(c) \in 1..RamSize /\ since[c] \in 0..Old
        /\ ram[c] \in [0..(RamSize - 1) -> 0..Old]
    BY Channel DEF SlowInv
  <2>2. since[c] >= 1
    BY <2>1, Sizes
  <2>3. avg_out[c] = [i \in 0..(N(c) - 1) |-> ram[c][i]]
    BY <2>2 DEF SlowInv, Current
  <2>4. ASSUME NEW i \in 0..(N(c) - 1) PROVE avg_out[c][i] \in 0..Depth
    <3>1. Stale(c, i) \in 0..Depth /\ i \in 0..(RamSize - 1)
      BY <2>1, StaleRange
    <3>2. Stale(c, i) < since[c]
      BY <2>1, <3>1, Sizes
    <3>3. ram[c][i] <= Stale(c, i)
      BY <3>2 DEF SlowInv, FreshInv
    <3>4. ram[c][i] \in 0..Old
      BY <2>1, <3>1
    <3>5. ram[c][i] \in 0..Depth
      BY <3>1, <3>3, <3>4, Sizes
    <3>6. QED
      BY <2>3, <3>5
  <2>5. QED
    BY <2>3, <2>4 DEF AgesOf, Summed
<1>2. QED
  BY <1>1, SlowInvariant, PTL

\* A reported sum is divided by its own number of samples, whatever conversions
\* and mode changes come between the reads, for any number of registers.
THEOREM MeanOfItsSum == Spec => MeanUnlessSwitched
<1>1. ASSUME SlowInv
      PROVE  [ReadAccumSA /\ clean /\ ave_mode[sa.chan] = ModeOf(sa.chan)
                /\ sa.mode # 3 =>
              0..(Divisor(sa.mode) - 1) = Summed(sa.chan)]_vars
  <2> SUFFICES ASSUME clean, ave_mode[sa.chan] = ModeOf(sa.chan), sa.mode # 3
               PROVE  0..(Divisor(sa.mode) - 1) = Summed(sa.chan)
    OBVIOUS
  <2> DEFINE c == sa.chan
  <2>1. TypeOK /\ c \in Chans /\ sa.mode = ModeOf(c) /\ since[c] >= 1
    BY <1>1 DEF SlowInv, TypeOK, ModeInv
  <2>2. ModeOf(c) \in 0..3
    BY <2>1, Channel DEF Modes
  <2>3. avg_out[c] = IF ModeOf(c) = 0 THEN [i \in {0} |-> 0]
                     ELSE [i \in 0..(N(c) - 1) |-> ram[c][i]]
    BY <1>1, <2>1 DEF SlowInv, Current
  <2>4. Divisor(sa.mode) = IF ModeOf(c) = 0 THEN 1 ELSE N(c)
    BY <2>1, <2>2 DEF Divisor, N
  <2>5. CASE ModeOf(c) = 0
    BY <2>3, <2>4, <2>5 DEF Summed
  <2>6. CASE ModeOf(c) # 0
    BY <2>3, <2>4, <2>6 DEF Summed
  <2>7. QED
    BY <2>5, <2>6
<1>2. QED
  BY <1>1, SlowInvariant, PTL DEF MeanUnlessSwitched
=============================================================================
