------------------------------ MODULE SlowData ------------------------------
(***************************************************************************)
(* The averages of the ADC readings and their report: the accumulators of  *)
(* average.vhd behind adc_accumulator_top.vhd, the averaging mode that     *)
(* software writes (AVE_MODE_MSG in control.c), and the 10 Hz thread of    *)
(* sadata.c, which reads the mode and the sums one register at a time and  *)
(* divides.                                                                *)
(*                                                                         *)
(* The eight accumulators of a channel run in step; the memory of one      *)
(* stands for all.  A conversion starts them and they are done (at most    *)
(* 503 clocks) long before the next one (10001 clocks), so a conversion is *)
(* one step.  A sample is known by its age in conversions.                 *)
(***************************************************************************)
EXTENDS Integers

CONSTANTS
    Chans,      \* channels that are averaged and reported
    SumLen,     \* SumLen[m]: addr_max of the averaging modes m
    RamSize,    \* words of the memory
    Depth,      \* addresses of the memory as built, a power of two
    CntRange,   \* range of the counter ram_cnt
    NumRegs,    \* accumulator registers read per channel
    Old         \* bound: ages from here on are not told apart

Modes == 0..3
Averaging == Modes \ {0}

ASSUME SlowDataAssumption ==
    /\ Chans \subseteq 1..4 /\ Chans # {} /\ (4 \in Chans => 1 \in Chans)
    /\ SumLen \in [Averaging -> 1..RamSize]
    /\ RamSize \in Nat /\ Depth \in Nat /\ RamSize <= Depth
    /\ CntRange \in Nat /\ Depth < CntRange /\ CntRange % Depth = 0
    /\ NumRegs \in Nat \ {0} /\ Old \in Nat /\ Depth < Old

VARIABLES
    ave_mode,   \* the mode registers
    ram,        \* ram[c][i]: age of the sample in word i
    ram_cnt,    \* write position, a free running integer
    avg_out,    \* avg_out[c]: the ages of the samples in the last sum
    sa,         \* the thread sadata_push: pc, channel, register, mode it read
    since,      \* history: conversions since the channel's mode was written
    lap,        \* history: of these, the last ones with ram_cnt in range
    clean       \* history: the mode sa read is the one its sums were made with

vars == <<ave_mode, ram, ram_cnt, avg_out, sa, since, lap, clean>>
gateware == <<ave_mode, ram, ram_cnt, avg_out, since, lap>>

Cap(n) == IF n > Old THEN Old ELSE n
FirstChan == CHOOSE c \in Chans : \A d \in Chans : c <= d
Waiting == [pc |-> "delay", chan |-> FirstChan, reg |-> 1, mode |-> 0]

Init ==
    /\ ave_mode = [c \in Chans |-> 0]
    /\ ram = [c \in Chans |-> [i \in 0..(RamSize - 1) |-> Old]]
    /\ ram_cnt = [c \in Chans |-> 0]
    /\ avg_out = [c \in Chans |-> [i \in {0} |-> 0]]
    /\ sa = Waiting
    /\ since = [c \in Chans |-> Old] /\ lap = [c \in Chans |-> 0]
    /\ clean = FALSE

-----------------------------------------------------------------------------
(* average.vhd, one conversion.                                            *)

\* adc_accumulator_top.vhd: the fourth instance gets the mode of channel 1
Wire(c) == IF c = 4 THEN 1 ELSE c
ModeOf(c) == ave_mode[Wire(c)]

Aged(c) == [i \in DOMAIN ram[c] |-> Cap(ram[c][i] + 1)]

\* Mutant: the counter is compared one word early.
WriteToRamShort(c) ==
    IF ModeOf(c) = 0 THEN [cnt |-> ram_cnt[c], ram |-> Aged(c)]
    ELSE IF ram_cnt[c] = SumLen[ModeOf(c)] - 1
         THEN [cnt |-> 0, ram |-> Aged(c)]
         ELSE [cnt |-> (ram_cnt[c] + 1) % CntRange,
               ram |-> [i \in DOMAIN ram[c] |->
                           IF i = ram_cnt[c] % Depth THEN 0 ELSE Aged(c)[i]]]

\* Mutant: a counter past the limit writes nothing.
WriteToRamStops(c) ==
    IF ModeOf(c) = 0 \/ ram_cnt[c] > SumLen[ModeOf(c)]
    THEN [cnt |-> ram_cnt[c], ram |-> Aged(c)]
    ELSE IF ram_cnt[c] = SumLen[ModeOf(c)]
         THEN [cnt |-> 0, ram |-> Aged(c)]
         ELSE [cnt |-> ram_cnt[c] + 1,
               ram |-> [i \in DOMAIN ram[c] |->
                           IF i = ram_cnt[c] THEN 0 ELSE Aged(c)[i]]]

\* WRITE_TO_RAM: at addr_max the counter returns and the sample is dropped;
\* a counter beyond addr_max goes on, and only its low bits address the words
WriteToRam(c) ==
    IF ModeOf(c) = 0 THEN [cnt |-> ram_cnt[c], ram |-> Aged(c)]
    ELSE IF ram_cnt[c] = SumLen[ModeOf(c)]
         THEN [cnt |-> 0, ram |-> Aged(c)]
         ELSE [cnt |-> (ram_cnt[c] + 1) % CntRange,
               ram |-> [i \in DOMAIN ram[c] |->
                           IF i = ram_cnt[c] % Depth THEN 0 ELSE Aged(c)[i]]]

\* ACCUMULATE, FINISHED: mode 0 passes the sample on, the others add the
\* first addr_max words
Accumulate(c) ==
    IF ModeOf(c) = 0 THEN [i \in {0} |-> 0]
    ELSE [i \in 0..(SumLen[ModeOf(c)] - 1) |-> WriteToRam(c).ram[i]]

Conversion ==
    /\ ram' = [c \in Chans |-> WriteToRam(c).ram]
    /\ ram_cnt' = [c \in Chans |-> WriteToRam(c).cnt]
    /\ avg_out' = [c \in Chans |-> Accumulate(c)]
    /\ since' = [c \in Chans |-> Cap(since[c] + 1)]
    /\ lap' = [c \in Chans |-> IF /\ ModeOf(c) # 0
                                  /\ ram_cnt[c] <= SumLen[ModeOf(c)]
                               THEN Cap(lap[c] + 1) ELSE 0]
    /\ sa' = [sa EXCEPT !.pc = IF @ = "delay" THEN "ready" ELSE @]
    /\ UNCHANGED <<ave_mode, clean>>

-----------------------------------------------------------------------------
(* chan_settings, AVE_MODE_MSG: a client's thread, at any time.            *)
WriteAveMode(c, m) ==
    /\ ave_mode' = [ave_mode EXCEPT ![c] = m]
    /\ since' = [d \in Chans |-> IF c \in {d, Wire(d)} THEN 0 ELSE since[d]]
    /\ lap' = [d \in Chans |-> IF c = Wire(d) THEN 0 ELSE lap[d]]
    /\ clean' = (clean /\ c \notin {sa.chan, Wire(sa.chan)})
    /\ UNCHANGED <<ram, ram_cnt, avg_out, sa>>

-----------------------------------------------------------------------------
(* sadata_push.  Conversions go on between any two register reads.  The    *)
(* delay of 100 ms is at least one conversion.                             *)

\* Mutant: the mode is read at startup only.
ReadModeOnce ==
    /\ sa.pc = "ready"
    /\ sa' = [sa EXCEPT !.pc = "sums", !.reg = 1]
    /\ clean' = (since[sa.chan] >= 1)
    /\ UNCHANGED gateware

ReadMode ==
    /\ sa.pc = "ready"
    /\ sa' = [sa EXCEPT !.pc = "sums", !.reg = 1, !.mode = ave_mode[sa.chan]]
    /\ clean' = (since[sa.chan] >= 1)
    /\ UNCHANGED gateware

\* what ReadAccumSA divides by, 0 for "not a number"
Divisor(m) == CASE m = 0 -> 1 [] m = 1 -> SumLen[1] [] m = 2 -> SumLen[2]
                [] OTHER -> 0

\* Mutant: one register too many.
ReadAccumSABeyond ==
    /\ sa.pc = "sums"
    /\ sa' = IF sa.reg <= NumRegs THEN [sa EXCEPT !.reg = @ + 1]
             ELSE [sa EXCEPT !.pc = "status"]
    /\ UNCHANGED <<gateware, clean>>

ReadAccumSA ==
    /\ sa.pc = "sums"
    /\ sa' = IF sa.reg < NumRegs THEN [sa EXCEPT !.reg = @ + 1]
             ELSE [sa EXCEPT !.pc = "status"]
    /\ UNCHANGED <<gateware, clean>>

\* setpoint, limits, masks, outputs, faults and loop registers, then the next
\* channel; after the last one psc_send broadcasts the structure
ReadStatus ==
    /\ sa.pc = "status"
    /\ LET later == {c \in Chans : c > sa.chan} IN
       sa' = IF later = {} THEN Waiting
             ELSE [sa EXCEPT !.pc = "ready",
                             !.chan = CHOOSE c \in later : \A d \in later : c <= d]
    /\ clean' = FALSE
    /\ UNCHANGED gateware

Next == \/ Conversion \/ ReadMode \/ ReadAccumSA \/ ReadStatus
        \/ \E c \in Chans, m \in Modes : WriteAveMode(c, m)

Spec == Init /\ [][Next]_vars

-----------------------------------------------------------------------------
TypeOK ==
    /\ ave_mode \in [Chans -> Modes]
    /\ ram \in [Chans -> [0..(RamSize - 1) -> 0..Old]]
    /\ ram_cnt \in [Chans -> 0..(CntRange - 1)]
    /\ \A c \in Chans : \E n \in 1..RamSize : avg_out[c] \in [0..(n - 1) -> 0..Old]
    /\ sa \in [pc : {"delay", "ready", "sums", "status"}, chan : Chans,
               reg : 1..NumRegs, mode : Modes]
    /\ since \in [Chans -> 0..Old] /\ lap \in [Chans -> 0..Old]
    /\ clean \in BOOLEAN

Summed(c) == DOMAIN avg_out[c]
AgesOf(c) == {avg_out[c][i] : i \in Summed(c)}
Distinct(c) == \A i, j \in Summed(c) : avg_out[c][i] = avg_out[c][j] => i = j

(* A reported value is divided by the number of samples in the sum it was  *)
(* read from, although mode and sum are read at different times and        *)
(* conversions fall in between - unless the mode was written since the     *)
(* last conversion before, or the accumulators of the channel are wired to *)
(* another channel's mode and the two differ.                              *)
MeanUnlessSwitched ==
    [][ReadAccumSA /\ clean /\ ave_mode[sa.chan] = ModeOf(sa.chan)
            /\ sa.mode # 3 =>
       0..(Divisor(sa.mode) - 1) = Summed(sa.chan)]_vars

(* Once the mode has stood for a turn of the memory and the counter is in  *)
(* range, the sum has no sample twice and only samples of the last turn,   *)
(* which is one conversion longer than the sum.                            *)
WindowOfOneTurn ==
    \A c \in Chans :
        ModeOf(c) # 0 /\ lap[c] > SumLen[ModeOf(c)] =>
            Distinct(c) /\ AgesOf(c) \subseteq 0..SumLen[ModeOf(c)]

(* After a switch to a shorter sum the counter may be past the limit it is *)
(* compared with and run away; even then every sample in a sum is at most  *)
(* one turn of the address range old, once the mode has stood for that     *)
(* long.                                                                   *)
SamplesStayFresh ==
    \A c \in Chans : ModeOf(c) # 0 /\ since[c] > Depth =>
                         AgesOf(c) \subseteq 0..Depth
=============================================================================
