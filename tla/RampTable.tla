----------------------------- MODULE RampTable ------------------------------
(***************************************************************************)
(* The ramp table of a channel: write_ramptable (control.c), the memory it *)
(* fills (dac_dpram) and the generator that plays it, one point per 10 kHz *)
(* tick (ramptable_ramp.vhd).  The states RUN_RAMP and UPDATE_DAC are one  *)
(* clock apart and are one step here.                                      *)
(*                                                                         *)
(* The memory answers two clocks after an address or a word has changed:   *)
(* fetch says whether it has ("done"), is about to, long before the next   *)
(* tick ("due"), or may yet be overtaken by the tick ("just").             *)
(***************************************************************************)
EXTENDS FixedPoint, Sequences

CONSTANTS
    Half,        \* 2^19: 20 bit words
    Depth,       \* 50000 words
    AddrMod,     \* 2^16: addresses and lengths are 16 bits
    Messages,    \* ramp table messages, sequences of points in DAC bits
    RampLens     \* values of the DAC_RAMPLEN message

ASSUME TableAssumption ==
    /\ Half \in Nat \ {0} /\ AddrMod \in Nat /\ Depth \in 1..(AddrMod - 1)
    /\ Messages \subseteq Seq(Int) /\ RampLens \subseteq 0..(AddrMod - 1)

VARIABLES
    table, ramplen,          \* memory and length register
    running, dac_rdaddr, dac_rddata, fetch, ramp_dac_setpt,
    msg, played, clean, raced
    \* history: points written, points of the run, whether nothing was
    \* written since before it, whether a tick overtook its first fetch

tableMem == <<table, ramplen, msg>>
tableGen == <<running, dac_rdaddr, dac_rddata, fetch, ramp_dac_setpt,
              played, raced>>
tableVars == <<tableMem, tableGen, clean>>

TableInit ==
    /\ table = [a \in 0..(Depth - 1) |-> 0] /\ ramplen = 0
    /\ running = FALSE /\ dac_rdaddr = 0 /\ dac_rddata = 0
    /\ fetch = "done" /\ ramp_dac_setpt = 0
    /\ msg = <<>> /\ played = <<>> /\ clean = FALSE /\ raced = FALSE

-----------------------------------------------------------------------------
Write(r, v) == [reg |-> r, val |-> v]

\* the limits are those of 21 bits, the register keeps 20
TableWord(p) ==
    Wrap(IF p > 2 * Half THEN 2 * Half - 1
         ELSE IF p < -(2 * Half) THEN -(2 * Half) ELSE p, Half)

\* the length first, then the points one by one; a long table is refused
write_ramptable(points) ==
    IF Len(points) > Depth THEN <<>>
    ELSE <<Write("ramplen", Len(points))>>
         \o [i \in 1..Len(points) |-> Write("table", <<i - 1, points[i]>>)]

WriteRampLen(n) ==
    /\ ramplen' = n /\ clean' = FALSE
    /\ UNCHANGED <<table, msg, tableGen>>

\* address and data register; the data register's access is the write enable
WriteTable(a, p) ==
    /\ table' = [table EXCEPT ![a] = TableWord(p)]
    /\ msg' = Append(SubSeq(msg, 1, a), p)
    /\ fetch' = IF running /\ a = dac_rdaddr /\ fetch = "done" THEN "just"
                ELSE fetch
    /\ clean' = FALSE
    /\ UNCHANGED <<ramplen, running, dac_rdaddr, dac_rddata, ramp_dac_setpt,
                   played, raced>>

-----------------------------------------------------------------------------
\* Mutants: the address is left where the last run ended; a request restarts
\* a run that is not at its end.
RunRampOn(settled) ==
    /\ IF running THEN UNCHANGED <<tableGen, clean>>
       ELSE /\ running' = TRUE /\ fetch' = "just"
            /\ played' = <<>> /\ raced' = FALSE /\ clean' = settled
            /\ UNCHANGED <<dac_rdaddr, dac_rddata, ramp_dac_setpt>>
    /\ UNCHANGED tableMem

RunRampAgain(settled) ==
    /\ running' = TRUE /\ dac_rdaddr' = 0 /\ fetch' = "just"
    /\ played' = <<>> /\ raced' = FALSE /\ clean' = settled
    /\ UNCHANGED <<dac_rddata, ramp_dac_setpt>>
    /\ UNCHANGED tableMem

(* ramprun, IDLE: only an idle generator takes the request.  settled says  *)
(* that software is not about to write the table.                          *)
RunRamp(settled) ==
    /\ IF running THEN UNCHANGED <<tableGen, clean>>
       ELSE /\ running' = TRUE /\ dac_rdaddr' = 0 /\ fetch' = "just"
            /\ played' = <<>> /\ raced' = FALSE /\ clean' = settled
            /\ UNCHANGED <<dac_rddata, ramp_dac_setpt>>
    /\ UNCHANGED tableMem

\* beyond its depth the memory may put out anything that it holds
Words(a) == IF a < Depth THEN {table[a]}
            ELSE {0} \cup {table[b] : b \in DOMAIN table}

\* the memory is read at every clock of a run, and keeps its output after it
Fetch ==
    /\ running /\ fetch # "done"
    /\ dac_rddata' \in Words(dac_rdaddr) /\ fetch' = "done"
    /\ UNCHANGED <<tableMem, running, dac_rdaddr, ramp_dac_setpt, played,
                   clean, raced>>

\* all but a fetch that just began is done when the tick comes
TickMayCome == running => fetch # "due"

\* the tick of RUN_RAMP and the clock in UPDATE_DAC
TableTick ==
    /\ IF ~running THEN UNCHANGED tableGen
       ELSE IF (dac_rdaddr + 1) % AddrMod > ramplen
       THEN /\ running' = FALSE /\ fetch' = "done"
            /\ UNCHANGED <<dac_rdaddr, dac_rddata, ramp_dac_setpt, played, raced>>
       ELSE /\ dac_rdaddr' = (dac_rdaddr + 1) % AddrMod
            /\ ramp_dac_setpt' = dac_rddata
            /\ played' = IF Len(played) > Depth THEN played
                         ELSE Append(played, dac_rddata)
            /\ raced' = (raced \/ fetch = "just") /\ fetch' = "due"
            /\ UNCHANGED <<running, dac_rddata>>
    /\ UNCHANGED <<tableMem, clean>>

-----------------------------------------------------------------------------
Word20 == -Half..(Half - 1)

TableTypeOK ==
    /\ table \in [0..(Depth - 1) -> Word20] /\ ramplen \in 0..(AddrMod - 1)
    /\ running \in BOOLEAN /\ dac_rdaddr \in 0..(AddrMod - 1)
    /\ dac_rddata \in Word20 /\ fetch \in {"done", "due", "just"}
    /\ ramp_dac_setpt \in Word20
    /\ clean \in BOOLEAN /\ raced \in BOOLEAN

(* A run that begins when the table is complete and during which nothing   *)
(* is written plays the points of the message, each once and in order, for *)
(* points that fit the DAC.  Only the first may be another one, left in    *)
(* the memory's output by an earlier run, when the tick comes in the clock *)
(* after the request (write_ramptable, RunRamp, TableTick).                *)
PlaysTheMessage ==
    [][/\ running /\ ~running' /\ clean
       /\ ramplen <= Len(msg)
       /\ \A i \in 1..ramplen : msg[i] \in Word20
       => /\ Len(played) = ramplen
          /\ \A i \in 1..ramplen : played[i] = msg[i] \/ (i = 1 /\ raced)
      ]_tableVars

(* A run ends whatever requests come in meanwhile, unless the length is    *)
(* the largest number, where the comparison of 16 bits never holds.        *)
TableEnds == running ~> (~running \/ ramplen = AddrMod - 1)
=============================================================================
