------------------------------ MODULE Snapshot ------------------------------
(***************************************************************************)
(* The snapshot path: the gateware writes one sample per 10 kHz tick into  *)
(* a ring in DDR (adc2ddr.vhd), a trigger latches the address of the       *)
(* current sample (ps_io.vhd), and the snapshot thread polls the latched   *)
(* address, waits for the post-trigger samples, and sends the window       *)
(* around the trigger (snapshots.c).  One trigger source is modelled; the  *)
(* twenty sources of the code are copies of it.                            *)
(*                                                                         *)
(* Addresses are slot numbers: slot i is at BUFSTART + i*160.  Samples     *)
(* have no content; a sample is known by its age in ticks, so the age of   *)
(* what a slot holds follows from the position of the writer.              *)
(***************************************************************************)
EXTENDS Integers, Sequences

CONSTANTS
    RingLen,    \* BUFLEN / BUFSTEPBYTES: the slots the software knows of
    Pre, Post,  \* pretrigpts, posttrigpts
    PollPts,    \* the 1000 points that one poll of 100 ms stands for
    PollGaps,   \* ticks that really pass between two polls
    SendDelay,  \* further ticks a poll may take when it sends
    AgeCap      \* where ages stop counting

ASSUME SnapshotAssumption ==
    /\ RingLen \in Nat \ {0} /\ Pre \in Nat /\ Post \in Nat
    /\ PollPts \in Nat \ {0} /\ Post >= PollPts /\ PollGaps \subseteq Nat \ {0}
    /\ SendDelay \in Nat /\ AgeCap \in Nat /\ AgeCap > RingLen + 1

None == -1   \* the value 0 of the address registers, no slot of the ring

VARIABLES
    addr_base, addr_ptr,        \* adc2ddr: next slot, slot of the last tick
    bufptr, bufAge,             \* latched address; age of its sample
    addr, addr_last, active, postdlycnt,  \* TriggerInfo
    trigAge,                    \* age of the sample at addr
    uptime,                     \* samples written since boot
    sincePoll, gap              \* ticks since the last poll and until the next

writer == <<addr_base, addr_ptr, uptime>>
latch == <<bufptr, bufAge>>
info == <<addr, addr_last, active, postdlycnt, trigAge>>
vars == <<writer, latch, info, sincePoll, gap>>

Init ==
    /\ addr_base = 0 /\ addr_ptr = None /\ uptime = 0
    /\ bufptr = None /\ bufAge = 0
    /\ addr = None /\ addr_last = None /\ active = FALSE
    /\ postdlycnt = 0 /\ trigAge = 0
    /\ sincePoll = 0 /\ gap \in PollGaps

Older(a) == IF a < AgeCap THEN a + 1 ELSE a

-----------------------------------------------------------------------------
\* addr_base < DDR_MAX_ADDR: the slot at DDR_MAX_ADDR itself is used too
NextSlot(i) == IF i < RingLen THEN i + 1 ELSE 0

\* axi4_write_adc: one burst per tick; the bus answers well within a tick
Tick ==
    /\ sincePoll < gap
    /\ addr_ptr' = addr_base
    /\ addr_base' = NextSlot(addr_base)
    /\ uptime' = IF uptime <= RingLen THEN uptime + 1 ELSE uptime
    /\ bufAge' = Older(bufAge) /\ trigAge' = Older(trigAge)
    /\ sincePoll' = sincePoll + 1
    /\ UNCHANGED <<bufptr, addr, addr_last, active, postdlycnt, gap>>

\* a rising edge of the trigger latches the address (ps_io)
Trigger ==
    /\ bufptr' = addr_ptr /\ bufAge' = 0
    /\ UNCHANGED <<writer, info, sincePoll, gap>>

DelayPolls == Post \div PollPts

(* The thread is in time: polls are at most a point short and at most G    *)
(* ticks apart, and the ring is longer than a window and the two waits a   *)
(* trigger may have to sit out.  With the code's numbers (a ring of 200000 *)
(* points, windows of 50000 and 50000, 1000 points to a poll) there is     *)
(* room for polls 40 % late, or for 4.8 s of sending in one turn.          *)
(* SendDelay is all the sending of that turn, the other sources' windows   *)
(* included, up to twenty; what they send in the turns between makes polls *)
(* late (PollGaps).  The code does not enforce any of this: a client that  *)
(* stops reading blocks a send for 5 s (SO_SNDTIMEO).                      *)
Timely(G) ==
    /\ \A g \in PollGaps : PollPts - 1 <= g /\ g <= G
    /\ Pre + (2 * DelayPolls + 1) * G + SendDelay < RingLen

ASSUME TimingAssumption ==
    Post % PollPts = 0 /\ \E G \in 0..RingLen : Timely(G)

Due == active /\ postdlycnt >= DelayPolls

\* Mutant: the latched address is not read again after the first time.
SeenStale == IF active \/ addr # None THEN addr ELSE bufptr

\* CheckforTriggers takes the latched address only while not active
Seen == IF active THEN addr ELSE bufptr

(* One turn of snapshot_push in which nothing is sent: CheckforTriggers    *)
(* and ProcessTrigger.  The turn that takes a trigger up already counts.   *)
Poll ==
    LET start == ~active /\ Seen # addr_last IN
    /\ sincePoll = gap /\ ~Due
    /\ addr' = Seen /\ trigAge' = (IF active THEN trigAge ELSE bufAge)
    /\ active' = (active \/ start)
    /\ addr_last' = (IF start THEN Seen ELSE addr_last)
    /\ postdlycnt' = (IF start THEN 1
                      ELSE IF active THEN postdlycnt + 1 ELSE postdlycnt)
    /\ sincePoll' = 0 /\ gap' \in PollGaps
    /\ UNCHANGED <<writer, bufptr, bufAge>>

\* Mutant: SendWfmData leaves the trigger active.
SendWfmDataStays ==
    /\ sincePoll = gap /\ Due
    /\ active' = TRUE
    /\ sincePoll' = 0 /\ \E d \in 0..SendDelay : \E g \in PollGaps : gap' = g + d
    /\ UNCHANGED <<writer, latch, addr, addr_last, postdlycnt, trigAge>>

\* a turn that sends: SendWfmData clears active, reads the window and sends
SendWfmData ==
    /\ sincePoll = gap /\ Due
    /\ active' = FALSE
    /\ sincePoll' = 0 /\ \E d \in 0..SendDelay : \E g \in PollGaps : gap' = g + d
    /\ UNCHANGED <<writer, latch, addr, addr_last, postdlycnt, trigAge>>

Next == Tick \/ Trigger \/ Poll \/ SendWfmData

(* The tick is hardware and the thread's vTaskDelay always ends.  Nothing  *)
(* is assumed of triggers.                                                 *)
Spec == Init /\ [][Next]_vars /\ WF_vars(Tick) /\ WF_vars(Poll \/ SendWfmData)

-----------------------------------------------------------------------------
(* ReadDMABuf: the slots copied, in order, in three cases.                 *)
Copy(start, n) == [j \in 1..n |-> start + j - 1]

\* Mutant: the second part of a wrapped post-trigger copy starts a slot late.
PostWrapLate(t) ==
    Copy(t - Pre, Pre) \o Copy(t, RingLen - t) \o Copy(1, Post - (RingLen - t))

\* Mutant: a window that does not wrap is read one slot late.
NoWrapLate(t) == Copy(t - Pre + 1, Pre + Post)

PreWrap(t) == Copy(RingLen - (Pre - t), Pre - t) \o Copy(0, t) \o Copy(t, Post)
PostWrap(t) ==
    Copy(t - Pre, Pre) \o Copy(t, RingLen - t) \o Copy(0, Post - (RingLen - t))
NoWrap(t) == Copy(t - Pre, Pre + Post)

ReadDMABuf(t) ==
    IF t - Pre < 0 THEN PreWrap(t)
    ELSE IF t + Post > RingLen THEN PostWrap(t)
    ELSE NoWrap(t)

\* the age of the sample a slot holds: the ring has RingLen + 1 slots
HeldAge(i) == (addr_base - 1 - i) % (RingLen + 1)

\* position j of a window should hold the sample of this age
WantedAge(j) == trigAge + Pre - (j - 1)

(* The positions a snapshot answers for: not those from before boot, nor   *)
(* the last DelayPolls, which polls that come a tick early may leave       *)
(* unwritten.                                                              *)
Positions == {j \in 1..(Pre + Post - DelayPolls) : WantedAge(j) < uptime}

-----------------------------------------------------------------------------
(* What a snapshot sends: every position holds the sample it should, or    *)
(* its neighbour where the window crosses the end of the ring.  Nothing of *)
(* the window is overwritten while the thread waits for the post-trigger   *)
(* samples - not even of a trigger that arrived during the previous        *)
(* snapshot and had to wait for that one.                                  *)
SamplesTrue ==
    [][SendWfmData =>
        \A j \in Positions :
            HeldAge(ReadDMABuf(addr)[j]) - WantedAge(j) \in {-1, 0, 1}]_vars

(* Away from the end of the ring ReadDMABuf returns the samples of the     *)
(* window itself, no neighbour: what lies on the trigger's side of the     *)
(* seam is exact in all three cases of the copy.                           *)
ExactAwayFromSeam ==
    [][SendWfmData =>
        \A j \in Positions :
            addr # RingLen /\ (addr - Pre - 1 + j) \in 0..(RingLen - 1) =>
                HeldAge(ReadDMABuf(addr)[j]) = WantedAge(j)]_vars

(* A latched address that differs from the last one served is taken up,    *)
(* unless a newer trigger replaces it first (CheckforTriggers).            *)
ServedOrSuperseded ==
    \A p \in 0..RingLen :
        (bufptr = p /\ addr_last # p) ~> (bufptr # p \/ (active /\ addr = p))

(* A snapshot that was taken up is sent, and the source is armed again.    *)
SnapshotEnds == active ~> ~active
=============================================================================
