--------------------------- MODULE SnapshotProofs ---------------------------
(***************************************************************************)
(* Proofs about the snapshots, for every length of the ring, every window  *)
(* and every timing of the polls that TimingAssumption allows.             *)
(***************************************************************************)
EXTENDS Snapshot, SequenceTheorems, TLAPS

-----------------------------------------------------------------------------
(* The inductive invariant.                                                *)

\* the polls that a window waits for, and the ticks between two of them
D == DelayPolls
G == CHOOSE g \in 0..RingLen : Timely(g)

\* ticks since slot i was written, when the next one to be written is b
Back(b, i) == IF i < b THEN b - 1 - i ELSE b + RingLen - i

Types ==
    /\ addr_base \in 0..RingLen /\ active \in BOOLEAN
    /\ addr_ptr \in -1..RingLen /\ bufptr \in -1..RingLen
    /\ addr \in -1..RingLen /\ addr_last \in -1..RingLen
    /\ bufAge \in 0..AgeCap /\ trigAge \in 0..AgeCap
    /\ postdlycnt \in 0..D
    /\ sincePoll \in Nat /\ gap \in Nat /\ sincePoll <= gap

\* nothing is latched before the first tick, and nothing served before that
Booted == /\ addr_ptr = None => bufptr = None
          /\ bufptr = None => addr_last = None

\* a snapshot that is under way; a poll in which something is sent is longer
Busy == IF active
        THEN /\ addr = addr_last /\ addr # None /\ postdlycnt >= 1
             /\ gap \in PollGaps
        ELSE gap <= G + SendDelay

\* the ages say where the writer is, as long as the slot is not overwritten
Placed == /\ addr_ptr # None => Back(addr_base, addr_ptr) = 0
          /\ bufptr # None /\ bufAge <= RingLen => Back(addr_base, bufptr) = bufAge
          /\ active /\ trigAge <= RingLen => Back(addr_base, addr) = trigAge

\* a trigger that is not served yet came after the last one was taken up
Waiting == IF active
           THEN bufptr # addr => bufAge <= (postdlycnt - 1) * G + sincePoll
           ELSE bufptr # addr_last => bufAge <= D * G + sincePoll

\* how long ago the trigger was that is being served
Aged == active =>
    /\ trigAge <= D * G + G + SendDelay + (postdlycnt - 1) * G + sincePoll
    /\ trigAge >= (postdlycnt - 1) * (PollPts - 1) + sincePoll

SnapInv == Types /\ Booted /\ Busy /\ Placed /\ Waiting /\ Aged

-----------------------------------------------------------------------------
(* Numbers.                                                                *)

\* What the assumptions say of the sizes and of the timing.
LEMMA Sizes ==
    /\ RingLen \in Nat \ {0} /\ Pre \in Nat /\ Post \in Nat
    /\ PollPts \in Nat \ {0} /\ SendDelay \in Nat
    /\ AgeCap \in Nat /\ AgeCap > RingLen + 1
    /\ D \in Nat \ {0} /\ D * PollPts = Post
    /\ G \in Nat /\ Pre + 2 * (D * G) + G + SendDelay < RingLen
    /\ \A g \in PollGaps : g \in Nat \ {0} /\ PollPts - 1 <= g /\ g <= G
<1>1. /\ RingLen \in Nat \ {0} /\ Pre \in Nat /\ Post \in Nat
      /\ PollPts \in Nat \ {0} /\ Post >= PollPts /\ PollGaps \subseteq Nat \ {0}
      /\ SendDelay \in Nat /\ AgeCap \in Nat /\ AgeCap > RingLen + 1
  BY SnapshotAssumption DEF SnapshotAssumption
<1>2. D \in Nat \ {0} /\ D * PollPts = Post
  <2>1. Post % PollPts = 0
    BY TimingAssumption DEF TimingAssumption
  <2>2. D = Post \div PollPts
    BY DEF D, DelayPolls
  <2>3. D \in Int /\ Post = D * PollPts
    BY <1>1, <2>1, <2>2, SMTT(30)
  <2>4. D > 0
    BY <1>1, <2>3, SMTT(30)
  <2>5. QED
    BY <2>3, <2>4
<1>3. G \in 0..RingLen /\ Timely(G)
  <2>1. \E g \in 0..RingLen : Timely(g)
    BY TimingAssumption DEF TimingAssumption
  <2>2. QED
    BY <2>1 DEF G
<1>4. /\ \A g \in PollGaps : PollPts - 1 <= g /\ g <= G
      /\ Pre + (2 * D + 1) * G + SendDelay < RingLen
  BY <1>3 DEF Timely, D
<1>5. G \in Nat
  BY <1>1, <1>3
<1>6. (2 * D + 1) * G = 2 * (D * G) + G
  BY <1>2, <1>5
<1>7. Pre + 2 * (D * G) + G + SendDelay < RingLen
  BY <1>1, <1>2, <1>4, <1>5, <1>6
<1>8. QED
  BY <1>1, <1>2, <1>4, <1>5, <1>7

\* A remainder is determined by its range.
LEMMA ModUnique ==
    ASSUME NEW n \in Nat \ {0}, NEW x \in Int, NEW k \in Int,
           NEW r \in 0..(n - 1), x = k * n + r
    PROVE  x % n = r
OBVIOUS

\* A tick makes every slot one older, but the one that is written.
LEMMA BackStep ==
    ASSUME NEW b \in 0..RingLen, NEW i \in 0..RingLen
    PROVE  /\ NextSlot(b) \in 0..RingLen /\ Back(NextSlot(b), b) = 0
           /\ Back(b, i) \in 0..RingLen
           /\ Back(b, i) < RingLen => Back(NextSlot(b), i) = Back(b, i) + 1
BY Sizes DEF Back, NextSlot

\* The age of what a slot holds is the way back to it.
LEMMA HeldIsBack ==
    ASSUME addr_base \in 0..RingLen, NEW i \in 0..RingLen
    PROVE  HeldAge(i) = Back(addr_base, i)
<1> DEFINE n == RingLen + 1
           x == addr_base - 1 - i
<1>1. n \in Nat \ {0} /\ x \in Int /\ n - 1 = RingLen
  BY Sizes
<1>2. Back(addr_base, i) \in 0..(n - 1)
  BY <1>1, BackStep
<1>3. CASE i < addr_base
  <2>1. x = Back(addr_base, i)
    BY <1>1, <1>3 DEF Back
  <2>2. x % n = x
    <3>1. x \in 0..(n - 1)
      BY <1>2, <2>1
    <3> HIDE DEF n, x
    <3> QED BY <1>1, <3>1, SMTT(30)
  <2>3. QED
    BY <2>1, <2>2 DEF HeldAge
<1>4. CASE ~(i < addr_base)
  <2>1. x = (-1) * n + Back(addr_base, i)
    BY <1>1, <1>4, Sizes DEF Back
  <2>2. x % n = Back(addr_base, i)
    <3> HIDE DEF n, x
    <3> QED BY <1>1, <1>2, <2>1, ModUnique
  <2>3. QED
    BY <2>2 DEF HeldAge
<1>5. QED
  BY <1>3, <1>4

\* Ages count up to the cap.
LEMMA OlderStep ==
    ASSUME NEW a \in 0..AgeCap
    PROVE  /\ Older(a) \in 0..AgeCap /\ Older(a) <= a + 1 /\ Older(a) >= a
           /\ Older(a) <= RingLen => Older(a) = a + 1
BY Sizes DEF Older

-----------------------------------------------------------------------------
(* The invariant is inductive.                                             *)

\* It holds at boot.
LEMMA SnapInit ==
    ASSUME Init
    PROVE  SnapInv
<1>1. Types
  <2>1. gap \in Nat \ {0}
    BY Sizes DEF Init
  <2>2. 0 \in 0..RingLen /\ -1 \in -1..RingLen /\ 0 \in 0..AgeCap /\ 0 \in 0..D
    BY Sizes
  <2>3. sincePoll \in Nat /\ sincePoll <= gap
    BY <2>1 DEF Init
  <2>4. active \in BOOLEAN
    BY DEF Init
  <2>5. /\ addr_base \in 0..RingLen /\ addr_ptr \in -1..RingLen
        /\ bufptr \in -1..RingLen /\ addr \in -1..RingLen /\ addr_last \in -1..RingLen
        /\ bufAge \in 0..AgeCap /\ trigAge \in 0..AgeCap /\ postdlycnt \in 0..D
    BY <2>2 DEF Init, None
  <2>6. QED
    BY <2>1, <2>3, <2>4, <2>5 DEF Types
<1>2. Booted /\ Placed /\ Aged
  BY DEF Init, Booted, Placed, Aged, None
<1>3. Busy /\ Waiting
  BY Sizes DEF Init, Busy, Waiting, None
<1>4. QED
  BY <1>1, <1>2, <1>3 DEF SnapInv

\* A tick.
LEMMA TickStep ==
    ASSUME SnapInv, Tick
    PROVE  SnapInv'
<1>1. Types /\ Booted /\ Busy /\ Placed /\ Waiting /\ Aged
  BY DEF SnapInv
<1>2. /\ addr_base \in 0..RingLen /\ bufptr \in -1..RingLen /\ addr \in -1..RingLen
      /\ bufAge \in 0..AgeCap /\ trigAge \in 0..AgeCap /\ postdlycnt \in 0..D
      /\ sincePoll \in Nat /\ gap \in Nat /\ sincePoll < gap
  BY <1>1 DEF Types, Tick
<1>3. /\ addr_ptr' = addr_base /\ addr_base' = NextSlot(addr_base)
      /\ bufAge' = Older(bufAge) /\ trigAge' = Older(trigAge)
      /\ sincePoll' = sincePoll + 1
      /\ UNCHANGED <<bufptr, addr, addr_last, active, postdlycnt, gap>>
  BY DEF Tick
<1>4. /\ bufAge' \in 0..AgeCap /\ bufAge' <= bufAge + 1
      /\ bufAge' <= RingLen => bufAge' = bufAge + 1
  BY <1>2, <1>3, OlderStep
<1>5. /\ trigAge' \in 0..AgeCap /\ trigAge' <= trigAge + 1
      /\ trigAge' <= RingLen => trigAge' = trigAge + 1
  BY <1>2, <1>3, OlderStep
<1>6. Types'
  <2>1. addr_base' \in 0..RingLen /\ addr_ptr' \in -1..RingLen
    BY <1>2, <1>3, BackStep, Sizes
  <2>2. sincePoll' \in Nat /\ sincePoll' <= gap
    BY <1>2, <1>3
  <2>3. QED
    BY <1>1, <1>3, <1>4, <1>5, <2>1, <2>2 DEF Types
<1>7. Booted' /\ Busy'
  <2>1. addr_ptr' # None
    BY <1>2, <1>3, Sizes DEF None
  <2>2. QED
    BY <1>1, <1>3, <2>1 DEF Booted, Busy
<1>8. Placed'
  <2>1. Back(addr_base', addr_ptr') = 0
    BY <1>2, <1>3, BackStep
  <2>2. ASSUME bufptr # None, bufAge' <= RingLen PROVE Back(addr_base', bufptr) = bufAge'
    <3>1. bufptr \in 0..RingLen /\ bufAge <= RingLen /\ bufAge < RingLen
      BY <1>2, <1>4, <2>2, Sizes DEF None
    <3>2. Back(addr_base, bufptr) = bufAge
      BY <1>1, <2>2, <3>1 DEF Placed
    <3>3. Back(NextSlot(addr_base), bufptr) = bufAge + 1
      BY <1>2, <3>1, <3>2, BackStep
    <3>4. QED
      BY <1>3, <1>4, <2>2, <3>3
  <2>3. ASSUME active, trigAge' <= RingLen PROVE Back(addr_base', addr) = trigAge'
    <3>1. addr \in 0..RingLen /\ trigAge <= RingLen /\ trigAge < RingLen
      BY <1>1, <1>2, <1>5, <2>3, Sizes DEF None, Busy
    <3>2. Back(addr_base, addr) = trigAge
      BY <1>1, <2>3, <3>1 DEF Placed
    <3>3. Back(NextSlot(addr_base), addr) = trigAge + 1
      BY <1>2, <3>1, <3>2, BackStep
    <3>4. QED
      BY <1>3, <1>5, <2>3, <3>3
  <2>4. QED
    BY <1>3, <2>1, <2>2, <2>3 DEF Placed
<1>9. (postdlycnt - 1) * G \in Int /\ D * G \in Int
      /\ (postdlycnt - 1) * (PollPts - 1) \in Int
  BY <1>2, Sizes
<1>10. Waiting'
  <2>1. CASE active
    <3>1. bufptr # addr => bufAge' <= (postdlycnt - 1) * G + sincePoll'
      BY <1>1, <1>2, <1>3, <1>4, <1>9, <2>1, Sizes DEF Waiting
    <3>2. QED
      BY <1>3, <2>1, <3>1 DEF Waiting
  <2>2. CASE ~active
    <3>1. bufptr # addr_last => bufAge' <= D * G + sincePoll'
      BY <1>1, <1>2, <1>3, <1>4, <1>9, <2>2, Sizes DEF Waiting
    <3>2. QED
      BY <1>3, <2>2, <3>1 DEF Waiting
  <2>3. QED
    BY <2>1, <2>2
<1>11. Aged'
  <2> SUFFICES ASSUME active
               PROVE  /\ trigAge' <= D * G + G + SendDelay + (postdlycnt - 1) * G + sincePoll'
                      /\ trigAge' >= (postdlycnt - 1) * (PollPts - 1) + sincePoll'
    BY <1>3 DEF Aged
  <2>1. /\ trigAge <= D * G + G + SendDelay + (postdlycnt - 1) * G + sincePoll
        /\ trigAge >= (postdlycnt - 1) * (PollPts - 1) + sincePoll
    BY <1>1 DEF Aged
  <2>2. trigAge' <= D * G + G + SendDelay + (postdlycnt - 1) * G + sincePoll'
    BY <1>2, <1>3, <1>5, <1>9, <2>1, Sizes
  \* the age is below the cap, since the window fits into the ring
  <2>3. trigAge' = trigAge + 1
    <3>1. (postdlycnt - 1) * G <= D * G - G
      BY <1>2, Sizes, SMTT(30)
    <3>2. gap <= G
      BY <1>1, Sizes DEF Busy
    <3>3. trigAge < RingLen
      BY <1>2, <1>9, <2>1, <3>1, <3>2, Sizes
    <3>4. QED
      BY <1>2, <1>3, <3>3, Sizes DEF Older
  <2>4. QED
    BY <1>2, <1>3, <1>9, <2>1, <2>2, <2>3, Sizes
<1>12. QED
  BY <1>6, <1>7, <1>8, <1>10, <1>11 DEF SnapInv

\* A trigger latches the address of the last tick.
LEMMA TriggerStep ==
    ASSUME SnapInv, Trigger
    PROVE  SnapInv'
<1>1. Types /\ Booted /\ Busy /\ Placed /\ Waiting /\ Aged
  BY DEF SnapInv
<1>2. /\ bufptr' = addr_ptr /\ bufAge' = 0
      /\ UNCHANGED <<addr_base, addr_ptr, addr, addr_last, active, postdlycnt,
                     trigAge, sincePoll, gap>>
  BY DEF Trigger, writer, info
<1>3. Types'
  BY <1>1, <1>2, Sizes DEF Types
<1>4. Booted' /\ Busy' /\ Aged'
  BY <1>1, <1>2 DEF Booted, Busy, Aged
<1>5. Placed'
  BY <1>1, <1>2 DEF Placed
<1>6. Waiting'
  <2>1. postdlycnt \in 0..D /\ sincePoll \in Nat
    BY <1>1 DEF Types
  <2>2. 0 <= D * G + sincePoll
    BY <2>1, Sizes, SMTT(30)
  <2>3. active => 0 <= (postdlycnt - 1) * G + sincePoll
    <3>1. active => postdlycnt - 1 \in Nat
      BY <1>1, <2>1, Sizes DEF Busy
    <3>2. ASSUME NEW n \in Nat PROVE n * G \in Nat
      BY Sizes, SMTT(30)
    <3>3. QED
      BY <2>1, <3>1, <3>2
  <2>4. QED
    BY <1>2, <2>2, <2>3 DEF Waiting
<1>7. QED
  BY <1>3, <1>4, <1>5, <1>6 DEF SnapInv

\* A poll in which nothing is sent: a trigger that waits is taken up, and its
\* age is what it waited; one under way is a poll nearer.
LEMMA PollStep ==
    ASSUME SnapInv, Poll
    PROVE  SnapInv'
<1>1. Types /\ Booted /\ Busy /\ Placed /\ Waiting /\ Aged
  BY DEF SnapInv
<1>2. /\ addr_base \in 0..RingLen /\ bufptr \in -1..RingLen /\ addr \in -1..RingLen
      /\ bufAge \in 0..AgeCap /\ trigAge \in 0..AgeCap /\ postdlycnt \in 0..D
      /\ sincePoll \in Nat /\ gap \in Nat /\ sincePoll = gap
  BY <1>1 DEF Types, Poll
<1>3. /\ sincePoll' = 0 /\ gap' \in PollGaps
      /\ UNCHANGED <<addr_base, addr_ptr, bufptr, bufAge>>
  BY DEF Poll, writer
<1>4. gap' \in Nat \ {0} /\ gap' <= G
  BY <1>3, Sizes
<1>5. /\ (1 - 1) * G = 0 /\ (1 - 1) * (PollPts - 1) = 0
      /\ D * G \in Nat
  BY Sizes, SMTT(30)
<1>6. CASE active
  <2>1. /\ addr' = addr /\ trigAge' = trigAge /\ active' = TRUE
        /\ addr_last' = addr_last /\ postdlycnt' = postdlycnt + 1 /\ postdlycnt < D
    <3>1. ~(postdlycnt >= DelayPolls)
      BY <1>6 DEF Poll, Due
    <3>2. postdlycnt < D
      BY <1>2, <3>1, Sizes DEF D
    <3>3. QED
      BY <1>6, <3>2 DEF Poll, Seen
  <2>2. /\ addr = addr_last /\ addr # None /\ postdlycnt >= 1 /\ gap \in PollGaps
        /\ PollPts - 1 <= gap /\ gap <= G
    BY <1>1, <1>6, Sizes DEF Busy
  <2>3. Types'
    <3>1. postdlycnt' \in 0..D /\ sincePoll' \in Nat /\ sincePoll' <= gap' /\ gap' \in Nat
      BY <1>2, <1>3, <1>4, <2>1, Sizes
    <3>2. active' \in BOOLEAN
      BY <2>1
    <3>3. QED
      BY <1>1, <1>3, <2>1, <3>1, <3>2 DEF Types
  <2>4. Booted' /\ Placed'
    BY <1>1, <1>3, <1>6, <2>1 DEF Booted, Placed
  <2>5. Busy'
    <3>1. postdlycnt' >= 1
      BY <1>2, <2>1, <2>2, Sizes
    <3>2. QED
      BY <1>3, <2>1, <2>2, <3>1 DEF Busy
  <2>6. /\ (postdlycnt' - 1) * G = (postdlycnt - 1) * G + G
        /\ (postdlycnt' - 1) * (PollPts - 1) = (postdlycnt - 1) * (PollPts - 1) + PollPts - 1
        /\ (postdlycnt - 1) * G \in Int /\ (postdlycnt - 1) * (PollPts - 1) \in Int
    BY <1>2, <2>1, Sizes, SMTT(30)
  <2>7. Waiting'
    <3>1. bufptr # addr => bufAge <= (postdlycnt - 1) * G + sincePoll
      BY <1>1, <1>6 DEF Waiting
    <3>2. bufptr # addr => bufAge <= (postdlycnt' - 1) * G + sincePoll'
      BY <1>2, <1>3, <2>2, <2>6, <3>1, Sizes
    <3>3. QED
      BY <1>3, <2>1, <3>2 DEF Waiting
  <2>8. Aged'
    <3>1. /\ trigAge <= D * G + G + SendDelay + (postdlycnt - 1) * G + sincePoll
          /\ trigAge >= (postdlycnt - 1) * (PollPts - 1) + sincePoll
      BY <1>1, <1>6 DEF Aged
    <3>2. /\ trigAge' <= D * G + G + SendDelay + (postdlycnt' - 1) * G + sincePoll'
          /\ trigAge' >= (postdlycnt' - 1) * (PollPts - 1) + sincePoll'
      BY <1>2, <1>3, <1>5, <2>1, <2>2, <2>6, <3>1, Sizes
    <3>3. QED
      BY <2>1, <3>2 DEF Aged
  <2>9. QED
    BY <2>3, <2>4, <2>5, <2>7, <2>8 DEF SnapInv
<1>7. CASE ~active /\ bufptr # addr_last
  <2>1. /\ addr' = bufptr /\ trigAge' = bufAge /\ active' = TRUE
        /\ addr_last' = bufptr /\ postdlycnt' = 1
    BY <1>7 DEF Poll, Seen
  <2>2. bufAge <= D * G + G + SendDelay
    <3>1. gap <= G + SendDelay /\ bufAge <= D * G + sincePoll
      BY <1>1, <1>7 DEF Busy, Waiting
    <3>2. QED
      BY <1>2, <1>5, <3>1, Sizes
  <2>3. Types'
    <3>1. postdlycnt' \in 0..D /\ sincePoll' \in Nat /\ sincePoll' <= gap' /\ gap' \in Nat
      BY <1>2, <1>3, <1>4, <2>1, Sizes
    <3>2. active' \in BOOLEAN
      BY <2>1
    <3>3. QED
      BY <1>1, <1>3, <2>1, <3>1, <3>2 DEF Types
  <2>4. bufptr # None
    BY <1>1, <1>7 DEF Booted
  <2>5. Booted' /\ Placed'
    BY <1>1, <1>3, <2>1, <2>4 DEF Booted, Placed
  <2>6. Busy'
    BY <1>3, <2>1, <2>4 DEF Busy
  <2>7. Waiting'
    BY <1>3, <2>1 DEF Waiting
  <2>8. Aged'
    <3>1. /\ trigAge' <= D * G + G + SendDelay + (postdlycnt' - 1) * G + sincePoll'
          /\ trigAge' >= (postdlycnt' - 1) * (PollPts - 1) + sincePoll'
      BY <1>2, <1>3, <1>5, <2>1, <2>2, Sizes
    <3>2. QED
      BY <2>1, <3>1 DEF Aged
  <2>9. QED
    BY <2>3, <2>5, <2>6, <2>7, <2>8 DEF SnapInv
<1>8. CASE ~active /\ bufptr = addr_last
  <2>1. /\ addr' = bufptr /\ trigAge' = bufAge /\ active' = FALSE
        /\ UNCHANGED <<addr_last, postdlycnt>>
    BY <1>1, <1>8 DEF Poll, Seen, Types
  <2>2. Types'
    <3>1. sincePoll' \in Nat /\ sincePoll' <= gap' /\ gap' \in Nat
      BY <1>2, <1>3, <1>4, Sizes
    <3>2. active' \in BOOLEAN
      BY <2>1
    <3>3. QED
      BY <1>1, <1>3, <2>1, <3>1, <3>2 DEF Types
  <2>3. Booted' /\ Placed' /\ Aged'
    BY <1>1, <1>3, <2>1 DEF Booted, Placed, Aged
  <2>4. Busy'
    BY <1>4, <2>1, Sizes DEF Busy
  <2>5. Waiting'
    BY <1>3, <1>8, <2>1 DEF Waiting
  <2>6. QED
    BY <2>2, <2>3, <2>4, <2>5 DEF SnapInv
<1>9. QED
  BY <1>6, <1>7, <1>8

\* A poll that sends: what was latched meanwhile is no older than the wait.
LEMMA SendStep ==
    ASSUME SnapInv, SendWfmData
    PROVE  SnapInv'
<1>1. Types /\ Booted /\ Busy /\ Placed /\ Waiting /\ Aged
  BY DEF SnapInv
<1>2. /\ bufAge \in 0..AgeCap /\ postdlycnt \in 0..D
      /\ sincePoll \in Nat /\ gap \in Nat /\ sincePoll = gap
  BY <1>1 DEF Types, SendWfmData
<1>3. /\ active /\ active' = FALSE /\ sincePoll' = 0
      /\ UNCHANGED <<addr_base, addr_ptr, bufptr, bufAge, addr, addr_last,
                     postdlycnt, trigAge>>
  BY DEF SendWfmData, Due, writer, latch
<1>4. gap' \in Nat /\ gap' <= G + SendDelay
  <2>1. PICK d \in 0..SendDelay, g \in PollGaps : gap' = g + d
    BY DEF SendWfmData
  <2>2. QED
    BY <2>1, Sizes
<1>5. Types'
  <2>1. sincePoll' \in Nat /\ sincePoll' <= gap'
    BY <1>3, <1>4
  <2>2. active' \in BOOLEAN
    BY <1>3
  <2>3. QED
    BY <1>1, <1>3, <1>4, <2>1, <2>2 DEF Types
<1>6. Booted' /\ Placed' /\ Aged' /\ Busy'
  BY <1>1, <1>3, <1>4 DEF Booted, Placed, Aged, Busy
<1>7. Waiting'
  <2>1. /\ addr = addr_last /\ gap <= G
        /\ bufptr # addr => bufAge <= (postdlycnt - 1) * G + sincePoll
    BY <1>1, <1>3, Sizes DEF Busy, Waiting
  <2>2. (postdlycnt - 1) * G <= D * G - G /\ (postdlycnt - 1) * G \in Int /\ D * G \in Int
    BY <1>2, Sizes, SMTT(30)
  <2>3. bufptr # addr_last => bufAge <= D * G + sincePoll'
    BY <1>2, <1>3, <2>1, <2>2, Sizes
  <2>4. QED
    BY <1>3, <2>3 DEF Waiting
<1>8. QED
  BY <1>5, <1>6, <1>7 DEF SnapInv

\* The invariant holds in every state.
THEOREM SnapInvariant == Spec => []SnapInv
<1>1. Init => SnapInv
  BY SnapInit
<1>2. SnapInv /\ [Next]_vars => SnapInv'
  <2> SUFFICES ASSUME SnapInv, [Next]_vars PROVE SnapInv'
    OBVIOUS
  <2>1. CASE Next
    BY <2>1, TickStep, TriggerStep, PollStep, SendStep DEF Next
  <2>2. CASE UNCHANGED vars
    BY <2>2 DEF SnapInv, Types, Booted, Busy, Placed, Waiting, Aged,
                vars, writer, latch, info
  <2>3. QED
    BY <2>1, <2>2
<1>3. QED
  BY <1>1, <1>2, PTL DEF Spec

-----------------------------------------------------------------------------
(* The window.                                                             *)

\* One run of the copy.
LEMMA CopyOf ==
    ASSUME NEW s \in Int, NEW n \in Nat
    PROVE  /\ Copy(s, n) \in Seq(Int) /\ Len(Copy(s, n)) = n
           /\ \A j \in 1..n : Copy(s, n)[j] = s + j - 1
<1>1. Copy(s, n) \in [1..n -> Int] /\ \A j \in 1..n : Copy(s, n)[j] = s + j - 1
  BY DEF Copy
<1>2. Copy(s, n) \in Seq(Int)
  BY <1>1, IsASeq DEF Copy
<1>3. QED
  BY <1>1, <1>2, LenProperties

\* A position in three sequences one after the other.
LEMMA ThreeParts ==
    ASSUME NEW a \in Seq(Int), NEW b \in Seq(Int), NEW c \in Seq(Int),
           NEW j \in 1..(Len(a) + Len(b) + Len(c))
    PROVE  (a \o b \o c)[j] = IF j <= Len(a) THEN a[j]
                              ELSE IF j <= Len(a) + Len(b) THEN b[j - Len(a)]
                              ELSE c[j - Len(a) - Len(b)]
<1> DEFINE ab == a \o b
<1>1. Len(a) \in Nat /\ Len(b) \in Nat /\ Len(c) \in Nat
  BY LenProperties
<1>2. /\ ab \in Seq(Int) /\ Len(ab) = Len(a) + Len(b)
      /\ \A i \in 1..(Len(a) + Len(b)) : ab[i] = IF i <= Len(a) THEN a[i] ELSE b[i - Len(a)]
  BY ConcatProperties
<1> HIDE DEF ab
<1>3. \A i \in 1..(Len(ab) + Len(c)) :
          (ab \o c)[i] = IF i <= Len(ab) THEN ab[i] ELSE c[i - Len(ab)]
  BY <1>2, ConcatProperties
<1>4. (ab \o c)[j] = IF j <= Len(a) THEN a[j]
                     ELSE IF j <= Len(a) + Len(b) THEN b[j - Len(a)]
                     ELSE c[j - Len(a) - Len(b)]
  <2>1. (ab \o c)[j] = IF j <= Len(ab) THEN ab[j] ELSE c[j - Len(ab)]
    BY <1>2, <1>3
  <2>2. CASE j <= Len(ab)
    <3>1. j \in 1..(Len(a) + Len(b))
      BY <1>1, <1>2, <2>2
    <3>2. ab[j] = IF j <= Len(a) THEN a[j] ELSE b[j - Len(a)]
      BY <1>2, <3>1
    <3>3. QED
      BY <1>1, <1>2, <2>1, <2>2, <3>2
  <2>3. CASE ~(j <= Len(ab))
    <3>1. j - Len(ab) = j - Len(a) - Len(b) /\ ~(j <= Len(a))
      BY <1>1, <1>2, <2>3
    <3>2. QED
      BY <1>1, <1>2, <2>1, <2>3, <3>1
  <2>4. QED
    BY <2>2, <2>3
<1>5. QED
  BY <1>4 DEF ab

\* The slot that position j of the window around slot t is read from: p, or
\* RingLen away from it where p is not a slot below the end of the ring.
LEMMA SlotRead ==
    ASSUME NEW t \in 0..RingLen, NEW j \in 1..(Pre + Post), Pre + Post < RingLen
    PROVE  LET p == t - Pre - 1 + j IN
           \/ p \in 0..RingLen /\ ReadDMABuf(t)[j] = p
           \/ p < 0 /\ p + RingLen \in 0..RingLen /\ ReadDMABuf(t)[j] = p + RingLen
           \/ /\ p > RingLen - 1 /\ p - RingLen \in 0..RingLen
              /\ ReadDMABuf(t)[j] = p - RingLen
<1> DEFINE p == t - Pre - 1 + j
<1>1. CASE t - Pre < 0
  <2> DEFINE a == Copy(RingLen - (Pre - t), Pre - t)
             b == Copy(0, t)
             c == Copy(t, Post)
  <2>1. Pre - t \in Nat /\ t \in Nat /\ Post \in Nat /\ RingLen - (Pre - t) \in Int /\ t \in Int
    BY <1>1, Sizes
  <2>2. /\ a \in Seq(Int) /\ Len(a) = Pre - t
        /\ \A i \in 1..(Pre - t) : a[i] = RingLen - (Pre - t) + i - 1
    BY <2>1, CopyOf
  <2>3. /\ b \in Seq(Int) /\ Len(b) = t
        /\ \A i \in 1..(t) : b[i] = 0 + i - 1
    BY <2>1, CopyOf
  <2>4. /\ c \in Seq(Int) /\ Len(c) = Post
        /\ \A i \in 1..(Post) : c[i] = t + i - 1
    BY <2>1, CopyOf
  <2>5. ReadDMABuf(t) = a \o b \o c
    BY <1>1 DEF ReadDMABuf, PreWrap
  <2> HIDE DEF a, b, c
  <2>6. j \in 1..(Len(a) + Len(b) + Len(c))
    BY <1>1, <2>2, <2>3, <2>4, Sizes
  <2>7. ReadDMABuf(t)[j] = IF j <= Len(a) THEN a[j]
                           ELSE IF j <= Len(a) + Len(b) THEN b[j - Len(a)]
                           ELSE c[j - Len(a) - Len(b)]
    <3>1. a \in Seq(Int) /\ b \in Seq(Int) /\ c \in Seq(Int)
      BY <2>2, <2>3, <2>4
    <3>2. (a \o b \o c)[j] = IF j <= Len(a) THEN a[j]
                             ELSE IF j <= Len(a) + Len(b) THEN b[j - Len(a)]
                             ELSE c[j - Len(a) - Len(b)]
      BY ONLY <3>1, <2>6, ThreeParts
    <3>3. QED
      BY ONLY <2>5, <3>2
  <2>8. CASE j <= Pre - t
    <3>1. ReadDMABuf(t)[j] = RingLen - (Pre - t) + j - 1
      BY <1>1, <2>2, <2>7, <2>8, Sizes
    <3>2. QED
      BY <1>1, <2>8, <3>1, Sizes
  <2>9. CASE ~(j <= Pre - t)
    <3>1. CASE j <= Pre
      <4>1. j - (Pre - t) \in 1..t
        BY <1>1, <2>9, <3>1, Sizes
      <4>2. ReadDMABuf(t)[j] = 0 + (j - (Pre - t)) - 1
        BY <1>1, <2>2, <2>3, <2>7, <2>9, <3>1, <4>1, Sizes
      <4>3. QED
        BY <1>1, <2>9, <3>1, <4>2, Sizes
    <3>2. CASE ~(j <= Pre)
      <4>1. j - (Pre - t) - t \in 1..Post
        BY <1>1, <2>9, <3>2, Sizes
      <4>2. ReadDMABuf(t)[j] = t + (j - (Pre - t) - t) - 1
        BY <1>1, <2>2, <2>3, <2>4, <2>7, <2>9, <3>2, <4>1, Sizes
      <4>3. QED
        BY <1>1, <2>9, <3>2, <4>2, Sizes
    <3>3. QED
      BY <3>1, <3>2
  <2>10. QED
    BY <2>8, <2>9
<1>2. CASE ~(t - Pre < 0) /\ t + Post > RingLen
  <2> DEFINE a == Copy(t - Pre, Pre)
             b == Copy(t, RingLen - t)
             c == Copy(0, Post - (RingLen - t))
  <2>1. Pre \in Nat /\ RingLen - t \in Nat /\ Post - (RingLen - t) \in Nat /\ t - Pre \in Int /\ t \in Int
    BY <1>2, Sizes
  <2>2. /\ a \in Seq(Int) /\ Len(a) = Pre
        /\ \A i \in 1..(Pre) : a[i] = t - Pre + i - 1
    BY <2>1, CopyOf
  <2>3. /\ b \in Seq(Int) /\ Len(b) = RingLen - t
        /\ \A i \in 1..(RingLen - t) : b[i] = t + i - 1
    BY <2>1, CopyOf
  <2>4. /\ c \in Seq(Int) /\ Len(c) = Post - (RingLen - t)
        /\ \A i \in 1..(Post - (RingLen - t)) : c[i] = 0 + i - 1
    <3> DEFINE n == Post - (RingLen - t)
    <3>1. n \in Nat
      BY <2>1
    <3> HIDE DEF n
    <3>2. /\ Copy(0, n) \in Seq(Int) /\ Len(Copy(0, n)) = n
          /\ \A i \in 1..n : Copy(0, n)[i] = 0 + i - 1
      <4>1. 0 \in Int
        OBVIOUS
      <4>2. QED
        BY ONLY <3>1, <4>1, CopyOf
    <3>3. QED
      BY <3>2 DEF n
  <2>5. ReadDMABuf(t) = a \o b \o c
    BY <1>2 DEF ReadDMABuf, PostWrap
  <2> HIDE DEF a, b, c
  <2>6. j \in 1..(Len(a) + Len(b) + Len(c))
    BY <1>2, <2>2, <2>3, <2>4, Sizes
  <2>7. ReadDMABuf(t)[j] = IF j <= Len(a) THEN a[j]
                           ELSE IF j <= Len(a) + Len(b) THEN b[j - Len(a)]
                           ELSE c[j - Len(a) - Len(b)]
    <3>1. a \in Seq(Int) /\ b \in Seq(Int) /\ c \in Seq(Int)
      BY <2>2, <2>3, <2>4
    <3>2. (a \o b \o c)[j] = IF j <= Len(a) THEN a[j]
                             ELSE IF j <= Len(a) + Len(b) THEN b[j - Len(a)]
                             ELSE c[j - Len(a) - Len(b)]
      BY ONLY <3>1, <2>6, ThreeParts
    <3>3. QED
      BY ONLY <2>5, <3>2
  <2>8. CASE j <= Pre
    <3>1. ReadDMABuf(t)[j] = t - Pre + j - 1
      BY <1>2, <2>2, <2>7, <2>8, Sizes
    <3>2. QED
      BY <1>2, <2>8, <3>1, Sizes
  <2>9. CASE ~(j <= Pre)
    <3>1. CASE j <= Pre + (RingLen - t)
      <4>1. j - Pre \in 1..(RingLen - t)
        BY <1>2, <2>9, <3>1, Sizes
      <4>2. ReadDMABuf(t)[j] = t + (j - Pre) - 1
        BY <1>2, <2>2, <2>3, <2>7, <2>9, <3>1, <4>1, Sizes
      <4>3. QED
        BY <1>2, <2>9, <3>1, <4>2, Sizes
    <3>2. CASE ~(j <= Pre + (RingLen - t))
      <4>1. j - Pre - (RingLen - t) \in 1..(Post - (RingLen - t))
        BY <1>2, <2>9, <3>2, Sizes
      <4>2. ReadDMABuf(t)[j] = 0 + (j - Pre - (RingLen - t)) - 1
        BY <1>2, <2>2, <2>3, <2>4, <2>7, <2>9, <3>2, <4>1, Sizes
      <4>3. QED
        BY <1>2, <2>9, <3>2, <4>2, Sizes
    <3>3. QED
      BY <3>1, <3>2
  <2>10. QED
    BY <2>8, <2>9
<1>3. CASE ~(t - Pre < 0) /\ ~(t + Post > RingLen)
  <2>1. ReadDMABuf(t) = Copy(t - Pre, Pre + Post)
    BY <1>3 DEF ReadDMABuf, NoWrap
  <2>2. t - Pre \in Int /\ Pre + Post \in Nat
    BY Sizes
  <2>3. ReadDMABuf(t)[j] = t - Pre + j - 1
    BY <2>1, <2>2, CopyOf
  <2>4. QED
    BY <1>3, <2>2, <2>3, Sizes
<1>4. QED
  BY <1>1, <1>2, <1>3

\* When a snapshot is sent, every sample it answers for is written and none
\* is overwritten.
LEMMA InTheRing ==
    ASSUME SnapInv, SendWfmData, NEW j \in Positions
    PROVE  /\ addr \in 0..RingLen /\ addr_base \in 0..RingLen
           /\ j \in 1..(Pre + Post) /\ Pre + Post < RingLen
           /\ trigAge \in Nat /\ Back(addr_base, addr) = trigAge
           /\ 1 <= WantedAge(j) /\ WantedAge(j) < RingLen
<1>1. Types /\ Busy /\ Placed /\ Aged
  BY DEF SnapInv
<1>2. /\ addr_base \in 0..RingLen /\ addr \in -1..RingLen
      /\ trigAge \in 0..AgeCap /\ postdlycnt \in 0..D
      /\ gap \in Nat /\ sincePoll = gap /\ active /\ postdlycnt >= D
  BY <1>1 DEF Types, SendWfmData, Due, D
<1>3. postdlycnt = D /\ trigAge \in Nat
  BY <1>2, Sizes
<1>4. /\ addr \in 0..RingLen /\ gap \in PollGaps /\ gap >= 1
      /\ PollPts - 1 <= gap /\ gap <= G
  BY <1>1, <1>2, Sizes DEF Busy, None
<1>5. /\ trigAge <= D * G + G + SendDelay + (D - 1) * G + gap
      /\ trigAge >= (D - 1) * (PollPts - 1) + gap
  BY <1>1, <1>2, <1>3 DEF Aged
<1>6. /\ (D - 1) * G = D * G - G /\ D * G \in Nat
      /\ (D - 1) * (PollPts - 1) = D * PollPts - D - PollPts + 1
  BY Sizes, SMTT(30)
<1>7. trigAge + Pre < RingLen /\ trigAge >= Post - D
  BY <1>3, <1>4, <1>5, <1>6, Sizes
<1>8. Pre + Post < RingLen
  <2>1. PollPts <= 2 * G
    BY <1>2, <1>4, Sizes
  <2>2. D * PollPts <= D * (2 * G)
    BY <2>1, Sizes, SMTT(30)
  <2>3. D * (2 * G) = 2 * (D * G)
    BY Sizes
  <2>4. QED
    BY <1>6, <2>2, <2>3, Sizes
<1>9. j \in 1..(Pre + Post - D) /\ j \in 1..(Pre + Post)
  BY Sizes DEF Positions, D
<1>10. 1 <= WantedAge(j) /\ WantedAge(j) < RingLen
  BY <1>3, <1>7, <1>9, Sizes DEF WantedAge
<1>11. Back(addr_base, addr) = trigAge
  BY <1>1, <1>2, <1>3, <1>7, Sizes DEF Placed
<1>12. QED
  BY <1>2, <1>3, <1>4, <1>8, <1>9, <1>10, <1>11

\* What is read: the sample itself, or its neighbour beyond the seam.
LEMMA SampleRead ==
    ASSUME SnapInv, SendWfmData, NEW j \in Positions
    PROVE  LET p == addr - Pre - 1 + j IN
           /\ HeldAge(ReadDMABuf(addr)[j]) - WantedAge(j) \in {-1, 0, 1}
           /\ p \in 0..(RingLen - 1) => HeldAge(ReadDMABuf(addr)[j]) = WantedAge(j)
<1> DEFINE p == addr - Pre - 1 + j
           w == WantedAge(j)
<1>1. /\ addr \in 0..RingLen /\ addr_base \in 0..RingLen
      /\ j \in 1..(Pre + Post) /\ Pre + Post < RingLen
      /\ trigAge \in Nat /\ Back(addr_base, addr) = trigAge /\ 1 <= w /\ w < RingLen
  BY InTheRing
<1>2. p \in Int /\ w \in Int /\ w = trigAge + addr - p
  BY <1>1, Sizes DEF WantedAge
<1>3. \/ p \in 0..RingLen /\ ReadDMABuf(addr)[j] = p
      \/ p < 0 /\ p + RingLen \in 0..RingLen /\ ReadDMABuf(addr)[j] = p + RingLen
      \/ /\ p > RingLen - 1 /\ p - RingLen \in 0..RingLen
         /\ ReadDMABuf(addr)[j] = p - RingLen
  BY <1>1, SlotRead
<1> HIDE DEF p, w
<1>4. CASE p \in 0..RingLen /\ ReadDMABuf(addr)[j] = p
  <2>1. Back(addr_base, p) = w
    BY <1>1, <1>2, <1>4, Sizes DEF Back
  <2>2. HeldAge(p) = w
    BY <1>1, <1>4, <2>1, HeldIsBack
  <2>3. QED
    BY <1>2, <1>4, <2>2 DEF p, w
<1>5. CASE p < 0 /\ p + RingLen \in 0..RingLen /\ ReadDMABuf(addr)[j] = p + RingLen
  <2>1. Back(addr_base, p + RingLen) = w + 1
    BY <1>1, <1>2, <1>5, Sizes DEF Back
  <2>2. HeldAge(p + RingLen) = w + 1
    BY <1>1, <1>5, <2>1, HeldIsBack
  <2>3. ~(p \in 0..(RingLen - 1))
    BY <1>2, <1>5
  <2>4. HeldAge(ReadDMABuf(addr)[j]) - w = 1
    BY <1>2, <1>5, <2>2
  <2>5. QED
    BY <2>3, <2>4 DEF p, w
<1>6. CASE /\ p > RingLen - 1 /\ p - RingLen \in 0..RingLen
           /\ ReadDMABuf(addr)[j] = p - RingLen
  <2>1. Back(addr_base, p - RingLen) = w - 1
    BY <1>1, <1>2, <1>6, Sizes DEF Back
  <2>2. HeldAge(p - RingLen) = w - 1
    BY <1>1, <1>6, <2>1, HeldIsBack
  <2>3. ~(p \in 0..(RingLen - 1))
    BY <1>2, <1>6, Sizes
  <2>4. HeldAge(ReadDMABuf(addr)[j]) - w = -1
    BY <1>2, <1>6, <2>2
  <2>5. QED
    BY <2>3, <2>4 DEF p, w
<1>7. QED
  BY <1>3, <1>4, <1>5, <1>6 DEF p, w

(* What snapshots.c sends is, position by position, the sample of the      *)
(* window around the trigger or its neighbour: the writer of adc2ddr.vhd   *)
(* has reached the end of the window and has not come round to its start,  *)
(* even for a trigger that waited for an earlier snapshot.                 *)
THEOREM WindowSent == Spec => SamplesTrue
<1>1. SnapInv /\ [Next]_vars =>
          [SendWfmData => \A j \in Positions :
               HeldAge(ReadDMABuf(addr)[j]) - WantedAge(j) \in {-1, 0, 1}]_vars
  BY SampleRead
<1>2. QED
  BY <1>1, SnapInvariant, PTL DEF Spec, SamplesTrue

(* Away from the end of the ring the three cases of ReadDMABuf return the  *)
(* window itself.                                                          *)
THEOREM WindowExact == Spec => ExactAwayFromSeam
<1>1. SnapInv /\ [Next]_vars =>
          [SendWfmData => \A j \in Positions :
               addr # RingLen /\ (addr - Pre - 1 + j) \in 0..(RingLen - 1) =>
                   HeldAge(ReadDMABuf(addr)[j]) = WantedAge(j)]_vars
  BY SampleRead
<1>2. QED
  BY <1>1, SnapInvariant, PTL DEF Spec, ExactAwayFromSeam
=============================================================================
