---------------------------- MODULE FaultPromise ----------------------------
(***************************************************************************)
(* What the fault detector of a channel promises, without counters, delay  *)
(* lines or edge detectors: a check is live while its condition has been   *)
(* seen at more than its limit of consecutive ticks, a live check latches  *)
(* at once, and only a clear window or a reset takes a latched fault back. *)
(* FaultBlock implements this specification.                               *)
(*                                                                         *)
(* The promise is about every check, bit 7 (fault1) included, because that *)
(* is what the source does.  Two comments ask for something else of bit 7: *)
(* "David wanted this live not latched" (fault_block.vhd:326) and "David   *)
(* wants live" (psc_pkg.vhd:57).  The loop that latches runs over all bits *)
(* (fault_block.vhd:393), and the trip is taken from the latched ones.     *)
(***************************************************************************)
EXTENDS Integers

CONSTANTS Checks, Kept, Cap   \* Kept: checks whose evidence survives a reset

VARIABLES limit,     \* the count limits
          seen,      \* consecutive ticks each condition was seen, up to Cap
          live,      \* the live faults
          latched,   \* the latched faults
          clearing   \* a clear window is open

pvars == <<limit, seen, live, latched, clearing>>

Init ==
    /\ limit \in [Checks -> 0..(Cap - 1)]
    /\ seen = [i \in Checks |-> 0]
    /\ live = {} /\ latched = {} /\ clearing = FALSE

\* what is live latches, unless the clear window empties the latches
Latch == latched' = IF clearing THEN {} ELSE latched \cup live

\* a tick at which the conditions in A are seen; it ends a clear window
\* unless another request arrives with it
Tick(A) ==
    /\ seen' = [i \in Checks |->
                  IF i \notin A \/ clearing THEN 0
                  ELSE IF seen[i] < Cap THEN seen[i] + 1 ELSE Cap]
    /\ live' = {i \in Checks : seen'[i] > limit[i]}
    /\ Latch
    /\ clearing' \in BOOLEAN
    /\ UNCHANGED limit

\* between ticks only latches move and clear requests arrive
Settle ==
    /\ Latch
    /\ clearing' \in {clearing, TRUE}
    /\ UNCHANGED <<limit, seen, live>>

Reset ==
    /\ live' = {} /\ latched' = {}
    /\ seen' = [i \in Checks |->
                  IF i \notin Kept THEN 0
                  ELSE IF seen[i] <= limit[i] THEN seen[i] ELSE limit[i]]
    /\ clearing' \in BOOLEAN
    /\ UNCHANGED limit

Next == (\E A \in SUBSET Checks : Tick(A)) \/ Settle \/ Reset

Spec == Init /\ [][Next]_pvars
=============================================================================
