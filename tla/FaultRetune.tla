----------------------------- MODULE FaultRetune -----------------------------
(***************************************************************************)
(* The fault detector while software rewrites the count limits: a          *)
(* *_CNTLIM message of control.c writes the limit register at any moment,  *)
(* also while the check it belongs to is counting, and fault_block.vhd     *)
(* compares the counter with the limit for equality.                       *)
(***************************************************************************)
EXTENDS FaultBlock

CONSTANT UnderCap   \* where the history counter stops

ASSUME UnderCapAssumption ==
    UnderCap \in Nat /\ \A i \in Checks, l \in LimitValues : CntMod[i] + l < UnderCap

\* history: ticks check i has been asserted since its limit was written
VARIABLE underLimit

rvars == <<vars, underLimit>>

RetuneInit == Init /\ underLimit = [i \in Checks |-> 0]

UnderNext(written) ==
    underLimit' = [i \in Checks |->
        IF i \in written THEN 0
        ELSE IF ~ten_khz_pulse THEN underLimit[i]
        ELSE IF Asserted(i) THEN Least(underLimit[i] + 1, UnderCap)
        ELSE 0]

Run == Clock /\ UnderNext({})

\* control.c: case OVC1_CNTLIM_MSG and its siblings, one register write
WriteLimit(i, l) ==
    /\ PlantChange /\ UNCHANGED <<clear, park, enable>>
    /\ ClockEdge(FALSE)
    /\ cntlim' = [cntlim EXCEPT ![i] = l]
    /\ UnderNext({i})

RetuneNext == Run \/ \E i \in Checks, l \in LimitValues : WriteLimit(i, l)

RetuneSpec == RetuneInit /\ [][RetuneNext]_rvars

(* A check never goes live before its condition has been asserted at more  *)
(* ticks than the limit in force at that tick, however the limit was       *)
(* rewritten on the way (the equality with the counter).                   *)
NoEarlyTrip ==
    [][\A i \in Checks : i \in fault_reg' \ fault_reg => held'[i] > cntlim[i]]_rvars

(* However the limit was rewritten, a check whose condition persists is    *)
(* live after one wrap of its counter and the limit now in force: lowering *)
(* a limit delays the trip but cannot disable it.                          *)
TripsWithinOneWrap ==
    \A i \in Checks : underLimit[i] > CntMod[i] + cntlim[i] => i \in fault_reg
=============================================================================
