----------------------------- MODULE MCDelivery -----------------------------
(* Small instances of DeliveryClaim: a day of DayLength ticks, awake or     *)
(* asleep throughout.                                                       *)
EXTENDS DeliveryClaim, TLC

CONSTANTS
    DayLength,  \* clock ticks in a day
    FirstHour   \* the tick of the day at which the clock starts

MCHostDate == [t \in 0..MaxTime |-> (FirstHour + t) \div DayLength]
AfterFirst == Date \ {0}
SecondDate == {1}

(* Invocations that name no lane, each within its lease.  With one lane, a *)
(* scoped one differs only asleep, where it ends without a claim.          *)
Unscoped     == \A r \in Run : ~run[r].scoped
UnscopedSpec == Init /\ [][Next /\ Prompt' /\ Unscoped']_vars

RunSymmetry == Permutations(Run)
=============================================================================
