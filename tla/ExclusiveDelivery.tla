-------------------------- MODULE ExclusiveDelivery --------------------------
(***************************************************************************)
(* What the delivery claim promises of its slots (ADR 0034), without rows, *)
(* leases or clocks: a slot is worked on by at most one run at a time, a   *)
(* run that gives up frees it, and a delivered slot is delivered for good. *)
(***************************************************************************)
CONSTANTS Run, Slot

VARIABLES
    working,  \* the slot each run works on, if any: {s} or {}
    done      \* the slots recorded as delivered

Init ==
    /\ working = [r \in Run |-> {}]
    /\ done = {}

(* Nobody works on the slot, and it is not delivered yet.                  *)
Take(r, s) ==
    /\ working[r] = {}
    /\ \A q \in Run : s \notin working[q]
    /\ s \notin done
    /\ working' = [working EXCEPT ![r] = {s}]
    /\ UNCHANGED done

Deliver(r, s) ==
    /\ working[r] = {s}
    /\ working' = [working EXCEPT ![r] = {}]
    /\ done' = done \cup {s}

GiveUp(r, s) ==
    /\ working[r] = {s}
    /\ working' = [working EXCEPT ![r] = {}]
    /\ UNCHANGED done

Next == \E r \in Run, s \in Slot : Take(r, s) \/ Deliver(r, s) \/ GiveUp(r, s)

Spec == Init /\ [][Next]_<<working, done>>
=============================================================================
