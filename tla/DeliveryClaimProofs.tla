------------------------- MODULE DeliveryClaimProofs -------------------------
(***************************************************************************)
(* Theorems about DeliveryClaim, for every number of runs, lanes and       *)
(* instants.  Those about Spec hold however long a run takes; those about  *)
(* PromptSpec need runs to stay within their leases.                       *)
(***************************************************************************)
EXTENDS DeliveryClaim, TLAPS

LEMMA ClockFacts ==
    /\ 0 \in Time
    /\ Time \subseteq Nat
    /\ \A t \in Time : hostDate[t] \in Date
    /\ Date \subseteq Nat
BY ConstantAssumption DEF Time, Date

LEMMA SlotFacts ==
    /\ \A d \in Date, l \in Lane : digest(d, l) \in Slot /\ heartbeat(d, l) \in Slot
    /\ \A s \in Slot : s.kind \in {"digest", "heartbeat"} /\ s.date \in Date /\ s.lane \in Lane
BY DEF Slot, digest, heartbeat

LEMMA FreshFacts ==
    /\ Fresh \in RunState
    /\ NoRow \in Row
    /\ ~Fresh.replay
<1>1. digest(hostDate[0], DefaultLane) \in Slot
  BY ClockFacts, SlotFacts, ConstantAssumption
<1>2. Fresh \in RunState /\ ~Fresh.replay
  BY <1>1, ClockFacts, ConstantAssumption DEF Fresh, RunState
<1>3. NoRow \in Row
  BY ClockFacts DEF NoRow, Row, NotSent
<1> QED BY <1>2, <1>3

-----------------------------------------------------------------------------
(* Every variable stays in its range, whatever the runs do: in particular  *)
(* there always is a live default lane, and every accepted message is filed   *)
(* under the key of what it was composed for.                              *)
THEOREM TypeCorrect == Spec => []TypeOK
<1>1. Init => TypeOK
  BY ClockFacts, FreshFacts, ConstantAssumption DEF Init, TypeOK, Phase
<1>2. TypeOK /\ [Next]_vars => TypeOK'
  <2> SUFFICES ASSUME TypeOK, [Next]_vars PROVE TypeOK'
    OBVIOUS
  <2> USE ClockFacts, SlotFacts, FreshFacts
  <2>1. ASSUME NEW r \in Run, NEW l \in Lane, NEW scoped \in BOOLEAN, NEW forced \in BOOLEAN,
               Start(r, l, scoped, forced)
        PROVE  TypeOK'
    <3>1. run' \in [Run -> RunState]
      <4>1. run[r] \in RunState /\ now \in Time
        BY DEF TypeOK
      <4>2. [run[r] EXCEPT !.at = now, !.lane = l, !.scoped = scoped, !.forced = forced]
              \in RunState
        BY <4>1 DEF RunState
      <4>3. run' = [run EXCEPT ![r] =
                      [run[r] EXCEPT !.at = now, !.lane = l,
                                     !.scoped = scoped, !.forced = forced]]
        BY <2>1, Zenon DEF Start, TypeOK
      <4> QED BY <4>2, <4>3 DEF TypeOK
    <3>2. pc' \in [Run -> Phase]
      BY <2>1 DEF TypeOK, Start, Goto, Phase
    <3>3. now' = now /\ row' = row /\ mailbox' = mailbox
          /\ deleted' = deleted /\ default' = default
      BY <2>1 DEF Start
    <3> QED BY <3>1, <3>2, <3>3 DEF TypeOK
  <2>2. ASSUME NEW r \in Run, RunStep(r) PROVE TypeOK'
    <3>1. run[r] \in RunState /\ run[r].slot \in Slot /\ run[r].at \in Time /\ run[r].lane \in Lane
      BY DEF TypeOK, RunState
    <3>2. row[run[r].slot] \in Row
      BY <3>1 DEF TypeOK
    <3> HIDE DEF Phase
    <3>a. ASSUME EndRun(r), UNCHANGED <<now, deleted, default, mailbox>>, row' \in [Slot -> Row]
          PROVE  TypeOK'
      BY <3>a DEF TypeOK, EndRun, Goto, Phase
    <3>b. ASSUME Finish(r), UNCHANGED <<now, deleted, default, mailbox>>, row' \in [Slot -> Row]
          PROVE  TypeOK'
      BY <3>a, <3>b DEF TypeOK, Finish, Goto, Phase
    <3>c. ASSUME NEW ph \in Phase, Goto(r, ph), UNCHANGED <<now, deleted, default>>,
                 row' \in [Slot -> Row], run' \in [Run -> RunState],
                 UNCHANGED mailbox
          PROVE  TypeOK'
      BY <3>c DEF TypeOK, Goto
    <3>d. run \in [Run -> RunState] /\ row \in [Slot -> Row]
      BY DEF TypeOK
    <3>3. CASE ResolveLane(r)
      <4>1. CASE EndRun(r)
        BY <4>1, <3>3, <3>a, <3>d DEF ResolveLane
      <4>2. ASSUME NEW l \in Lane, run' = [run EXCEPT ![r].lane = l], Goto(r, "today")
            PROVE  TypeOK'
        <5>1. run' \in [Run -> RunState]
          BY <3>d, <4>2 DEF RunState
        <5> QED BY <3>3, <3>c, <3>d, <4>2, <5>1 DEF ResolveLane, Phase
      <4>3. ASSUME NEW l \in Lane, NEW d \in Date, Goto(r, "claim"),
                   run' = [run EXCEPT ![r].lane = l, ![r].catchUp = TRUE, ![r].slot = digest(d, l)]
            PROVE  TypeOK'
        <5>1. run' \in [Run -> RunState]
          BY <3>d, <4>3 DEF RunState
        <5> QED BY <3>3, <3>c, <3>d, <4>3, <5>1 DEF ResolveLane, Phase
      <4>4. default \in Lane
        BY DEF TypeOK
      <4>5. \A l, t : findOrphanedDigestDate(l, t) \subseteq Date
        BY DEF findOrphanedDigestDate, OrphanedDates
      <4> QED BY <3>1, <3>3, <4>1, <4>2, <4>3, <4>4, <4>5 DEF ResolveLane
    <3>4. CASE DecideToday(r)
      <4>1. CASE EndRun(r)
        BY <4>1, <3>4, <3>a, <3>d DEF DecideToday
      <4>2. CASE Goto(r, "claim") /\ run' \in [Run -> RunState]
        BY <4>2, <3>4, <3>c, <3>d DEF DecideToday, Phase
      <4>3. ASSUME NEW s \in Slot,
                   run' = [run EXCEPT ![r].catchUp = FALSE, ![r].attempt = 0, ![r].slot = s]
            PROVE  run' \in [Run -> RunState]
        BY <3>d, <4>3 DEF RunState
      <4> QED BY <3>1, <3>4, <4>1, <4>2, <4>3 DEF DecideToday
    <3>5. CASE ClaimRefused(r)
      BY <3>5, <3>b, <3>d DEF ClaimRefused
    <3>6. CASE ClaimReplay(r)
      <4>1. run' \in [Run -> RunState]
        BY <3>6, <3>d DEF ClaimReplay, RunState
      <4> QED BY <3>6, <3>c, <3>d, <4>1 DEF ClaimReplay, Phase
    <3>7. CASE ClaimSlot(r)
      <4>1. NextAttempt(row[run[r].slot]) \in Nat
        BY <3>2 DEF NextAttempt, Row
      <4>2. run' \in [Run -> RunState]
        BY <3>7, <3>d, <4>1 DEF ClaimSlot, RunState
      <4>3. row' \in [Slot -> Row]
        BY <3>1, <3>7, <3>d, <4>1 DEF ClaimSlot, Row
      <4> QED BY <3>7, <3>c, <3>d, <4>2, <4>3 DEF ClaimSlot, Phase
    <3>8. CASE LookUp(r) \/ Send(r) \/ SendReturns(r) \/ SendThrows(r)
      BY <3>8, <3>c, <3>d DEF LookUp, Send, SendReturns, SendThrows, Phase
    <3>9. CASE ProviderAccepts(r)
      BY <3>1, <3>9 DEF ProviderAccepts, TypeOK, Goto, Phase
    <3>10. ASSUME NEW st \in {"sent", "failed"}, NEW at \in Time \cup {NotSent},
                  SettleRow(r, st, at)
           PROVE  row' \in [Slot -> Row]
      BY <3>1, <3>d, <3>10 DEF SettleRow, Row
    <3>11. CASE settleSent(r) \/ settleFailed(r) \/ settleReconciled(r)
      BY <3>1, <3>10, <3>11, <3>b DEF settleSent, settleFailed, settleReconciled
    <3> QED BY <2>2, <3>3, <3>4, <3>5, <3>6, <3>7, <3>8, <3>9, <3>11 DEF RunStep
  <2>3. ASSUME NEW r \in Run, Crash(r) PROVE TypeOK'
    BY <2>3 DEF Crash, EndRun, Goto, TypeOK, Phase
  <2>4. ASSUME NEW l \in Lane, OnDemandReport(l) PROVE TypeOK'
    BY <2>4 DEF OnDemandReport, TypeOK
  <2>5. ASSUME NEW l \in Lane, DeleteLane(l) PROVE TypeOK'
    BY <2>5 DEF DeleteLane, TypeOK
  <2>d. ASSUME NEW l \in Lane, SetDefault(l) PROVE TypeOK'
    BY <2>d DEF SetDefault, TypeOK
  <2>6. ASSUME NEW t \in Time, reapDeadLaneClaims(t) PROVE TypeOK'
    BY <2>6 DEF reapDeadLaneClaims, TypeOK, Row
  <2>7. CASE AdvanceClock
    BY <2>7, ConstantAssumption DEF AdvanceClock, TypeOK, Time
  <2>8. CASE UNCHANGED vars
    BY <2>8 DEF vars, TypeOK
  <2> QED BY <2>1, <2>2, <2>3, <2>4, <2>5, <2>d, <2>6, <2>7, <2>8 DEF Next
<1> QED BY <1>1, <1>2, PTL DEF Spec

-----------------------------------------------------------------------------
(* What a step of run r does to r's claim: keeps it, takes one, settles it *)
(* or has none afterwards.                                                 *)
KeepsClaim(r) ==
    /\ Holds(r) /\ Holds(r)'
    /\ run'[r] = run[r]
    /\ row' = row

TakesClaim(r) ==
    LET s == run[r].slot
    IN  /\ ~Holds(r) /\ Holds(r)'
        /\ ~ClaimedByAnother(r) /\ ~HeartbeatTooSoon(r) /\ ~AlreadySent(r)
        /\ run'[r].slot = s /\ run'[r].at = run[r].at
        /\ run'[r].attempt = NextAttempt(row[s])
        /\ row' = [row EXCEPT ![s].status = "sending", ![s].claimedAt = run[r].at,
                              ![s].attemptCount = NextAttempt(row[s])]

SettlesClaim(r) ==
    /\ Holds(r) /\ ~Holds(r)'
    /\ \E st \in {"sent", "failed"}, at \in Time \cup {NotSent} :
          /\ st = "sent" => at = run[r].at
          /\ row' = [row EXCEPT ![run[r].slot].status = st, ![run[r].slot].sentAt = at]

HasNoClaim(r) == ~Holds(r)' /\ row' = row

OthersUnmoved(r) ==
    \A q \in Run \ {r} : pc'[q] = pc[q] /\ run'[q] = run[q]

(* The steps that belong to a run.                                         *)
StepOf(r) ==
    \/ \E l \in Lane, scoped, forced \in BOOLEAN : Start(r, l, scoped, forced)
    \/ RunStep(r)
    \/ Crash(r)

LEMMA StepShape ==
    ASSUME TypeOK, NEW r \in Run, StepOf(r)
    PROVE  /\ OthersUnmoved(r)
           /\ now' = now /\ deleted' = deleted
           /\ KeepsClaim(r) \/ TakesClaim(r) \/ SettlesClaim(r) \/ HasNoClaim(r)
<1> DEFINE Shape == /\ OthersUnmoved(r)
                    /\ now' = now /\ deleted' = deleted
                    /\ KeepsClaim(r) \/ TakesClaim(r) \/ SettlesClaim(r) \/ HasNoClaim(r)
<1>0. /\ run[r] \in RunState /\ pc[r] \in Phase
      /\ run \in [Run -> RunState] /\ pc \in [Run -> Phase] /\ row \in [Slot -> Row]
      /\ run[r].at \in Time
  BY DEF TypeOK, RunState
<1>a. ASSUME EndRun(r), UNCHANGED <<now, row, deleted>> PROVE Shape
  BY <1>0, <1>a DEF EndRun, Goto, OthersUnmoved, HasNoClaim, Holds
<1>b. ASSUME Finish(r), UNCHANGED <<now, row, deleted>> PROVE Shape
  BY <1>0, <1>a, <1>b DEF Finish, Goto, OthersUnmoved, HasNoClaim, Holds
<1>c. ASSUME NEW ph \in {"resolve", "claim", "today"}, Goto(r, ph),
             UNCHANGED <<now, row, deleted>>, \A q \in Run \ {r} : run'[q] = run[q]
      PROVE  Shape
  BY <1>0, <1>c DEF Goto, OthersUnmoved, HasNoClaim, Holds
<1>1. ASSUME NEW l \in Lane, NEW scoped \in BOOLEAN, NEW forced \in BOOLEAN,
             Start(r, l, scoped, forced)
      PROVE  Shape
  BY <1>0, <1>1, <1>c DEF Start
<1>2. CASE ResolveLane(r)
  <2>1. CASE EndRun(r)
    BY <1>2, <1>a, <2>1 DEF ResolveLane
  <2>2. ASSUME NEW ph \in {"claim", "today"}, Goto(r, ph),
               \A q \in Run \ {r} : run'[q] = run[q]
        PROVE  Shape
    BY <1>2, <1>c, <2>2 DEF ResolveLane
  <2> QED BY <1>0, <1>2, <2>1, <2>2 DEF ResolveLane
<1>3. CASE DecideToday(r)
  BY <1>0, <1>3, <1>a, <1>c DEF DecideToday
<1>4. CASE ClaimRefused(r)
  BY <1>4, <1>b DEF ClaimRefused
<1>5. CASE ClaimReplay(r)
  BY <1>0, <1>5 DEF ClaimReplay, Goto, OthersUnmoved, HasNoClaim, Holds, RunState
<1>6. CASE ClaimSlot(r)
  <2>1. pc[r] = "claim" /\ ~Holds(r)
    BY <1>6 DEF ClaimSlot, Holds
  <2>2. run'[r] = [run[r] EXCEPT !.replay = FALSE, !.attempt = NextAttempt(row[run[r].slot])]
    BY <1>0, <1>6 DEF ClaimSlot
  <2>3. Holds(r)'
    BY <1>0, <1>6, <2>2 DEF ClaimSlot, Goto, Holds, RunState
  <2>4. OthersUnmoved(r)
    BY <1>0, <1>6 DEF ClaimSlot, Goto, OthersUnmoved
  <2>5. TakesClaim(r)
    BY <1>0, <1>6, <2>1, <2>2, <2>3 DEF ClaimSlot, TakesClaim, RunState
  <2> QED BY <1>6, <2>4, <2>5 DEF ClaimSlot
<1>7. CASE LookUp(r) \/ Send(r) \/ ProviderAccepts(r) \/ SendReturns(r) \/ SendThrows(r)
  <2>1. /\ run' = run /\ row' = row /\ now' = now /\ deleted' = deleted
        /\ \E ph \in {"reconciled", "compose", "provider", "accepted", "delivered", "rejected"} :
              pc' = [pc EXCEPT ![r] = ph]
        /\ pc[r] \in {"lookup", "compose", "provider", "accepted"}
    BY <1>7 DEF LookUp, Send, ProviderAccepts, SendReturns, SendThrows, Goto
  <2> QED BY <1>0, <2>1 DEF OthersUnmoved, KeepsClaim, HasNoClaim, Holds
<1>8. CASE settleSent(r) \/ settleFailed(r) \/ settleReconciled(r)
  <2>1. /\ Finish(r) /\ now' = now /\ deleted' = deleted
        /\ pc[r] \in {"delivered", "rejected", "reconciled"}
        /\ \E st \in {"sent", "failed"}, at \in Time \cup {NotSent} :
              (st = "sent" => at = run[r].at) /\ SettleRow(r, st, at)
    BY <1>0, <1>8 DEF settleSent, settleFailed, settleReconciled
  <2>2. OthersUnmoved(r) /\ ~Holds(r)'
    BY <1>0, <2>1 DEF Finish, EndRun, Goto, OthersUnmoved, Holds
  <2>3. CASE run[r].replay
    BY <2>1, <2>2, <2>3 DEF SettleRow, HasNoClaim
  <2>4. CASE ~run[r].replay
    BY <2>1, <2>2, <2>4 DEF SettleRow, SettlesClaim, Holds
  <2> QED BY <2>3, <2>4
<1>9. CASE Crash(r)
  BY <1>9, <1>a DEF Crash
<1> QED BY <1>1, <1>2, <1>3, <1>4, <1>5, <1>6, <1>7, <1>8, <1>9 DEF StepOf, RunStep

(* A step is a run's, the dead-lane sweep's, or leaves rows and runs alone *)
(* (time only moving forward).                                             *)
LEMMA NextShape ==
    ASSUME Next
    PROVE  \/ \E r \in Run : StepOf(r)
           \/ \E t \in Time : reapDeadLaneClaims(t)
           \/ UNCHANGED <<row, pc, run, now>>
           \/ UNCHANGED <<row, pc, run>> /\ AdvanceClock
BY DEF Next, StepOf, OnDemandReport, DeleteLane, SetDefault, AdvanceClock

(* The instant a run froze is never in the future.                         *)
Frozen == \A r \in Run : run[r].at <= now

LEMMA FrozenCorrect == Spec => []Frozen
<1>1. Init => Frozen
  BY ClockFacts DEF Init, Frozen, Fresh
<1>2. TypeOK /\ Frozen /\ [Next]_vars => Frozen'
  <2> SUFFICES ASSUME TypeOK, Frozen, [Next]_vars PROVE Frozen'
    OBVIOUS
  <2>0. /\ now \in Nat /\ run \in [Run -> RunState]
        /\ \A r \in Run : run[r].at \in Nat
    BY ClockFacts DEF TypeOK, RunState
  <2>1. ASSUME NEW r \in Run, StepOf(r) PROVE Frozen'
    <3>1. now' = now /\ OthersUnmoved(r)
      BY <2>1, StepShape
    <3>2. run'[r].at \in {now, 0, run[r].at}
      <4>1. CASE EndRun(r)
        BY <2>0, <4>1 DEF EndRun, Fresh
      <4>2. CASE run' = run
        BY <4>2
      <4>3. CASE Crash(r)
        BY <4>1, <4>3 DEF Crash
      <4>4. ASSUME NEW l \in Lane, NEW scoped \in BOOLEAN, NEW forced \in BOOLEAN,
                   Start(r, l, scoped, forced)
            PROVE  run'[r].at \in {now, 0, run[r].at}
        <5>1. run'[r] = [run[r] EXCEPT !.at = now, !.lane = l,
                                       !.scoped = scoped, !.forced = forced]
          BY <2>0, <4>4, Zenon DEF Start
        <5> QED BY <2>0, <5>1 DEF RunState
      <4>5. CASE RunStep(r)
        BY <2>0, <4>1, <4>2, <4>5
        DEF RunStep, ResolveLane, DecideToday, ClaimRefused, ClaimReplay, ClaimSlot, LookUp,
            Send, ProviderAccepts, SendReturns, SendThrows, settleSent, settleFailed,
            settleReconciled, Finish, RunState
      <4> QED BY <2>1, <4>3, <4>4, <4>5 DEF StepOf
    <3> QED BY <2>0, <3>1, <3>2 DEF OthersUnmoved, Frozen
  <2>2. ASSUME NEW t \in Time, reapDeadLaneClaims(t) PROVE Frozen'
    BY <2>2 DEF reapDeadLaneClaims, Frozen
  <2>3. CASE UNCHANGED <<row, pc, run, now>>
    BY <2>3 DEF Frozen
  <2>4. CASE UNCHANGED <<row, pc, run>> /\ AdvanceClock
    BY <2>0, <2>4 DEF AdvanceClock, Frozen
  <2> QED BY <2>1, <2>2, <2>3, <2>4, NextShape DEF vars
<1> QED BY <1>1, <1>2, TypeCorrect, PTL DEF Spec

-----------------------------------------------------------------------------
(* Runs that hold a claim on one slot, one of them past its lease, hold    *)
(* different attempts of it, and the row counts the highest.               *)
AttemptsDistinct ==
    \A p, q \in Run :
        Holds(p) =>
          /\ run[p].attempt \in 1..row[run[p].slot].attemptCount
          /\ Holds(q) /\ p # q /\ run[p].slot = run[q].slot
                => run[p].attempt # run[q].attempt

LEMMA AttemptsStayDistinct == Spec => []AttemptsDistinct
<1>1. Init => AttemptsDistinct
  BY DEF Init, AttemptsDistinct, Holds
<1>2. TypeOK /\ AttemptsDistinct /\ [Next]_vars => AttemptsDistinct'
  <2> SUFFICES ASSUME TypeOK, AttemptsDistinct, [Next]_vars PROVE AttemptsDistinct'
    OBVIOUS
  <2>0. /\ run \in [Run -> RunState] /\ row \in [Slot -> Row]
        /\ \A r \in Run : run[r].slot \in Slot /\ run[r].attempt \in Nat
        /\ \A s \in Slot : row[s].attemptCount \in Nat
    BY DEF TypeOK, RunState, Row
  <2>1. ASSUME NEW r \in Run, StepOf(r) PROVE AttemptsDistinct'
    <3>1. /\ OthersUnmoved(r)
          /\ \A q \in Run \ {r} : Holds(q)' = Holds(q)
      BY <2>1, StepShape DEF OthersUnmoved, Holds
    <3>2. CASE KeepsClaim(r)
      BY <2>0, <3>1, <3>2 DEF KeepsClaim, AttemptsDistinct, OthersUnmoved
    <3>3. CASE TakesClaim(r)
      <4> DEFINE s == run[r].slot
                 n == row[s].attemptCount
      <4>1. /\ run'[r].slot = s /\ run'[r].attempt = n + 1
            /\ row'[s].attemptCount = n + 1
            /\ \A u \in Slot \ {s} : row'[u] = row[u]
        BY <2>0, <3>3 DEF TakesClaim, NextAttempt
      <4>2. \A q \in Run \ {r} : Holds(q) /\ run[q].slot = s => run[q].attempt \in 1..n
        BY <2>0 DEF AttemptsDistinct
      <4> QED BY <2>0, <3>1, <4>1, <4>2 DEF AttemptsDistinct, OthersUnmoved
    <3>4. CASE SettlesClaim(r)
      <4>1. \A u \in Slot : row'[u].attemptCount = row[u].attemptCount
        BY <2>0, <3>4 DEF SettlesClaim, Row
      <4> QED BY <2>0, <3>1, <3>4, <4>1 DEF SettlesClaim, AttemptsDistinct, OthersUnmoved
    <3>5. CASE HasNoClaim(r)
      BY <2>0, <3>1, <3>5 DEF HasNoClaim, AttemptsDistinct, OthersUnmoved
    <3> QED BY <2>1, <3>2, <3>3, <3>4, <3>5, StepShape
  <2>2. ASSUME NEW t \in Time, reapDeadLaneClaims(t) PROVE AttemptsDistinct'
    <3>1. \A u \in Slot : row'[u].attemptCount = row[u].attemptCount
      BY <2>0, <2>2 DEF reapDeadLaneClaims, Row
    <3> QED BY <2>0, <2>2, <3>1 DEF reapDeadLaneClaims, AttemptsDistinct, Holds
  <2>3. CASE UNCHANGED <<row, pc, run>>
    BY <2>3 DEF AttemptsDistinct, Holds
  <2> QED BY <2>1, <2>2, <2>3, NextShape DEF vars
<1> QED BY <1>1, <1>2, TypeCorrect, PTL DEF Spec

(* Nobody is left with a claim on a slot delivered at its first attempt.   *)
FirstDelivered(s) == row[s].status = "sent" /\ row[s].attemptCount = 1

NobodyLeft ==
    \A r \in Run : Holds(r) => ~FirstDelivered(run[r].slot)

(* A late settle can only rewrite what was taken over: a slot delivered at *)
(* its first attempt keeps its record, however long any run takes.         *)
THEOREM FirstDeliveriesStay == Spec => FirstDeliveryIsFinal
<1> DEFINE Step == \A s \in Slot : FirstDelivered(s) => row'[s] = row[s]
<1>1. Init => NobodyLeft
  BY DEF Init, NobodyLeft, Holds
<1>2. TypeOK /\ AttemptsDistinct /\ NobodyLeft /\ [Next]_vars => NobodyLeft' /\ Step
  <2> SUFFICES ASSUME TypeOK, AttemptsDistinct, NobodyLeft, [Next]_vars
               PROVE  NobodyLeft' /\ Step
    OBVIOUS
  <2>0. /\ row \in [Slot -> Row]
        /\ \A r \in Run : run[r].slot \in Slot /\ run[r].attempt \in Nat
        /\ \A s \in Slot : row[s].attemptCount \in Nat
    BY DEF TypeOK, RunState, Row
  <2>1. ASSUME NEW r \in Run, StepOf(r) PROVE NobodyLeft' /\ Step
    <3> DEFINE s == run[r].slot
    <3>1. \A q \in Run \ {r} : Holds(q)' = Holds(q) /\ run'[q] = run[q]
      BY <2>1, StepShape DEF OthersUnmoved, Holds
    <3>2. CASE KeepsClaim(r) \/ HasNoClaim(r)
      BY <3>1, <3>2 DEF KeepsClaim, HasNoClaim, NobodyLeft, FirstDelivered
    <3>3. CASE TakesClaim(r)
      <4>1. /\ row[s].status # "sent" /\ row'[s].status = "sending"
            /\ \A u \in Slot \ {s} : row'[u] = row[u]
            /\ run'[r].slot = s
        BY <2>0, <3>3 DEF TakesClaim, AlreadySent, Row
      <4> QED BY <2>0, <3>1, <4>1 DEF NobodyLeft, FirstDelivered
    <3>4. CASE SettlesClaim(r)
      <4>1. /\ row'[s].attemptCount = row[s].attemptCount
            /\ \A u \in Slot \ {s} : row'[u] = row[u]
            /\ Holds(r) /\ ~Holds(r)'
        BY <2>0, <3>4 DEF SettlesClaim, Row
      <4>2. Step
        BY <2>0, <4>1 DEF NobodyLeft
      <4>3. ASSUME NEW q \in Run \ {r}, Holds(q), run[q].slot = s
            PROVE  row[s].attemptCount # 1
        BY <2>0, <4>1, <4>3 DEF AttemptsDistinct
      <4>4. NobodyLeft'
        BY <2>0, <3>1, <4>1, <4>3 DEF NobodyLeft, FirstDelivered
      <4> QED BY <4>2, <4>4
    <3> QED BY <2>1, <3>2, <3>3, <3>4, StepShape
  <2>2. ASSUME NEW t \in Time, reapDeadLaneClaims(t) PROVE NobodyLeft' /\ Step
    <3>1. \A u \in Slot : row'[u] = row[u] \/ (row[u].status = "sending" /\ row'[u].status = "failed")
      BY <2>0, <2>2 DEF reapDeadLaneClaims, DeadLaneClaims, Row
    <3>2. UNCHANGED <<pc, run>>
      BY <2>2 DEF reapDeadLaneClaims
    <3> QED BY <2>0, <3>1, <3>2 DEF NobodyLeft, FirstDelivered, Holds
  <2>3. CASE UNCHANGED <<row, pc, run>>
    BY <2>3 DEF NobodyLeft, FirstDelivered, Holds
  <2> QED BY <2>1, <2>2, <2>3, NextShape DEF vars
<1>3. TypeOK /\ AttemptsDistinct /\ NobodyLeft /\ [Next]_vars => [Step]_vars
  BY <1>2
<1>4. [Step]_vars => [\A s \in Slot :
          row[s].status = "sent" /\ row[s].attemptCount = 1 => row'[s] = row[s]]_vars
  BY DEF FirstDelivered
<1> QED BY <1>1, <1>2, <1>3, <1>4, TypeCorrect, AttemptsStayDistinct, PTL
        DEF Spec, FirstDeliveryIsFinal

(* Nobody takes over a claim that is younger than the lease by the real    *)
(* clock: freezing the instant can only make a taker more patient.         *)
THEOREM LiveLeaseHonoured == Spec => LiveLeaseRespected
<1> DEFINE Step == \A s \in Slot :
          row[s].status = "sending" /\ now - row[s].claimedAt < LEASE_MS
            => row'[s].attemptCount = row[s].attemptCount
<1>1. TypeOK /\ Frozen /\ [Next]_vars => [Step]_vars
  <2> SUFFICES ASSUME TypeOK, Frozen, [Next]_vars PROVE Step
    OBVIOUS
  <2>0. /\ run \in [Run -> RunState] /\ row \in [Slot -> Row] /\ now \in Nat
        /\ \A r \in Run : run[r].slot \in Slot /\ run[r].at \in Nat
        /\ \A s \in Slot : row[s].claimedAt \in Nat
    BY ClockFacts DEF TypeOK, RunState, Row
  <2>1. ASSUME NEW r \in Run, StepOf(r) PROVE Step
    <3>1. CASE TakesClaim(r)
      <4> DEFINE s == run[r].slot
      <4>1. row[s].status = "sending" => run[r].at - row[s].claimedAt >= LEASE_MS
        BY <2>0, <3>1, ConstantAssumption DEF TakesClaim, ClaimedByAnother, leaseIsLive
      <4>2. row[s].status = "sending" => ~(now - row[s].claimedAt < LEASE_MS)
        BY <2>0, <4>1, ConstantAssumption DEF Frozen
      <4>3. \A u \in Slot \ {s} : row'[u] = row[u]
        BY <2>0, <3>1 DEF TakesClaim
      <4> QED BY <4>2, <4>3
    <3>2. CASE SettlesClaim(r)
      BY <2>0, <3>2 DEF SettlesClaim, Row
    <3> QED BY <2>1, <3>1, <3>2, StepShape DEF KeepsClaim, HasNoClaim
  <2>2. ASSUME NEW t \in Time, reapDeadLaneClaims(t) PROVE Step
    BY <2>0, <2>2 DEF reapDeadLaneClaims, Row
  <2>3. CASE UNCHANGED row
    BY <2>3
  <2> QED BY <2>1, <2>2, <2>3, NextShape DEF vars
<1> QED BY <1>1, TypeCorrect, FrozenCorrect, PTL DEF Spec, LiveLeaseRespected

-----------------------------------------------------------------------------
(* The inductive invariant behind exclusion: whoever holds a claim, its    *)
(* row is in flight and describes that very attempt.                       *)
HolderOwnsRow ==
    \A r \in Run : Holds(r) =>
        LET rw == row[run[r].slot]
        IN  /\ rw.status = "sending"
            /\ rw.claimedAt = run[r].at

Exclusion == Prompt /\ HolderOwnsRow /\ MutualExclusion

(* A run that may claim a slot finds no holder of it.                      *)
LEMMA TakerFindsNoHolder ==
    ASSUME TypeOK, Frozen, Exclusion, NEW r \in Run, TakesClaim(r), NEW q \in Run, Holds(q)
    PROVE  run[q].slot # run[r].slot
<1> SUFFICES ASSUME run[q].slot = run[r].slot PROVE FALSE
  OBVIOUS
<1>1. /\ run[r].at \in Nat /\ run[q].at \in Nat /\ now \in Nat
      /\ run[r].at <= now
  BY ClockFacts DEF TypeOK, RunState, Frozen
<1>2. row[run[r].slot].status = "sending" /\ row[run[r].slot].claimedAt = run[q].at
  BY DEF Exclusion, HolderOwnsRow
<1>3. ~(run[r].at - run[q].at < LEASE_MS)
  BY <1>2 DEF TakesClaim, ClaimedByAnother, leaseIsLive
<1>4. now - run[q].at < LEASE_MS
  BY DEF Exclusion, Prompt
<1> QED BY <1>1, <1>3, <1>4, ConstantAssumption

(* The dead-lane sweep only meets rows nobody holds any more.              *)
LEMMA SweepMeetsNoHolder ==
    ASSUME TypeOK, Exclusion, NEW t \in Time, t <= now, NEW q \in Run, Holds(q)
    PROVE  run[q].slot \notin DeadLaneClaims(t)
<1> SUFFICES ASSUME run[q].slot \in DeadLaneClaims(t) PROVE FALSE
  OBVIOUS
<1>0. run[q] \in RunState /\ now \in Nat
  BY ClockFacts DEF TypeOK
<1>a. run[q].at \in Nat
  BY <1>0, ClockFacts DEF RunState
<1>1. t \in Nat /\ t <= now
  BY <1>0, ClockFacts
<1>2. run[q].at <= t - LEASE_MS
  BY DEF DeadLaneClaims, Exclusion, HolderOwnsRow
<1>3. now - run[q].at < LEASE_MS
  BY DEF Exclusion, Prompt
<1> QED BY <1>0, <1>a, <1>1, <1>2, <1>3, ConstantAssumption

LEMMA ExclusionStep ==
    ASSUME TypeOK, Frozen, Exclusion, [Next /\ Prompt']_vars
    PROVE  Exclusion'
<1>0. /\ run \in [Run -> RunState] /\ row \in [Slot -> Row]
      /\ \A r \in Run : run[r].slot \in Slot
  BY DEF TypeOK, RunState
<1>p. Prompt'
  BY DEF Exclusion, Prompt, Holds, vars
<1>1. ASSUME NEW r \in Run, StepOf(r) PROVE Exclusion'
  <2>1. /\ OthersUnmoved(r)
        /\ \A q \in Run \ {r} : Holds(q)' = Holds(q)
    BY <1>1, StepShape DEF OthersUnmoved, Holds
  <2>2. CASE KeepsClaim(r)
    BY <1>0, <1>p, <2>1, <2>2
    DEF KeepsClaim, OthersUnmoved, Exclusion, HolderOwnsRow, MutualExclusion
  <2>3. CASE TakesClaim(r)
    <3>1. \A q \in Run : Holds(q) => run[q].slot # run[r].slot
      BY <2>3, TakerFindsNoHolder
    <3>2. /\ run'[r].slot = run[r].slot /\ run'[r].at = run[r].at
          /\ row'[run[r].slot].status = "sending"
          /\ row'[run[r].slot].claimedAt = run[r].at
          /\ \A u \in Slot \ {run[r].slot} : row'[u] = row[u]
      BY <1>0, <2>3 DEF TakesClaim, Row
    <3> QED BY <1>0, <1>p, <2>1, <3>1, <3>2
            DEF OthersUnmoved, Exclusion, HolderOwnsRow, MutualExclusion
  <2>4. CASE SettlesClaim(r)
    <3>1. Holds(r) /\ ~Holds(r)' /\ \A u \in Slot \ {run[r].slot} : row'[u] = row[u]
      BY <1>0, <2>4 DEF SettlesClaim
    <3> QED BY <1>0, <1>p, <2>1, <3>1
            DEF OthersUnmoved, Exclusion, HolderOwnsRow, MutualExclusion
  <2>5. CASE HasNoClaim(r)
    BY <1>0, <1>p, <2>1, <2>5
    DEF HasNoClaim, OthersUnmoved, Exclusion, HolderOwnsRow, MutualExclusion
  <2> QED BY <1>1, <2>2, <2>3, <2>4, <2>5, StepShape
<1>2. ASSUME NEW t \in Time, reapDeadLaneClaims(t) PROVE Exclusion'
  <2>1. /\ t <= now
        /\ \A u \in Slot \ DeadLaneClaims(t) : row'[u] = row[u]
        /\ UNCHANGED <<pc, run>>
    BY <1>0, <1>2 DEF reapDeadLaneClaims
  <2>2. \A q \in Run : Holds(q) => row'[run[q].slot] = row[run[q].slot]
    BY <1>0, <2>1, SweepMeetsNoHolder
  <2> QED BY <1>p, <2>1, <2>2 DEF Exclusion, HolderOwnsRow, MutualExclusion, Holds
<1>3. CASE UNCHANGED <<row, pc, run>>
  BY <1>p, <1>3 DEF Exclusion, HolderOwnsRow, MutualExclusion, Holds
<1> QED BY <1>1, <1>2, <1>3, NextShape DEF vars

LEMMA PromptIsSpec == PromptSpec => Spec
<1>1. [Next /\ Prompt']_vars => [Next]_vars
  OBVIOUS
<1> QED BY <1>1, PTL DEF PromptSpec, Spec

LEMMA ExclusionCorrect == PromptSpec => []Exclusion
<1>1. Init => Exclusion
  BY DEF Init, Exclusion, Prompt, HolderOwnsRow, MutualExclusion, Holds
<1>2. TypeOK /\ Frozen /\ Exclusion /\ [Next /\ Prompt']_vars => Exclusion'
  BY ExclusionStep
<1> QED BY <1>1, <1>2, TypeCorrect, FrozenCorrect, PromptIsSpec, PTL DEF PromptSpec

(* ADR 0034's guarantee, for runs that stay within their leases: never two *)
(* runs with a claim on one slot.                                          *)
THEOREM ExclusiveDeliveries == PromptSpec => []MutualExclusion
<1>1. Exclusion => MutualExclusion
  BY DEF Exclusion
<1> QED BY <1>1, ExclusionCorrect, PTL

(* And the record of a delivered slot is final: no replay, late failure,   *)
(* recovery or sweep rewrites it.                                          *)
LEMMA SentKept ==
    ASSUME TypeOK, Exclusion, Next
    PROVE  \A s \in Slot : row[s].status = "sent" => row'[s] = row[s]
<1>0. run \in [Run -> RunState] /\ row \in [Slot -> Row]
  BY DEF TypeOK
<1>1. ASSUME NEW r \in Run, StepOf(r)
      PROVE  \A s \in Slot : row[s].status = "sent" => row'[s] = row[s]
  <2>1. CASE TakesClaim(r)
    BY <1>0, <2>1 DEF TakesClaim, AlreadySent
  <2>2. CASE SettlesClaim(r)
    <3>1. row[run[r].slot].status = "sending"
      BY <2>2 DEF SettlesClaim, Exclusion, HolderOwnsRow
    <3> QED BY <1>0, <2>2, <3>1 DEF SettlesClaim
  <2> QED BY <1>1, <2>1, <2>2, StepShape DEF KeepsClaim, HasNoClaim
<1>2. ASSUME NEW t \in Time, reapDeadLaneClaims(t)
      PROVE  \A s \in Slot : row[s].status = "sent" => row'[s] = row[s]
  BY <1>0, <1>2 DEF reapDeadLaneClaims, DeadLaneClaims
<1> QED BY <1>1, <1>2, NextShape

THEOREM SentForGood == PromptSpec => SentIsFinal
<1> DEFINE Step == \A s \in Slot : row[s].status = "sent" => row'[s] = row[s]
<1>1. TypeOK /\ Exclusion /\ [Next /\ Prompt']_vars => [Step]_vars
  BY SentKept
<1> QED BY <1>1, TypeCorrect, ExclusionCorrect, PromptIsSpec, PTL DEF PromptSpec, SentIsFinal

-----------------------------------------------------------------------------
(* Behind NoSilentSkip: a run past the provider's acceptance, or that      *)
(* reconciled, works on a slot that does have its mail.                    *)
HasMail(s) == \E m \in mailbox : m.for = s

Vouched ==
    \A r \in Run :
        pc[r] \in {"accepted", "delivered", "reconciled"} => HasMail(run[r].slot)

(* The key names the slot: nothing else is filed under it, neither another *)
(* slot's message nor a one-off report.                                    *)
LEMMA KeyNamesSlot ==
    ASSUME TypeOK, NEW s \in Slot, NEW m \in mailbox, m.key = deliveryKey(s)
    PROVE  m.for = s
<1>1. ASSUME NEW u \in Slot, m = Mail(deliveryKey(u), u) PROVE u = s
  <2>1. <<u.kind, u.date, u.lane>> = <<s.kind, s.date, s.lane>>
    BY <1>1 DEF Mail, deliveryKey
  <2>2. u.kind = s.kind /\ u.date = s.date /\ u.lane = s.lane
    BY <2>1
  <2> QED BY <2>2 DEF Slot
<1>2. ASSUME NEW d \in Date, NEW l \in Lane, m = Mail(reportKey("7d", d), report(d, l))
      PROVE  FALSE
  <2>1. <<"report", d, "7d">> = <<s.kind, s.date, s.lane>>
    BY <1>2 DEF Mail, deliveryKey, reportKey
  <2>2. s.kind = "report"
    BY <2>1
  <2> QED BY <2>2, SlotFacts
<1> QED BY <1>1, <1>2 DEF TypeOK, Mail

LEMMA VouchedStep ==
    ASSUME TypeOK, Vouched, [Next]_vars
    PROVE  Vouched'
<1>0. /\ run \in [Run -> RunState] /\ pc \in [Run -> Phase]
      /\ \A r \in Run : run[r].slot \in Slot
  BY DEF TypeOK, RunState
<1>1. ASSUME mailbox \subseteq mailbox', NEW r \in Run,
             \A q \in Run \ {r} : pc'[q] = pc[q] /\ run'[q] = run[q],
             pc'[r] \in {"accepted", "delivered", "reconciled"}
               => \E m \in mailbox' : m.for = run'[r].slot
      PROVE  Vouched'
  BY <1>1 DEF Vouched, HasMail
<1>2. ASSUME NEW r \in Run, StepOf(r) PROVE Vouched'
  <2>1. \A q \in Run \ {r} : pc'[q] = pc[q] /\ run'[q] = run[q]
    BY <1>2, StepShape DEF OthersUnmoved
  <2>2. mailbox \subseteq mailbox'
    BY <1>2 DEF StepOf, RunStep, Start, Crash, ResolveLane, DecideToday, ClaimRefused,
       ClaimReplay, ClaimSlot, LookUp, Send, ProviderAccepts, SendReturns, SendThrows,
       settleSent, settleFailed, settleReconciled
  <2>3. pc'[r] \in {"accepted", "delivered", "reconciled"}
               => \E m \in mailbox' : m.for = run'[r].slot
    <3>1. CASE LookUp(r)
      <4>1. run' = run /\ mailbox' = mailbox
        BY <3>1 DEF LookUp
      <4>2. CASE \E m \in mailbox : m.key = deliveryKey(run[r].slot)
        BY <1>0, <4>1, <4>2, KeyNamesSlot DEF HasMail
      <4>3. CASE Goto(r, "compose")
        BY <1>0, <4>3 DEF Goto
      <4> QED BY <3>1, <4>2, <4>3 DEF LookUp
    <3>2. CASE ProviderAccepts(r)
      <4>1. run' = run /\ Mail(deliveryKey(run[r].slot), run[r].slot) \in mailbox'
        BY <3>2 DEF ProviderAccepts
      <4> QED BY <4>1 DEF HasMail, Mail
    <3>3. CASE SendReturns(r)
      <4>1. HasMail(run[r].slot) /\ run' = run /\ mailbox' = mailbox
        BY <3>3 DEF SendReturns, Vouched
      <4> QED BY <4>1 DEF HasMail
    <3>4. ASSUME NEW ph \in Phase \ {"accepted", "delivered", "reconciled"}, Goto(r, ph)
          PROVE  pc'[r] \notin {"accepted", "delivered", "reconciled"}
      BY <1>0, <3>4 DEF Goto
    <3>5. CASE \/ ResolveLane(r) \/ DecideToday(r) \/ ClaimRefused(r) \/ ClaimReplay(r)
               \/ ClaimSlot(r) \/ Send(r) \/ SendThrows(r)
               \/ settleSent(r) \/ settleFailed(r) \/ settleReconciled(r)
      BY <3>4, <3>5 DEF ResolveLane, DecideToday, ClaimRefused, ClaimReplay, ClaimSlot, Send,
         SendThrows, settleSent, settleFailed, settleReconciled, Finish, EndRun, Phase
    <3>6. CASE Crash(r) \/ \E l \in Lane, scoped, forced \in BOOLEAN :
                               Start(r, l, scoped, forced)
      BY <3>4, <3>6 DEF Crash, EndRun, Start, Phase
    <3> QED BY <1>2, <3>1, <3>2, <3>3, <3>5, <3>6 DEF StepOf, RunStep
  <2> QED BY <1>1, <2>1, <2>2, <2>3
<1>3. ASSUME UNCHANGED <<pc, run>>, mailbox \subseteq mailbox' PROVE Vouched'
  BY <1>3 DEF Vouched, HasMail
<1> QED BY <1>2, <1>3
        DEF Next, StepOf, OnDemandReport, DeleteLane, SetDefault, reapDeadLaneClaims, AdvanceClock, vars

(* A lane deleted between a run's reading it and its claim is not mailed,  *)
(* however the step falls and whether or not it was forced: only the two   *)
(* claims lead from there towards the provider, and both ask again.        *)
THEOREM DeletedStaysUnmailed == Spec => NoMailAfterDelete
<1> DEFINE A == \A r \in Run :
          pc[r] = "claim" /\ run[r].slot.kind = "digest" /\ run[r].slot.lane \in deleted
            => pc'[r] \notin {"lookup", "compose"}
<1>1. ASSUME TypeOK, [Next]_vars, NEW r \in Run, pc[r] = "claim", LaneDeleted(r)
      PROVE  pc'[r] \notin {"lookup", "compose"}
  <2>0. pc \in [Run -> Phase]
    BY <1>1 DEF TypeOK
  <2>1. ASSUME NEW q \in Run, StepOf(q), q # r PROVE pc'[r] = "claim"
    BY <1>1, <2>1, StepShape DEF OthersUnmoved
  <2>2. CASE StepOf(r)
    <3>1. CASE ClaimRefused(r)
      BY <2>0, <3>1 DEF ClaimRefused, Finish, EndRun, Goto
    <3>2. CASE Crash(r)
      BY <2>0, <3>2 DEF Crash, EndRun, Goto
    <3> QED BY <1>1, <2>2, <3>1, <3>2
            DEF StepOf, RunStep, Start, ResolveLane, DecideToday, ClaimReplay, ClaimSlot,
                LookUp, Send, ProviderAccepts, SendReturns, SendThrows,
                settleSent, settleFailed, settleReconciled
  <2>3. CASE pc' = pc
    BY <1>1, <2>3
  <2> QED BY <1>1, <2>1, <2>2, <2>3, NextShape DEF reapDeadLaneClaims, vars
<1>2. TypeOK /\ [Next]_vars => A
  BY <1>1 DEF LaneDeleted
<1>3. TypeOK /\ [Next]_vars => [A]_vars
  BY <1>2
<1> QED BY <1>3, TypeCorrect, PTL DEF Spec, NoMailAfterDelete

(* No digest day is skipped in silence: whatever crashes, overruns, or is  *)
(* sent twice, a slot reads sent only if the provider has its message.     *)
THEOREM NothingSkipped == Spec => []NoSilentSkip
<1> DEFINE Inv == Vouched /\ NoSilentSkip
<1>1. Init => Inv
  BY DEF Init, Vouched, NoSilentSkip, NoRow
<1>2. TypeOK /\ Inv /\ [Next]_vars => Inv'
  <2> SUFFICES ASSUME TypeOK, Inv, [Next]_vars PROVE NoSilentSkip'
    BY VouchedStep
  <2>0. /\ run \in [Run -> RunState] /\ row \in [Slot -> Row]
        /\ \A r \in Run : run[r].slot \in Slot
    BY DEF TypeOK, RunState
  <2>1. mailbox \subseteq mailbox'
    BY DEF Next, RunStep, Start, Crash, ResolveLane, DecideToday, ClaimRefused,
       ClaimReplay, ClaimSlot, LookUp, Send, ProviderAccepts, SendReturns, SendThrows,
       settleSent, settleFailed, settleReconciled, OnDemandReport, DeleteLane, SetDefault,
       reapDeadLaneClaims, AdvanceClock, vars
  <2>2. ASSUME NEW s \in Slot, row'[s].status = "sent"
        PROVE  row[s].status = "sent" \/ HasMail(s)
    <3>1. ASSUME NEW r \in Run, RunStep(r) PROVE row[s].status = "sent" \/ HasMail(s)
      <4>1. CASE settleSent(r) \/ settleReconciled(r)
        <5>1. HasMail(run[r].slot)
          BY <4>1 DEF settleSent, settleReconciled, Vouched
        <5> QED BY <2>0, <2>2, <4>1, <5>1 DEF settleSent, settleReconciled, SettleRow
      <4>2. CASE settleFailed(r)
        BY <2>0, <2>2, <4>2 DEF settleFailed, SettleRow, Row
      <4>3. CASE ClaimSlot(r)
        BY <2>0, <2>2, <4>3 DEF ClaimSlot, Row
      <4>4. CASE row' = row
        BY <2>2, <4>4
      <4> QED BY <3>1, <4>1, <4>2, <4>3, <4>4
              DEF RunStep, ResolveLane, DecideToday, ClaimRefused, ClaimReplay, LookUp, Send,
                  ProviderAccepts, SendReturns, SendThrows
    <3>2. ASSUME NEW t \in Time, reapDeadLaneClaims(t) PROVE row[s].status = "sent"
      BY <2>0, <2>2, <3>2 DEF reapDeadLaneClaims, Row
    <3>3. CASE row' = row
      BY <2>2, <3>3
    <3> QED BY <3>1, <3>2, <3>3
            DEF Next, Start, Crash, OnDemandReport, DeleteLane, SetDefault, AdvanceClock, vars
  <2> QED BY <2>1, <2>2 DEF NoSilentSkip, HasMail
<1>3. Inv => NoSilentSkip
  OBVIOUS
<1> QED BY <1>1, <1>2, <1>3, TypeCorrect, PTL DEF Spec

-----------------------------------------------------------------------------
(* Heartbeats: instant u is less than a lease after instant t (or before   *)
(* it), or a week or more.                                                 *)
Clear(t, u) == u - t < LEASE_MS \/ u - t >= WEEK_MS

(* Whoever holds a claim on a heartbeat froze its instant clear of every   *)
(* sent heartbeat, on either side: the others' when it claimed, under the  *)
(* lock; those of runs that held their claims beside it, by the lease.     *)
HoldersClear ==
    \A r \in Run : Holds(r) /\ run[r].slot.kind = "heartbeat" =>
        \A s \in SentHeartbeats :
            Clear(row[s].sentAt, run[r].at) /\ Clear(run[r].at, row[s].sentAt)

SentClear ==
    \A s, t \in SentHeartbeats : s # t => Clear(row[s].sentAt, row[t].sentAt)

LEMMA Instants ==
    ASSUME TypeOK
    PROVE  /\ run \in [Run -> RunState] /\ row \in [Slot -> Row] /\ now \in Int
           /\ \A r \in Run : run[r].slot \in Slot /\ run[r].at \in Int
           /\ \A s \in Slot : row[s].sentAt \in Int
           /\ WEEK_MS \in Nat /\ LEASE_MS \in Nat \ {0}
<1>1. Time \subseteq Int /\ Time \cup {NotSent} \subseteq Int
  BY ClockFacts DEF NotSent
<1>2. \A s \in Slot : row[s].sentAt \in Time \cup {NotSent}
  BY DEF TypeOK, Row
<1>3. \A r \in Run : run[r].slot \in Slot /\ run[r].at \in Time
  BY DEF TypeOK, RunState
<1> QED BY <1>1, <1>2, <1>3, ConstantAssumption DEF TypeOK

(* A step after which no heartbeat reads sent that did not before.         *)
NoneNewlySent ==
    \A s \in SentHeartbeats' : s \in SentHeartbeats /\ row'[s].sentAt = row[s].sentAt

LEMMA ClearStep ==
    ASSUME TypeOK, Frozen, Prompt, HoldersClear, SentClear, [Next]_vars
    PROVE  HoldersClear' /\ SentClear'
<1>1. ASSUME NEW r \in Run, StepOf(r) PROVE HoldersClear' /\ SentClear'
  <2> DEFINE s == run[r].slot
  <2>1. \A q \in Run \ {r} : Holds(q)' = Holds(q) /\ run'[q] = run[q]
    BY <1>1, StepShape DEF OthersUnmoved, Holds
  <2>2. CASE row' = row /\ (Holds(r)' => Holds(r) /\ run'[r] = run[r])
    BY <2>1, <2>2 DEF HoldersClear, SentClear, SentHeartbeats
  <2>3. CASE TakesClaim(r)
    <3>1. /\ run'[r].slot = s /\ run'[r].at = run[r].at
          /\ row'[s].status = "sending" /\ \A u \in Slot \ {s} : row'[u] = row[u]
      BY <2>3, Instants DEF TakesClaim, Row
    <3>2. NoneNewlySent
      BY <3>1 DEF NoneNewlySent, SentHeartbeats
    <3>3. ASSUME s.kind = "heartbeat", NEW u \in SentHeartbeats
          PROVE  Clear(row[u].sentAt, run[r].at) /\ Clear(run[r].at, row[u].sentAt)
      <4>1. run[r].at - row[u].sentAt >= WEEK_MS
        <5>1. u \in Slot /\ ~(run[r].at - row[u].sentAt < WEEK_MS)
          BY <2>3, <3>3 DEF TakesClaim, HeartbeatTooSoon, heartbeatWithinWeek, SentHeartbeats
        <5> QED BY <5>1, Instants
      <4>2. u \in Slot
        BY DEF SentHeartbeats
      <4> QED BY <4>1, <4>2, Instants DEF Clear
    <3> QED BY <2>1, <3>1, <3>2, <3>3 DEF HoldersClear, SentClear, NoneNewlySent
  <2>4. CASE SettlesClaim(r)
    <3>1. PICK st \in {"sent", "failed"}, at \in Time \cup {NotSent} :
             /\ st = "sent" => at = run[r].at
             /\ row' = [row EXCEPT ![s].status = st, ![s].sentAt = at]
      BY <2>4 DEF SettlesClaim
    <3>2. /\ row'[s].status = st /\ row'[s].sentAt = at
          /\ \A u \in Slot \ {s} : row'[u] = row[u]
      BY <3>1, Instants DEF Row
    <3>3. Holds(r) /\ ~Holds(r)'
      BY <2>4 DEF SettlesClaim
    <3>4. CASE st = "failed" \/ s.kind # "heartbeat"
      <4>1. \A u \in SentHeartbeats' : u \in SentHeartbeats /\ row'[u] = row[u]
        BY <3>2, <3>4 DEF SentHeartbeats
      <4> QED BY <2>1, <3>3, <4>1 DEF HoldersClear, SentClear
    <3>5. CASE st = "sent" /\ s.kind = "heartbeat"
      <4>1. row'[s].sentAt = run[r].at
        BY <3>1, <3>2, <3>5
      <4>2. \A u \in SentHeartbeats' \ {s} : u \in SentHeartbeats /\ row'[u] = row[u]
        BY <3>2 DEF SentHeartbeats
      <4>3. \A u \in SentHeartbeats :
               Clear(row[u].sentAt, run[r].at) /\ Clear(run[r].at, row[u].sentAt)
        BY <3>3, <3>5 DEF HoldersClear
      <4>4. SentClear'
        <5> SUFFICES ASSUME NEW u \in SentHeartbeats', NEW v \in SentHeartbeats', u # v
                     PROVE  Clear(row'[u].sentAt, row'[v].sentAt)
          BY DEF SentClear, Clear
        <5> QED BY <4>1, <4>2, <4>3 DEF SentClear
      <4>5. ASSUME NEW q \in Run \ {r}, Holds(q)
            PROVE  Clear(run[r].at, run[q].at) /\ Clear(run[q].at, run[r].at)
        <5>1. /\ now - run[r].at < LEASE_MS /\ now - run[q].at < LEASE_MS
              /\ run[r].at <= now /\ run[q].at <= now
          BY <3>3, <4>5 DEF Prompt, Frozen
        <5> QED BY <5>1, Instants DEF Clear
      <4>6. HoldersClear'
        <5> SUFFICES ASSUME NEW q \in Run, Holds(q)', run'[q].slot.kind = "heartbeat",
                            NEW u \in SentHeartbeats'
                     PROVE  /\ Clear(row'[u].sentAt, run'[q].at)
                            /\ Clear(run'[q].at, row'[u].sentAt)
          BY DEF HoldersClear, Clear
        <5>1. q \in Run \ {r} /\ Holds(q) /\ run'[q] = run[q]
          BY <2>1, <3>3
        <5> QED BY <4>1, <4>2, <4>5, <5>1 DEF HoldersClear
      <4> QED BY <4>4, <4>6
    <3> QED BY <3>4, <3>5
  <2> QED BY <1>1, <2>2, <2>3, <2>4, StepShape DEF KeepsClaim, HasNoClaim
<1>2. ASSUME UNCHANGED <<pc, run>>, NoneNewlySent PROVE HoldersClear' /\ SentClear'
  BY <1>2 DEF HoldersClear, SentClear, NoneNewlySent, Holds
<1>3. ASSUME NEW t \in Time, reapDeadLaneClaims(t) PROVE UNCHANGED <<pc, run>> /\ NoneNewlySent
  BY <1>3, Instants DEF reapDeadLaneClaims, NoneNewlySent, SentHeartbeats, Row
<1>4. ASSUME UNCHANGED row PROVE NoneNewlySent
  BY <1>4 DEF NoneNewlySent, SentHeartbeats
<1> QED BY <1>1, <1>2, <1>3, <1>4, NextShape DEF vars

(* Two runs may find different slots to beat in, on either side of         *)
(* midnight or of a change of the default lane.  The lock and the lease    *)
(* between them bound what comes of it: sent heartbeats less than a week   *)
(* apart are less than a lease apart, forced or not, whatever crashes and  *)
(* is recovered later.                                                     *)
THEOREM HeartbeatsStayApart == PromptSpec => []HeartbeatsApart
<1>1. Init => HoldersClear /\ SentClear
  BY DEF Init, HoldersClear, SentClear, SentHeartbeats, Holds, NoRow
<1>2. /\ TypeOK /\ Frozen /\ Exclusion /\ HoldersClear /\ SentClear
      /\ [Next /\ Prompt']_vars
      => HoldersClear' /\ SentClear'
  BY ClearStep DEF Exclusion
<1>3. TypeOK /\ SentClear => HeartbeatsApart
  <2> SUFFICES ASSUME TypeOK, SentClear, NEW s \in SentHeartbeats, NEW t \in SentHeartbeats,
                      s # t, row[s].sentAt + LEASE_MS <= row[t].sentAt
               PROVE  row[t].sentAt - row[s].sentAt >= WEEK_MS
    BY DEF HeartbeatsApart
  <2>1. Clear(row[s].sentAt, row[t].sentAt) /\ s \in Slot /\ t \in Slot
    BY DEF SentClear, SentHeartbeats
  <2> QED BY <2>1, Instants DEF Clear
<1> QED BY <1>1, <1>2, <1>3, TypeCorrect, FrozenCorrect, ExclusionCorrect, PromptIsSpec, PTL
        DEF PromptSpec

-----------------------------------------------------------------------------
(* The refinement: a step of DeliveryClaim takes a slot, delivers it, gives *)
(* it up, or changes nothing the promise speaks of.                         *)
Working == [r \in Run |-> IF Holds(r) THEN {run[r].slot} ELSE {}]
Done    == {s \in Slot : row[s].status = "sent"}

LEMMA PromiseMoves ==
    ASSUME NEW r \in Run, NEW s \in Slot
    PROVE  /\ Promise!Take(r, s) => Promise!Next
           /\ Promise!Deliver(r, s) => Promise!Next
           /\ Promise!GiveUp(r, s) => Promise!Next
BY DEF Promise!Next

LEMMA PromiseStep ==
    ASSUME TypeOK, Frozen, Exclusion, Next
    PROVE  Promise!Next \/ (Working' = Working /\ Done' = Done)
<1> DEFINE Stutter == Working' = Working /\ Done' = Done
<1>0. /\ run \in [Run -> RunState] /\ row \in [Slot -> Row]
      /\ \A r \in Run : run[r].slot \in Slot
  BY DEF TypeOK, RunState
<1>1. ASSUME NEW r \in Run, StepOf(r) PROVE Promise!Next \/ Stutter
  <2>0. PICK s \in Slot : s = run[r].slot
    BY <1>0
  <2>1. \A q \in Run \ {r} : Holds(q)' = Holds(q) /\ run'[q] = run[q]
    BY <1>1, StepShape DEF OthersUnmoved, Holds
  <2>2. \A q \in Run \ {r} : Working'[q] = Working[q]
    BY <2>1 DEF Working
  <2>3. CASE KeepsClaim(r)
    <3>1. Working'[r] = Working[r]
      BY <2>3 DEF Working, KeepsClaim
    <3> QED BY <2>2, <2>3, <3>1 DEF Working, Done, KeepsClaim
  <2>4. CASE TakesClaim(r)
    <3>1. /\ Working[r] = {} /\ Working'[r] = {s}
          /\ \A q \in Run : s \notin Working[q]
      BY <2>0, <2>4, TakerFindsNoHolder DEF Working, TakesClaim
    <3>2. Working' = [Working EXCEPT ![r] = {s}]
      BY <2>2, <3>1 DEF Working
    <3>3. s \notin Done /\ Done' = Done
      BY <1>0, <2>0, <2>4 DEF Done, TakesClaim, AlreadySent, Row
    <3>4. Promise!Take(r, s)
      BY <3>1, <3>2, <3>3 DEF Promise!Take, Working, Done
    <3> QED BY <3>4, PromiseMoves
  <2>5. ASSUME Holds(r), ~Holds(r)'
        PROVE  Working[r] = {s} /\ Working' = [Working EXCEPT ![r] = {}]
    BY <2>0, <2>2, <2>5 DEF Working
  <2>6. CASE SettlesClaim(r)
    <3>1. PICK st \in {"sent", "failed"}, at \in Time \cup {NotSent} :
             row' = [row EXCEPT ![s].status = st, ![s].sentAt = at]
      BY <2>0, <2>6 DEF SettlesClaim
    <3>2. Working[r] = {s} /\ Working' = [Working EXCEPT ![r] = {}]
      BY <2>5, <2>6 DEF SettlesClaim
    <3>3. row[s].status = "sending"
      BY <2>0, <2>6 DEF SettlesClaim, Exclusion, HolderOwnsRow
    <3>4. CASE st = "sent"
      <4>1. Done' = Done \cup {s}
        BY <1>0, <2>0, <3>1, <3>4 DEF Done, Row
      <4>2. Promise!Deliver(r, s)
        BY <3>2, <4>1 DEF Promise!Deliver, Working, Done
      <4> QED BY <4>2, PromiseMoves
    <3>5. CASE st = "failed"
      <4>1. Done' = Done
        BY <1>0, <2>0, <3>1, <3>3, <3>5 DEF Done, Row
      <4>2. Promise!GiveUp(r, s)
        BY <3>2, <4>1 DEF Promise!GiveUp, Working, Done
      <4> QED BY <4>2, PromiseMoves
    <3> QED BY <3>4, <3>5
  <2>7. CASE HasNoClaim(r)
    <3>1. Done' = Done
      BY <2>7 DEF HasNoClaim, Done
    <3>2. CASE Holds(r)
      <4>1. Promise!GiveUp(r, s)
        BY <2>5, <2>7, <3>1, <3>2 DEF Promise!GiveUp, Working, Done, HasNoClaim
      <4> QED BY <4>1, PromiseMoves
    <3>3. CASE ~Holds(r)
      <4>1. Working'[r] = Working[r]
        BY <2>7, <3>3 DEF Working, HasNoClaim
      <4> QED BY <2>2, <3>1, <4>1 DEF Working
    <3> QED BY <3>2, <3>3
  <2> QED BY <1>1, <2>3, <2>4, <2>6, <2>7, StepShape
<1>2. ASSUME NEW t \in Time, reapDeadLaneClaims(t) PROVE Stutter
  <2>1. \A u \in Slot : row'[u].status = "sent" <=> row[u].status = "sent"
    BY <1>0, <1>2 DEF reapDeadLaneClaims, DeadLaneClaims, Row
  <2>2. UNCHANGED <<pc, run>>
    BY <1>2 DEF reapDeadLaneClaims
  <2>3. Done' = Done
    BY <2>1 DEF Done
  <2>4. Working' = Working
    BY <2>2 DEF Working, Holds
  <2> QED BY <2>3, <2>4
<1>3. CASE UNCHANGED <<row, pc, run>>
  BY <1>3 DEF Working, Done, Holds
<1> QED BY <1>1, <1>2, <1>3, NextShape

(* While runs stay within their leases, the frozen clocks, leases and      *)
(* crash recovery of the delivery claim implement ExclusiveDelivery: a     *)
(* slot is worked on by one run at a time and delivered for good.          *)
THEOREM KeepsPromise == PromptSpec => DeliversExclusively
<1>1. Init => Promise!Init
  BY DEF Init, Promise!Init, NoRow, Holds
<1>2. /\ TypeOK /\ Frozen /\ Exclusion
      /\ [Next /\ Prompt']_vars
      => [Promise!Next]_<<Working, Done>>
  <2> SUFFICES ASSUME TypeOK, Frozen, Exclusion, [Next /\ Prompt']_vars
               PROVE  Promise!Next \/ (Working' = Working /\ Done' = Done)
    OBVIOUS
  <2>1. CASE UNCHANGED vars
    BY <2>1 DEF vars, Working, Done, Holds
  <2> QED BY <2>1, PromiseStep
<1>3. [Promise!Next]_<<Working, Done>> =>
        [Promise!Next]_<<[r \in Run |-> IF Holds(r) THEN {run[r].slot} ELSE {}],
                         {s \in Slot : row[s].status = "sent"}>>
  BY DEF Working, Done
<1> QED BY <1>1, <1>2, <1>3, TypeCorrect, FrozenCorrect, ExclusionCorrect, PromptIsSpec, PTL
        DEF PromptSpec, DeliversExclusively, Promise!Spec
=============================================================================
