-------------------------- MODULE RefreshFenceProofs --------------------------
(***************************************************************************)
(* The ingestion fence of RefreshRun: on a host whose clock is never set   *)
(* back, and with one backfill at a time, no stat line is ever overwritten *)
(* with an older fetch.  The fence asks for ownership at the write only;   *)
(* what makes that enough is that ownership is never regained, so that     *)
(* whoever owns its row at the write owned it at the fetch and ever since. *)
(*                                                                         *)
(* And the promise of a fresh digest: whatever sweeps and backfills do,    *)
(* crash or overtake, the run a digest reads fresh by knows every player   *)
(* it is to answer for.                                                    *)
(***************************************************************************)
EXTENDS RefreshRunProofs, FiniteSetTheorems, WellFoundedInduction

(* Two concurrent backfills are not fenced from each other.                *)
OneBackfill == \A b, c \in Backfill : b = c

(* A sweep about to write, while its lease lives, holds what is newest.    *)
SweepFenced(s) ==
    pc[s] = "write" =>
        /\ sweep[s].fetchedAt <= now
        /\ Owns(sweep[s].id, now) => \A p \in Player : data[p] <= sweep[s].fetchedAt

(* While a backfill is under way, the runs it was admitted after own       *)
(* nothing any more; so while none was claimed since, it holds what is     *)
(* newest.                                                                 *)
BackfillFenced(b) ==
    pc[b] # "idle" =>
        /\ backfill[b].after <= Len(runs)
        /\ \A i \in 1..backfill[b].after : ~Owns(i, now)
        /\ pc[b] = "write" =>
              /\ backfill[b].fetchedAt <= now
              /\ Len(runs) <= backfill[b].after =>
                    \A p \in Player : data[p] <= backfill[b].fetchedAt

FenceInv ==
    /\ \A p \in Player : data[p] <= now
    /\ \A s \in Sweep : SweepFenced(s)
    /\ \A b \in Backfill : BackfillFenced(b)

-----------------------------------------------------------------------------
(* What a step does                                                        *)

(* No step gives ownership back: a row owned after a step that does not    *)
(* set the clock back was owned before it.                                 *)
OwnershipShrinks ==
    /\ Len(runs') >= Len(runs)
    /\ \A i \in 1..Len(runs) : Owns(i, now)' => Owns(i, now)

LEMMA ClockShrinks ==
    ASSUME TypeOK, UNCHANGED runs, now' \in Time, now' >= now
    PROVE  OwnershipShrinks
<1>1. /\ now \in Nat /\ now' \in Nat /\ REFRESH_LEASE_MS \in Nat /\ Len(runs) \in Nat
      /\ \A i \in 1..Len(runs) : runs[i].claimedAt \in Nat
  BY TimeFacts, RunsFacts, ConstantAssumption DEF TypeOK, Run
<1>2. ASSUME NEW i \in 1..Len(runs), Owns(i, now)'
      PROVE  Owns(i, now)
  <2>1. runs[i].status = "running" /\ now' - runs[i].claimedAt < REFRESH_LEASE_MS
    BY <1>2 DEF Owns, StillRunning, leaseIsLive
  <2>2. now - runs[i].claimedAt < REFRESH_LEASE_MS
    BY <1>1, <2>1
  <2> QED BY <2>1, <2>2 DEF Owns, StillRunning, leaseIsLive
<1> QED BY <1>1, <1>2 DEF OwnershipShrinks

LEMMA OwnershipStep ==
    ASSUME RunInv, Next, now' >= now
    PROVE  OwnershipShrinks
<1>1. TypeOK /\ IdsInRange
  BY DEF RunInv
<1>2. ASSUME NEW s \in Sweep, Claim(s) PROVE OwnershipShrinks
  <2>1. /\ Len(runs') = Len(runs) + 1 /\ Len(runs) \in Nat
        /\ \A i \in 1..Len(runs) : runs'[i].status # "running"
    BY <1>1, <1>2, ClaimFacts, RunsFacts
  <2> QED BY <2>1 DEF OwnershipShrinks, Owns, StillRunning
<1>3. ASSUME NEW s \in Sweep, OwnStep(s) PROVE OwnershipShrinks
  <2>1. /\ Typed
        /\ \/ UNCHANGED runs
           \/ Claimed(s) /\ (RenewsRow(s) \/ SettlesRow(s))
    BY <1>1, <1>3, SweepStepKinds DEF OwnStep
  <2>2. now' \in Time
    BY <2>1 DEF Typed
  <2>3. CASE UNCHANGED runs
    BY <1>1, <2>2, <2>3, ClockShrinks
  <2>4. CASE Claimed(s) /\ (RenewsRow(s) \/ SettlesRow(s))
    <3>1. PICK i \in 1..Len(runs) : i = sweep[s].id
      BY <1>1, <2>4 DEF IdsInRange
    <3>2. UNCHANGED now
      BY <1>3, <2>4 DEF OwnStep, Begin, SweepStep, Select, Skip, Calendars, Renew, Fetch,
                        Write, Progress, Settle, Fatal, Crash
    <3>3. /\ Len(runs') = Len(runs)
          /\ \A j \in 1..Len(runs) : j # i => runs'[j] = runs[j]
          /\ Owns(i, now)' => Owns(i, now)
      <4>1. CASE RenewsRow(s)
        <5>1. runs' = [runs EXCEPT ![i].claimedAt = RenewedAt(i)] /\ Owns(i, now)
          BY <3>1, <4>1 DEF RenewsRow
        <5> QED BY <1>1, <3>1, <5>1, RenewFacts, Zenon
      <4>2. CASE SettlesRow(s)
        <5>1. PICK status \in {"ok", "partial", "failed"} : settleRefreshRun(i, status)
          BY <3>1, <4>2 DEF SettlesRow
        <5>2. /\ Len(runs') = Len(runs)
              /\ \A j \in 1..Len(runs) : j # i => runs'[j] = runs[j]
              /\ runs'[i].status # "running"
          BY <1>1, <3>1, <5>1, SettleFacts, Zenon
        <5> QED BY <5>2 DEF Owns, StillRunning
      <4> QED BY <2>4, <4>1, <4>2
    <3>4. Len(runs) \in Nat
      BY <1>1, RunsFacts
    <3> QED BY <3>1, <3>2, <3>3, <3>4 DEF OwnershipShrinks, Owns, StillRunning, leaseIsLive
  <2> QED BY <2>1, <2>3, <2>4
<1>4. CASE OtherStep
  <2>1. UNCHANGED runs /\ now' \in Time
    BY <1>1, <1>4, OtherStepFacts DEF Typed
  <2> QED BY <1>1, <2>1, ClockShrinks
<1> QED BY <1>2, <1>3, <1>4, NextKinds

(* What becomes of a sweep's fetch: it stays, is let go, or was just made. *)
SweepEffect(s) ==
    \/ pc'[s] = pc[s] /\ sweep'[s] = sweep[s]
    \/ pc'[s] # "write"
    \/ sweep'[s].fetchedAt = now /\ UNCHANGED <<now, data>>

LEMMA SweepEffects ==
    ASSUME RunInv, Next, NEW s \in Sweep
    PROVE  SweepEffect(s)
<1>1. TypeOK /\ IdsInRange /\ s \in Proc
  BY DEF RunInv, Proc
<1>2. ASSUME NEW t \in Sweep, Claim(t) PROVE SweepEffect(s)
  BY <1>1, <1>2, ClaimLocals DEF SweepEffect
<1>3. ASSUME NEW t \in Sweep, OwnStep(t), t # s PROVE SweepEffect(s)
  <2>1. SameLocals(t)
    BY <1>1, <1>3, SweepStepKinds DEF OwnStep
  <2> QED BY <1>1, <1>3, <2>1 DEF SameLocals, SweepEffect
<1>4. ASSUME OwnStep(s) PROVE SweepEffect(s)
  <2>1. ASSUME NEW scope \in Scopes, Begin(s, scope) PROVE pc'[s] # "write"
    BY <1>1, <2>1, BeginFacts
  <2>2. ASSUME Select(s) PROVE pc'[s] # "write"
    BY <1>1, <2>2, SelectFacts
  <2>3. ASSUME EndSweep(s) PROVE pc'[s] # "write"
    BY <1>1, <2>3, EndSweepFacts
  <2>4. ASSUME Goto(s, AfterPlayers(s)), UNCHANGED sweep PROVE pc'[s] # "write"
    BY <1>1, <2>4, NextPlayerLocals
  <2>5. ASSUME Renew(s), Owns(sweep[s].id, now) PROVE pc'[s] # "write"
    BY <1>1, <2>5, RenewLocals
  <2>6. ASSUME NEW outcome \in Outcome, Collect(s, outcome) PROVE pc'[s] # "write"
    BY <1>1, <2>6, CollectFacts
  <2>7. ASSUME Fetch(s) PROVE SweepEffect(s)
    <3>1. CASE Goto(s, "write") /\ sweep' = [sweep EXCEPT ![s].fetchedAt = now]
      <4>1. sweep'[s] = [sweep[s] EXCEPT !.fetchedAt = now] /\ sweep[s] \in SweepState
        BY <1>1, <3>1, FetchLocals DEF TypeOK
      <4>2. sweep'[s].fetchedAt = now
        BY <4>1 DEF SweepState
      <4> QED BY <2>7, <4>2 DEF Fetch, SweepEffect
    <3>2. CASE \E outcome \in {"skipped", "failed"} : Collect(s, outcome)
      BY <2>6, <3>2 DEF Outcome, SweepEffect
    <3> QED BY <2>7, <3>1, <3>2 DEF Fetch
  <2>8. ASSUME Write(s) PROVE pc'[s] # "write"
    BY <2>3, <2>6, <2>8 DEF Write, Outcome
  <2>9. ASSUME Renew(s), ~Owns(sweep[s].id, now) PROVE EndSweep(s)
    BY <2>9 DEF Renew
  <2>10. ASSUME Skip(s) \/ Settle(s) \/ Fatal(s) \/ Crash(s) PROVE EndSweep(s)
    BY <2>10 DEF Skip, Settle, Fatal, Crash
  <2>11. ASSUME Calendars(s) \/ Progress(s)
         PROVE  EndSweep(s) \/ (Goto(s, AfterPlayers(s)) /\ UNCHANGED sweep)
    BY <2>11 DEF Calendars, Progress
  <2> QED BY <1>4, <2>1, <2>2, <2>3, <2>4, <2>5, <2>7, <2>8, <2>9, <2>10, <2>11
          DEF OwnStep, SweepStep, SweepEffect
<1>5. CASE OtherStep
  BY <1>1, <1>5, OtherStepFacts DEF SweepEffect
<1> QED BY <1>2, <1>3, <1>4, <1>5, NextKinds

(* What becomes of a backfill.                                             *)
BackfillEffect(b) ==
    \/ pc'[b] = pc[b] /\ backfill'[b] = backfill[b]
    \/ pc'[b] = "idle"
    \/ /\ pc'[b] = "fetch" /\ backfill'[b].after = Len(runs)
       /\ ~LiveRun(now) /\ UNCHANGED <<now, runs>>
    \/ /\ pc[b] = "fetch" /\ backfill'[b].after = backfill[b].after
       /\ backfill'[b].fetchedAt = now /\ UNCHANGED <<now, runs, data>>

LEMMA BackfillEffects ==
    ASSUME RunInv, Next, NEW b \in Backfill
    PROVE  BackfillEffect(b)
<1>1. TypeOK /\ IdsInRange /\ b \in Proc /\ b \notin Sweep
  BY ConstantAssumption DEF RunInv, Proc
<1>2. backfill \in [Backfill -> BackfillState] /\ backfill[b] \in BackfillState
  BY <1>1 DEF TypeOK
<1>3. ASSUME NEW t \in Sweep, Claim(t) PROVE BackfillEffect(b)
  BY <1>1, <1>3, ClaimLocals DEF BackfillEffect, Claim
<1>4. ASSUME NEW t \in Sweep, OwnStep(t) PROVE BackfillEffect(b)
  <2>1. SameLocals(t)
    BY <1>1, <1>4, SweepStepKinds DEF OwnStep
  <2>2. UNCHANGED backfill
    BY <1>4 DEF OwnStep, Begin, SweepStep, Select, Skip, Calendars, Renew, Fetch,
                Write, Progress, Settle, Fatal, Crash
  <2> QED BY <1>1, <2>1, <2>2 DEF SameLocals, BackfillEffect
<1>5. ASSUME NEW c \in Backfill, EndBackfill(c) PROVE BackfillEffect(b)
  <2>1. "idle" \in BackfillPhase
    BY DEF BackfillPhase
  <2>2. pc'[c] = "idle" /\ \A p \in Proc : p # c => pc'[p] = pc[p]
    BY <1>1, <1>5, <2>1, BackfillGoto DEF EndBackfill
  <2>3. c # b => backfill'[b] = backfill[b]
    BY <1>2, <1>5 DEF EndBackfill
  <2> QED BY <1>1, <2>2, <2>3 DEF BackfillEffect
<1>6. ASSUME NEW c \in Backfill, NEW p \in Player, Admit(c, p) PROVE BackfillEffect(b)
  <2>1. "fetch" \in BackfillPhase
    BY DEF BackfillPhase
  <2>2. pc'[c] = "fetch" /\ \A q \in Proc : q # c => pc'[q] = pc[q]
    BY <1>1, <1>6, <2>1, BackfillGoto DEF Admit
  <2>3. backfill' = [backfill EXCEPT ![c] =
                       [backfill[c] EXCEPT !.player = p, !.after = Len(runs)]]
    BY <1>6, Zenon DEF Admit
  <2>4. CASE c = b
    <3>1. backfill'[b].after = Len(runs)
      BY <1>2, <2>3, <2>4 DEF BackfillState
    <3> QED BY <1>6, <2>2, <2>4, <3>1 DEF Admit, BackfillEffect
  <2>5. CASE c # b
    BY <1>1, <1>2, <2>2, <2>3, <2>5 DEF BackfillEffect
  <2> QED BY <2>4, <2>5
<1>7. ASSUME NEW c \in Backfill, BackfillFetch(c) PROVE BackfillEffect(b)
  <2>1. "write" \in BackfillPhase
    BY DEF BackfillPhase
  <2>2. \A q \in Proc : q # c => pc'[q] = pc[q]
    BY <1>1, <1>7, <2>1, BackfillGoto DEF BackfillFetch
  <2>3. backfill' = [backfill EXCEPT ![c] = [backfill[c] EXCEPT !.fetchedAt = now]]
    BY <1>7, Zenon DEF BackfillFetch
  <2>4. CASE c = b
    <3>1. backfill'[b].after = backfill[b].after /\ backfill'[b].fetchedAt = now
      BY <1>2, <2>3, <2>4 DEF BackfillState
    <3> QED BY <1>7, <2>4, <3>1 DEF BackfillFetch, BackfillEffect
  <2>5. CASE c # b
    BY <1>1, <1>2, <2>2, <2>3, <2>5 DEF BackfillEffect
  <2> QED BY <2>4, <2>5
<1>8. ASSUME UNCHANGED <<pc, backfill>> PROVE BackfillEffect(b)
  BY <1>8 DEF BackfillEffect
<1>9. CASE OtherStep
  BY <1>5, <1>6, <1>7, <1>8, <1>9
     DEF OtherStep, BackfillWrite, BackfillStops, Activate, Deactivate, Enroll, Unenroll,
         Move, SetClock
<1> QED BY <1>3, <1>4, <1>9, NextKinds

(* What becomes of the stat lines: a step leaves them, or is a write that  *)
(* its fence let through.                                                  *)
WritesData(p, fetchedAt) ==
    /\ data' = [data EXCEPT ![p] = fetchedAt]
    /\ UNCHANGED <<now, runs>>

DataEffect ==
    \/ UNCHANGED data
    \/ \E s \in Sweep :
          /\ pc[s] = "write" /\ pc'[s] # "write" /\ SweepFenceHolds(s)
          /\ WritesData(sweep[s].player, sweep[s].fetchedAt)
    \/ \E b \in Backfill :
          /\ pc[b] = "write" /\ pc'[b] = "idle" /\ BackfillFenceHolds(b)
          /\ WritesData(backfill[b].player, backfill[b].fetchedAt)

LEMMA DataEffects ==
    ASSUME RunInv, Next
    PROVE  DataEffect
<1>1. TypeOK
  BY DEF RunInv
<1>2. ASSUME NEW s \in Sweep, Write(s) PROVE DataEffect
  <2>1. CASE UNCHANGED data
    BY <2>1 DEF DataEffect
  <2>2. CASE ~UNCHANGED data
    <3>1. /\ pc[s] = "write" /\ SweepFenceHolds(s) /\ Collect(s, "refreshed")
          /\ WritesData(sweep[s].player, sweep[s].fetchedAt)
      BY <1>2, <2>2 DEF Write, WritesData
    <3>2. pc'[s] = "progress"
      BY <1>1, <3>1, CollectFacts DEF Outcome
    <3> QED BY <3>1, <3>2 DEF DataEffect
  <2> QED BY <2>1, <2>2
<1>3. ASSUME NEW b \in Backfill, BackfillWrite(b) PROVE DataEffect
  <2>1. CASE UNCHANGED data
    BY <2>1 DEF DataEffect
  <2>2. CASE ~UNCHANGED data
    <3>1. /\ pc[b] = "write" /\ BackfillFenceHolds(b) /\ Goto(b, "idle")
          /\ WritesData(backfill[b].player, backfill[b].fetchedAt)
      BY <1>3, <2>2 DEF BackfillWrite, EndBackfill, WritesData
    <3>2. pc'[b] = "idle"
      BY <1>1, <3>1, BackfillGoto DEF BackfillPhase
    <3> QED BY <3>1, <3>2 DEF DataEffect
  <2> QED BY <2>1, <2>2
<1>4. ASSUME UNCHANGED data PROVE DataEffect
  BY <1>4 DEF DataEffect
<1>5. ASSUME NEW s \in Sweep,
             \/ \E scope \in Scopes : Begin(s, scope)
             \/ Select(s) \/ Skip(s) \/ Claim(s) \/ Calendars(s) \/ Renew(s) \/ Fetch(s)
             \/ Progress(s) \/ Settle(s) \/ Fatal(s) \/ Crash(s)
      PROVE  UNCHANGED data
  BY <1>5 DEF Begin, Select, Skip, Claim, Calendars, Renew, Fetch, Progress, Settle, Fatal, Crash
<1>6. ASSUME \/ \E b \in Backfill, p \in Player : Admit(b, p)
             \/ \E b \in Backfill : BackfillFetch(b) \/ BackfillStops(b)
             \/ \E p \in Player : Activate(p) \/ Deactivate(p)
             \/ \E p \in Player, l \in Lane : Enroll(p, l) \/ Unenroll(p, l)
             \/ \E t \in Time : SetClock(t)
      PROVE  UNCHANGED data
  BY <1>6 DEF Admit, BackfillFetch, BackfillStops, Activate, Deactivate, Enroll, Unenroll, Move,
              SetClock
<1> QED BY <1>2, <1>3, <1>4, <1>5, <1>6 DEF Next, Work, SweepStep

-----------------------------------------------------------------------------
(* The fence                                                               *)

LEMMA FenceTypes ==
    ASSUME TypeOK
    PROVE  /\ now \in Int /\ Len(runs) \in Nat
           /\ \A p \in Player : data[p] \in Int
           /\ \A s \in Sweep : sweep[s].fetchedAt \in Int
           /\ \A b \in Backfill : backfill[b].fetchedAt \in Int /\ backfill[b].after \in Nat
<1>0. /\ now \in Time /\ data \in [Player -> Time \cup {Never}]
      /\ sweep \in [Sweep -> SweepState] /\ backfill \in [Backfill -> BackfillState]
  BY DEF TypeOK
<1>t. Time \subseteq Int /\ Time \cup {Never} \subseteq Int /\ 0..MaxRuns \subseteq Nat
  BY TimeFacts, ConstantAssumption DEF Never
<1>1. now \in Int /\ Len(runs) \in Nat /\ \A p \in Player : data[p] \in Int
  <2>1. Len(runs) \in 0..MaxRuns
    BY RunsFacts
  <2>2. \A p \in Player : data[p] \in Time \cup {Never}
    BY <1>0
  <2> QED BY <1>0, <1>t, <2>1, <2>2
<1>2. \A s \in Sweep : sweep[s].fetchedAt \in Int
  <2>1. \A s \in Sweep : sweep[s].fetchedAt \in Time
    BY <1>0 DEF SweepState
  <2> QED BY <1>t, <2>1
<1>3. \A b \in Backfill : backfill[b].fetchedAt \in Int /\ backfill[b].after \in Nat
  <2>1. \A b \in Backfill : backfill[b].fetchedAt \in Time /\ backfill[b].after \in 0..MaxRuns
    BY <1>0 DEF BackfillState
  <2> QED BY <1>t, <2>1
<1> QED BY <1>1, <1>2, <1>3

(* Only one sweep can pass the fence, and none while a backfill can.       *)
LEMMA OneWriter ==
    ASSUME RunInv, FenceInv, NEW s \in Sweep, pc[s] = "write", SweepFenceHolds(s)
    PROVE  /\ \A t \in Sweep : pc[t] = "write" /\ SweepFenceHolds(t) => t = s
           /\ \A b \in Backfill : pc[b] # "idle" => ~BackfillFenceHolds(b)
<1>1. /\ TypeOK /\ IdsInRange /\ DistinctIds /\ RunningIsNewest
      /\ \A b \in Backfill : BackfillFenced(b)
  BY DEF RunInv, FenceInv
<1>2. /\ Claimed(s) /\ sweep[s].id \in 1..Len(runs)
      /\ sweep[s].id = Len(runs) /\ Owns(sweep[s].id, now)
  BY <1>1, RunsFacts DEF Claimed, IdsInRange, SweepFenceHolds, Owns, StillRunning, RunningIsNewest
<1>3. ASSUME NEW t \in Sweep, pc[t] = "write", SweepFenceHolds(t) PROVE t = s
  <2>1. Claimed(t) /\ sweep[t].id = Len(runs)
    BY <1>1, <1>3, RunsFacts
       DEF Claimed, IdsInRange, SweepFenceHolds, Owns, StillRunning, RunningIsNewest
  <2> QED BY <1>1, <1>2, <2>1 DEF DistinctIds
<1>4. ASSUME NEW b \in Backfill, pc[b] # "idle", BackfillFenceHolds(b) PROVE FALSE
  <2>1. sweep[s].id \in 1..backfill[b].after
    BY <1>1, <1>2, <1>4, FenceTypes DEF BackfillFenceHolds
  <2> QED BY <1>1, <1>2, <1>4, <2>1 DEF BackfillFenced
<1> QED BY <1>3, <1>4

(* A write that passes its fence overwrites nothing newer.                 *)
LEMMA WriteIsNewest ==
    ASSUME TypeOK, NEW p, NEW f \in Int, WritesData(p, f), \A q \in Player : data[q] <= f
    PROVE  \A q \in Player : data'[q] >= data[q] /\ data'[q] <= f
<1>1. data \in [Player -> Time \cup {Never}] /\ \A q \in Player : data[q] \in Int
  BY FenceTypes DEF TypeOK
<1> QED BY <1>1 DEF WritesData

LEMMA NoOlderData ==
    ASSUME RunInv, FenceInv, Next
    PROVE  \A p \in Player : data'[p] >= data[p] /\ data'[p] <= now
<1>1. /\ TypeOK /\ \A p \in Player : data[p] <= now
      /\ \A s \in Sweep : SweepFenced(s)
      /\ \A b \in Backfill : BackfillFenced(b)
  BY DEF RunInv, FenceInv
<1>2. CASE UNCHANGED data
  BY <1>1, <1>2, FenceTypes
<1>3. ASSUME NEW p, NEW f \in Int, WritesData(p, f), f <= now, \A q \in Player : data[q] <= f
      PROVE  \A q \in Player : data'[q] >= data[q] /\ data'[q] <= now
  <2>1. \A q \in Player : data'[q] >= data[q] /\ data'[q] <= f
    BY <1>1, <1>3, WriteIsNewest
  <2>2. now \in Int /\ \A q \in Player : data[q] \in Int /\ data'[q] \in Int
    BY <1>1, <1>3, FenceTypes DEF WritesData, TypeOK
  <2> QED BY <1>3, <2>1, <2>2
<1>4. ASSUME NEW s \in Sweep, pc[s] = "write", SweepFenceHolds(s),
             WritesData(sweep[s].player, sweep[s].fetchedAt)
      PROVE  \A p \in Player : data'[p] >= data[p] /\ data'[p] <= now
  <2>1. /\ sweep[s].fetchedAt <= now /\ sweep[s].fetchedAt \in Int
        /\ \A p \in Player : data[p] <= sweep[s].fetchedAt
    BY <1>1, <1>4, FenceTypes DEF SweepFenced, SweepFenceHolds
  <2> QED BY <1>3, <1>4, <2>1
<1>5. ASSUME NEW b \in Backfill, pc[b] = "write", BackfillFenceHolds(b),
             WritesData(backfill[b].player, backfill[b].fetchedAt)
      PROVE  \A p \in Player : data'[p] >= data[p] /\ data'[p] <= now
  <2>1. /\ backfill[b].fetchedAt <= now /\ backfill[b].fetchedAt \in Int
        /\ \A p \in Player : data[p] <= backfill[b].fetchedAt
    BY <1>1, <1>5, FenceTypes DEF BackfillFenced, BackfillFenceHolds
  <2> QED BY <1>3, <1>5, <2>1
<1> QED BY <1>2, <1>4, <1>5, DataEffects DEF DataEffect

LEMMA FenceInit == Init => FenceInv
<1> SUFFICES ASSUME Init PROVE FenceInv
  OBVIOUS
<1>1. \A p \in Player : data[p] <= now
  BY DEF Init, Never
<1>2. (\A s \in Sweep : pc[s] = "idle") /\ (\A b \in Backfill : pc[b] = "idle")
  BY DEF Init
<1> QED BY <1>1, <1>2 DEF FenceInv, SweepFenced, BackfillFenced

LEMMA SweepStaysFenced ==
    ASSUME RunInv, FenceInv, Next, now' >= now, NEW s \in Sweep, TypeOK'
    PROVE  SweepFenced(s)'
<1> SUFFICES ASSUME pc'[s] = "write"
             PROVE  /\ sweep'[s].fetchedAt <= now'
                    /\ Owns(sweep[s].id, now)' =>
                         \A p \in Player : data'[p] <= sweep'[s].fetchedAt
  BY DEF SweepFenced
<1>1. /\ TypeOK /\ SweepFenced(s) /\ IdsInRange
      /\ \A p \in Player : data[p] <= now
      /\ \A b \in Backfill : BackfillFenced(b)
  BY DEF RunInv, FenceInv
<1>2. CASE sweep'[s].fetchedAt = now /\ UNCHANGED <<now, data>>
  BY <1>1, <1>2, FenceTypes
<1>3. CASE pc'[s] = pc[s] /\ sweep'[s] = sweep[s]
  <2>1. pc[s] = "write" /\ sweep[s].fetchedAt <= now
    BY <1>1, <1>3 DEF SweepFenced
  <2>2. sweep'[s].fetchedAt <= now'
    <3>1. now \in Int /\ sweep[s].fetchedAt \in Int /\ now' \in Int
      BY <1>1, FenceTypes, TimeFacts DEF TypeOK
    <3> QED BY <1>3, <2>1, <3>1
  <2>3. ASSUME Owns(sweep[s].id, now)'
        PROVE  /\ SweepFenceHolds(s)
               /\ \A p \in Player : data[p] <= sweep[s].fetchedAt
    <3>1. PICK i \in 1..Len(runs) : i = sweep[s].id
      BY <1>1, <2>1 DEF IdsInRange, Claimed
    <3>2. Owns(i, now)'
      BY <1>3, <2>3, <3>1 DEF Owns, StillRunning, leaseIsLive
    <3>3. Owns(sweep[s].id, now)
      BY <3>1, <3>2, OwnershipStep DEF OwnershipShrinks
    <3> QED BY <1>1, <2>1, <3>3 DEF SweepFenced, SweepFenceHolds
  <2>4. SweepFenceHolds(s) => UNCHANGED data
    BY <1>3, <2>1, DataEffects, OneWriter DEF DataEffect
  <2> QED BY <1>3, <2>2, <2>3, <2>4
<1> QED BY <1>2, <1>3, SweepEffects DEF SweepEffect

LEMMA BackfillStaysFenced ==
    ASSUME OneBackfill, RunInv, FenceInv, Next, now' >= now, NEW b \in Backfill, TypeOK'
    PROVE  BackfillFenced(b)'
<1> SUFFICES ASSUME pc'[b] # "idle"
             PROVE  BackfillFenced(b)'
  BY DEF BackfillFenced
<1>1. /\ TypeOK /\ BackfillFenced(b) /\ OwnershipShrinks
      /\ \A p \in Player : data[p] <= now
  BY OwnershipStep DEF RunInv, FenceInv
<1>2. /\ now \in Int /\ now' \in Int /\ Len(runs) \in Nat
      /\ backfill[b].after \in Nat /\ backfill[b].fetchedAt \in Int
      /\ Len(runs') \in Nat
  <2>1. Len(runs') \in 0..MaxRuns
    BY RunsFacts, ConstantAssumption DEF TypeOK
  <2> QED BY <1>1, <2>1, FenceTypes, TimeFacts, ConstantAssumption DEF TypeOK
<1>3. CASE pc'[b] = pc[b] /\ backfill'[b] = backfill[b]
  <2>1. /\ backfill[b].after <= Len(runs) /\ Len(runs) <= Len(runs')
        /\ \A i \in 1..backfill[b].after : ~Owns(i, now)
    BY <1>1, <1>2, <1>3 DEF BackfillFenced, OwnershipShrinks
  <2>2. \A i \in 1..backfill[b].after : ~Owns(i, now)'
    BY <1>1, <1>2, <2>1 DEF OwnershipShrinks
  <2>3. ASSUME pc[b] = "write"
        PROVE  /\ backfill[b].fetchedAt <= now'
               /\ Len(runs') <= backfill[b].after =>
                     \A p \in Player : data'[p] <= backfill[b].fetchedAt
    <3>1. backfill[b].fetchedAt <= now'
      BY <1>1, <1>2, <2>3 DEF BackfillFenced
    <3>2. ASSUME Len(runs') <= backfill[b].after
          PROVE  \A p \in Player : data'[p] <= backfill[b].fetchedAt
      <4>1. BackfillFenceHolds(b)
        BY <1>2, <2>1, <3>2 DEF BackfillFenceHolds
      <4>2. \A p \in Player : data[p] <= backfill[b].fetchedAt
        BY <1>1, <2>3, <4>1 DEF BackfillFenced, BackfillFenceHolds
      <4>3. UNCHANGED data
        BY <1>3, <2>3, <4>1, DataEffects, OneWriter DEF DataEffect, OneBackfill
      <4> QED BY <4>2, <4>3
    <3> QED BY <3>1, <3>2
  <2>4. backfill'[b].after <= Len(runs')
    BY <1>2, <1>3, <2>1
  <2> QED BY <1>3, <2>2, <2>3, <2>4 DEF BackfillFenced
<1>4. CASE /\ pc'[b] = "fetch" /\ backfill'[b].after = Len(runs)
           /\ ~LiveRun(now) /\ UNCHANGED <<now, runs>>
  <2>1. \A i \in 1..Len(runs) : ~Owns(i, now)
    BY <1>1, <1>4, RunsFacts DEF LiveRun, Owns, StillRunning
  <2>2. \A i \in 1..Len(runs) : ~Owns(i, now)'
    BY <1>1, <2>1 DEF OwnershipShrinks
  <2> QED BY <1>2, <1>4, <2>2 DEF BackfillFenced
<1>5. CASE /\ pc[b] = "fetch" /\ backfill'[b].after = backfill[b].after
           /\ backfill'[b].fetchedAt = now /\ UNCHANGED <<now, runs, data>>
  <2>1. backfill[b].after <= Len(runs) /\ \A i \in 1..backfill[b].after : ~Owns(i, now)
    BY <1>1, <1>5 DEF BackfillFenced
  <2>2. \A i \in 1..backfill[b].after : ~Owns(i, now)'
    BY <1>1, <1>2, <2>1 DEF OwnershipShrinks
  <2> QED BY <1>1, <1>2, <1>5, <2>1, <2>2 DEF BackfillFenced
<1> QED BY <1>3, <1>4, <1>5, BackfillEffects DEF BackfillEffect

LEMMA ForwardIsNext ==
    ASSUME TypeOK, [ForwardNext]_vars
    PROVE  [Next /\ now' >= now]_vars
<1>1. now \in Time /\ now \in Int /\ Time = 0..MaxTime
  BY FenceTypes DEF TypeOK, Time
<1>2. ASSUME Work PROVE Next /\ now' >= now
  <2>1. UNCHANGED now
    BY <1>2 DEF Work, SweepStep, Begin, Select, Skip, Claim, Calendars, Renew, Fetch, Write,
                Progress, Settle, Fatal, Crash, Admit, BackfillFetch, BackfillWrite, BackfillStops,
                Activate, Deactivate, Enroll, Unenroll, Move
  <2> QED BY <1>1, <1>2, <2>1 DEF Next
<1>3. ASSUME NEW t \in now..MaxTime, SetClock(t) PROVE Next /\ now' >= now
  <2>1. t \in Time /\ t >= now
    BY <1>1, ConstantAssumption
  <2> QED BY <1>3, <2>1 DEF Next, SetClock
<1> QED BY <1>2, <1>3 DEF ForwardNext

LEMMA FenceStep ==
    ASSUME OneBackfill, RunInv, FenceInv, [Next /\ now' >= now]_vars
    PROVE  FenceInv' /\ \A p \in Player : data'[p] >= data[p]
<1>1. CASE Next /\ now' >= now
  <2>1. RunInv' /\ TypeOK' /\ TypeOK
    BY <1>1, RunInvStep DEF RunInv
  <2>2. /\ now \in Int /\ now' \in Int
        /\ \A p \in Player : data[p] \in Int /\ data'[p] \in Int
    <3>1. Time \subseteq Int /\ Time \cup {Never} \subseteq Int
      BY TimeFacts DEF Never
    <3>2. now' \in Time /\ data' \in [Player -> Time \cup {Never}]
      BY <2>1 DEF TypeOK
    <3>3. \A p \in Player : data'[p] \in Time \cup {Never}
      BY <3>2
    <3> QED BY <2>1, <3>1, <3>2, <3>3, FenceTypes
  <2>3. \A p \in Player : data'[p] >= data[p] /\ data'[p] <= now'
    BY <1>1, <2>2, NoOlderData
  <2>4. (\A s \in Sweep : SweepFenced(s)') /\ (\A b \in Backfill : BackfillFenced(b)')
    BY <1>1, <2>1, SweepStaysFenced, BackfillStaysFenced
  <2> QED BY <2>3, <2>4 DEF FenceInv
<1>2. CASE UNCHANGED vars
  <2>1. TypeOK
    BY DEF RunInv
  <2>2. FenceInv'
    <3>1. UNCHANGED <<now, runs, data, pc, sweep, backfill>>
      BY <1>2 DEF vars
    <3>2. \A i : Owns(i, now)' <=> Owns(i, now)
      BY <3>1 DEF Owns, StillRunning, leaseIsLive
    <3>3. \A s \in Sweep : SweepFenced(s)'
      BY <3>1, <3>2, Zenon DEF FenceInv, SweepFenced
    <3>4. \A b \in Backfill : BackfillFenced(b)'
      BY <3>1, <3>2 DEF FenceInv, BackfillFenced
    <3>5. \A p \in Player : data'[p] <= now'
      BY <3>1 DEF FenceInv
    <3> QED BY <3>3, <3>4, <3>5 DEF FenceInv
  <2>3. \A p \in Player : data'[p] >= data[p]
    BY <1>2, <2>1, FenceTypes DEF vars
  <2> QED BY <2>2, <2>3
<1> QED BY <1>1, <1>2

-----------------------------------------------------------------------------
(* Whatever leases run out, whoever resumes as a zombie, and whenever a    *)
(* sweep overtakes a backfill: stat lines are never overwritten with an    *)
(* older fetch.                                                            *)
THEOREM NoStale ==
    ASSUME OneBackfill
    PROVE  ForwardSpec => NoStaleOverwrite
<1>1. Init => RunInv /\ FenceInv
  BY RunInvInit, FenceInit
<1>2. RunInv /\ FenceInv /\ [ForwardNext]_vars => RunInv' /\ FenceInv'
  <2>1. RunInv /\ [ForwardNext]_vars => [Next]_vars
    BY ForwardIsNext DEF RunInv
  <2> QED BY <2>1, RunInvStep, ForwardIsNext, FenceStep DEF RunInv
<1>3. RunInv /\ FenceInv /\ [ForwardNext]_vars =>
         [\A p \in Player : data'[p] >= data[p]]_vars
  BY ForwardIsNext, FenceStep DEF RunInv
<1> QED BY <1>1, <1>2, <1>3, PTL DEF ForwardSpec, NoStaleOverwrite

-----------------------------------------------------------------------------
(* The promise of a fresh digest                                           *)

(* The players a run that began at t is to answer for: active and enrolled *)
(* since before, and so among those it selected.                           *)
Due(p, scope, t) ==
    /\ IsActive(p) /\ active[p] < t
    /\ \/ scope = WholeList
       \/ \E l \in scope : IsMember(p, l) /\ joined[l][p] < t

DueOf(i, p) == Due(p, runs[i].scope, runs[i].startedAt)
Knows(i, p) == data[p] >= runs[i].startedAt

(* A sweep that has met no failure still has to do, or knows, whom its run *)
(* is to answer for; what it is about to write is no older than any run up *)
(* to its own.                                                             *)
SweepKnows(s) ==
    /\ pc[s] \in {"select", "claim"} => sweep[s].startedAt <= now
    /\ pc[s] = "claim" =>
          \A p \in Player : Due(p, sweep[s].scope, sweep[s].startedAt) => p \in sweep[s].todo
    /\ Claimed(s) /\ sweep[s].outcomes \subseteq {"refreshed"} =>
          \A p \in Player : DueOf(sweep[s].id, p) => p \in sweep[s].todo \/ Knows(sweep[s].id, p)
    /\ pc[s] = "settle" => sweep[s].todo = {}
    /\ pc[s] = "write" => \A i \in 1..sweep[s].id : runs[i].startedAt <= sweep[s].fetchedAt

(* A backfill is no older than any run it was admitted after.              *)
BackfillKnows(b) ==
    /\ pc[b] # "idle" => backfill[b].after <= Len(runs)
    /\ pc[b] = "write" =>
          \A i \in 1..backfill[b].after : runs[i].startedAt <= backfill[b].fetchedAt

(* A run that ended without a failure knows whom it is to answer for.      *)
RunKnows(i) ==
    /\ runs[i].startedAt <= now
    /\ runs[i].status = "ok" => \A p \in Player : DueOf(i, p) => Knows(i, p)

FreshInv ==
    /\ \A i \in 1..Len(runs) : RunKnows(i)
    /\ \A s \in Sweep : SweepKnows(s)
    /\ \A b \in Backfill : BackfillKnows(b)

-----------------------------------------------------------------------------
(* What no step takes back                                                 *)

LEMMA InstantFacts ==
    ASSUME TypeOK
    PROVE  /\ now \in Int
           /\ \A i \in 1..Len(runs) : runs[i].startedAt \in Nat
           /\ \A s \in Sweep : sweep[s].startedAt \in Nat
           /\ \A p \in Player : active[p] \in Int
           /\ \A l \in Lane, p \in Player : joined[l][p] \in Int
<1>0. /\ now \in Time /\ sweep \in [Sweep -> SweepState]
      /\ active \in [Player -> Time \cup {Never}]
      /\ joined \in [Lane -> [Player -> Time \cup {Never}]]
  BY DEF TypeOK
<1>1. Time \subseteq Nat /\ Time \cup {Never} \subseteq Int
  BY TimeFacts DEF Never
<1>2. \A i \in 1..Len(runs) : runs[i].startedAt \in Time
  BY RunsFacts DEF Run
<1>3. \A s \in Sweep : sweep[s].startedAt \in Time
  BY <1>0 DEF SweepState
<1>4. \A p \in Player : active[p] \in Time \cup {Never}
  BY <1>0
<1>5. \A l \in Lane, p \in Player : joined[l][p] \in Time \cup {Never}
  BY <1>0
<1>6. now \in Int /\ \A p \in Player : active[p] \in Int
  BY <1>0, <1>1, <1>4
<1>7. \A l \in Lane, p \in Player : joined[l][p] \in Int
  BY <1>1, <1>5
<1>8. \A i \in 1..Len(runs) : runs[i].startedAt \in Nat
  BY <1>1, <1>2
<1>9. \A s \in Sweep : sweep[s].startedAt \in Nat
  BY <1>1, <1>3
<1> QED BY <1>6, <1>7, <1>8, <1>9

(* Whoever is added or enrolled is so from now on: no run that has begun   *)
(* comes to answer for him.                                                *)
LEMMA DueShrinks ==
    ASSUME TypeOK, Next, NEW p \in Player, NEW scope \in Scope,
           NEW t \in Nat, t <= now, Due(p, scope, t)'
    PROVE  Due(p, scope, t)
<1>t. /\ now \in Int /\ now \in Time
      /\ active \in [Player -> Time \cup {Never}]
      /\ joined \in [Lane -> [Player -> Time \cup {Never}]]
  BY InstantFacts DEF TypeOK
<1>s. \A l \in scope : scope # WholeList => l \in Lane
  BY DEF Scope
<1>1. CASE UNCHANGED <<active, joined>>
  BY <1>1 DEF Due, IsActive, IsMember
<1>2. ASSUME NEW q \in Player, Activate(q) \/ Deactivate(q) PROVE Due(p, scope, t)
  <2>1. joined' = joined
    BY <1>2 DEF Activate, Deactivate
  <2>2. active'[p] # Never /\ active'[p] < t
    BY DEF Due, IsActive
  <2>3. active'[p] = active[p]
    <3>1. CASE p # q
      BY <1>2, <1>t, <3>1 DEF Activate, Deactivate
    <3>2. CASE p = q
      <4>1. active'[p] \in {now, Never}
        BY <1>2, <1>t, <3>2 DEF Activate, Deactivate
      <4> QED BY <4>1, <2>2, <1>t
    <3> QED BY <3>1, <3>2
  <2> QED BY <2>1, <2>3 DEF Due, IsActive, IsMember
<1>3. ASSUME NEW q \in Player, NEW m \in Lane, Enroll(q, m) \/ Unenroll(q, m)
      PROVE  Due(p, scope, t)
  <2>1. active' = active
    BY <1>3 DEF Enroll, Unenroll
  <2>2. PICK u \in {now, Never} : joined' = [joined EXCEPT ![m][q] = u]
    BY <1>3 DEF Enroll, Unenroll
  <2>3. joined' = [joined EXCEPT ![m] = [joined[m] EXCEPT ![q] = u]]
    BY <2>2, Zenon
  <2>4. CASE scope = WholeList
    BY <2>1, <2>4 DEF Due, IsActive
  <2>5. ASSUME scope # WholeList
        PROVE  Due(p, scope, t)
    <3>1. PICK l \in scope : joined'[l][p] # Never /\ joined'[l][p] < t
      BY <2>5 DEF Due, IsMember
    <3>2. l \in Lane
      BY <1>s, <2>5
    <3>3. joined'[l][p] = joined[l][p]
      <4>1. CASE l = m /\ p = q
        <5>1. joined'[l][p] = u
          BY <1>t, <2>3, <3>2, <4>1
        <5> QED BY <3>1, <5>1, <1>t
      <4>2. CASE ~(l = m /\ p = q)
        BY <1>t, <2>3, <3>2, <4>2
      <4> QED BY <4>1, <4>2
    <3> QED BY <2>1, <3>1, <3>3 DEF Due, IsActive, IsMember
  <2> QED BY <2>4, <2>5
<1>4. \/ UNCHANGED <<active, joined>>
      \/ \E q \in Player : Activate(q) \/ Deactivate(q)
      \/ \E q \in Player, l \in Lane : Enroll(q, l) \/ Unenroll(q, l)
  BY DEF Next, Work, SweepStep, Begin, Select, Skip, Claim, Calendars, Renew, Fetch, Write,
         Progress, Settle, Fatal, Crash, Admit, BackfillFetch, BackfillWrite, BackfillStops,
         SetClock, roster
<1> QED BY <1>1, <1>2, <1>3, <1>4

(* A row keeps its watermark and its scope, and turns ok only when the     *)
(* sweep that owns it settles it, having met no failure.                   *)
SettlesOk(s) ==
    /\ pc[s] = "settle" /\ sweep[s].outcomes \subseteq {"refreshed"}
    /\ UNCHANGED <<now, roster, data>>

RowsKept ==
    /\ Len(runs) <= Len(runs')
    /\ \A i \in 1..Len(runs) :
          /\ runs'[i].startedAt = runs[i].startedAt /\ runs'[i].scope = runs[i].scope
          /\ runs'[i].status = "ok" =>
                \/ runs[i].status = "ok"
                \/ \E s \in Sweep : sweep[s].id = i /\ SettlesOk(s)

LEMMA SettledRow ==
    ASSUME TypeOK, NEW i \in 1..Len(runs), NEW status \in {"ok", "partial", "failed"},
           settleRefreshRun(i, status)
    PROVE  /\ Len(runs') = Len(runs)
           /\ \A j \in 1..Len(runs) : j # i => runs'[j] = runs[j]
           /\ runs'[i].startedAt = runs[i].startedAt /\ runs'[i].scope = runs[i].scope
           /\ runs'[i].status = "ok" => runs[i].status = "ok" \/ status = "ok"
<1>1. /\ Len(runs') = Len(runs)
      /\ \A j \in 1..Len(runs) : j # i => runs'[j] = runs[j]
      /\ runs[i] \in Run
  BY SettleFacts, RunsFacts
<1>2. CASE StillRunning(i)
  <2>1. runs'[i] = [runs[i] EXCEPT !.status = status]
    <3>1. runs' = [runs EXCEPT ![i] = [runs[i] EXCEPT !.status = status]]
      BY <1>2, Zenon DEF settleRefreshRun
    <3> QED BY <3>1, RunsFacts
  <2> QED BY <1>1, <2>1 DEF Run
<1>3. CASE ~StillRunning(i)
  BY <1>1, <1>3 DEF settleRefreshRun
<1> QED BY <1>2, <1>3

LEMMA RowsKeptStep ==
    ASSUME RunInv, Next
    PROVE  RowsKept
<1>1. TypeOK /\ IdsInRange /\ Len(runs) \in Nat /\ \A i \in 1..Len(runs) : runs[i] \in Run
  BY RunsFacts DEF RunInv
<1>2. ASSUME UNCHANGED runs PROVE RowsKept
  BY <1>1, <1>2 DEF RowsKept
<1>3. ASSUME NEW s \in Sweep, Claim(s) PROVE RowsKept
  <2>1. \A i \in 1..Len(runs) :
           /\ Reap(runs[i]).startedAt = runs[i].startedAt /\ Reap(runs[i]).scope = runs[i].scope
           /\ Reap(runs[i]).status = "ok" => runs[i].status = "ok"
    BY <1>1 DEF Reap, Run
  <2> QED BY <1>1, <1>3, <2>1, ClaimFacts DEF RowsKept
<1>4. ASSUME NEW s \in Sweep, Renew(s), Owns(sweep[s].id, now) PROVE RowsKept
  <2>1. PICK i \in 1..Len(runs) : i = sweep[s].id
    BY <1>1, <1>4 DEF IdsInRange, Claimed, Renew
  <2>2. runs' = [runs EXCEPT ![i].claimedAt = RenewedAt(i)]
    BY <1>4, <2>1 DEF Renew
  <2>3. /\ Len(runs') = Len(runs)
        /\ \A j \in 1..Len(runs) : j # i => runs'[j] = runs[j]
        /\ runs'[i] = [runs[i] EXCEPT !.claimedAt = RenewedAt(i)]
    BY <1>1, <2>2, RenewFacts
  <2>4. /\ runs'[i].startedAt = runs[i].startedAt /\ runs'[i].scope = runs[i].scope
        /\ runs'[i].status = runs[i].status
    BY <1>1, <2>3 DEF Run
  <2>5. \A j \in 1..Len(runs) : /\ runs'[j].startedAt = runs[j].startedAt
                               /\ runs'[j].scope = runs[j].scope
                               /\ runs'[j].status = runs[j].status
    BY <2>3, <2>4
  <2> QED BY <1>1, <2>3, <2>5 DEF RowsKept
<1>5. ASSUME NEW s \in Sweep, Settle(s) \/ Fatal(s) PROVE RowsKept
  <2>1. PICK i \in 1..Len(runs) : i = sweep[s].id
    BY <1>1, <1>5 DEF IdsInRange, Claimed, Settle, Fatal
  <2>2. PICK status \in {"ok", "partial", "failed"} :
           /\ settleRefreshRun(i, status)
           /\ status = "ok" => SettlesOk(s)
    <3>1. CASE Fatal(s)
      BY <2>1, <3>1 DEF Fatal
    <3>2. CASE Settle(s)
      <4>1. PICK blocks \in BOOLEAN :
               settleRefreshRun(i, deriveRefreshStatus(sweep[s].outcomes, blocks))
        BY <2>1, <3>2 DEF Settle
      <4>2. /\ deriveRefreshStatus(sweep[s].outcomes, blocks) \in {"ok", "partial", "failed"}
            /\ deriveRefreshStatus(sweep[s].outcomes, blocks) = "ok" =>
                  sweep[s].outcomes \subseteq {"refreshed"}
        BY DEF deriveRefreshStatus
      <4> QED BY <3>2, <4>1, <4>2 DEF Settle, SettlesOk
    <3> QED BY <1>5, <3>1, <3>2
  <2>3. /\ Len(runs') = Len(runs)
        /\ \A j \in 1..Len(runs) : j # i => runs'[j] = runs[j]
        /\ runs'[i].startedAt = runs[i].startedAt /\ runs'[i].scope = runs[i].scope
        /\ runs'[i].status = "ok" => runs[i].status = "ok" \/ status = "ok"
    BY <1>1, <2>2, SettledRow
  <2> QED BY <1>1, <2>1, <2>2, <2>3 DEF RowsKept
<1>6. \/ UNCHANGED runs
      \/ \E s \in Sweep : Claim(s) \/ (Renew(s) /\ Owns(sweep[s].id, now))
                                   \/ Settle(s) \/ Fatal(s)
  BY DEF Next, Work, SweepStep, Begin, Select, Skip, Calendars, Renew, Fetch, Write,
         Progress, Crash, Admit, BackfillFetch, BackfillWrite, BackfillStops,
         Activate, Deactivate, Enroll, Unenroll, Move, SetClock
<1> QED BY <1>2, <1>3, <1>4, <1>5, <1>6

(* No write takes back what a run is to know: what passes its fence was    *)
(* fetched after every run there is began.                                 *)
LEMMA KnownStays ==
    ASSUME RunInv, FreshInv, Next, NEW i \in 1..Len(runs), NEW p \in Player, Knows(i, p)
    PROVE  data'[p] >= runs[i].startedAt
<1>1. /\ TypeOK /\ IdsInRange /\ RunningIsNewest /\ data \in [Player -> Time \cup {Never}]
      /\ Len(runs) \in Nat /\ data[p] >= runs[i].startedAt
  BY RunsFacts DEF RunInv, TypeOK, Knows
<1>2. CASE UNCHANGED data
  BY <1>1, <1>2
<1>3. ASSUME NEW q, NEW f, WritesData(q, f), runs[i].startedAt <= f
      PROVE  data'[p] >= runs[i].startedAt
  <2>1. data'[p] = data[p] \/ data'[p] = f
    BY <1>1, <1>3 DEF WritesData
  <2> QED BY <1>1, <1>3, <2>1
<1>4. ASSUME NEW s \in Sweep, pc[s] = "write", SweepFenceHolds(s),
             WritesData(sweep[s].player, sweep[s].fetchedAt)
      PROVE  data'[p] >= runs[i].startedAt
  <2>1. sweep[s].id = Len(runs)
    BY <1>1, <1>4, RunsFacts
       DEF Claimed, IdsInRange, SweepFenceHolds, Owns, StillRunning, RunningIsNewest
  <2>2. runs[i].startedAt <= sweep[s].fetchedAt
    BY <1>4, <2>1 DEF FreshInv, SweepKnows
  <2> QED BY <1>3, <1>4, <2>2
<1>5. ASSUME NEW b \in Backfill, pc[b] = "write", BackfillFenceHolds(b),
             WritesData(backfill[b].player, backfill[b].fetchedAt)
      PROVE  data'[p] >= runs[i].startedAt
  <2>1. i \in 1..backfill[b].after
    BY <1>1, <1>5, FenceTypes DEF BackfillFenceHolds
  <2>2. runs[i].startedAt <= backfill[b].fetchedAt
    BY <1>5, <2>1 DEF FreshInv, BackfillKnows
  <2> QED BY <1>3, <1>5, <2>2
<1> QED BY <1>2, <1>4, <1>5, DataEffects DEF DataEffect

(* The three together: what a run was to answer for and knew or not.       *)
Onward ==
    /\ RowsKept /\ now' >= now
    /\ \A p \in Player : data'[p] \in Int
    /\ \A i \in 1..Len(runs), p \in Player :
          /\ DueOf(i, p)' => DueOf(i, p)
          /\ Knows(i, p) => Knows(i, p)'
    /\ \A s \in Sweep, p \in Player :
          /\ pc[s] = "claim" /\ sweep'[s] = sweep[s]
          /\ Due(p, sweep[s].scope, sweep[s].startedAt)'
          => Due(p, sweep[s].scope, sweep[s].startedAt)

LEMMA OnwardStep ==
    ASSUME RunInv, RunInv', FreshInv, Next, now' >= now
    PROVE  Onward
<1>1. TypeOK /\ TypeOK' /\ RowsKept
  BY RowsKeptStep DEF RunInv
<1>2. \A p \in Player : data'[p] \in Int
  <2>1. data' \in [Player -> Time \cup {Never}] /\ Time \cup {Never} \subseteq Int
    BY <1>1, TimeFacts DEF TypeOK, Never
  <2>2. \A p \in Player : data'[p] \in Time \cup {Never}
    BY <2>1
  <2> QED BY <2>1, <2>2
<1>3. ASSUME NEW i \in 1..Len(runs), NEW p \in Player, DueOf(i, p)' PROVE DueOf(i, p)
  <2>1. /\ runs[i].scope \in Scope /\ runs[i].startedAt \in Nat /\ runs[i].startedAt <= now
        /\ runs'[i].startedAt = runs[i].startedAt /\ runs'[i].scope = runs[i].scope
    BY <1>1, RunsFacts, InstantFacts DEF Run, RowsKept, FreshInv, RunKnows
  <2> DEFINE sc == runs[i].scope  st == runs[i].startedAt
  <2>2. PICK x \in Scope, t \in Nat : x = sc /\ t = st
    BY <2>1
  <2>3. Due(p, x, t)'
    BY <1>3, <2>1, <2>2 DEF DueOf, Due, IsActive, IsMember
  <2>4. Due(p, x, t)
    BY <1>1, <2>1, <2>2, <2>3, DueShrinks
  <2> QED BY <2>2, <2>4 DEF DueOf
<1>4. ASSUME NEW i \in 1..Len(runs), NEW p \in Player, Knows(i, p) PROVE Knows(i, p)'
  <2>1. runs'[i].startedAt = runs[i].startedAt
    BY <1>1 DEF RowsKept
  <2> QED BY <1>4, <2>1, KnownStays DEF Knows
<1>5. ASSUME NEW s \in Sweep, NEW p \in Player, pc[s] = "claim", sweep'[s] = sweep[s],
             Due(p, sweep[s].scope, sweep[s].startedAt)'
      PROVE  Due(p, sweep[s].scope, sweep[s].startedAt)
  <2>1. /\ sweep[s].scope \in Scope /\ sweep[s].startedAt \in Nat /\ sweep[s].startedAt <= now
    <3>1. sweep[s] \in SweepState
      BY <1>1 DEF TypeOK
    <3> QED BY <1>1, <1>5, <3>1, InstantFacts DEF SweepState, FreshInv, SweepKnows
  <2>2. PICK x \in Scope, t \in Nat : x = sweep[s].scope /\ t = sweep[s].startedAt
    BY <2>1
  <2>3. Due(p, x, t)'
    BY <1>5, <2>2 DEF Due, IsActive, IsMember
  <2>4. Due(p, x, t)
    BY <1>1, <2>1, <2>2, <2>3, DueShrinks
  <2> QED BY <2>2, <2>4
<1> QED BY <1>1, <1>2, <1>3, <1>4, <1>5 DEF Onward

-----------------------------------------------------------------------------
(* Each part of the invariant                                              *)

LEMMA FreshInit == Init => FreshInv
<1> SUFFICES ASSUME Init PROVE FreshInv
  OBVIOUS
<1>1. Len(runs) = 0 /\ 1..Len(runs) = {}
  BY DEF Init
<1>2. (\A s \in Sweep : pc[s] = "idle") /\ (\A b \in Backfill : pc[b] = "idle")
  BY DEF Init
<1> QED BY <1>1, <1>2 DEF FreshInv, SweepKnows, BackfillKnows, Claimed

LEMMA RunsStayKnown ==
    ASSUME RunInv, FreshInv, Next, Onward, NEW i \in 1..Len(runs)
    PROVE  RunKnows(i)'
<1>1. /\ TypeOK /\ runs'[i].startedAt = runs[i].startedAt /\ runs[i].startedAt <= now
      /\ RunKnows(i) /\ runs[i].startedAt \in Int /\ now \in Int /\ now' \in Int
  <2>1. TypeOK /\ TypeOK' /\ RunKnows(i)
    BY RunInvStep DEF RunInv, FreshInv
  <2>2. now' \in Int
    BY <2>1, TimeFacts DEF TypeOK
  <2> QED BY <2>1, <2>2, InstantFacts DEF RunKnows, Onward, RowsKept
<1>2. runs'[i].startedAt <= now'
  BY <1>1 DEF Onward
<1>3. ASSUME runs'[i].status = "ok", NEW p \in Player, DueOf(i, p)' PROVE Knows(i, p)'
  <2>1. DueOf(i, p) /\ (Knows(i, p) => Knows(i, p)')
    BY <1>3 DEF Onward
  <2>2. CASE runs[i].status = "ok"
    BY <1>1, <2>1, <2>2 DEF RunKnows
  <2>3. ASSUME NEW s \in Sweep, sweep[s].id = i, SettlesOk(s) PROVE Knows(i, p)'
    <3>1. Claimed(s) /\ sweep[s].todo = {} /\ sweep[s].outcomes \subseteq {"refreshed"}
      BY <2>3 DEF SettlesOk, Claimed, FreshInv, SweepKnows
    <3>2. Knows(i, p)
      BY <2>1, <2>3, <3>1 DEF FreshInv, SweepKnows
    <3> QED BY <2>1, <3>2
  <2> QED BY <1>3, <2>2, <2>3 DEF Onward, RowsKept
<1> QED BY <1>2, <1>3 DEF RunKnows

(* A new run has watched no one yet, and is not over.                      *)
LEMMA NewRunKnown ==
    ASSUME TypeOK, NEW s \in Sweep, Claim(s), NEW i, i = Len(runs) + 1
    PROVE  RunKnows(i)'
<1>1. runs'[i] = NewRun(s) /\ sweep[s].startedAt <= now /\ now' = now
  BY ClaimFacts DEF Claim
<1>2. runs'[i].status = "running" /\ runs'[i].startedAt <= now'
  BY <1>1 DEF NewRun
<1> QED BY <1>2 DEF RunKnows

LEMMA BackfillStaysKnown ==
    ASSUME RunInv, RunInv', FreshInv, Next, Onward, NEW b \in Backfill
    PROVE  BackfillKnows(b)'
<1>1. /\ TypeOK /\ BackfillKnows(b) /\ RowsKept
      /\ Len(runs) \in Nat /\ Len(runs') \in Nat /\ Len(runs) <= Len(runs')
      /\ backfill[b].after \in Nat
      /\ \A i \in 1..Len(runs) : runs'[i].startedAt = runs[i].startedAt
  <2>1. TypeOK /\ TypeOK'
    BY DEF RunInv
  <2>2. Len(runs') \in 0..MaxRuns /\ Len(runs) \in 0..MaxRuns
    BY <2>1, RunsFacts, ConstantAssumption DEF TypeOK
  <2> QED BY <2>1, <2>2, FenceTypes, ConstantAssumption DEF FreshInv, Onward, RowsKept
<1>2. CASE pc'[b] = pc[b] /\ backfill'[b] = backfill[b]
  <2>1. CASE pc[b] = "idle"
    BY <1>2, <2>1 DEF BackfillKnows
  <2>2. CASE pc[b] # "idle"
    <3>1. backfill[b].after <= Len(runs)
      BY <1>1, <2>2 DEF BackfillKnows
    <3>2. \A i \in 1..backfill[b].after : runs'[i].startedAt = runs[i].startedAt
      BY <1>1, <3>1
    <3>3. backfill'[b].after <= Len(runs')
      BY <1>1, <1>2, <3>1
    <3> QED BY <1>1, <1>2, <3>2, <3>3 DEF BackfillKnows
  <2> QED BY <2>1, <2>2
<1>3. CASE pc'[b] = "idle"
  BY <1>3 DEF BackfillKnows
<1>4. CASE pc'[b] = "fetch" /\ backfill'[b].after = Len(runs)
  BY <1>1, <1>4 DEF BackfillKnows
<1>5. CASE /\ pc[b] = "fetch" /\ backfill'[b].after = backfill[b].after
           /\ backfill'[b].fetchedAt = now /\ UNCHANGED <<now, runs, data>>
  <2>1. backfill[b].after <= Len(runs)
    BY <1>1, <1>5 DEF BackfillKnows
  <2>2. \A i \in 1..backfill[b].after : runs[i].startedAt <= now
    BY <1>1, <2>1 DEF FreshInv, RunKnows
  <2> QED BY <1>5, <2>1, <2>2 DEF BackfillKnows
<1> QED BY <1>2, <1>3, <1>4, <1>5, BackfillEffects DEF BackfillEffect

(* A sweep that takes no step loses nothing by the others' steps.          *)
LEMMA WaitingSweepKnows ==
    ASSUME RunInv, RunInv', FreshInv, Onward, NEW s \in Sweep,
           pc'[s] = pc[s], sweep'[s] = sweep[s]
    PROVE  SweepKnows(s)'
<1>1. /\ TypeOK /\ SweepKnows(s) /\ IdsInRange /\ now \in Int /\ now' \in Int
      /\ sweep[s].startedAt \in Int /\ Len(runs) \in Nat
  BY InstantFacts, RunsFacts, TimeFacts DEF RunInv, FreshInv, TypeOK
<1>2. pc[s] \in {"select", "claim"} => sweep[s].startedAt <= now'
  BY <1>1 DEF SweepKnows, Onward
<1>3. ASSUME pc[s] = "claim", NEW p \in Player,
             Due(p, sweep[s].scope, sweep[s].startedAt)'
      PROVE  p \in sweep[s].todo
  <2>1. Due(p, sweep[s].scope, sweep[s].startedAt)
    BY <1>3 DEF Onward
  <2> QED BY <1>1, <1>3, <2>1 DEF SweepKnows
<1>4. ASSUME Claimed(s), sweep[s].outcomes \subseteq {"refreshed"}, NEW p \in Player,
             DueOf(sweep[s].id, p)'
      PROVE  p \in sweep[s].todo \/ Knows(sweep[s].id, p)'
  <2>1. PICK i \in 1..Len(runs) : i = sweep[s].id
    BY <1>1, <1>4 DEF IdsInRange
  <2>2. DueOf(i, p)'
    BY <1>4, <2>1 DEF DueOf, Due, IsActive, IsMember
  <2>3. DueOf(i, p) /\ (Knows(i, p) => Knows(i, p)')
    BY <2>2 DEF Onward
  <2>4. p \in sweep[s].todo \/ Knows(i, p)
    BY <1>1, <1>4, <2>1, <2>3 DEF SweepKnows
  <2>5. Knows(i, p)' => Knows(sweep[s].id, p)'
    BY <2>1 DEF Knows
  <2> QED BY <2>3, <2>4, <2>5
<1>5. ASSUME pc[s] = "write", NEW i \in 1..sweep[s].id
      PROVE  runs'[i].startedAt <= sweep[s].fetchedAt
  <2>1. sweep[s].id \in 1..Len(runs)
    BY <1>1, <1>5 DEF IdsInRange, Claimed
  <2>2. i \in 1..Len(runs)
    BY <1>1, <2>1
  <2> QED BY <1>1, <1>5, <2>2 DEF SweepKnows, Onward, RowsKept
<1> QED BY <1>1, <1>2, <1>3, <1>4, <1>5
        DEF SweepKnows, Claimed, DueOf, Knows, Due, IsActive, IsMember

(* A sweep's own steps.  Selecting takes up whom the run is to answer for, *)
(* and reads the scope as the whole list only if that is everyone.         *)
LEMMA SelectKnows ==
    ASSUME TypeOK, NEW s \in Sweep, SweepKnows(s), Select(s)
    PROVE  SweepKnows(s)'
<1>1. /\ pc'[s] = "claim" /\ sweep'[s].startedAt = sweep[s].startedAt
      /\ sweep'[s].todo = Selected(sweep[s].scope)
      /\ sweep'[s].scope = IF CoversEveryActivePlayer(sweep[s].scope)
                           THEN WholeList ELSE sweep[s].scope
      /\ UNCHANGED <<now, active, joined>> /\ sweep[s].startedAt <= now
  BY SelectFacts DEF SweepKnows, Select, roster
<1>2. ASSUME NEW p \in Player, Due(p, sweep[s].scope, sweep[s].startedAt)'
      PROVE  p \in sweep'[s].todo
  <2>1. IsActive(p)
    BY <1>1, <1>2 DEF Due, IsActive
  <2>2. CASE CoversEveryActivePlayer(sweep[s].scope)
    BY <1>1, <2>1, <2>2 DEF CoversEveryActivePlayer
  <2>3. CASE ~CoversEveryActivePlayer(sweep[s].scope)
    <3>1. sweep'[s].scope = sweep[s].scope
      BY <1>1, <2>3
    <3>2. sweep[s].scope = WholeList \/ \E l \in sweep[s].scope : IsMember(p, l)
      BY <1>1, <1>2, <3>1 DEF Due, IsMember
    <3> QED BY <1>1, <2>1, <3>2 DEF Selected
  <2> QED BY <2>2, <2>3
<1> QED BY <1>1, <1>2 DEF SweepKnows, Claimed

(* Claiming passes what was selected on to the row.                        *)
LEMMA ClaimKnows ==
    ASSUME TypeOK, NEW s \in Sweep, SweepKnows(s), Claim(s)
    PROVE  SweepKnows(s)'
<1>1. /\ pc'[s] = "calendars" /\ sweep'[s].todo = sweep[s].todo
      /\ sweep'[s].id = Len(runs) + 1 /\ runs'[Len(runs) + 1] = NewRun(s)
      /\ UNCHANGED <<now, active, joined>> /\ pc[s] = "claim"
  BY ClaimLocals, ClaimFacts DEF Claim, roster
<1>2. /\ runs'[sweep'[s].id].scope = sweep[s].scope
      /\ runs'[sweep'[s].id].startedAt = sweep[s].startedAt
  BY <1>1 DEF NewRun
<1>3. ASSUME NEW p \in Player, DueOf(sweep[s].id, p)' PROVE p \in sweep'[s].todo
  <2>1. Due(p, sweep[s].scope, sweep[s].startedAt)
    BY <1>1, <1>2, <1>3 DEF DueOf, Due, IsActive, IsMember
  <2> QED BY <1>1, <2>1 DEF SweepKnows
<1> QED BY <1>1, <1>3 DEF SweepKnows, Claimed

(* From then on a sweep goes on knowing, if it takes nobody off its list   *)
(* but whom its run now knows or whose failure it notes.                   *)
GoesOn(s) ==
    /\ Claimed(s) /\ Claimed(s)' /\ sweep'[s].id = sweep[s].id
    /\ sweep[s].outcomes \subseteq sweep'[s].outcomes
    /\ sweep'[s].outcomes \subseteq {"refreshed"} =>
          \A p \in sweep[s].todo : p \in sweep'[s].todo \/ Knows(sweep[s].id, p)'
    /\ pc'[s] = "settle" => sweep'[s].todo = {}
    /\ pc'[s] = "write" =>
          \A i \in 1..sweep[s].id : runs[i].startedAt <= sweep'[s].fetchedAt

LEMMA GoingOnKnows ==
    ASSUME RunInv, Onward, NEW s \in Sweep, SweepKnows(s), GoesOn(s)
    PROVE  SweepKnows(s)'
<1>1. PICK i \in 1..Len(runs) : i = sweep[s].id /\ i = sweep'[s].id
  BY DEF RunInv, IdsInRange, GoesOn
<1>2. ASSUME sweep'[s].outcomes \subseteq {"refreshed"}, NEW p \in Player, DueOf(i, p)'
      PROVE  p \in sweep'[s].todo \/ Knows(i, p)'
  <2>1. DueOf(i, p) /\ (Knows(i, p) => Knows(i, p)')
    BY <1>2 DEF Onward
  <2>2. p \in sweep[s].todo \/ Knows(i, p)
    BY <1>1, <1>2, <2>1 DEF SweepKnows, GoesOn
  <2>3. p \in sweep[s].todo => p \in sweep'[s].todo \/ Knows(sweep[s].id, p)'
    BY <1>2 DEF GoesOn
  <2>4. Knows(sweep[s].id, p)' => Knows(i, p)'
    BY <1>1 DEF Knows
  <2> QED BY <2>1, <2>2, <2>3, <2>4
<1>3. ASSUME NEW p \in Player, DueOf(sweep[s].id, p)' PROVE DueOf(i, p)'
  BY <1>1, <1>3 DEF DueOf, Due, IsActive, IsMember
<1>4. ASSUME NEW p \in Player, Knows(i, p)' PROVE Knows(sweep[s].id, p)'
  BY <1>1, <1>4 DEF Knows
<1>5. ASSUME pc'[s] = "write", NEW j \in 1..sweep'[s].id
      PROVE  runs'[j].startedAt <= sweep'[s].fetchedAt
  <2>1. j \in 1..Len(runs) /\ j \in 1..sweep[s].id
    BY <1>1, RunsFacts DEF RunInv
  <2> QED BY <1>5, <2>1 DEF GoesOn, Onward, RowsKept
<1>6. pc'[s] \notin {"select", "claim"}
  BY DEF GoesOn, Claimed
<1> QED BY <1>2, <1>3, <1>4, <1>5, <1>6 DEF SweepKnows, GoesOn

LEMMA CollectGoesOn ==
    ASSUME TypeOK, NEW s \in Sweep, Claimed(s), NEW outcome \in Outcome, Collect(s, outcome),
           \A p \in Player : outcome = "refreshed" /\ p = sweep[s].player =>
                                data'[p] >= runs'[sweep[s].id].startedAt
    PROVE  GoesOn(s)
<1>1. /\ pc'[s] = "progress" /\ sweep'[s].id = sweep[s].id
      /\ sweep'[s].todo = sweep[s].todo \ {sweep[s].player}
      /\ sweep'[s].outcomes = sweep[s].outcomes \cup {outcome}
  BY CollectFacts
<1>2. ASSUME sweep'[s].outcomes \subseteq {"refreshed"}, NEW p \in sweep[s].todo
      PROVE  p \in sweep'[s].todo \/ Knows(sweep[s].id, p)'
  <2>1. outcome = "refreshed"
    BY <1>1, <1>2
  <2>2. CASE p = sweep[s].player
    <3>1. p \in Player
      BY DEF TypeOK, SweepState
    <3> QED BY <1>1, <2>1, <2>2, <3>1 DEF Knows
  <2> QED BY <1>1, <2>2
<1> QED BY <1>1, <1>2 DEF GoesOn, Claimed

LEMMA OwnStepKnows ==
    ASSUME RunInv, FreshInv, Onward, NEW s \in Sweep, OwnStep(s)
    PROVE  SweepKnows(s)'
<1>1. TypeOK /\ IdsInRange /\ SweepKnows(s) /\ sweep[s] \in SweepState
  BY DEF RunInv, FreshInv, TypeOK
<1>2. ASSUME NEW scope \in Scopes, Begin(s, scope) PROVE SweepKnows(s)'
  <2>1. pc'[s] = "select" /\ sweep'[s].startedAt = now /\ now' = now
    BY <1>1, <1>2, BeginFacts DEF Begin
  <2> QED BY <1>1, <2>1, InstantFacts DEF SweepKnows, Claimed
<1>3. ASSUME EndSweep(s) PROVE SweepKnows(s)'
  <2>1. pc'[s] = "idle"
    BY <1>1, <1>3, EndSweepFacts
  <2> QED BY <2>1 DEF SweepKnows, Claimed
<1>4. ASSUME Goto(s, AfterPlayers(s)), UNCHANGED sweep, Claimed(s) PROVE GoesOn(s)
  <2>1. pc'[s] = AfterPlayers(s) /\ pc'[s] \in {"renew", "settle"}
    BY <1>1, <1>4, NextPlayerLocals
  <2>2. pc'[s] = "settle" => sweep[s].todo = {}
    BY <2>1 DEF AfterPlayers
  <2> QED BY <1>4, <2>1, <2>2 DEF GoesOn, Claimed
<1>5. ASSUME Renew(s), Owns(sweep[s].id, now) PROVE GoesOn(s)
  <2>1. PICK p \in sweep[s].todo : sweep'[s] = [sweep[s] EXCEPT !.player = p]
    BY <1>1, <1>5, RenewLocals
  <2>2. /\ sweep'[s].id = sweep[s].id /\ sweep'[s].todo = sweep[s].todo
        /\ sweep'[s].outcomes = sweep[s].outcomes
    BY <1>1, <2>1 DEF SweepState
  <2>3. pc'[s] = "fetch" /\ pc[s] = "renew"
    BY <1>1, <1>5, RenewLocals DEF Renew
  <2> QED BY <2>2, <2>3 DEF GoesOn, Claimed
<1>6. ASSUME Fetch(s) PROVE GoesOn(s)
  <2>1. pc[s] = "fetch" /\ Claimed(s)
    BY <1>6 DEF Fetch, Claimed
  <2>2. CASE Goto(s, "write") /\ sweep' = [sweep EXCEPT ![s].fetchedAt = now]
    <3>1. sweep'[s] = [sweep[s] EXCEPT !.fetchedAt = now] /\ pc'[s] = "write"
      BY <1>1, <2>2, FetchLocals
    <3>2. /\ sweep'[s].id = sweep[s].id /\ sweep'[s].todo = sweep[s].todo
          /\ sweep'[s].outcomes = sweep[s].outcomes /\ sweep'[s].fetchedAt = now
      BY <1>1, <3>1 DEF SweepState
    <3>3. \A i \in 1..sweep[s].id : runs[i].startedAt <= now
      <4>1. sweep[s].id \in 1..Len(runs) /\ Len(runs) \in Nat
        BY <1>1, <2>1, RunsFacts DEF IdsInRange
      <4>2. \A i \in 1..sweep[s].id : i \in 1..Len(runs)
        BY <4>1
      <4> QED BY <4>2 DEF FreshInv, RunKnows
    <3> QED BY <2>1, <3>1, <3>2, <3>3 DEF GoesOn, Claimed
  <2>3. CASE \E outcome \in {"skipped", "failed"} : Collect(s, outcome)
    BY <1>1, <2>1, <2>3, CollectGoesOn DEF Outcome
  <2> QED BY <1>6, <2>2, <2>3 DEF Fetch
<1>7. ASSUME Write(s), ~EndSweep(s) PROVE GoesOn(s)
  <2>1. pc[s] = "write" /\ Claimed(s) /\ runs' = runs
    BY <1>7 DEF Write, Claimed
  <2>2. CASE Collect(s, "failed")
    BY <1>1, <2>1, <2>2, CollectGoesOn DEF Outcome
  <2>3. CASE /\ data' = [data EXCEPT ![sweep[s].player] = sweep[s].fetchedAt]
             /\ Collect(s, "refreshed")
    <3>1. runs[sweep[s].id].startedAt <= sweep[s].fetchedAt
      <4>1. sweep[s].id \in 1..sweep[s].id
        BY <1>1, <2>1, RunsFacts DEF IdsInRange
      <4> QED BY <1>1, <2>1, <4>1 DEF SweepKnows
    <3>2. \A p \in Player : p = sweep[s].player => data'[p] = sweep[s].fetchedAt
      BY <1>1, <2>3 DEF TypeOK
    <3>3. /\ runs[sweep[s].id].startedAt \in Int /\ sweep[s].fetchedAt \in Int
      BY <1>1, <2>1, InstantFacts, FenceTypes DEF IdsInRange
    <3>4. \A p \in Player : p = sweep[s].player => data'[p] >= runs'[sweep[s].id].startedAt
      BY <2>1, <3>1, <3>2, <3>3
    <3> QED BY <1>1, <2>1, <2>3, <3>4, CollectGoesOn DEF Outcome
  <2> QED BY <1>7, <2>2, <2>3 DEF Write
<1>8. ASSUME Renew(s), ~Owns(sweep[s].id, now) PROVE EndSweep(s)
  BY <1>8 DEF Renew
<1>9. ASSUME Skip(s) \/ Settle(s) \/ Fatal(s) \/ Crash(s) PROVE EndSweep(s)
  BY <1>9 DEF Skip, Settle, Fatal, Crash
<1>10. ASSUME Calendars(s) \/ Progress(s)
       PROVE  EndSweep(s) \/ (Claimed(s) /\ Goto(s, AfterPlayers(s)) /\ UNCHANGED sweep)
  BY <1>10 DEF Calendars, Progress, Claimed
<1>11. ASSUME GoesOn(s) PROVE SweepKnows(s)'
  BY <1>1, <1>11, GoingOnKnows
<1> QED BY <1>1, <1>2, <1>3, <1>4, <1>5, <1>6, <1>7, <1>8, <1>9, <1>10, <1>11, SelectKnows
        DEF OwnStep, SweepStep

-----------------------------------------------------------------------------
(* The invariant                                                           *)

LEMMA OwnStepRows ==
    ASSUME TypeOK, IdsInRange, NEW s \in Sweep, OwnStep(s)
    PROVE  SameLocals(s) /\ Len(runs') = Len(runs)
<1>1. /\ SameLocals(s) /\ KeepsClaim(s)
      /\ \/ UNCHANGED runs
         \/ Claimed(s) /\ (RenewsRow(s) \/ SettlesRow(s))
  BY SweepStepKinds DEF OwnStep
<1>2. ASSUME Claimed(s), RenewsRow(s) \/ SettlesRow(s) PROVE Len(runs') = Len(runs)
  <2>1. PICK i \in 1..Len(runs) : i = sweep[s].id
    BY <1>2 DEF IdsInRange
  <2>2. CASE RenewsRow(s)
    <3>1. runs' = [runs EXCEPT ![i].claimedAt = RenewedAt(i)]
      BY <2>1, <2>2 DEF RenewsRow
    <3> QED BY <3>1, RenewFacts
  <2>3. CASE SettlesRow(s)
    <3>1. PICK status \in {"ok", "partial", "failed"} : settleRefreshRun(i, status)
      BY <2>1, <2>3 DEF SettlesRow
    <3> QED BY <3>1, SettleFacts
  <2> QED BY <1>2, <2>2, <2>3
<1> QED BY <1>1, <1>2

LEMMA FreshStep ==
    ASSUME RunInv, FreshInv, [Next /\ now' >= now]_vars
    PROVE  FreshInv'
<1>1. CASE UNCHANGED vars
  BY <1>1 DEF vars, roster, FreshInv, RunKnows, SweepKnows, BackfillKnows, Claimed,
              DueOf, Due, Knows, IsActive, IsMember
<1>2. CASE Next /\ now' >= now
  <2>1. RunInv' /\ TypeOK /\ IdsInRange /\ Len(runs) \in Nat
    BY <1>2, RunInvStep, RunsFacts DEF RunInv
  <2>2. Onward
    BY <1>2, <2>1, OnwardStep
  <2>3. \A i \in 1..Len(runs) : RunKnows(i)'
    BY <1>2, <2>2, RunsStayKnown
  <2>4. \A b \in Backfill : BackfillKnows(b)'
    BY <1>2, <2>1, <2>2, BackfillStaysKnown
  <2>5. ASSUME NEW s \in Sweep, pc'[s] = pc[s], sweep'[s] = sweep[s] PROVE SweepKnows(s)'
    BY <2>1, <2>2, <2>5, WaitingSweepKnows
  <2>6. ASSUME NEW t \in Sweep, Claim(t) PROVE FreshInv'
    <3>1. Len(runs') = Len(runs) + 1
      BY <2>1, <2>6, ClaimFacts
    <3>2. ASSUME NEW i \in 1..Len(runs') PROVE RunKnows(i)'
      <4>1. i \in 1..Len(runs) \/ i = Len(runs) + 1
        BY <2>1, <3>1
      <4> QED BY <2>1, <2>3, <2>6, <4>1, NewRunKnown
    <3>3. ASSUME NEW s \in Sweep PROVE SweepKnows(s)'
      <4>1. CASE s = t
        BY <2>1, <2>6, <4>1, ClaimKnows DEF FreshInv
      <4>2. CASE s # t
        BY <2>1, <2>5, <2>6, <4>2, ClaimLocals DEF Proc
      <4> QED BY <4>1, <4>2
    <3> QED BY <2>4, <3>2, <3>3 DEF FreshInv
  <2>7. ASSUME UNCHANGED runs, \A s \in Sweep : SweepKnows(s)' PROVE FreshInv'
    BY <2>3, <2>4, <2>7 DEF FreshInv
  <2>8. ASSUME NEW t \in Sweep, OwnStep(t) PROVE FreshInv'
    <3>1. SameLocals(t) /\ Len(runs') = Len(runs)
      BY <2>1, <2>8, OwnStepRows
    <3>3. ASSUME NEW s \in Sweep PROVE SweepKnows(s)'
      <4>1. CASE s = t
        BY <2>2, <2>8, <4>1, OwnStepKnows
      <4>2. CASE s # t
        BY <2>5, <3>1, <4>2 DEF SameLocals, Proc
      <4> QED BY <4>1, <4>2
    <3> QED BY <2>3, <2>4, <3>1, <3>3 DEF FreshInv
  <2>9. CASE OtherStep
    <3>1. UNCHANGED <<runs, sweep>> /\ \A s \in Sweep : pc'[s] = pc[s]
      BY <2>1, <2>9, OtherStepFacts
    <3> QED BY <2>5, <2>7, <3>1
  <2> QED BY <1>2, <2>6, <2>8, <2>9, NextKinds
<1> QED BY <1>1, <1>2

-----------------------------------------------------------------------------
(* The answering run                                                       *)

(* Of the runs that cover a lane, one is the strongest claim.              *)
LEMMA Strongest ==
    ASSUME TypeOK, NEW C, C \subseteq 1..Len(runs), C # {}
    PROVE  \E i \in C : \A j \in C : AtMost(j, i)
<1> DEFINE After(i) == {j \in C : ~AtMost(j, i)}
           Afters == {After(i) : i \in C}
<1>0. /\ \A i \in C : i \in Int /\ runs[i].startedAt \in Int
      /\ IsFiniteSet(C)
  <2>1. IsFiniteSet(1..Len(runs)) /\ Len(runs) \in Nat
    BY FS_Interval, RunsFacts
  <2>2. IsFiniteSet(C)
    BY <2>1, FS_Subset
  <2> QED BY <2>1, <2>2, InstantFacts
<1>1. Afters \subseteq FiniteSubsetsOf(C) /\ Afters # {}
  <2>1. ASSUME NEW i \in C PROVE After(i) \in SUBSET C /\ IsFiniteSet(After(i))
    BY <1>0, FS_Subset
  <2> QED BY <2>1 DEF FiniteSubsetsOf
<1>2. PICK U \in Afters : \A V \in Afters : <<V, U>> \notin StrictSubsetOrdering(C)
  BY <1>0, <1>1, FS_StrictSubsetOrderingWellFounded, WFMin
<1>3. PICK i \in C : U = After(i)
  BY <1>2
<1>4. ASSUME NEW j \in C, ~AtMost(j, i) PROVE FALSE
  <2>1. After(j) \subseteq After(i) /\ j \in After(i) /\ j \notin After(j)
    <3>1. \A k \in C : ~AtMost(k, j) => ~AtMost(k, i)
      BY <1>0, <1>4 DEF AtMost
    <3>2. AtMost(j, j)
      BY <1>0 DEF AtMost
    <3> QED BY <1>4, <3>1, <3>2
  <2>2. <<After(j), After(i)>> \in StrictSubsetOrdering(C)
    BY <2>1 DEF StrictSubsetOrdering
  <2> QED BY <1>2, <1>3, <2>2
<1> QED BY <1>4

LEMMA Answering ==
    ASSUME TypeOK, NEW q, CoveringRuns(q) # {}
    PROVE  latestCoveringRun(q) \in CoveringRuns(q)
<1>1. CoveringRuns(q) \subseteq 1..Len(runs)
  BY RunsFacts DEF CoveringRuns
<1>2. \E i \in CoveringRuns(q) : \A j \in CoveringRuns(q) : AtMost(j, i)
  BY <1>1, Strongest
<1> QED BY <1>2 DEF latestCoveringRun

LEMMA KnownIsComplete ==
    ASSUME RunInv, FreshInv
    PROVE  FreshIsComplete
<1> SUFFICES ASSUME NEW q \in Lane \cup {WholeList}, NEW d \in Date, ReadsFresh(q, d),
                    NEW p \in Reported(q),
                    active[p] < runs[latestCoveringRun(q)].startedAt
             PROVE  CompleteThrough(p, d)
  BY DEF FreshIsComplete
<1>0. TypeOK
  BY DEF RunInv
<1>1. PICK i \in CoveringRuns(q) : i = latestCoveringRun(q)
  BY <1>0, Answering DEF ReadsFresh
<1>2. /\ i \in 1..Len(runs) /\ runs[i].status = "ok" /\ Covers(i, q)
      /\ hostDate[runs[i].startedAt] > d /\ active[p] < runs[i].startedAt
  BY <1>0, <1>1, RunsFacts DEF ReadsFresh, CoveringRuns
<1>3. p \in Player /\ IsActive(p) /\ (q # WholeList => IsMember(p, q))
  <2>1. q # WholeList => {q} # WholeList
    BY ConstantAssumption
  <2> QED BY <2>1 DEF Reported, Selected
<1>4. DueOf(i, p)
  <2>1. CASE runs[i].scope = WholeList
    BY <1>2, <1>3, <2>1 DEF DueOf, Due
  <2>2. CASE runs[i].scope # WholeList
    <3>1. /\ q # WholeList /\ q \in runs[i].scope
          /\ joined[q][p] < runs[i].startedAt
      BY <1>2, <1>3, <2>2 DEF Covers
    <3> QED BY <1>2, <1>3, <3>1 DEF DueOf, Due
  <2> QED BY <2>1, <2>2
<1>5. data[p] >= runs[i].startedAt
  BY <1>2, <1>3, <1>4 DEF FreshInv, RunKnows, Knows
<1>6. runs[i].startedAt \in Time /\ data[p] \in Time \cup {Never} /\ data[p] \in Int
  BY <1>0, <1>2, <1>3, RunsFacts, FenceTypes DEF TypeOK, Run
<1>7. data[p] # Never /\ data[p] \in Time
  BY <1>5, <1>6, TimeFacts DEF Never
<1>8. hostDate[runs[i].startedAt] <= hostDate[data[p]]
  BY <1>5, <1>6, <1>7, TimeFacts
<1>9. hostDate[data[p]] \in Nat /\ hostDate[runs[i].startedAt] \in Nat /\ d \in Nat
  BY <1>6, <1>7, TimeFacts DEF Date
<1> QED BY <1>2, <1>7, <1>8, <1>9 DEF CompleteThrough

(* For any number of sweeps, backfills, players and lanes, and whatever of *)
(* them dies or is overtaken: a digest that reads fresh for its content    *)
(* day carries, of every player it reports on who has been active since    *)
(* before the answering run began, stat lines fetched after that day.      *)
THEOREM FreshDigestsAreComplete == ForwardSpec => []FreshIsComplete
<1>1. Init => RunInv /\ FreshInv
  BY RunInvInit, FreshInit
<1>2. RunInv /\ FreshInv /\ [ForwardNext]_vars => RunInv' /\ FreshInv'
  <2>1. RunInv /\ [ForwardNext]_vars => [Next]_vars
    BY ForwardIsNext DEF RunInv
  <2> QED BY <2>1, RunInvStep, ForwardIsNext, FreshStep DEF RunInv
<1>3. RunInv /\ FreshInv => FreshIsComplete
  BY KnownIsComplete
<1> QED BY <1>1, <1>2, <1>3, PTL DEF ForwardSpec
=============================================================================
