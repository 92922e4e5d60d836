--------------------------- MODULE RefreshRunProofs ---------------------------
(***************************************************************************)
(* Theorems about RefreshRun, for every number of sweeps, players, lanes   *)
(* and instants.  Those about Spec hold wherever the clock is set; those   *)
(* about ForwardSpec need a clock that is never set back.                  *)
(***************************************************************************)
EXTENDS RefreshRun, SequenceTheorems, TLAPS

Proc == Sweep \cup Backfill

LEMMA TimeFacts ==
    /\ 0 \in Time /\ Time \subseteq Nat /\ Never \notin Time
    /\ \A t \in Time : hostDate[t] \in Nat
    /\ \A t, u \in Time : t <= u => hostDate[t] <= hostDate[u]
BY ConstantAssumption DEF Time, Never

LEMMA FreshFacts == FreshSweep \in SweepState /\ FreshBackfill \in BackfillState
<1>1. WholeList \in Scope /\ 0 \in 0..MaxRuns
  BY ConstantAssumption DEF Scope
<1> QED BY <1>1, TimeFacts DEF FreshSweep, FreshBackfill, SweepState, BackfillState

LEMMA RunsFacts ==
    ASSUME TypeOK
    PROVE  /\ Len(runs) \in 0..MaxRuns
           /\ DOMAIN runs = 1..Len(runs)
           /\ \A i \in 1..Len(runs) : runs[i] \in Run
BY ConstantAssumption DEF TypeOK

LEMMA ReapedFacts ==
    ASSUME TypeOK
    PROVE  /\ Reaped \in Seq(Run)
           /\ Len(Reaped) = Len(runs)
           /\ \A i \in 1..Len(runs) : Reaped[i] = Reap(runs[i])
<1>1. \A i \in 1..Len(runs) : Reap(runs[i]) \in Run
  BY RunsFacts DEF Reap, Run
<1>2. Reaped = [i \in 1..Len(runs) |-> Reap(runs[i])]
  BY RunsFacts DEF Reaped
<1> QED BY <1>1, <1>2, RunsFacts

(* The three ways the rows change: a claim, ... *)
LEMMA ClaimFacts ==
    ASSUME TypeOK, NEW s \in Sweep, Claim(s)
    PROVE  /\ runs' \in Seq(Run)
           /\ Len(runs') = Len(runs) + 1 /\ Len(runs') <= MaxRuns
           /\ \A i \in 1..Len(runs) : runs'[i] = Reap(runs[i])
           /\ \A i \in 1..Len(runs) : runs'[i].status # "running"
           /\ runs'[Len(runs) + 1] = NewRun(s)
<1>1. sweep[s] \in SweepState /\ now \in Time
  BY DEF TypeOK
<1>2. NewRun(s) \in Run
  BY <1>1 DEF NewRun, Run, SweepState
<1>3. runs' = Append(Reaped, NewRun(s)) /\ ~LiveRun(now) /\ Len(runs) < MaxRuns
  BY DEF Claim
<1>4. /\ runs' \in Seq(Run) /\ Len(runs') = Len(runs) + 1 /\ Len(runs') <= MaxRuns
      /\ \A i \in 1..Len(runs) : runs'[i] = Reap(runs[i])
      /\ runs'[Len(runs) + 1] = NewRun(s)
  BY <1>2, <1>3, ReapedFacts, RunsFacts, ConstantAssumption
<1>5. ASSUME NEW i \in 1..Len(runs) PROVE Reap(runs[i]).status # "running"
  <2>1. runs[i].status = "running" => ~leaseIsLive(runs[i], now)
    BY <1>3, RunsFacts DEF LiveRun
  <2> QED BY <2>1, RunsFacts DEF Reap, Run
<1> QED BY <1>4, <1>5

(* ... a renewal, ... *)
LEMMA RenewFacts ==
    ASSUME TypeOK, NEW i, i \in 1..Len(runs),
           runs' = [runs EXCEPT ![i].claimedAt = RenewedAt(i)]
    PROVE  /\ runs' \in Seq(Run)
           /\ Len(runs') = Len(runs)
           /\ \A j \in 1..Len(runs) : j # i => runs'[j] = runs[j]
           /\ runs'[i] = [runs[i] EXCEPT !.claimedAt = RenewedAt(i)]
           /\ RenewedAt(i) \in Time /\ RenewedAt(i) >= runs[i].startedAt
           /\ RenewedAt(i) >= now
<1>1. runs[i] \in Run /\ now \in Time
  BY RunsFacts DEF TypeOK
<1>2. runs[i].startedAt \in Time
  BY <1>1 DEF Run
<1>3. /\ RenewedAt(i) \in Time /\ RenewedAt(i) >= runs[i].startedAt
      /\ RenewedAt(i) >= now
  BY <1>1, <1>2, TimeFacts DEF RenewedAt, Latest
<1>4. [runs[i] EXCEPT !.claimedAt = RenewedAt(i)] \in Run
  BY <1>1, <1>3 DEF Run
<1>5. runs' = [runs EXCEPT ![i] = [runs[i] EXCEPT !.claimedAt = RenewedAt(i)]]
  BY Zenon
<1>6. runs \in Seq(Run)
  BY DEF TypeOK
<1>7. /\ runs' \in Seq(Run) /\ Len(runs') = Len(runs)
      /\ \A j \in 1..Len(runs) :
            runs'[j] = IF j = i THEN [runs[i] EXCEPT !.claimedAt = RenewedAt(i)] ELSE runs[j]
  BY <1>4, <1>5, <1>6, ExceptSeq
<1> QED BY <1>3, <1>7

(* ... and a settlement. *)
LEMMA SettleFacts ==
    ASSUME TypeOK, NEW i, i \in 1..Len(runs), NEW status \in {"ok", "partial", "failed"},
           settleRefreshRun(i, status)
    PROVE  /\ runs' \in Seq(Run)
           /\ Len(runs') = Len(runs)
           /\ \A j \in 1..Len(runs) : j # i => runs'[j] = runs[j]
           /\ runs'[i].startedAt = runs[i].startedAt
           /\ runs'[i].claimedAt = runs[i].claimedAt
           /\ runs'[i].status # "running"
           /\ runs[i].status # "running" => runs'[i] = runs[i]
<1>1. runs[i] \in Run
  BY RunsFacts
<1>2. [runs[i] EXCEPT !.status = status] \in Run
  BY <1>1 DEF Run
<1>3. CASE runs[i].status = "running"
  <2>1. runs' = [runs EXCEPT ![i] = [runs[i] EXCEPT !.status = status]]
    BY <1>3, Zenon DEF settleRefreshRun, StillRunning
  <2>2. runs \in Seq(Run)
    BY DEF TypeOK
  <2>3. /\ runs' \in Seq(Run) /\ Len(runs') = Len(runs)
        /\ \A j \in 1..Len(runs) :
              runs'[j] = IF j = i THEN [runs[i] EXCEPT !.status = status] ELSE runs[j]
    BY <1>2, <2>1, <2>2, ExceptSeq
  <2>4. runs'[i] = [runs[i] EXCEPT !.status = status]
    BY <2>3
  <2> QED BY <1>1, <1>3, <2>3, <2>4 DEF Run
<1>4. CASE runs[i].status # "running"
  BY <1>4, RunsFacts DEF settleRefreshRun, StillRunning, TypeOK
<1> QED BY <1>3, <1>4

LEMMA DerivedStatus ==
    ASSUME NEW outcomes, NEW blocks \in BOOLEAN
    PROVE  deriveRefreshStatus(outcomes, blocks) \in {"ok", "partial", "failed"}
BY DEF deriveRefreshStatus

-----------------------------------------------------------------------------
(* Types                                                                   *)

(* A sweep has claimed its row, and has not yet let go of it.              *)
Claimed(s) == pc[s] \in {"calendars", "renew", "fetch", "write", "progress", "settle"}

IdsInRange == \A s \in Sweep : Claimed(s) => sweep[s].id \in 1..Len(runs)

PcTyped ==
    /\ pc \in [Proc -> SweepPhase]
    /\ \A b \in Backfill : pc[b] \in BackfillPhase

(* Sending a process to one of its phases.                                 *)
LEMMA GotoFacts ==
    ASSUME TypeOK, NEW s \in Proc, NEW phase \in SweepPhase, Goto(s, phase),
           s \in Backfill => phase \in BackfillPhase
    PROVE  /\ PcTyped'
           /\ pc'[s] = phase
           /\ \A p \in Proc : p # s => pc'[p] = pc[p]
BY DEF TypeOK, Goto, PcTyped, Proc

LEMMA EndSweepFacts ==
    ASSUME TypeOK, NEW s \in Sweep, EndSweep(s)
    PROVE  /\ PcTyped'
           /\ sweep' \in [Sweep -> SweepState]
           /\ pc'[s] = "idle"
           /\ \A p \in Proc : p # s => pc'[p] = pc[p]
           /\ \A p \in Sweep : p # s => sweep'[p] = sweep[p]
<1>1. Goto(s, "idle") /\ s \in Proc /\ s \notin Backfill /\ "idle" \in SweepPhase
  BY ConstantAssumption DEF EndSweep, Proc, SweepPhase
<1>2. /\ sweep' \in [Sweep -> SweepState]
      /\ \A p \in Sweep : p # s => sweep'[p] = sweep[p]
  BY FreshFacts DEF EndSweep, TypeOK
<1> QED BY <1>1, <1>2, GotoFacts

(* A sweep that goes on with a new set of local variables.                 *)
LEMMA GoOnFacts ==
    ASSUME TypeOK, NEW s \in Sweep, NEW phase \in SweepPhase, NEW e \in SweepState,
           Goto(s, phase), sweep' = [sweep EXCEPT ![s] = e]
    PROVE  /\ PcTyped'
           /\ sweep' \in [Sweep -> SweepState]
           /\ pc'[s] = phase /\ sweep'[s] = e
           /\ \A p \in Proc : p # s => pc'[p] = pc[p]
           /\ \A p \in Sweep : p # s => sweep'[p] = sweep[p]
<1>1. s \in Proc /\ s \notin Backfill
  BY ConstantAssumption DEF Proc
<1> QED BY <1>1, GotoFacts DEF TypeOK

LEMMA CollectFacts ==
    ASSUME TypeOK, NEW s \in Sweep, NEW outcome \in Outcome, Collect(s, outcome)
    PROVE  /\ PcTyped'
           /\ sweep' \in [Sweep -> SweepState]
           /\ pc'[s] = "progress"
           /\ sweep'[s].id = sweep[s].id
           /\ sweep'[s].todo = sweep[s].todo \ {sweep[s].player}
           /\ sweep'[s].outcomes = sweep[s].outcomes \cup {outcome}
           /\ \A p \in Proc : p # s => pc'[p] = pc[p]
           /\ \A p \in Sweep : p # s => sweep'[p] = sweep[p]
<1> DEFINE e == [FreshSweep EXCEPT
                   !.id = sweep[s].id,
                   !.todo = sweep[s].todo \ {sweep[s].player},
                   !.outcomes = sweep[s].outcomes \cup {outcome}]
<1>1. sweep[s] \in SweepState
  BY DEF TypeOK
<1>2. /\ e \in SweepState /\ e.id = sweep[s].id
      /\ e.todo = sweep[s].todo \ {sweep[s].player}
      /\ e.outcomes = sweep[s].outcomes \cup {outcome}
  BY <1>1, FreshFacts DEF SweepState
<1>3. Goto(s, "progress") /\ sweep' = [sweep EXCEPT ![s] = e]
  BY Zenon DEF Collect
<1>4. "progress" \in SweepPhase
  BY DEF SweepPhase
<1> QED BY <1>2, <1>3, <1>4, GoOnFacts
(* What each step of a sweep does to its own state.                        *)
LEMMA BeginFacts ==
    ASSUME TypeOK, NEW s \in Sweep, NEW scope \in Scopes, Begin(s, scope)
    PROVE  /\ PcTyped' /\ sweep' \in [Sweep -> SweepState]
           /\ pc'[s] = "select" /\ sweep'[s].startedAt = now
           /\ \A p \in Proc : p # s => pc'[p] = pc[p]
           /\ \A p \in Sweep : p # s => sweep'[p] = sweep[p]
<1> DEFINE e == [sweep[s] EXCEPT !.scope = scope, !.startedAt = now]
<1>1. sweep[s] \in SweepState /\ scope \in Scope /\ now \in Time
  BY ConstantAssumption DEF TypeOK, Scope
<1>2. e \in SweepState
  BY <1>1 DEF SweepState
<1>3. Goto(s, "select") /\ sweep' = [sweep EXCEPT ![s] = e]
  BY Zenon DEF Begin
<1>4. e.startedAt = now
  BY <1>1 DEF SweepState
<1>5. "select" \in SweepPhase
  BY DEF SweepPhase
<1>6. /\ PcTyped' /\ sweep' \in [Sweep -> SweepState]
      /\ pc'[s] = "select" /\ sweep'[s] = e
      /\ \A p \in Proc : p # s => pc'[p] = pc[p]
      /\ \A p \in Sweep : p # s => sweep'[p] = sweep[p]
  BY <1>2, <1>3, <1>5, GoOnFacts
<1> QED BY <1>4, <1>6

LEMMA SelectFacts ==
    ASSUME TypeOK, NEW s \in Sweep, Select(s)
    PROVE  /\ PcTyped' /\ sweep' \in [Sweep -> SweepState]
           /\ pc'[s] = "claim"
           /\ sweep'[s].startedAt = sweep[s].startedAt
           /\ sweep'[s].todo = Selected(sweep[s].scope)
           /\ sweep'[s].scope = IF CoversEveryActivePlayer(sweep[s].scope)
                                THEN WholeList ELSE sweep[s].scope
           /\ \A p \in Proc : p # s => pc'[p] = pc[p]
           /\ \A p \in Sweep : p # s => sweep'[p] = sweep[p]
<1> DEFINE scope == sweep[s].scope
           new   == IF CoversEveryActivePlayer(scope) THEN WholeList ELSE scope
           e     == [sweep[s] EXCEPT !.todo = Selected(scope), !.scope = new]
<1>1. sweep[s] \in SweepState /\ scope \in Scope /\ WholeList \in Scope
  BY DEF TypeOK, SweepState, Scope
<1>2. Selected(scope) \subseteq Player /\ new \in Scope
  BY <1>1 DEF Selected
<1>3. /\ e \in SweepState /\ e.startedAt = sweep[s].startedAt
      /\ e.todo = Selected(scope) /\ e.scope = new
  BY <1>1, <1>2 DEF SweepState
<1>4. Goto(s, "claim") /\ sweep' = [sweep EXCEPT ![s] = e]
  BY Zenon DEF Select
<1>5. "claim" \in SweepPhase
  BY DEF SweepPhase
<1>6. /\ PcTyped' /\ sweep' \in [Sweep -> SweepState]
      /\ pc'[s] = "claim" /\ sweep'[s] = e
      /\ \A p \in Proc : p # s => pc'[p] = pc[p]
      /\ \A p \in Sweep : p # s => sweep'[p] = sweep[p]
  BY <1>3, <1>4, <1>5, GoOnFacts
<1> QED BY <1>3, <1>6

LEMMA ClaimLocals ==
    ASSUME TypeOK, NEW s \in Sweep, Claim(s)
    PROVE  /\ PcTyped' /\ sweep' \in [Sweep -> SweepState]
           /\ pc'[s] = "calendars"
           /\ sweep'[s].id = Len(runs) + 1
           /\ sweep'[s].todo = sweep[s].todo /\ sweep'[s].outcomes = {}
           /\ \A p \in Proc : p # s => pc'[p] = pc[p]
           /\ \A p \in Sweep : p # s => sweep'[p] = sweep[p]
<1> DEFINE e == [FreshSweep EXCEPT !.id = Len(runs) + 1, !.todo = sweep[s].todo]
<1>1. sweep[s] \in SweepState /\ Len(runs) + 1 \in 0..MaxRuns
  BY RunsFacts, ConstantAssumption DEF TypeOK, Claim
<1>2. /\ e \in SweepState /\ e.id = Len(runs) + 1
      /\ e.todo = sweep[s].todo /\ e.outcomes = {}
  BY <1>1, FreshFacts DEF SweepState, FreshSweep
<1>3. Goto(s, "calendars") /\ sweep' = [sweep EXCEPT ![s] = e]
  BY Zenon DEF Claim
<1>4. "calendars" \in SweepPhase
  BY DEF SweepPhase
<1>5. /\ PcTyped' /\ sweep' \in [Sweep -> SweepState]
      /\ pc'[s] = "calendars" /\ sweep'[s] = e
      /\ \A p \in Proc : p # s => pc'[p] = pc[p]
      /\ \A p \in Sweep : p # s => sweep'[p] = sweep[p]
  BY <1>2, <1>3, <1>4, GoOnFacts
<1> QED BY <1>2, <1>5

(* A renewal that finds its lease live takes up one of the players to do.  *)
LEMMA RenewLocals ==
    ASSUME TypeOK, NEW s \in Sweep, Renew(s), Owns(sweep[s].id, now)
    PROVE  /\ PcTyped' /\ sweep' \in [Sweep -> SweepState]
           /\ pc'[s] = "fetch"
           /\ \E p \in sweep[s].todo : sweep'[s] = [sweep[s] EXCEPT !.player = p]
           /\ \A p \in Proc : p # s => pc'[p] = pc[p]
           /\ \A p \in Sweep : p # s => sweep'[p] = sweep[p]
           /\ runs' = [runs EXCEPT ![sweep[s].id].claimedAt = RenewedAt(sweep[s].id)]
<1>1. /\ Goto(s, "fetch")
      /\ runs' = [runs EXCEPT ![sweep[s].id].claimedAt = RenewedAt(sweep[s].id)]
      /\ \E p \in sweep[s].todo : sweep' = [sweep EXCEPT ![s].player = p]
  BY DEF Renew
<1>2. PICK p \in sweep[s].todo : sweep' = [sweep EXCEPT ![s].player = p]
  BY <1>1
<1> DEFINE e == [sweep[s] EXCEPT !.player = p]
<1>3. sweep[s] \in SweepState /\ sweep[s].todo \subseteq Player
  BY DEF TypeOK, SweepState
<1>4. e \in SweepState /\ "fetch" \in SweepPhase
  BY <1>3 DEF SweepState, SweepPhase
<1>5. sweep' = [sweep EXCEPT ![s] = e]
  BY <1>2, Zenon
<1>6. /\ PcTyped' /\ sweep' \in [Sweep -> SweepState]
      /\ pc'[s] = "fetch" /\ sweep'[s] = e
      /\ \A q \in Proc : q # s => pc'[q] = pc[q]
      /\ \A q \in Sweep : q # s => sweep'[q] = sweep[q]
  BY <1>1, <1>4, <1>5, GoOnFacts
<1> QED BY <1>1, <1>2, <1>6

LEMMA FetchLocals ==
    ASSUME TypeOK, NEW s \in Sweep, Goto(s, "write"),
           sweep' = [sweep EXCEPT ![s].fetchedAt = now]
    PROVE  /\ PcTyped' /\ sweep' \in [Sweep -> SweepState]
           /\ pc'[s] = "write"
           /\ sweep'[s] = [sweep[s] EXCEPT !.fetchedAt = now]
           /\ \A p \in Proc : p # s => pc'[p] = pc[p]
           /\ \A p \in Sweep : p # s => sweep'[p] = sweep[p]
<1> DEFINE e == [sweep[s] EXCEPT !.fetchedAt = now]
<1>1. sweep[s] \in SweepState /\ now \in Time
  BY DEF TypeOK
<1>2. e \in SweepState /\ "write" \in SweepPhase
  BY <1>1 DEF SweepState, SweepPhase
<1>3. sweep' = [sweep EXCEPT ![s] = e]
  BY Zenon
<1> QED BY <1>2, <1>3, GoOnFacts

(* Going on to the next player, or to the settlement, changes only pc.     *)
LEMMA NextPlayerLocals ==
    ASSUME TypeOK, NEW s \in Sweep, Goto(s, AfterPlayers(s)), UNCHANGED sweep
    PROVE  /\ PcTyped' /\ sweep' \in [Sweep -> SweepState]
           /\ pc'[s] = AfterPlayers(s) /\ AfterPlayers(s) \in {"renew", "settle"}
           /\ \A p \in Proc : p # s => pc'[p] = pc[p]
           /\ \A p \in Sweep : sweep'[p] = sweep[p]
<1>1. AfterPlayers(s) \in {"renew", "settle"} /\ s \in Proc /\ s \notin Backfill
  BY ConstantAssumption DEF AfterPlayers, Proc
<1>2. AfterPlayers(s) \in SweepPhase
  BY <1>1 DEF SweepPhase
<1> QED BY <1>1, <1>2, GotoFacts DEF TypeOK
-----------------------------------------------------------------------------
(* The sequence of runs                                                    *)

DistinctIds ==
    \A s, t \in Sweep : Claimed(s) /\ Claimed(t) /\ s # t => sweep[s].id # sweep[t].id

(* The rows are left alone, but for ...                                    *)
RenewsRow(s) ==
    /\ Owns(sweep[s].id, now)
    /\ runs' = [runs EXCEPT ![sweep[s].id].claimedAt = RenewedAt(sweep[s].id)]

SettlesRow(s) ==
    \E status \in {"ok", "partial", "failed"} : settleRefreshRun(sweep[s].id, status)

(* Every step is of one of these kinds, with these effects.                *)
SameLocals(s) ==
    /\ \A p \in Proc : p # s => pc'[p] = pc[p]
    /\ \A p \in Sweep : p # s => sweep'[p] = sweep[p]

KeepsClaim(s) == Claimed(s)' => Claimed(s) /\ sweep'[s].id = sweep[s].id

Typed ==
    /\ now' \in Time
    /\ active' \in [Player -> Time \cup {Never}]
    /\ joined' \in [Lane -> [Player -> Time \cup {Never}]]
    /\ moves' \in 0..MaxMoves
    /\ data' \in [Player -> Time \cup {Never}]
    /\ PcTyped'
    /\ sweep' \in [Sweep -> SweepState]
    /\ backfill' \in [Backfill -> BackfillState]

LEMMA KeepsClaimFacts ==
    ASSUME TypeOK, NEW s \in Sweep,
           \/ pc'[s] \in {"idle", "select", "claim"}
           \/ Claimed(s) /\ sweep'[s].id = sweep[s].id
    PROVE  KeepsClaim(s)
BY DEF KeepsClaim, Claimed

(* A sweep's step other than its claim.                                    *)
LEMMA SweepStepKinds ==
    ASSUME TypeOK, IdsInRange, NEW s \in Sweep,
           \/ \E scope \in Scopes : Begin(s, scope)
           \/ SweepStep(s) /\ ~Claim(s)
           \/ Fatal(s)
           \/ Crash(s)
    PROVE  /\ Typed /\ SameLocals(s) /\ KeepsClaim(s)
           /\ \/ UNCHANGED runs
              \/ Claimed(s) /\ (RenewsRow(s) \/ SettlesRow(s))
<1> USE DEF SameLocals
<1>t. /\ now \in Time /\ active \in [Player -> Time \cup {Never}]
      /\ joined \in [Lane -> [Player -> Time \cup {Never}]] /\ moves \in 0..MaxMoves
      /\ data \in [Player -> Time \cup {Never}] /\ backfill \in [Backfill -> BackfillState]
      /\ sweep \in [Sweep -> SweepState] /\ sweep[s] \in SweepState
  BY DEF TypeOK
<1>1. ASSUME NEW scope \in Scopes, Begin(s, scope)
      PROVE  Typed /\ SameLocals(s) /\ KeepsClaim(s) /\ UNCHANGED runs
  <2>1. UNCHANGED <<now, runs, roster, data, backfill>>
    BY <1>1 DEF Begin
  <2>2. PcTyped' /\ sweep' \in [Sweep -> SweepState] /\ pc'[s] = "select" /\ SameLocals(s)
    BY <1>1, BeginFacts
  <2>3. KeepsClaim(s)
    BY <2>2, KeepsClaimFacts
  <2> QED BY <1>t, <2>1, <2>2, <2>3 DEF Typed, roster
<1>2. ASSUME Select(s)
      PROVE  Typed /\ SameLocals(s) /\ KeepsClaim(s) /\ UNCHANGED runs
  <2>1. UNCHANGED <<now, runs, roster, data, backfill>>
    BY <1>2 DEF Select
  <2>2. PcTyped' /\ sweep' \in [Sweep -> SweepState] /\ pc'[s] = "claim" /\ SameLocals(s)
    BY <1>2, SelectFacts
  <2>3. KeepsClaim(s)
    BY <2>2, KeepsClaimFacts
  <2> QED BY <1>t, <2>1, <2>2, <2>3 DEF Typed, roster
<1>3. ASSUME EndSweep(s), UNCHANGED <<now, roster, data, backfill>>
      PROVE  Typed /\ SameLocals(s) /\ KeepsClaim(s)
  <2>1. PcTyped' /\ sweep' \in [Sweep -> SweepState] /\ pc'[s] = "idle" /\ SameLocals(s)
    BY <1>3, EndSweepFacts
  <2>2. KeepsClaim(s)
    BY <2>1, KeepsClaimFacts
  <2> QED BY <1>3, <1>t, <2>1, <2>2 DEF Typed, roster
<1>4. ASSUME Goto(s, AfterPlayers(s)), UNCHANGED <<sweep, now, roster, data, backfill>>,
             pc[s] \in {"calendars", "progress"}
      PROVE  Typed /\ SameLocals(s) /\ KeepsClaim(s)
  <2>1. Claimed(s)
    BY <1>4 DEF Claimed
  <2> QED BY <1>4, <2>1, <1>t, NextPlayerLocals, KeepsClaimFacts DEF Typed, roster
<1>5. ASSUME Renew(s), Owns(sweep[s].id, now)
      PROVE  Typed /\ SameLocals(s) /\ KeepsClaim(s) /\ Claimed(s) /\ RenewsRow(s)
  <2>1. Claimed(s) /\ UNCHANGED <<now, roster, data, backfill>>
    BY <1>5 DEF Claimed, Renew
  <2>2. sweep'[s].id = sweep[s].id
    <3>1. PICK p \in sweep[s].todo : sweep'[s] = [sweep[s] EXCEPT !.player = p]
      BY <1>5, RenewLocals
    <3> QED BY <3>1, <1>t DEF SweepState
  <2> QED BY <1>5, <1>t, <2>1, <2>2, RenewLocals, KeepsClaimFacts DEF Typed, roster, RenewsRow
<1>6. ASSUME NEW outcome \in Outcome, Collect(s, outcome), UNCHANGED <<now, roster, backfill>>,
             data' \in [Player -> Time \cup {Never}], pc[s] \in {"fetch", "write"}
      PROVE  Typed /\ SameLocals(s) /\ KeepsClaim(s)
  <2>1. Claimed(s)
    BY <1>6 DEF Claimed
  <2>2. sweep'[s].id = sweep[s].id
    BY <1>6, CollectFacts
  <2>3. PcTyped' /\ sweep' \in [Sweep -> SweepState] /\ SameLocals(s)
    BY <1>6, CollectFacts
  <2>4. KeepsClaim(s)
    BY <2>1, <2>2, KeepsClaimFacts
  <2> QED BY <1>6, <1>t, <2>3, <2>4 DEF Typed, roster
<1>7. ASSUME Fetch(s)
      PROVE  Typed /\ SameLocals(s) /\ KeepsClaim(s) /\ UNCHANGED runs
  <2>1. pc[s] = "fetch" /\ UNCHANGED <<now, runs, roster, data, backfill>>
    BY <1>7 DEF Fetch
  <2>2. CASE Goto(s, "write") /\ sweep' = [sweep EXCEPT ![s].fetchedAt = now]
    <3>1. Claimed(s) /\ sweep'[s].id = sweep[s].id
      BY <2>1, <2>2, <1>t, FetchLocals DEF Claimed, SweepState
    <3> QED BY <2>1, <2>2, <3>1, <1>t, FetchLocals, KeepsClaimFacts DEF Typed, roster
  <2>3. CASE \E outcome \in {"skipped", "failed"} : Collect(s, outcome)
    BY <2>1, <2>3, <1>6, <1>t DEF Outcome
  <2> QED BY <1>7, <2>2, <2>3 DEF Fetch
<1>8. ASSUME Write(s)
      PROVE  Typed /\ SameLocals(s) /\ KeepsClaim(s) /\ UNCHANGED runs
  <2>1. pc[s] = "write" /\ UNCHANGED <<now, runs, roster, backfill>>
    BY <1>8 DEF Write
  <2>2. CASE /\ data' = [data EXCEPT ![sweep[s].player] = sweep[s].fetchedAt]
             /\ Collect(s, "refreshed")
    <3>1. data' \in [Player -> Time \cup {Never}]
      BY <2>2, <1>t DEF SweepState
    <3> QED BY <2>1, <2>2, <3>1, <1>6 DEF Outcome
  <2>3. CASE EndSweep(s) /\ UNCHANGED data
    BY <2>1, <2>3, <1>3
  <2>4. CASE Collect(s, "failed") /\ UNCHANGED data
    BY <2>1, <2>4, <1>6, <1>t DEF Outcome
  <2> QED BY <1>8, <2>2, <2>3, <2>4 DEF Write
<1>9. ASSUME Settle(s) PROVE Claimed(s) /\ SettlesRow(s) /\ EndSweep(s)
                             /\ UNCHANGED <<now, roster, data, backfill>>
  BY <1>9, DerivedStatus DEF Settle, SettlesRow, Claimed
<1>10. ASSUME Fatal(s) PROVE Claimed(s) /\ SettlesRow(s) /\ EndSweep(s)
                             /\ UNCHANGED <<now, roster, data, backfill>>
  BY <1>10 DEF Fatal, SettlesRow, Claimed
<1>11. ASSUME Skip(s) \/ Crash(s)
       PROVE  EndSweep(s) /\ UNCHANGED <<now, runs, roster, data, backfill>>
  BY <1>11 DEF Skip, Crash
<1>12. ASSUME Calendars(s) \/ Progress(s)
       PROVE  Typed /\ SameLocals(s) /\ KeepsClaim(s) /\ UNCHANGED runs
  <2>1. /\ UNCHANGED <<now, runs, roster, data, backfill>>
        /\ pc[s] \in {"calendars", "progress"}
        /\ \/ Goto(s, AfterPlayers(s)) /\ UNCHANGED sweep
           \/ EndSweep(s)
    BY <1>12 DEF Calendars, Progress
  <2> QED BY <2>1, <1>3, <1>4
<1>13. ASSUME Renew(s), ~Owns(sweep[s].id, now)
       PROVE  EndSweep(s) /\ UNCHANGED <<now, runs, roster, data, backfill>>
  BY <1>13 DEF Renew
<1> QED
  BY <1>1, <1>2, <1>3, <1>5, <1>7, <1>8, <1>9, <1>10, <1>11, <1>12, <1>13 DEF SweepStep
(* The steps that are no sweep's: a backfill's, the roster's, the clock's. *)
OtherStep ==
    \/ \E b \in Backfill, p \in Player : Admit(b, p)
    \/ \E b \in Backfill : BackfillFetch(b) \/ BackfillWrite(b) \/ BackfillStops(b)
    \/ \E p \in Player : Activate(p) \/ Deactivate(p)
    \/ \E p \in Player, l \in Lane : Enroll(p, l) \/ Unenroll(p, l)
    \/ \E t \in Time : SetClock(t)

LEMMA BackfillGoto ==
    ASSUME TypeOK, NEW b \in Backfill, NEW phase \in BackfillPhase, Goto(b, phase)
    PROVE  /\ PcTyped' /\ pc'[b] = phase
           /\ \A p \in Proc : p # b => pc'[p] = pc[p]
           /\ \A s \in Sweep : pc'[s] = pc[s]
<1>1. b \in Proc /\ phase \in SweepPhase /\ b \notin Sweep /\ Sweep \subseteq Proc
  BY ConstantAssumption DEF Proc, BackfillPhase, SweepPhase
<1>2. /\ PcTyped' /\ pc'[b] = phase
      /\ \A p \in Proc : p # b => pc'[p] = pc[p]
  BY <1>1, GotoFacts
<1> QED BY <1>1, <1>2

LEMMA OtherStepFacts ==
    ASSUME TypeOK, OtherStep
    PROVE  /\ Typed /\ UNCHANGED <<runs, sweep>>
           /\ \A s \in Sweep : pc'[s] = pc[s]
<1>t. /\ now \in Time /\ active \in [Player -> Time \cup {Never}]
      /\ joined \in [Lane -> [Player -> Time \cup {Never}]] /\ moves \in 0..MaxMoves
      /\ data \in [Player -> Time \cup {Never}] /\ backfill \in [Backfill -> BackfillState]
      /\ sweep \in [Sweep -> SweepState] /\ PcTyped
  BY DEF TypeOK, PcTyped, Proc
<1>e. {"idle", "fetch", "write"} \subseteq BackfillPhase
  BY DEF BackfillPhase
<1>1. ASSUME NEW b \in Backfill, EndBackfill(b), UNCHANGED <<now, roster, sweep>>,
             data' \in [Player -> Time \cup {Never}]
      PROVE  Typed /\ \A s \in Sweep : pc'[s] = pc[s]
  <2>1. PcTyped' /\ \A s \in Sweep : pc'[s] = pc[s]
    BY <1>1, <1>e, BackfillGoto DEF EndBackfill
  <2>2. backfill' \in [Backfill -> BackfillState]
    BY <1>1, <1>t, FreshFacts DEF EndBackfill
  <2> QED BY <1>1, <1>t, <2>1, <2>2 DEF Typed, roster
<1>2. ASSUME NEW b \in Backfill, NEW p \in Player, Admit(b, p)
      PROVE  /\ Typed /\ UNCHANGED <<runs, sweep>>
             /\ \A s \in Sweep : pc'[s] = pc[s]
  <2>1. PcTyped' /\ \A s \in Sweep : pc'[s] = pc[s]
    BY <1>2, <1>e, BackfillGoto DEF Admit
  <2>2. [backfill[b] EXCEPT !.player = p, !.after = Len(runs)] \in BackfillState
    BY <1>t, RunsFacts DEF BackfillState
  <2>3. backfill' = [backfill EXCEPT ![b] =
                       [backfill[b] EXCEPT !.player = p, !.after = Len(runs)]]
    BY <1>2, Zenon DEF Admit
  <2>4. UNCHANGED <<now, runs, roster, data, sweep>>
    BY <1>2 DEF Admit
  <2> QED BY <1>t, <2>1, <2>2, <2>3, <2>4 DEF Typed, roster
<1>3. ASSUME NEW b \in Backfill, BackfillFetch(b)
      PROVE  /\ Typed /\ UNCHANGED <<runs, sweep>>
             /\ \A s \in Sweep : pc'[s] = pc[s]
  <2>1. PcTyped' /\ \A s \in Sweep : pc'[s] = pc[s]
    BY <1>3, <1>e, BackfillGoto DEF BackfillFetch
  <2>2. [backfill[b] EXCEPT !.fetchedAt = now] \in BackfillState
    BY <1>t DEF BackfillState
  <2>3. backfill' = [backfill EXCEPT ![b] = [backfill[b] EXCEPT !.fetchedAt = now]]
    BY <1>3, Zenon DEF BackfillFetch
  <2>4. UNCHANGED <<now, runs, roster, data, sweep>>
    BY <1>3 DEF BackfillFetch
  <2> QED BY <1>t, <2>1, <2>2, <2>3, <2>4 DEF Typed, roster
<1>4. ASSUME NEW b \in Backfill, BackfillWrite(b) \/ BackfillStops(b)
      PROVE  /\ Typed /\ UNCHANGED <<runs, sweep>>
             /\ \A s \in Sweep : pc'[s] = pc[s]
  <2>1. EndBackfill(b) /\ UNCHANGED <<now, runs, roster, sweep>>
    BY <1>4 DEF BackfillWrite, BackfillStops
  <2>2. data' \in [Player -> Time \cup {Never}]
    BY <1>4, <1>t DEF BackfillWrite, BackfillStops, BackfillState
  <2> QED BY <1>1, <2>1, <2>2
<1>5. ASSUME NEW p \in Player, Activate(p) \/ Deactivate(p)
      PROVE  /\ Typed /\ UNCHANGED <<runs, sweep>>
             /\ \A s \in Sweep : pc'[s] = pc[s]
  <2>1. UNCHANGED <<now, runs, joined, data, pc, sweep, backfill>> /\ moves' \in 0..MaxMoves
    BY <1>5, <1>t, ConstantAssumption DEF Activate, Deactivate, Move
  <2>2. active' \in [Player -> Time \cup {Never}]
    BY <1>5, <1>t DEF Activate, Deactivate
  <2> QED BY <1>t, <2>1, <2>2 DEF Typed, PcTyped
<1>6. ASSUME NEW p \in Player, NEW l \in Lane, Enroll(p, l) \/ Unenroll(p, l)
      PROVE  /\ Typed /\ UNCHANGED <<runs, sweep>>
             /\ \A s \in Sweep : pc'[s] = pc[s]
  <2>1. UNCHANGED <<now, runs, active, data, pc, sweep, backfill>> /\ moves' \in 0..MaxMoves
    BY <1>6, <1>t, ConstantAssumption DEF Enroll, Unenroll, Move
  <2>2. joined' \in [Lane -> [Player -> Time \cup {Never}]]
    <3>1. PICK t \in Time \cup {Never} : joined' = [joined EXCEPT ![l][p] = t]
      BY <1>6, <1>t DEF Enroll, Unenroll
    <3>2. joined' = [joined EXCEPT ![l] = [joined[l] EXCEPT ![p] = t]]
      BY <3>1, Zenon
    <3> QED BY <1>t, <3>2
  <2> QED BY <1>t, <2>1, <2>2 DEF Typed, PcTyped
<1>7. ASSUME NEW t \in Time, SetClock(t)
      PROVE  /\ Typed /\ UNCHANGED <<runs, sweep>>
             /\ \A s \in Sweep : pc'[s] = pc[s]
  BY <1>7, <1>t DEF SetClock, Typed, roster, PcTyped
<1> QED BY <1>2, <1>3, <1>4, <1>5, <1>6, <1>7 DEF OtherStep
LEMMA ClaimTyped ==
    ASSUME TypeOK, NEW s \in Sweep, Claim(s)
    PROVE  Typed /\ UNCHANGED <<now, roster, data, backfill>>
<1>1. UNCHANGED <<now, roster, data, backfill>>
  BY DEF Claim
<1>2. PcTyped' /\ sweep' \in [Sweep -> SweepState]
  BY ClaimLocals
<1> QED BY <1>1, <1>2 DEF Typed, TypeOK, roster

OwnStep(s) ==
    \/ \E scope \in Scopes : Begin(s, scope)
    \/ SweepStep(s) /\ ~Claim(s)
    \/ Fatal(s)
    \/ Crash(s)

LEMMA NextKinds ==
    ASSUME Next
    PROVE  \/ \E s \in Sweep : Claim(s)
           \/ \E s \in Sweep : OwnStep(s)
           \/ OtherStep
BY DEF Next, Work, OwnStep, OtherStep, SweepStep

-----------------------------------------------------------------------------
(* The inductive invariant                                                 *)

(* Sweeps own rows of their own, the newest row alone may be running, and  *)
(* no lease predates its watermark.                                        *)
RunInv == TypeOK /\ IdsInRange /\ DistinctIds /\ RunningIsNewest /\ WatermarkBeforeLease

LEMMA RunInvInit == Init => RunInv
<1> SUFFICES ASSUME Init PROVE RunInv
  OBVIOUS
<1>1. runs = <<>> /\ Len(runs) = 0 /\ DOMAIN runs = {} /\ runs \in Seq(Run)
  BY DEF Init
<1>2. TypeOK
  <2>1. "idle" \in SweepPhase /\ "idle" \in BackfillPhase
    BY DEF SweepPhase, BackfillPhase
  <2>2. pc = [s \in Sweep \cup Backfill |-> "idle"]
    BY DEF Init
  <2>3. pc \in [Sweep \cup Backfill -> SweepPhase] /\ \A b \in Backfill : pc[b] \in BackfillPhase
    BY <2>1, <2>2
  <2>4. moves \in 0..MaxMoves /\ now \in Time /\ data \in [Player -> Time \cup {Never}]
    BY TimeFacts, ConstantAssumption DEF Init
  <2>5. /\ active \in [Player -> Time \cup {Never}]
        /\ joined \in [Lane -> [Player -> Time \cup {Never}]]
    <3>1. {Never, 0} \subseteq Time \cup {Never}
      BY TimeFacts
    <3>2. active \in [Player -> {Never, 0}] /\ joined \in [Lane -> [Player -> {Never, 0}]]
      BY DEF Init
    <3> QED BY <3>1, <3>2
  <2>6. sweep \in [Sweep -> SweepState] /\ backfill \in [Backfill -> BackfillState]
    BY FreshFacts DEF Init
  <2> QED BY <1>1, <2>3, <2>4, <2>5, <2>6, ConstantAssumption DEF TypeOK
<1>3. \A s \in Sweep : ~Claimed(s)
  BY DEF Init, Claimed
<1> QED BY <1>1, <1>2, <1>3
        DEF RunInv, IdsInRange, DistinctIds, RunningIsNewest, WatermarkBeforeLease

(* Settled rows keep their outcome, in every step.                         *)
OutcomesKept == \A i \in 1..Len(runs) : runs[i].status # "running" => runs'[i] = runs[i]

LEMMA RunInvClaim ==
    ASSUME RunInv, NEW s \in Sweep, Claim(s)
    PROVE  RunInv' /\ OutcomesKept
<1> USE DEF RunInv
<1>1. TypeOK'
  BY ClaimTyped, ClaimFacts DEF TypeOK, Typed, PcTyped, Proc
<1>2. DOMAIN runs' = 1..Len(runs) + 1 /\ Len(runs) \in Nat
  BY ClaimFacts, RunsFacts
<1>3. sweep'[s].id = Len(runs) + 1 /\ \A t \in Sweep : t # s => sweep'[t] = sweep[t] /\ pc'[t] = pc[t]
  BY ClaimLocals DEF Proc
<1>4. IdsInRange' /\ DistinctIds'
  <2>1. \A t \in Sweep : t # s /\ Claimed(t)' => Claimed(t)
    BY <1>3 DEF Claimed
  <2>2. \A t \in Sweep : t # s /\ Claimed(t)' => sweep'[t].id \in 1..Len(runs)
    BY <1>3, <2>1 DEF IdsInRange
  <2>3. IdsInRange'
    BY <1>2, <1>3, <2>2, ClaimFacts DEF IdsInRange
  <2>4. DistinctIds'
    BY <1>2, <1>3, <2>1, <2>2 DEF DistinctIds
  <2> QED BY <2>3, <2>4
<1>5. RunningIsNewest'
  BY <1>2, ClaimFacts DEF RunningIsNewest
<1>6. WatermarkBeforeLease'
  <2>1. NewRun(s).startedAt <= NewRun(s).claimedAt
    BY DEF NewRun, Claim
  <2>2. \A i \in 1..Len(runs) : /\ Reap(runs[i]).startedAt = runs[i].startedAt
                                /\ Reap(runs[i]).claimedAt = runs[i].claimedAt
    BY RunsFacts DEF Reap, Run
  <2>3. \A i \in 1..Len(runs) : runs[i].startedAt <= runs[i].claimedAt
    BY RunsFacts DEF WatermarkBeforeLease
  <2>4. ASSUME NEW i \in 1..Len(runs) + 1 PROVE runs'[i].startedAt <= runs'[i].claimedAt
    BY <1>2, <2>1, <2>2, <2>3, ClaimFacts
  <2> QED BY <1>2, <2>4 DEF WatermarkBeforeLease
<1>7. OutcomesKept
  BY ClaimFacts DEF OutcomesKept, Reap
<1> QED BY <1>1, <1>4, <1>5, <1>6, <1>7

LEMMA RunInvOwn ==
    ASSUME RunInv, NEW s \in Sweep, OwnStep(s)
    PROVE  RunInv' /\ OutcomesKept
<1>0. /\ TypeOK /\ IdsInRange /\ DistinctIds /\ RunningIsNewest
      /\ \A i \in 1..Len(runs) : runs[i].startedAt <= runs[i].claimedAt
  <2>1. TypeOK /\ IdsInRange /\ DistinctIds /\ RunningIsNewest /\ WatermarkBeforeLease
    BY DEF RunInv
  <2> QED BY <2>1, RunsFacts DEF WatermarkBeforeLease
<1>a. DOMAIN runs = 1..Len(runs) /\ Len(runs) \in Nat /\ \A i \in 1..Len(runs) : runs[i] \in Run
  BY <1>0, RunsFacts
<1>1. /\ Typed /\ SameLocals(s) /\ KeepsClaim(s)
      /\ \/ UNCHANGED runs
         \/ Claimed(s) /\ (RenewsRow(s) \/ SettlesRow(s))
  BY <1>0, SweepStepKinds DEF OwnStep
<1>2. /\ runs' \in Seq(Run) /\ Len(runs') = Len(runs) /\ DOMAIN runs' = 1..Len(runs)
      /\ \A i \in 1..Len(runs) : runs'[i].status = "running" => runs[i].status = "running"
      /\ \A i \in 1..Len(runs) : runs'[i].startedAt <= runs'[i].claimedAt
      /\ OutcomesKept
  <2>2. CASE UNCHANGED runs
    BY <1>0, <1>a, <2>2 DEF OutcomesKept, TypeOK
  <2>3. CASE Claimed(s) /\ RenewsRow(s)
    <3> DEFINE i == sweep[s].id
    <3>1. /\ i \in 1..Len(runs) /\ runs[i].status = "running" /\ runs[i] \in Run
          /\ runs' = [runs EXCEPT ![i].claimedAt = RenewedAt(i)]
      BY <1>0, <1>a, <2>3 DEF IdsInRange, RenewsRow, Owns, StillRunning
    <3>2. /\ runs' \in Seq(Run) /\ Len(runs') = Len(runs)
          /\ \A j \in 1..Len(runs) : j # i => runs'[j] = runs[j]
          /\ runs'[i] = [runs[i] EXCEPT !.claimedAt = RenewedAt(i)]
          /\ RenewedAt(i) >= runs[i].startedAt
      BY <1>0, <3>1, RenewFacts
    <3>3. /\ runs'[i].status = "running" /\ runs'[i].startedAt = runs[i].startedAt
          /\ runs'[i].claimedAt = RenewedAt(i)
      BY <3>1, <3>2 DEF Run
    <3>4. DOMAIN runs' = 1..Len(runs)
      BY <3>2
    <3>5. runs'[i].startedAt <= runs'[i].claimedAt
      <4>0. RenewedAt(i) \in Time
        BY <1>0, <3>1, RenewFacts
      <4>1. RenewedAt(i) \in Int /\ runs[i].startedAt \in Int
        BY <3>1, <4>0, TimeFacts DEF Run
      <4>2. runs[i].startedAt <= RenewedAt(i)
        BY <4>1, <3>2
      <4> QED BY <4>2, <3>3
    <3> QED BY <1>0, <3>1, <3>2, <3>3, <3>4, <3>5 DEF OutcomesKept
  <2>4. CASE Claimed(s) /\ SettlesRow(s)
    <3> DEFINE i == sweep[s].id
    <3>1. i \in 1..Len(runs) /\ runs[i] \in Run
      BY <1>0, <1>a, <2>4 DEF IdsInRange
    <3>2. PICK status \in {"ok", "partial", "failed"} : settleRefreshRun(i, status)
      BY <2>4 DEF SettlesRow
    <3>3. /\ runs' \in Seq(Run) /\ Len(runs') = Len(runs)
          /\ \A j \in 1..Len(runs) : j # i => runs'[j] = runs[j]
          /\ runs'[i].startedAt = runs[i].startedAt /\ runs'[i].claimedAt = runs[i].claimedAt
          /\ runs'[i].status # "running"
          /\ runs[i].status # "running" => runs'[i] = runs[i]
      BY <1>0, <3>1, <3>2, SettleFacts
    <3>5. DOMAIN runs' = 1..Len(runs)
      BY <3>3
    <3>6. ASSUME NEW j \in 1..Len(runs)
          PROVE  /\ runs'[j].status = "running" => runs[j].status = "running"
                 /\ runs'[j].startedAt <= runs'[j].claimedAt
                 /\ runs[j].status # "running" => runs'[j] = runs[j]
      <4>1. CASE j = i
        BY <4>1, <1>0, <3>3
      <4>2. CASE j # i
        BY <4>2, <1>0, <3>3
      <4> QED BY <4>1, <4>2
    <3> QED BY <3>3, <3>5, <3>6 DEF OutcomesKept
  <2> QED BY <1>1, <2>2, <2>3, <2>4
<1>3. TypeOK'
  BY <1>0, <1>1, <1>2, <1>a DEF TypeOK, Typed, PcTyped, Proc
<1>4. \A t \in Sweep : Claimed(t)' => Claimed(t) /\ sweep'[t].id = sweep[t].id
  BY <1>1 DEF SameLocals, KeepsClaim, Claimed, Proc
<1>5. IdsInRange' /\ DistinctIds'
  BY <1>0, <1>2, <1>4 DEF IdsInRange, DistinctIds
<1>6. RunningIsNewest' /\ WatermarkBeforeLease'
  <2>1. RunningIsNewest'
    BY <1>0, <1>2, <1>a DEF RunningIsNewest
  <2>2. WatermarkBeforeLease'
    <3>1. DOMAIN runs' = 1..Len(runs) /\ \A i \in 1..Len(runs) : runs'[i].startedAt <= runs'[i].claimedAt
      BY <1>2, Zenon
    <3> QED BY <3>1, Zenon DEF WatermarkBeforeLease
  <2> QED BY <2>1, <2>2
<1> QED BY <1>2, <1>3, <1>5, <1>6 DEF RunInv

LEMMA RunInvOther ==
    ASSUME RunInv, OtherStep
    PROVE  RunInv' /\ OutcomesKept
<1> USE DEF RunInv
<1>1. /\ Typed /\ UNCHANGED <<runs, sweep>>
      /\ \A s \in Sweep : pc'[s] = pc[s]
  BY OtherStepFacts
<1>2. TypeOK'
  BY <1>1 DEF TypeOK, Typed, PcTyped, Proc
<1>3. \A s \in Sweep : Claimed(s)' <=> Claimed(s)
  BY <1>1 DEF Claimed
<1> QED BY <1>1, <1>2, <1>3
        DEF IdsInRange, DistinctIds, RunningIsNewest, WatermarkBeforeLease, OutcomesKept

LEMMA RunInvStep ==
    ASSUME RunInv, [Next]_vars
    PROVE  RunInv' /\ OutcomesKept
<1>1. CASE Next
  BY <1>1, NextKinds, RunInvClaim, RunInvOwn, RunInvOther
<1>2. CASE UNCHANGED vars
  BY <1>2 DEF vars, roster, RunInv, TypeOK, IdsInRange, DistinctIds, RunningIsNewest,
              WatermarkBeforeLease, Claimed, OutcomesKept
<1> QED BY <1>1, <1>2

THEOREM RunInvariant == Spec => []RunInv
<1>1. RunInv /\ [Next]_vars => RunInv'
  BY RunInvStep
<1> QED BY <1>1, RunInvInit, PTL DEF Spec

-----------------------------------------------------------------------------
(* Every variable stays in its range, whatever sweeps and backfills do.    *)
THEOREM TypeCorrect == Spec => []TypeOK
<1>1. RunInv => TypeOK
  BY DEF RunInv
<1> QED BY <1>1, RunInvariant, PTL

(* Whatever crashes, overruns and clock settings: only the newest run of   *)
(* refresh_runs is ever running, hence never two at once.                  *)
THEOREM NewestRuns == Spec => []RunningIsNewest
<1>1. RunInv => RunningIsNewest
  BY DEF RunInv
<1> QED BY <1>1, RunInvariant, PTL

(* No claim and no renewal ever breaks the order the CHECK of the table    *)
(* demands, the clock being set back at any moment.                        *)
THEOREM WatermarksPrecede == Spec => []WatermarkBeforeLease
<1>1. RunInv => WatermarkBeforeLease
  BY DEF RunInv
<1> QED BY <1>1, RunInvariant, PTL

(* A run that was settled, or reaped by its successor, is never changed    *)
(* again, by whichever zombie resumes.                                     *)
THEOREM OutcomesAreFinal == Spec => OutcomeIsFinal
<1>1. RunInv /\ [Next]_vars =>
        [\A i \in DOMAIN runs : runs[i].status # "running" => runs'[i] = runs[i]]_vars
  <2> SUFFICES ASSUME RunInv, [Next]_vars
               PROVE  \A i \in DOMAIN runs : runs[i].status # "running" => runs'[i] = runs[i]
    OBVIOUS
  <2> QED BY RunInvStep, RunsFacts DEF OutcomesKept, RunInv
<1> QED BY <1>1, RunInvariant, PTL DEF Spec, OutcomeIsFinal
=============================================================================
