----------------------------- MODULE RefreshRun -----------------------------
(***************************************************************************)
(* The durable refresh run of src/jobs/refresh-run.ts, as runRefresh and   *)
(* runRefreshForPlayer of src/jobs/refresh.ts use it.  A sweep selects the *)
(* players of its scope, claims a row of refresh_runs, then for each       *)
(* player renews its lease, fetches, writes what it fetched and records    *)
(* its progress; at last it settles its row.  A backfill refreshes one     *)
(* player without a row of its own.  Both write the same stat lines, and   *)
(* each write is fenced in its own transaction.                            *)
(*                                                                         *)
(* One action is one transaction, or one stretch of provider traffic.  The *)
(* clock is the host's and may be set back.  The columns that only count   *)
(* and explain (players_refreshed ..., error_message, finished_at) are     *)
(* left out: no decision reads them.                                       *)
(***************************************************************************)
EXTENDS Integers, Sequences

CONSTANTS
    Sweep,       \* invocations of runRefresh that may be under way at once
    Backfill,    \* invocations of runRefreshForPlayer, likewise
    Player,
    NoPlayer,
    Lane,
    WholeList,   \* the scope of a sweep of every active player (NULL)
    Scopes,      \* the scopes sweeps are asked for
    MaxTime,     \* bound: the last instant of the clock
    REFRESH_LEASE_MS,
    hostDate,    \* the host's calendar date of every instant
    MaxRuns,     \* bound: rows of refresh_runs
    MaxMoves     \* bound: changes of the roster

Time == 0..MaxTime
Date == {hostDate[t] : t \in Time}

ASSUME ConstantAssumption ==
    /\ MaxTime \in Nat
    /\ MaxRuns \in Nat
    /\ MaxMoves \in Nat
    /\ REFRESH_LEASE_MS \in Nat \ {0}
    /\ \A lanes \in SUBSET Lane : WholeList # lanes
    /\ WholeList \notin Lane
    /\ NoPlayer \notin Player
    /\ Sweep \cap Backfill = {}
    /\ Scopes \subseteq {WholeList} \cup SUBSET Lane
    /\ hostDate \in [0..MaxTime -> Nat]
    /\ \A t, u \in 0..MaxTime : t <= u => hostDate[t] <= hostDate[u]

VARIABLES
    now,       \* the host's clock
    runs,      \* refresh_runs, in the order of their ids
    active,    \* since when a player is active, or Never
    joined,    \* since when a player is a member of a lane, or Never
    moves,     \* changes of the roster so far
    data,      \* the instant of the fetch behind each player's stat lines
    pc,        \* where each sweep and each backfill is
    sweep,     \* what each sweep holds in its local variables
    backfill   \* what each backfill holds

roster == <<active, joined, moves>>
vars   == <<now, runs, roster, data, pc, sweep, backfill>>

-----------------------------------------------------------------------------
(* The roster, rows and local variables                                    *)

Never == -1

Scope == {WholeList} \cup SUBSET Lane

Run == [status : {"running", "ok", "partial", "failed"},
        startedAt : Time, claimedAt : Time, scope : Scope]

IsActive(p)    == active[p] # Never
IsMember(p, l) == joined[l][p] # Never

(* The active players of a scope: selectSweepPlayers, loadActivePlayers.   *)
Selected(scope) ==
    {p \in Player : IsActive(p) /\ (scope = WholeList \/ \E l \in scope : IsMember(p, l))}

CoversEveryActivePlayer(scope) == \A p \in Player : IsActive(p) => p \in Selected(scope)

SweepPhase == {"idle", "select", "claim", "calendars", "renew", "fetch", "write",
               "progress", "settle"}
BackfillPhase == {"idle", "fetch", "write"}

Outcome == {"refreshed", "skipped", "failed"}

SweepState ==
    [startedAt : Time, scope : Scope, todo : SUBSET Player, id : 0..MaxRuns,
     player : Player \cup {NoPlayer}, fetchedAt : Time, outcomes : SUBSET Outcome]

BackfillState == [player : Player \cup {NoPlayer}, after : 0..MaxRuns, fetchedAt : Time]

FreshSweep ==
    [startedAt |-> 0, scope |-> WholeList, todo |-> {}, id |-> 0,
     player |-> NoPlayer, fetchedAt |-> 0, outcomes |-> {}]

FreshBackfill == [player |-> NoPlayer, after |-> 0, fetchedAt |-> 0]

(* Every player may start out watched and enrolled, or not.                *)
Init ==
    /\ now = 0
    /\ runs = <<>>
    /\ active \in [Player -> {Never, 0}]
    /\ joined \in [Lane -> [Player -> {Never, 0}]]
    /\ moves = 0
    /\ data = [p \in Player |-> Never]
    /\ pc = [s \in Sweep \cup Backfill |-> "idle"]
    /\ sweep = [s \in Sweep |-> FreshSweep]
    /\ backfill = [b \in Backfill |-> FreshBackfill]

Goto(s, phase) == pc' = [pc EXCEPT ![s] = phase]

EndSweep(s) ==
    /\ Goto(s, "idle")
    /\ sweep' = [sweep EXCEPT ![s] = FreshSweep]

EndBackfill(b) ==
    /\ Goto(b, "idle")
    /\ backfill' = [backfill EXCEPT ![b] = FreshBackfill]

-----------------------------------------------------------------------------
(* Leases and the fence                                                    *)

leaseIsLive(r, t) == t - r.claimedAt < REFRESH_LEASE_MS

BugCrashedBlocks(t) == \E i \in DOMAIN runs : runs[i].status = "running"

LiveRun(t) == \E i \in DOMAIN runs : runs[i].status = "running" /\ leaseIsLive(runs[i], t)

(* The row is still its owner's: no successor has reaped it.               *)
StillRunning(i) == runs[i].status = "running"

Owns(i, t) == StillRunning(i) /\ leaseIsLive(runs[i], t)

(* withIngestionFence: a sweep's authority is its own live row, judged by  *)
(* the clock of the write; a backfill's, that no run was claimed since.    *)
BugFenceAtFetch(s)   == Owns(sweep[s].id, sweep[s].fetchedAt)
BugBackfillUnfenced(b) == TRUE

SweepFenceHolds(s)    == Owns(sweep[s].id, now)
BackfillFenceHolds(b) == Len(runs) <= backfill[b].after

-----------------------------------------------------------------------------
(* A sweep                                                                 *)

(* runRefresh reads the clock: the watermark of what it will know.         *)
Begin(s, scope) ==
    /\ pc[s] = "idle"
    /\ sweep' = [sweep EXCEPT ![s].scope = scope, ![s].startedAt = now]
    /\ Goto(s, "select")
    /\ UNCHANGED <<now, runs, roster, data, backfill>>

(* One read selects the players and says whether they are all there are.   *)
Select(s) ==
    LET scope == sweep[s].scope
    IN  /\ pc[s] = "select"
        /\ sweep' = [sweep EXCEPT
              ![s].todo  = Selected(scope),
              ![s].scope = IF CoversEveryActivePlayer(scope) THEN WholeList ELSE scope]
        /\ Goto(s, "claim")
        /\ UNCHANGED <<now, runs, roster, data, backfill>>

(* Offseason Sleep, or a live run: the sweep is skipped.                   *)
Skip(s) ==
    /\ pc[s] = "claim"
    /\ EndSweep(s)
    /\ UNCHANGED <<now, runs, roster, data, backfill>>

(* claimRefreshRun: nothing while a lease is live; else every expired row  *)
(* is reaped and the new one inserted.  A clock set back since the         *)
(* selection violates the table's CHECK, and the whole claim is undone.    *)
Reap(r) == IF r.status = "running" /\ ~leaseIsLive(r, now)
           THEN [r EXCEPT !.status = "failed"] ELSE r

BugNoReap == runs
Reaped    == [i \in DOMAIN runs |-> Reap(runs[i])]

BugClaimWatermark(s) ==
    [status |-> "running", startedAt |-> now, claimedAt |-> now, scope |-> sweep[s].scope]

NewRun(s) ==
    [status |-> "running", startedAt |-> sweep[s].startedAt,
     claimedAt |-> now, scope |-> sweep[s].scope]

Claim(s) ==
    /\ pc[s] = "claim"
    /\ ~LiveRun(now)
    /\ sweep[s].startedAt <= now
    /\ Len(runs) < MaxRuns
    /\ runs' = Append(Reaped, NewRun(s))
    /\ sweep' = [sweep EXCEPT ![s] = [FreshSweep EXCEPT !.id = Len(runs) + 1,
                                                       !.todo = sweep[s].todo]]
    /\ Goto(s, "calendars")
    /\ UNCHANGED <<now, roster, data, backfill>>

AfterPlayers(s) == IF sweep[s].todo = {} THEN "settle" ELSE "renew"

(* Calendars are fetched and written under the fence.  A failed fetch is   *)
(* collected and nothing written, so the sweep may go on unfenced.         *)
Calendars(s) ==
    /\ pc[s] = "calendars"
    /\ \/ Goto(s, AfterPlayers(s)) /\ UNCHANGED sweep
       \/ ~SweepFenceHolds(s) /\ EndSweep(s)
    /\ UNCHANGED <<now, runs, roster, data, backfill>>

(* renewRefreshRun, before each player: the lease is bumped, never to      *)
(* before the watermark, or the sweep gives up.                            *)
Latest(t, u) == IF t >= u THEN t ELSE u

BugStoresExpiry(i) == now + REFRESH_LEASE_MS
BugUnclamped(i) == now

RenewedAt(i) == Latest(now, runs[i].startedAt)

Renew(s) ==
    LET i == sweep[s].id
    IN  /\ pc[s] = "renew"
        /\ \/ /\ Owns(i, now)
              /\ \E p \in sweep[s].todo : sweep' = [sweep EXCEPT ![s].player = p]
              /\ runs' = [runs EXCEPT ![i].claimedAt = RenewedAt(i)]
              /\ Goto(s, "fetch")
           \/ /\ ~Owns(i, now)
              /\ EndSweep(s)
              /\ UNCHANGED runs
        /\ UNCHANGED <<now, roster, data, backfill>>

(* This player is dealt with, one way or another; what was fetched of him  *)
(* is let go.                                                              *)
Collect(s, outcome) ==
    /\ sweep' = [sweep EXCEPT ![s] =
          [FreshSweep EXCEPT !.id = sweep[s].id,
                             !.todo = sweep[s].todo \ {sweep[s].player},
                             !.outcomes = sweep[s].outcomes \cup {outcome}]]
    /\ Goto(s, "progress")

(* The provider answers, everything buffered; or throws; or the player is  *)
(* passed over.                                                            *)
Fetch(s) ==
    /\ pc[s] = "fetch"
    /\ \/ Goto(s, "write") /\ sweep' = [sweep EXCEPT ![s].fetchedAt = now]
       \/ \E outcome \in {"skipped", "failed"} : Collect(s, outcome)
    /\ UNCHANGED <<now, runs, roster, data, backfill>>

(* One transaction: the fence, identity and stat lines.                    *)
Write(s) ==
    /\ pc[s] = "write"
    /\ \/ /\ SweepFenceHolds(s)
          /\ data' = [data EXCEPT ![sweep[s].player] = sweep[s].fetchedAt]
          /\ Collect(s, "refreshed")
       \/ ~SweepFenceHolds(s) /\ EndSweep(s) /\ UNCHANGED data
       \/ Collect(s, "failed") /\ UNCHANGED data
    /\ UNCHANGED <<now, runs, roster, backfill>>

(* updateRefreshRunProgress: it matters here only as an ownership check.   *)
Progress(s) ==
    /\ pc[s] = "progress"
    /\ IF StillRunning(sweep[s].id)
       THEN Goto(s, AfterPlayers(s)) /\ UNCHANGED sweep
       ELSE EndSweep(s)
    /\ UNCHANGED <<now, runs, roster, data, backfill>>

deriveRefreshStatus(outcomes, calendarBlocksFresh) ==
    IF outcomes \subseteq {"refreshed"} /\ ~calendarBlocksFresh THEN "ok"
    ELSE IF "refreshed" \notin outcomes /\ "failed" \in outcomes THEN "failed"
    ELSE "partial"

(* settleRefreshRun: an update of the sweep's own row, if still running.   *)
BugSettlesReaped(i, status) == runs' = [runs EXCEPT ![i].status = status]

settleRefreshRun(i, status) ==
    runs' = IF StillRunning(i) THEN [runs EXCEPT ![i].status = status] ELSE runs

Settle(s) ==
    /\ pc[s] = "settle"
    /\ \E calendarBlocksFresh \in BOOLEAN :
          settleRefreshRun(sweep[s].id,
                           deriveRefreshStatus(sweep[s].outcomes, calendarBlocksFresh))
    /\ EndSweep(s)
    /\ UNCHANGED <<now, roster, data, backfill>>

(* An unexpected throw after the claim is recorded, and ends the sweep.    *)
Fatal(s) ==
    /\ pc[s] \in {"calendars", "renew", "progress", "settle"}
    /\ settleRefreshRun(sweep[s].id, "failed")
    /\ EndSweep(s)
    /\ UNCHANGED <<now, roster, data, backfill>>

(* The process dies, or throws where nothing catches it.                   *)
Crash(s) ==
    /\ pc[s] # "idle"
    /\ EndSweep(s)
    /\ UNCHANGED <<now, runs, roster, data, backfill>>

-----------------------------------------------------------------------------
(* A backfill                                                              *)

(* admitTargetedRefresh: not while a run is live; else the newest id is    *)
(* kept.                                                                   *)
Admit(b, p) ==
    /\ pc[b] = "idle"
    /\ ~LiveRun(now)
    /\ backfill' = [backfill EXCEPT ![b].player = p, ![b].after = Len(runs)]
    /\ Goto(b, "fetch")
    /\ UNCHANGED <<now, runs, roster, data, sweep>>

BackfillFetch(b) ==
    /\ pc[b] = "fetch"
    /\ Goto(b, "write")
    /\ backfill' = [backfill EXCEPT ![b].fetchedAt = now]
    /\ UNCHANGED <<now, runs, roster, data, sweep>>

BackfillWrite(b) ==
    /\ pc[b] = "write"
    /\ data' = IF BackfillFenceHolds(b)
               THEN [data EXCEPT ![backfill[b].player] = backfill[b].fetchedAt]
               ELSE data
    /\ EndBackfill(b)
    /\ UNCHANGED <<now, runs, roster, sweep>>

BackfillStops(b) ==
    /\ pc[b] # "idle"
    /\ EndBackfill(b)
    /\ UNCHANGED <<now, runs, roster, data, sweep>>

-----------------------------------------------------------------------------
(* The surroundings                                                        *)

Move == /\ moves < MaxMoves
        /\ moves' = moves + 1
        /\ UNCHANGED <<now, runs, data, pc, sweep, backfill>>

(* A player is added, or an inactive one added again.  Memberships stay.   *)
Activate(p) ==
    /\ ~IsActive(p)
    /\ active' = [active EXCEPT ![p] = now]
    /\ UNCHANGED joined
    /\ Move

Deactivate(p) ==
    /\ IsActive(p)
    /\ active' = [active EXCEPT ![p] = Never]
    /\ UNCHANGED joined
    /\ Move

(* insertMemberships writes only the memberships there are not.            *)
Enroll(p, l) ==
    /\ ~IsMember(p, l)
    /\ joined' = [joined EXCEPT ![l][p] = now]
    /\ UNCHANGED active
    /\ Move

Unenroll(p, l) ==
    /\ IsMember(p, l)
    /\ joined' = [joined EXCEPT ![l][p] = Never]
    /\ UNCHANGED active
    /\ Move

(* The clock ticks, jumps, or is set back.                                 *)
SetClock(t) ==
    /\ t # now
    /\ now' = t
    /\ UNCHANGED <<runs, roster, data, pc, sweep, backfill>>

SweepStep(s) ==
    \/ Select(s) \/ Skip(s) \/ Claim(s) \/ Calendars(s)
    \/ Renew(s) \/ Fetch(s) \/ Write(s) \/ Progress(s)
    \/ Settle(s)

Work ==
    \/ \E s \in Sweep, scope \in Scopes : Begin(s, scope)
    \/ \E s \in Sweep : SweepStep(s)
    \/ \E s \in Sweep : Fatal(s)
    \/ \E s \in Sweep : Crash(s)
    \/ \E b \in Backfill, p \in Player : Admit(b, p)
    \/ \E b \in Backfill : BackfillFetch(b) \/ BackfillWrite(b) \/ BackfillStops(b)
    \/ \E p \in Player : Activate(p) \/ Deactivate(p)
    \/ \E p \in Player, l \in Lane : Enroll(p, l) \/ Unenroll(p, l)

Next == Work \/ \E t \in Time : SetClock(t)

Spec == Init /\ [][Next]_vars

(* A host whose clock is never set back.                                   *)
ForwardNext == Work \/ \E t \in now..MaxTime : SetClock(t)

ForwardSpec == Init /\ [][ForwardNext]_vars

-----------------------------------------------------------------------------
(* Freshness                                                               *)

(* A run covers a lane when it swept the whole watch list, or named the    *)
(* lane and no active member joined at or after its watermark.  Only whole *)
(* sweeps cover the whole list.                                            *)
BugNamingIsCovering(i, q) ==
    \/ runs[i].scope = WholeList
    \/ q # WholeList /\ q \in runs[i].scope

Covers(i, q) ==
    \/ runs[i].scope = WholeList
    \/ /\ q # WholeList /\ q \in runs[i].scope
       /\ \A p \in Player : IsActive(p) /\ IsMember(p, q) => joined[q][p] < runs[i].startedAt

CoveringRuns(q) ==
    {i \in DOMAIN runs : runs[i].status \in {"ok", "partial"} /\ Covers(i, q)}

(* The strongest claim: the latest watermark, then the latest id.          *)
AtMost(i, j) ==
    \/ runs[i].startedAt < runs[j].startedAt
    \/ runs[i].startedAt = runs[j].startedAt /\ i <= j

latestCoveringRun(q) ==
    CHOOSE i \in CoveringRuns(q) : \A j \in CoveringRuns(q) : AtMost(j, i)

(* The banner of a digest whose content day is d.                          *)
ReadsFresh(q, d) ==
    /\ CoveringRuns(q) # {}
    /\ runs[latestCoveringRun(q)].status = "ok"
    /\ hostDate[runs[latestCoveringRun(q)].startedAt] > d

(* The players that digest reports on.                                     *)
Reported(q) == Selected(IF q = WholeList THEN WholeList ELSE {q})

CompleteThrough(p, d) == data[p] # Never /\ hostDate[data[p]] > d

-----------------------------------------------------------------------------
(* Properties                                                              *)

TypeOK ==
    /\ now \in Time
    /\ runs \in Seq(Run) /\ Len(runs) <= MaxRuns
    /\ active \in [Player -> Time \cup {Never}]
    /\ joined \in [Lane -> [Player -> Time \cup {Never}]]
    /\ moves \in 0..MaxMoves
    /\ data \in [Player -> Time \cup {Never}]
    /\ pc \in [Sweep \cup Backfill -> SweepPhase]
    /\ \A b \in Backfill : pc[b] \in BackfillPhase
    /\ sweep \in [Sweep -> SweepState]
    /\ backfill \in [Backfill -> BackfillState]

(* Whatever crashes, and wherever the clock is set: only the newest run is *)
(* ever running, the fact refreshHealth reads the newest row on.           *)
RunningIsNewest ==
    \A i \in DOMAIN runs : runs[i].status = "running" => i = Len(runs)

(* The order the table's CHECK demands holds of every row, so that a       *)
(* renewal never fails on it, even with the clock set back.                *)
WatermarkBeforeLease ==
    \A i \in DOMAIN runs : runs[i].startedAt <= runs[i].claimedAt

(* A settled or reaped run keeps its outcome: a sweep that resumes after   *)
(* its successor reaped it cannot bring its row back to ok.                *)
OutcomeIsFinal ==
    [][\A i \in DOMAIN runs : runs[i].status # "running" => runs'[i] = runs[i]]_vars

(* No player's stat lines are overwritten with an older fetch, by a sweep  *)
(* that lost its lease in mid-flight or by a backfill that a sweep         *)
(* overtook: the stale-as-fresh hazard of claimRefreshRun.                 *)
NoStaleOverwrite ==
    [][\A p \in Player : data'[p] >= data[p]]_vars

(* A digest that reads fresh for its content day carries, of every player  *)
(* it reports on who has been active since before the answering run's      *)
(* watermark, stat lines fetched after that day was over.                  *)
FreshIsComplete ==
    \A q \in Lane \cup {WholeList}, d \in Date :
        ReadsFresh(q, d) =>
            \A p \in Reported(q) :
                active[p] < runs[latestCoveringRun(q)].startedAt => CompleteThrough(p, d)

(* What digestFreshnessFor says of a scoped run's coverage: it expires     *)
(* when the lane's active membership grows, so that of no player, however  *)
(* he came to be active, does fresh speak in error.                        *)
FreshScopeIsComplete ==
    \A q \in Lane, d \in Date :
        ReadsFresh(q, d) /\ runs[latestCoveringRun(q)].scope # WholeList =>
            \A p \in Reported(q) : CompleteThrough(p, d)
=============================================================================
