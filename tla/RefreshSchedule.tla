--------------------------- MODULE RefreshSchedule ---------------------------
(***************************************************************************)
(* The refresh stage of src/jobs/tick.ts over RefreshRun: every tick       *)
(* sweeps, in one run, the lanes whose interval has elapsed since the      *)
(* watermark of the run that covers them.  launchd starts a tick every     *)
(* fifteen minutes and starts the next one whatever became of the last, so *)
(* the schedule is fair.                                                   *)
(*                                                                         *)
(* Crashes, failures and clocks set back are finitely many (a bound,       *)
(* trouble), and a sweep crashes only while its lease can still run out    *)
(* before the clock's last instant.  That instant stands for all later     *)
(* ones: in it no lease runs out any more, that is, from some time on      *)
(* players are fetched within the lease.                                   *)
(***************************************************************************)
EXTENDS RefreshRun

CONSTANTS
    refreshInterval,           \* of the scheduled lanes, in clock ticks
    REFRESH_DUE_TOLERANCE_MS,  \* how early a lane may be due
    MaxTrouble,                \* bound: crashes and failures
    DayLength

MCHostDate == [t \in 0..MaxTime |-> t \div DayLength]
LanesOnly  == SUBSET Lane

(* One lane is swept every second tick, the others every third; players    *)
(* are enrolled in the others, so that sweeps of the one cover no other.   *)
Often     == CHOOSE l \in Lane : TRUE
Staggered == [l \in Lane |-> IF l = Often THEN 2 ELSE 3]

VARIABLE trouble  \* how many crashes and failures there may still be

liveVars == <<now, runs, roster, data, pc, sweep, backfill, trouble>>

LiveInit ==
    /\ Init
    /\ \A p \in Player : IsActive(p) /\ \A l \in Lane : IsMember(p, l) <=> l # Often
    /\ trouble = MaxTrouble

BugLatestNotCovering(l) ==
    runs # <<>> => now - runs[Len(runs)].startedAt
                     >= refreshInterval[l] - REFRESH_DUE_TOLERANCE_MS

refreshIsDue(l) ==
    CoveringRuns(l) # {} => now - runs[latestCoveringRun(l)].startedAt
                              >= refreshInterval[l] - REFRESH_DUE_TOLERANCE_MS

(* In the last instant, which stands for all later ones, a lane comes to   *)
(* be due again for as long as some row is running.                        *)
StandsForLater == now = MaxTime /\ \E i \in DOMAIN runs : StillRunning(i)

Due == {l \in DOMAIN refreshInterval : refreshIsDue(l) \/ StandsForLater}

runRefreshStage(s) ==
    /\ Due # {}
    /\ Begin(s, Due)
    /\ UNCHANGED trouble

(* A sweep's next step, with nothing failing and nobody asleep.            *)
Failing(s) == "failed" \in sweep'[s].outcomes \ sweep[s].outcomes

Proceed(s) ==
    /\ SweepStep(s) /\ ~Failing(s)
    /\ pc[s] = "claim" /\ pc'[s] = "idle" => LiveRun(now)
    /\ UNCHANGED trouble

Trouble(s) ==
    /\ trouble > 0
    /\ trouble' = trouble - 1
    /\ \/ SweepStep(s) /\ Failing(s)
       \/ Fatal(s)
       \/ /\ Crash(s)
          /\ sweep[s].id # 0 => runs[sweep[s].id].claimedAt + REFRESH_LEASE_MS <= MaxTime

(* The host's clock is set back by a tick.                                 *)
SetBack ==
    /\ trouble > 0
    /\ trouble' = trouble - 1
    /\ now > 0 /\ SetClock(now - 1)

Clock == now < MaxTime /\ SetClock(now + 1) /\ UNCHANGED trouble

LiveNext ==
    \/ \E s \in Sweep : runRefreshStage(s) \/ Proceed(s) \/ Trouble(s)
    \/ SetBack \/ Clock

LiveSpec ==
    /\ LiveInit /\ [][LiveNext]_liveVars
    /\ \A s \in Sweep : WF_liveVars(Proceed(s))
    /\ WF_liveVars(\E s \in Sweep : runRefreshStage(s))
    /\ WF_liveVars(Clock)

-----------------------------------------------------------------------------
(* No row stays running: again and again none is.  A sweep that dies, or   *)
(* gives up because its lease ran out before anyone took over, leaves a    *)
(* row the schedule eventually gets past.                                  *)
NoRunStaysRunning ==
    []<>(\A i \in DOMAIN runs : ~StillRunning(i))

(* Every scheduled lane is, again and again, covered by a run younger than *)
(* the lane's interval, whatever failed, gave up or was reaped on the way: *)
(* neither a failed sweep nor one of another lane alone counts as its.     *)
LaneIsCovered ==
    \A l \in DOMAIN refreshInterval :
        []<>(\E i \in CoveringRuns(l) : now - runs[i].startedAt < refreshInterval[l])
=============================================================================
