-------------------------- MODULE DeliveryLiveness --------------------------
(***************************************************************************)
(* What the delivery claim eventually achieves: under the scheduling of    *)
(* src/jobs/tick.ts (launchd starts a tick every fifteen minutes, a tick   *)
(* invokes every scheduled lane) no slot that owes a digest stays owing,   *)
(* and nothing of a deleted lane stays in flight.                          *)
(*                                                                         *)
(* Bound: one attempt may crash or fail to be sent (no row shows an earlier *)
(* one that did), a crash one lease before the clock's last instant at the *)
(* latest, so that the clock bound does not end a lease's life early.      *)
(***************************************************************************)
EXTENDS DeliveryClaim

CONSTANTS
    DayLength,  \* hours in a day, one clock tick each
    FirstHour,  \* the hour of the first instant
    digestHour  \* the hour of the day from which a lane is due, or NotScheduled

NotScheduled == -1

ScheduledLanes == {l \in Lane : digestHour[l] # NotScheduled}

ASSUME HourAssumption == digestHour \in [Lane -> 0..(DayLength - 1) \cup {NotScheduled}]

MCHostDate  == [t \in 0..MaxTime |-> (FirstHour + t) \div DayLength]
AfterSecond == Date \ {0, 1}

(* The lane that is the default at first is mailed by operators alone, the *)
(* others late in the day.                                                 *)
AllButDefault == [l \in Lane |-> IF l = DefaultLane THEN NotScheduled ELSE DayLength - 1]

Untroubled(r) ==
    /\ Holds(r) /\ run[r].attempt = 1
    /\ \A s \in Slot \ {run[r].slot} :
          row[s].status \in {"none", "sent"} /\ row[s].attemptCount <= 1

Trouble(r) ==
    /\ Untroubled(r)
    /\ \/ Crash(r) /\ now + LEASE_MS <= MaxTime
       \/ SendThrows(r)

Progress(r) ==
    \/ ResolveLane(r) \/ DecideToday(r)
    \/ ClaimRefused(r) \/ ClaimReplay(r) \/ ClaimSlot(r)
    \/ LookUp(r) \/ Send(r) \/ ProviderAccepts(r) \/ SendReturns(r)
    \/ settleSent(r) \/ settleFailed(r) \/ settleReconciled(r)

(* The tick's digest stage, over the lanes that have an hour.  Awake, it   *)
(* invokes each whose hour has come and whose digest of today is not       *)
(* recorded as sent; asleep, each that owes an earlier day.  The last      *)
(* instant stands for all later days: if it is awake, a lane is due there. *)
asleep       == hostDate[now] \in SleepDates
sentToday(l) == row[digest(hostDate[now], l)].status = "sent"

hour == (FirstHour + now) % DayLength

LaneIsDue(l) ==
    \/ hour >= digestHour[l] /\ ~sentToday(l)
    \/ now = MaxTime

BugSleepSuspends(l) == ~asleep /\ LaneIsDue(l)

digestIsDue(l) == IF asleep THEN findOrphanedDigestDate(l, now) # {} ELSE LaneIsDue(l)

Scheduled(l) == /\ digestIsDue(l)
                /\ \E r \in Run : Start(r, l, TRUE, FALSE)

(* Asleep, one unscoped invocation, unless a heartbeat was sent this week. *)
BugStuckSilences == \A s \in Slot : s.kind = "heartbeat" => row[s].status = "none"

heartbeatOwed == \A s \in SentHeartbeats : now - row[s].sentAt >= WEEK_MS

Heartbeat == /\ asleep /\ heartbeatOwed
             /\ \E r \in Run : Start(r, default, FALSE, FALSE)

(* Bound: the default moves once.                                          *)
DefaultMoves(l) == default = DefaultLane /\ l # default /\ SetDefault(l)

(* Any other invocation may also come, or not.                             *)
ByOperator(r) == \E l \in Lane, scoped \in BOOLEAN : Start(r, l, scoped, TRUE)

SweepUp == \E t \in Time : reapDeadLaneClaims(t)

LiveNext ==
    \/ \E r \in Run : Progress(r) \/ Trouble(r) \/ ByOperator(r)
    \/ \E l \in ScheduledLanes : Scheduled(l)
    \/ \E l \in Lane : DeleteLane(l) \/ DefaultMoves(l)
    \/ Heartbeat \/ SweepUp \/ AdvanceClock

(* A run keeps running; the clock keeps ticking; the tick keeps coming     *)
(* back to every live lane that has an hour, and sweeps up on the way.     *)
(* Nothing obliges operators, crashes and list commands, and nobody comes  *)
(* back to a lane without an hour but an operator.                         *)
LiveSpec ==
    /\ Init /\ [][LiveNext]_vars
    /\ \A r \in Run : WF_vars(Progress(r))
    /\ \A l \in ScheduledLanes : SF_vars(Scheduled(l))
    /\ SF_vars(Heartbeat)
    /\ WF_vars(SweepUp)
    /\ WF_vars(AdvanceClock)

-----------------------------------------------------------------------------
(* No slot of a lane on the schedule stays owing.  Again and again, every  *)
(* one that a run, the tick's or an operator's, claimed and then lost, to  *)
(* a crash or a failed send, today, across a change of date or with the    *)
(* host asleep since, is recorded as sent, or its lane is gone: no claim   *)
(* holds such a slot forever and no failure of it is forgotten.            *)
OwedIsDelivered ==
    []<>(\A s \in Slot :
            /\ s.kind = "digest" /\ s.lane \in ScheduledLanes
            /\ row[s].status \in {"sending", "failed"}
            => s.lane \in deleted)

(* The claims deleted lanes leave in flight are settled again and again,   *)
(* although no run may ever claim those slots.                             *)
DeadLaneSettles ==
    []<>(\A s \in Slot : row[s].status = "sending" => s.lane \notin deleted)

(* A host asleep is not silent: again and again a heartbeat of the last    *)
(* week is there, whichever row a run that died or failed left behind.     *)
HostIsHeard ==
    []<>(asleep => \E s \in SentHeartbeats : now - row[s].sentAt < WEEK_MS)
=============================================================================
