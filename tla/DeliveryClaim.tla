---------------------------- MODULE DeliveryClaim ----------------------------
(***************************************************************************)
(* The durable delivery claim of src/jobs/delivery-claim.ts, as runDigest  *)
(* of src/jobs/digest.ts uses it.  A run freezes the clock once, catches   *)
(* up one orphaned prior day, then delivers today's digest (or, asleep,    *)
(* the weekly heartbeat): claim, look the slot up at the provider when the *)
(* claim was recovered, compose, send, settle.  Any number of runs are     *)
(* under way at once (the launchd tick, sk digest, the MCP and REST        *)
(* servers) and meet only in the rows of digest_deliveries.                *)
(*                                                                         *)
(* One action is one database transaction, or one exchange with the mail   *)
(* provider.  A crash (of the process, or an exception that ends the run)  *)
(* may fall between any two of them.                                       *)
(***************************************************************************)
EXTENDS Integers, FiniteSets

CONSTANTS
    Run,          \* invocations of runDigest that may be under way at once
    Lane,         \* Player Lists
    DefaultLane,  \* the lane that is the default at first
    MaxTime,      \* bound: the last instant of the clock
    LEASE_MS,     \* how long a claim is honoured, in clock ticks
    WEEK_MS,      \* how long a sent heartbeat silences the next
    hostDate,     \* the host's calendar date of every instant
    SleepDates,   \* the dates of Offseason Sleep
    HasLookup,    \* the mailer implements findAccepted (Postmark does)
    MaxAttempts,  \* bound: claims taken on one slot
    MaxReports    \* bound: on-demand reports the provider has accepted

Time == 0..MaxTime
Date == {hostDate[t] : t \in Time}

ASSUME ConstantAssumption ==
    /\ MaxTime \in Nat
    /\ MaxAttempts \in Nat
    /\ MaxReports \in Nat
    /\ LEASE_MS \in Nat \ {0}
    /\ WEEK_MS \in Nat
    /\ DefaultLane \in Lane
    /\ HasLookup \in BOOLEAN
    /\ hostDate \in [0..MaxTime -> Nat]
    /\ \A t, u \in 0..MaxTime : t <= u => hostDate[t] <= hostDate[u]

VARIABLES
    now,      \* the real clock
    row,      \* digest_deliveries, one row per slot
    deleted,  \* soft-deleted lanes
    default,  \* the default lane, which unscoped invocations resolve to
    mailbox,  \* messages the provider has accepted: [key, for]
    pc,       \* where each run is
    run       \* what each run holds in its local variables

vars == <<now, row, deleted, default, mailbox, pc, run>>

-----------------------------------------------------------------------------
(* Slots, rows, keys                                                       *)

Slot == [kind : {"digest", "heartbeat"}, date : Date, lane : Lane]

digest(d, l)    == [kind |-> "digest", date |-> d, lane |-> l]
heartbeat(d, l) == [kind |-> "heartbeat", date |-> d, lane |-> l]
report(d, l)    == [kind |-> "report", date |-> d, lane |-> l]

NotSent == -1

(* A row of digest_deliveries; status "none" is the absence of the row.    *)
Row == [status : {"none", "sending", "sent", "failed"}, claimedAt : Time,
        attemptCount : Nat, sentAt : Time \cup {NotSent}]

NoRow == [status |-> "none", claimedAt |-> 0, attemptCount |-> 0, sentAt |-> NotSent]

(* The key the provider files a message under.  A scheduled delivery is    *)
(* filed under its slot, the lane's immutable id included; an on-demand    *)
(* report has a name space of its own.                                     *)
BugDefaultUnsuffixed(s) ==
    IF s.lane = default THEN <<s.kind, s.date>> ELSE <<s.kind, s.date, s.lane>>

deliveryKey(s)     == <<s.kind, s.date, s.lane>>
reportKey(spec, d) == <<"report", d, spec>>

(* A message: the key it is filed under and what it really was composed    *)
(* for.  The program only ever sees the key.                               *)
Mail(k, s) == [key |-> k, for |-> s]

Phase == {"idle", "resolve", "claim", "today", "lookup", "compose", "provider",
          "accepted", "reconciled", "delivered", "rejected"}

RunState == [at : Time, lane : Lane, scoped : BOOLEAN, forced : BOOLEAN,
             catchUp : BOOLEAN, slot : Slot, attempt : Nat, replay : BOOLEAN]

(* A run holds a claim from the moment it takes one until it settles it.   *)
Holds(r) ==
    /\ pc[r] \in {"lookup", "compose", "provider", "accepted",
                  "reconciled", "delivered", "rejected"}
    /\ ~run[r].replay

BugShortLease(rw, t) == t - rw.claimedAt < LEASE_MS - 1

leaseIsLive(rw, t) == t - rw.claimedAt < LEASE_MS

(* A slot that still owes a send at instant t.                             *)
BugOnlyFailed(rw, t) == rw.status = "failed"

OwesSend(rw, t) ==
    \/ rw.status = "failed"
    \/ rw.status = "sending" /\ ~leaseIsLive(rw, t)

(* The prior dates of lane l that a run of instant t could catch up.       *)
OrphanedDates(l, t) ==
    {d \in Date : d < hostDate[t] /\ OwesSend(row[digest(d, l)], t)}

(* The oldest of them, if there is one.                                    *)
findOrphanedDigestDate(l, t) ==
    {d \in OrphanedDates(l, t) : \A e \in OrphanedDates(l, t) : d <= e}

(* The rolling week counts sent heartbeats of any lane.                    *)
heartbeatWithinWeek(t) ==
    \E s \in Slot : /\ s.kind = "heartbeat"
                    /\ row[s].status = "sent"
                    /\ t - row[s].sentAt < WEEK_MS

-----------------------------------------------------------------------------
(* The local variables of no run at all.                                   *)
Fresh == [at |-> 0, lane |-> DefaultLane, scoped |-> FALSE, forced |-> FALSE,
          catchUp |-> FALSE, slot |-> digest(hostDate[0], DefaultLane),
          attempt |-> 0, replay |-> FALSE]

Init ==
    /\ now = 0
    /\ row = [s \in Slot |-> NoRow]
    /\ deleted = {}
    /\ default = DefaultLane
    /\ mailbox = {}
    /\ pc = [r \in Run |-> "idle"]
    /\ run = [r \in Run |-> Fresh]

Goto(r, phase) == pc' = [pc EXCEPT ![r] = phase]

EndRun(r) ==
    /\ Goto(r, "idle")
    /\ run' = [run EXCEPT ![r] = Fresh]

(* Done with the slot it worked on: a run that was catching up a prior day *)
(* goes on to today's delivery, any other is over.                         *)
Finish(r) ==
    IF run[r].catchUp THEN Goto(r, "today") /\ UNCHANGED run ELSE EndRun(r)

(* An invocation starts: it freezes its instant and names its lane, or     *)
(* none (unscoped).  A tick also sweeps the providers between freezing the *)
(* instant and invoking the digest, which is time that passes while the    *)
(* run is at "resolve".                                                    *)
Start(r, l, scoped, forced) ==
    /\ pc[r] = "idle"
    /\ l \notin deleted
    /\ ~scoped => l = default
    /\ run' = [run EXCEPT ![r].at = now, ![r].lane = l,
                          ![r].scoped = scoped, ![r].forced = forced]
    /\ Goto(r, "resolve")
    /\ UNCHANGED <<now, row, deleted, default, mailbox>>

(* The lane is read (a deleted one ends the run; unscoped, it is the       *)
(* default of this moment), then the oldest prior date that owes a digest  *)
(* is looked for.                                                          *)
ResolveLane(r) ==
    LET l      == IF run[r].scoped THEN run[r].lane ELSE default
        orphan == findOrphanedDigestDate(l, run[r].at)
    IN  /\ pc[r] = "resolve"
        /\ \/ /\ l \in deleted
              /\ EndRun(r)
           \/ /\ l \notin deleted /\ orphan = {}
              /\ run' = [run EXCEPT ![r].lane = l]
              /\ Goto(r, "today")
           \/ /\ l \notin deleted
              /\ \E d \in orphan :
                    run' = [run EXCEPT ![r].lane = l, ![r].catchUp = TRUE,
                                       ![r].slot = digest(d, l)]
              /\ Goto(r, "claim")
        /\ UNCHANGED <<now, row, deleted, default, mailbox>>

(* Today's delivery: the digest, or asleep the heartbeat, which only the   *)
(* unscoped invocation substitutes.                                        *)
DecideToday(r) ==
    LET today  == hostDate[run[r].at]
        asleep == today \in SleepDates
    IN  /\ pc[r] = "today"
        /\ IF asleep /\ run[r].scoped
           THEN EndRun(r)
           ELSE /\ Goto(r, "claim")
                /\ run' = [run EXCEPT ![r].catchUp = FALSE, ![r].attempt = 0,
                             ![r].slot = IF asleep THEN heartbeat(today, run[r].lane)
                                                   ELSE digest(today, run[r].lane)]
        /\ UNCHANGED <<now, row, deleted, default, mailbox>>

-----------------------------------------------------------------------------
(* claimDelivery: one BEGIN IMMEDIATE transaction with three outcomes      *)

Forced(r) == run[r].forced /\ ~run[r].catchUp

(* Another run's lease is live: decided first, and force cannot reach it.  *)
BugForceTakesLease(r) ==
    LET rw == row[run[r].slot]
    IN  ~Forced(r) /\ rw.status = "sending" /\ leaseIsLive(rw, run[r].at)

ClaimedByAnother(r) ==
    LET rw == row[run[r].slot]
    IN  rw.status = "sending" /\ leaseIsLive(rw, run[r].at)

(* The un-forceable rule: a digest's lane must still exist.                *)
BugForceableLane(r) ==
    ~Forced(r) /\ run[r].slot.kind = "digest" /\ run[r].slot.lane \in deleted

LaneDeleted(r) == run[r].slot.kind = "digest" /\ run[r].slot.lane \in deleted

(* The forceable rules: the heartbeat's rolling week, the slot being sent. *)
BugForceSkipsWeek(r) ==
    ~Forced(r) /\ run[r].slot.kind = "heartbeat" /\ heartbeatWithinWeek(run[r].at)
BugSentIsOpen(r) == FALSE

HeartbeatTooSoon(r) == run[r].slot.kind = "heartbeat" /\ heartbeatWithinWeek(run[r].at)
AlreadySent(r)      == row[run[r].slot].status = "sent"

ClaimRefused(r) ==
    /\ pc[r] = "claim"
    /\ \/ ClaimedByAnother(r)
       \/ LaneDeleted(r)
       \/ ~Forced(r) /\ (HeartbeatTooSoon(r) \/ AlreadySent(r))
    /\ Finish(r)
    /\ UNCHANGED <<now, row, deleted, default, mailbox>>

(* A forced run that only force lets through sends, and holds no claim.    *)
ClaimReplay(r) ==
    /\ pc[r] = "claim"
    /\ ~ClaimedByAnother(r) /\ ~LaneDeleted(r)
    /\ Forced(r) /\ (HeartbeatTooSoon(r) \/ AlreadySent(r))
    /\ run' = [run EXCEPT ![r].replay = TRUE]
    /\ Goto(r, "compose")
    /\ UNCHANGED <<now, row, deleted, default, mailbox>>

(* The claim proper: insert the row, or take over a failed or expired one. *)
(* Only the take-over of an expired claim asks the provider.               *)
BugAttemptRestarts(rw) == 1

NextAttempt(rw) == rw.attemptCount + 1

ClaimSlot(r) ==
    LET s         == run[r].slot
        recovered == row[s].status = "sending"
        attempt   == NextAttempt(row[s])
    IN  /\ pc[r] = "claim"
        /\ ~ClaimedByAnother(r) /\ ~LaneDeleted(r)
        /\ ~HeartbeatTooSoon(r) /\ ~AlreadySent(r)
        /\ attempt <= MaxAttempts
        /\ row' = [row EXCEPT ![s].status = "sending", ![s].claimedAt = run[r].at,
                              ![s].attemptCount = attempt]
        /\ run' = [run EXCEPT ![r].replay = FALSE, ![r].attempt = attempt]
        /\ Goto(r, IF recovered /\ HasLookup THEN "lookup" ELSE "compose")
        /\ UNCHANGED <<now, deleted, default, mailbox>>

-----------------------------------------------------------------------------
(* The provider                                                            *)

(* findAccepted searches by key.  A miss, an error and a timeout are all   *)
(* possible whatever the provider holds, and all mean: send.               *)
LookUp(r) ==
    /\ pc[r] = "lookup"
    /\ \/ /\ \E m \in mailbox : m.key = deliveryKey(run[r].slot)
          /\ Goto(r, "reconciled")
       \/ Goto(r, "compose")
    /\ UNCHANGED <<now, row, deleted, default, mailbox, run>>

(* Freshness is read and the window assembled; then the request leaves.    *)
Send(r) ==
    /\ pc[r] = "compose"
    /\ Goto(r, "provider")
    /\ UNCHANGED <<now, row, deleted, default, mailbox, run>>

ProviderAccepts(r) ==
    /\ pc[r] = "provider"
    /\ mailbox' = mailbox \cup {Mail(deliveryKey(run[r].slot), run[r].slot)}
    /\ Goto(r, "accepted")
    /\ UNCHANGED <<now, row, deleted, default, run>>

(* send() returns the receipt, or throws: the provider rejected the        *)
(* message, or accepted it and the answer was lost.                        *)
SendReturns(r) ==
    /\ pc[r] = "accepted"
    /\ Goto(r, "delivered")
    /\ UNCHANGED <<now, row, deleted, default, mailbox, run>>

SendThrows(r) ==
    /\ pc[r] \in {"provider", "accepted"}
    /\ Goto(r, "rejected")
    /\ UNCHANGED <<now, row, deleted, default, mailbox, run>>

-----------------------------------------------------------------------------
(* Settling: each an update by row id, whatever the row now says.  A       *)
(* replay holds no claim and settles nothing.                              *)

BugReplaySettles(r, status, sentAt) ==
    row' = [row EXCEPT ![run[r].slot].status = status, ![run[r].slot].sentAt = sentAt]

SettleRow(r, status, sentAt) ==
    row' = IF run[r].replay
           THEN row
           ELSE [row EXCEPT ![run[r].slot].status = status,
                            ![run[r].slot].sentAt = sentAt]

settleSent(r) ==
    /\ pc[r] = "delivered"
    /\ SettleRow(r, "sent", run[r].at)
    /\ Finish(r)
    /\ UNCHANGED <<now, deleted, default, mailbox>>

settleFailed(r) ==
    /\ pc[r] = "rejected"
    /\ SettleRow(r, "failed", NotSent)
    /\ Finish(r)
    /\ UNCHANGED <<now, deleted, default, mailbox>>

settleReconciled(r) ==
    /\ pc[r] = "reconciled"
    /\ SettleRow(r, "sent", run[r].at)
    /\ Finish(r)
    /\ UNCHANGED <<now, deleted, default, mailbox>>

-----------------------------------------------------------------------------
(* The surroundings                                                        *)

(* The run ends where it stands; its row is left as it is.                 *)
Crash(r) ==
    /\ pc[r] # "idle"
    /\ EndRun(r)
    /\ UNCHANGED <<now, row, deleted, default, mailbox>>

(* A one-off report of any window: a message, and nothing recorded.        *)
OnDemandReport(l) ==
    /\ l \notin deleted
    /\ Cardinality({m \in mailbox : m.for.kind = "report"}) < MaxReports
    /\ mailbox' = mailbox \cup {Mail(reportKey("7d", hostDate[now]), report(hostDate[now], l))}
    /\ UNCHANGED <<now, row, deleted, default, pc, run>>

(* lists delete: any lane but the default.                                 *)
BugDeletesDefault(l) ==
    /\ l \notin deleted
    /\ deleted' = deleted \cup {l}
    /\ UNCHANGED <<now, row, default, mailbox, pc, run>>

DeleteLane(l) ==
    /\ l \notin deleted /\ l # default
    /\ deleted' = deleted \cup {l}
    /\ UNCHANGED <<now, row, default, mailbox, pc, run>>

(* lists set-default: any live lane may become the default.                *)
SetDefault(l) ==
    /\ l \notin deleted
    /\ default' = l
    /\ UNCHANGED <<now, row, deleted, mailbox, pc, run>>

(* The tick's sweep-up of what deleted lanes left in flight, at the        *)
(* instant the tick froze (some time ago, when its refresh took long).     *)
BugReapsLiveLanes(t) == {s \in Slot : /\ row[s].status = "sending"
                                      /\ row[s].claimedAt <= t - LEASE_MS
                                      /\ s.lane \notin deleted}

DeadLaneClaims(t) == {s \in Slot : /\ row[s].status = "sending"
                                   /\ row[s].claimedAt <= t - LEASE_MS
                                   /\ s.lane \in deleted}

reapDeadLaneClaims(t) ==
    LET dead == DeadLaneClaims(t)
    IN  /\ t <= now /\ dead # {}
        /\ row' = [s \in Slot |-> IF s \in dead
                                  THEN [row[s] EXCEPT !.status = "failed", !.sentAt = NotSent]
                                  ELSE row[s]]
        /\ UNCHANGED <<now, deleted, default, mailbox, pc, run>>

AdvanceClock ==
    /\ now < MaxTime
    /\ now' = now + 1
    /\ UNCHANGED <<row, deleted, default, mailbox, pc, run>>

RunStep(r) ==
    \/ ResolveLane(r)
    \/ DecideToday(r)
    \/ ClaimRefused(r) \/ ClaimReplay(r) \/ ClaimSlot(r)
    \/ LookUp(r) \/ Send(r)
    \/ ProviderAccepts(r) \/ SendReturns(r) \/ SendThrows(r)
    \/ settleSent(r) \/ settleFailed(r) \/ settleReconciled(r)

Next ==
    \/ \E r \in Run, l \in Lane, scoped, forced \in BOOLEAN : Start(r, l, scoped, forced)
    \/ \E r \in Run : RunStep(r)
    \/ \E r \in Run : Crash(r)
    \/ \E l \in Lane : OnDemandReport(l)
    \/ \E l \in Lane : DeleteLane(l)
    \/ \E l \in Lane : SetDefault(l)
    \/ \E t \in Time : reapDeadLaneClaims(t)
    \/ AdvanceClock

Spec == Init /\ [][Next]_vars

(* ADR 0034's premise: a run settles (or dies) before its lease runs out,  *)
(* the lease being counted from the instant the run froze.                 *)
Prompt == \A r \in Run : Holds(r) => now - run[r].at < LEASE_MS

PromptSpec == Init /\ [][Next /\ Prompt']_vars

-----------------------------------------------------------------------------
(* Properties                                                              *)

TypeOK ==
    /\ now \in Time
    /\ row \in [Slot -> Row]
    /\ deleted \subseteq Lane /\ default \in Lane \ deleted
    /\ \A m \in mailbox :
          \/ \E s \in Slot : m = Mail(deliveryKey(s), s)
          \/ \E d \in Date, l \in Lane : m = Mail(reportKey("7d", d), report(d, l))
    /\ pc \in [Run -> Phase]
    /\ run \in [Run -> RunState]

(* A slot reads sent only if the provider accepted a message composed for  *)
(* that very slot: reconciliation, which sees only keys, never settles a   *)
(* slot on the strength of another slot's mail or of a one-off report.     *)
NoSilentSkip ==
    \A s \in Slot :
        row[s].status = "sent" => \E m \in mailbox : m.for = s

(* Settles are not fenced by attempt, and a run that outlived its lease    *)
(* settles all the same.  What that can spoil ends at slots that were      *)
(* taken over: one delivered at its first attempt is never touched again,  *)
(* by no late settle, replay or sweep, however long any run took.          *)
FirstDeliveryIsFinal ==
    [][\A s \in Slot :
          row[s].status = "sent" /\ row[s].attemptCount = 1 => row'[s] = row[s]]_vars

(* No run takes a slot over while the claim on it is younger than the      *)
(* lease on the real clock, although the taker judges the lease by an      *)
(* instant it froze earlier, and whether or not it was forced.             *)
LiveLeaseRespected ==
    [][\A s \in Slot :
          row[s].status = "sending" /\ now - row[s].claimedAt < LEASE_MS
            => row'[s].attemptCount = row[s].attemptCount]_vars

(* A run whose lane was deleted since it resolved it never gets past its   *)
(* claim to the provider, forced or not.                                   *)
NoMailAfterDelete ==
    [][\A r \in Run :
          pc[r] = "claim" /\ run[r].slot.kind = "digest" /\ run[r].slot.lane \in deleted
            => pc'[r] \notin {"lookup", "compose"}]_vars

(* The guarantee of ADR 0034: at most one run at a time holds a claim on a *)
(* slot, hence at most one (replays aside) is at the provider for it.      *)
MutualExclusion ==
    \A p, q \in Run :
        p # q /\ Holds(p) /\ Holds(q) => run[p].slot # run[q].slot

(* The record of a delivered slot is never touched again: not by a replay, *)
(* not by a late failure, not by a reconciliation.                         *)
SentIsFinal ==
    [][\A s \in Slot : row[s].status = "sent" => row'[s] = row[s]]_vars

SentHeartbeats == {s \in Slot : s.kind = "heartbeat" /\ row[s].status = "sent"}

(* Sent heartbeats, of whatever lane, are at least a week apart: the rule  *)
(* that runHeartbeat states, and says is decided under the claim's lock.   *)
HeartbeatSpacing ==
    \A s, t \in SentHeartbeats :
        s # t /\ row[s].sentAt <= row[t].sentAt
          => row[t].sentAt - row[s].sentAt >= WEEK_MS

(* What the lock and the lease do decide between them, for slots that no   *)
(* unique index brings together: two sent heartbeats less than a week      *)
(* apart are of runs that froze within one lease, forced or not, whichever *)
(* date or default lane each found.                                        *)
HeartbeatsApart ==
    \A s, t \in SentHeartbeats :
        s # t /\ row[s].sentAt + LEASE_MS <= row[t].sentAt
          => row[t].sentAt - row[s].sentAt >= WEEK_MS

(* What the rows and the runs promise of each slot, in the vocabulary of   *)
(* ExclusiveDelivery.                                                      *)
Promise == INSTANCE ExclusiveDelivery WITH
    working <- [r \in Run |-> IF Holds(r) THEN {run[r].slot} ELSE {}],
    done    <- {s \in Slot : row[s].status = "sent"}

(* While runs stay within their leases, the rows, leases and frozen clocks *)
(* implement exclusive, final delivery.                                    *)
DeliversExclusively == Promise!Spec
=============================================================================
