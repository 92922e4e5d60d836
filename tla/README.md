# Bryce, specified and proved

Bryce refreshes the statistics of a watch list of baseball players from two
providers and mails a daily digest, one per Player List ("lane"). It is one
SQLite database shared by a long-lived server, by short-lived launchd jobs (the
fifteen-minute tick) and by whatever an operator starts by hand; several of
these processes are under way at once as a matter of course. This directory
holds TLA+ specifications of the parts of `src/src` in which that concurrency
can go wrong and of the reports whose arithmetic can, the TLC runs that check
them, and TLAPS proofs of the properties that matter most.

Paths below are relative to `src/src/`.

## 1. Inventory

| component | state | operations | interacts with |
|---|---|---|---|
| delivery claim (`jobs/delivery-claim.ts`) | `digest_deliveries`: one row per (kind, date, list) with status, `claimed_at`, attempt, `sent_at` | claim and re-claim, replay, settle sent / failed / reconciled, orphan search, dead-lane sweep, provider keys | digest job; tick; lists |
| digest job (`jobs/digest.ts`) | a run's frozen clock, its lane, its claim, its receipt | `runDigest`, recovery of an earlier day, heartbeat, reconcile, send, on-demand report | delivery claim, refresh run (freshness banner), mailer |
| mail providers (`mailer/`) | the provider's accepted messages, found again by metadata key | `send`, `findAccepted` | digest job |
| refresh run (`jobs/refresh-run.ts`) | `refresh_runs`: one row per sweep with status, watermark `started_at`, lease `claimed_at`, scope | claim (reaping expired rows), renew, fence, progress, settle, coverage, freshness | sweep, backfill, tick, digest job |
| refresh sweep (`jobs/refresh.ts`) | a sweep's selection, its position, its collected failures; players' stat lines | `runRefresh`, `runRefreshForPlayer` (backfill) | refresh run, providers, lists |
| tick (`jobs/tick.ts`) | none of its own: everything is read from the two tables | refresh stage (due lanes, one scoped sweep), digest stage (dead-lane sweep, one invocation per lane) | both jobs |
| lists (`lists/service.ts`) | lists (soft-deleted), the one default, members, configuration | create, rename, delete, set default, add, remove, batch | claims (deleted lane), sweeps (membership) |
| watch list (`watchlist/service.ts`) | players with `active` and when | add, add again, deactivate, batch, Highlightly binding | sweeps, lists, backfill |
| database lock (`db/lock.ts`) | presence files by pid, one restore marker | open, close, restore lock, registry scan | startup, restore |
| startup (`db/startup.ts`, `db/pending.ts`) | migration journal against migrations on disk | lock, open, snapshot before migration, migrate | lock, snapshots |
| snapshots and restore (`backup/`) | snapshot files, the live main file and its `-wal`/`-shm` | publish by `link`, prune, restore by rename | lock |
| player list backup (`backup/player-list.ts`) | an export file | export, upserting import | watch list, lists |
| tags (`tags/`) | derived and manual tags of a player | derive, retag, select | watch list, lists |
| digest assembly (`digest/`), seasons and windows (`domain/`), statistics (`stats/`) | none | which days and games a digest covers, Offseason Sleep, sums and rates | digest job, reports |
| schema (`db/schema.ts`) | tables, CHECKs, unique indexes | constraints of every write | everything |
| http, mcp, cli, rendering, configuration, provider clients | requests, text | routing, parsing, layout | the services above |

What is hard in this system, and what makes each part correct:

- **Delivery.** Two runs reach one slot; a run dies between the provider's
  acceptance and its settle, or outlives its lease; `send` throws though the
  mail was accepted; the lane is deleted, or the default moves, in between;
  every instant a run uses was frozen when it started. Correct means: at most
  one run per slot at the provider, a sent row is never rewritten, *sent*
  never without a mail, a slot that was once claimed is eventually sent, a
  deleted lane is never mailed and keeps nothing in flight, heartbeats keep
  coming and are a week apart but for runs that overlap.
- **Refresh.** A sweep's lease runs out between a fetch and its write; a
  successor reaps its row; a backfill is admitted before a sweep and writes
  after it; players join while a sweep runs; the clock is set back. Correct
  means: only the newest row is running, an outcome is final, stat lines are
  never overwritten with an older fetch, a digest that calls itself fresh is,
  every row ends and every lane is covered again.
- **Lock, snapshots, restore, startup.** Openers and restores race over files
  that crashes leave behind; a restore dies between any two steps, beside a
  write-ahead log that belongs to the file it replaces; two processes name, and
  two prune, snapshots at once. Correct means: no restore beside an opener, a
  crash never wedges the database, the live path is always wholly old or wholly
  new, nothing committed is lost, no migration without a way back.
- **Lists, watch list, tags, backup.** Checks made by reads outside the write's
  transaction; the partial unique indexes decide; an identity that changes under
  a fetch; tags rewritten after the rows they follow, by whoever comes by; five
  versions of a backup document. Correct means: one human one row, one default,
  live names unique, tags that follow their rows, a professional who stays one,
  a backup that gives back what was backed up.
- **Reports.** A digest is six statements over tables that others write; games
  are folded, grouped and summed in three places by code of their own.
  Boundaries: the first day of a season, the last of the World Series, the game
  window across midnight. Correct means: what a report says of a player is his
  games, and no one in season is left out.

PROJECT.json lists the single hazards at their lines and the properties that
cover them.

## 2. Modules

| module | models |
|---|---|
| `DeliveryClaim` | the delivery claim with the digest job around it, the provider's mailbox, list deletion and default |
| `ExclusiveDelivery` | abstract: what the claim promises of a slot |
| `DeliveryLiveness` | DeliveryClaim under the tick's scheduling: finitely many crashes and failures, fairness |
| `MCDelivery` | instances of DeliveryClaim |
| `DeliveryClaimProofs` | proofs about DeliveryClaim |
| `RefreshRun` | the refresh run with the sweeps and backfills that use it, list membership and activation, coverage and freshness |
| `RefreshSchedule` | RefreshRun under the tick's refresh stage, with fairness |
| `MCRefresh` | instances of RefreshRun |
| `RefreshRunProofs`, `RefreshFenceProofs` | proofs about RefreshRun |
| `DbLock` | the presence files and the restore marker around the live database, with openers, restores, crashes and pids given again |
| `MCDbLock`, `DbLockProofs` | instances of, and proofs about, DbLock |
| `DbFiles` | startup, commits, snapshots, retention and restore on the files, over DbLock's interlock |
| `MCDbFiles`, `DbFilesProofs` | an instance of, and proofs about, DbFiles |
| `Roster` | the watch list's tables with their constraints, the derived tags, the two actors and their crashes |
| `ListCommands`, `WatchCommands`, `PlayerBackup` | the commands of the three services, one action per statement or transaction |
| `RosterSpec`, `MCRoster` | which surface offers which command, the composition, the properties; an instance |
| `BackupProofs`, `RosterProofs` | proofs about the document, its parse and its restore, and about RosterSpec |
| `StatLines` | pure: seasons, windows, levels, innings, folding, sums |
| `Reports` | the dated digest in six reads, the game-count report, the player card, and what others change meanwhile |
| `ReportSpec`, `MCReports` | what the reports owe their reader, stated over games; instances |
| `ReportProofs` | proofs about ReportSpec |

### DeliveryClaim

State: `now` (the real clock), `row` (the table, one row per slot; status
"none" is the absence of the row), `deleted`, `default`, `mailbox` (accepted
messages, each with the provider key it is filed under *and* what it was
composed for, so that a wrong key shows), `pc` and `run` (each run's place and
local variables). A slot's lane for a heartbeat is the default.

One action is one transaction or one stretch between two awaits. A run goes
`Start` (freezes the clock: `run[r].at`), `ResolveLane` (lane and orphan
search), `DecideToday` (asleep: heartbeat; awake: today), then
`ClaimRefused | ClaimReplay | ClaimSlot` (the one `BEGIN IMMEDIATE`
transaction of `claimDelivery`, in its order of branches), `LookUp`
(`reconciled`: only on a re-claim, and only where the provider has a lookup,
which may miss), `Send`, `ProviderAccepts`, `SendReturns | SendThrows`, and one
of the settles. `Crash` may take a run anywhere; a send that was under way may
still have been accepted, or not. Settles are not fenced by attempt, as in the
code. A replay settles nothing. `AdvanceClock` is independent of every run, so
any step may outlast any lease.

Data left out: subjects and bodies, counts, the lookup's time window, the
list's own configuration, error texts. `hostDate` maps instants to the host's
dates and is only assumed monotone.

`PromptSpec` adds `Prompt`: a run ends, or is killed, before its frozen instant
is a lease old. The code does not enforce this; `delivery-claim.ts` presumes it.
Properties stated under `Spec` need no such premise.

### RefreshRun

State: `now`, `runs` (the table, as a sequence in order of insertion), `active`
(since when a player is active, or Never), `joined` (since when he is a member
of a lane, or Never), `data` (the instant of the fetch behind a player's stat
lines, whoever wrote them), and `pc`, `sweep` and `backfill` (places and local
variables). `moves` only bounds the roster's changes. A sweep goes `Begin` (watermark), `Select`, `Skip | Claim` (which
reaps expired rows and inserts its own in one transaction), `Calendars`, then
per player `Renew`, `Fetch`, `Write` (behind the fence, in the transaction
that writes) and `Progress`, then `Settle`; `Fatal` is the boundary an
exception ends at and `Crash` kills the process. A backfill goes `Admit`,
`BackfillFetch`, `BackfillWrite | BackfillStops`. `Covers`,
`latestCoveringRun` and `ReadsFresh` are the queries behind the tick's
dueness and the digest's banner.

Data left out: the counters a row carries, `error_message`, `finished_at`, the
probes made per player, the stat lines themselves. Offseason Sleep is a
nondeterministic `Skip`.

`Spec` lets the clock be set anywhere at any time; `ForwardSpec` never back
(`Work` is every step but the clock's); the two scenes of MCRefresh are
narrower again: a race of sweeps and backfills over a roster at rest, and one
sweep at a time over a roster that moves.

### DbLock

State: `alive` and `reused` (the pids that name a process, and, as history,
those that named another one before), `presence` (`.bryce.lock/<pid>.json`:
none, empty or written), `marker` (`.bryce.restore.lock`: by whom it was
created, and whether it is written), `pc` and `restore` (places, and what a
process holds while it acquires the restore lock). One action is one system
call, which is where another process can get in: an opener goes `Open`,
`Register`, `Admitted | Refused`, `Close`; a restore `Publish`
(create exclusively) `| GiveUp`, `Judge` and `Clear` (the self-heal), `Mark`
(write), `List`, `Read` per entry with `Drop` for a stale one, `Swap | Withdraw`,
`Finish`. `WriteThrows` and `Crash` leave files behind, empty or written;
`ReusePid` starts a new process under a dead one's pid, whose leftovers then
read as alive. What a restore does between
`Swap` and `Finish`, and an opener between `Admitted` and `Close`, is DbFiles.

`Spec` has every interleaving. `SerialSpec` is the premise the protocol's
argument needs: no other process steps while one is in `Window`, between the
creation of a file and its first byte or between a verdict and its unlink; a
crash may still come there. The code does not enforce the premise (section 5).

### DbFiles

State, beside DbLock's: `main` (the live file's content: up to which commit and
at which schema; {} where there is no file), `wal` (its log: what a reader finds
through it, and over which main file it was written), `snapshot` (what each
published one holds, by name), `second` (the clock that names them), `commits`
and `job` (what each process does to the files). `Live` is what a connection
reads: the log's content, or else the main file's; the last connection to close
folds the log.

An opener goes `Enter`, `OpenFile` (creates an absent file; decides on a
snapshot), `Copy`, `LinkSnapshot`, `ListSnapshots`, `PruneSnapshots` where one is
due, `Migrate`, and is then ready: `Commit`, `Backup` (the same four snapshot
steps), `CloseFile`. A restore goes `EnterSwap`, `Materialize` (a candidate is
copied and validated) `| Reject`, the safety snapshot if there was a file
(`Copy`, `LinkSnapshot`), `Checkpoint`, `Rename`, `Tidy` (the stale sidecars),
`ListSnapshots`, `PruneSnapshots`, `Restored`. A call may throw at the steps where one can
(`Fail`), with what the code takes back (`RollBack`); a process may be killed
anywhere (`Die`); a second's names may run out (`Exhausted`). Copying reads one
state, as the SQLite backup does, and is not one action with the link.

DbFiles EXTENDS DbLock: each of its steps is one of the interlock's with work on the
files, or leaves the interlock alone. `DbSpec` takes the interlock's serial
premise over.

Data left out: the rows (a content is its last commit and its schema), integrity
and foreign-key checks, file modes, aliases of the live path, age of snapshots
beyond their second. Contents of files kept elsewhere (`Offsite`) are constants.

### Roster, ListCommands, WatchCommands, PlayerBackup

State: `db` (the tables: players with both source identities, lists,
memberships, derived tags, the manual tag, the kind of a player's latest line),
`job` (per actor, server and command line, where its command is and what it
holds), `file` (the backup written last). `behind`, `budget` and `trouble` are
history or bounds. `PlayersAccepted` and `ListsAccepted` are the tables'
CHECKs and unique indexes, which refuse a write in the code's place.

One action is one statement or one transaction: an add is `findEntry`,
`reactivate | insertPlayer`, `deriveAdded`, then `attachToList`, and a batch
goes through its entries so; a rename is a read, the clash's read, and the write;
a first refresh or a sweep reads the player, awaits the provider, and writes behind
the check of who he is by then; the tags follow in a statement of their own, which
may fail or never be reached. A restore is one transaction over the parsed
document. `RosterSpec` says which commands the server (REST and MCP) and which
the command line offers. Its `Init` is any tables that are `Sound` (typed,
consistent, within their constraints), tagged, with any number of commands and
faults to come; the scenes of MCRoster are such tables. A sweep passes over an
NCAA player who is not attached and `refreshHighlightlyNcaaPlayer` fetches none
without a Highlightly id (`Refreshable`).

`Files` are the documents a restore may be given beside the one written last.
`WellFormed`: of the documented shape, and naming a list once, as every backup
does; a file edited by hand until it names a list twice is outside.

Data left out: names of players, times, recipients beyond set or not, positions.

### StatLines, Reports

`StatLines` has the arithmetic, over records with the keys some formula reads
and one key of each other class; `Reports` the state: `db` (players active, on the
list, their tags and sport, the calendars, the lines), `today`, `job` (a report
under way: what it has read so far), `left` (a bound on changes). The dated
digest goes `assembleDigest`, `readMembers`, `readTags`, `readCalendars`,
`readLines`, `readLeagues`, one statement each; the game-count report is one
statement, the card one transaction. Between any two, `activate`, `enroll`,
`tagPlayer`, `move`, `storeLine`, `storeCalendar` and `Midnight` may change what is
read. ReportSpec is the reference: it counts over a player's games, with the
lines of each, where the code folds lines into lines, groups and sums.

Data left out: the order of rows and columns, rates (quotients of the sums),
names. A row's label is the set of labels its lines would give it, of which
the code takes one. Two sources never share a game id. The card's
year-to-date window is not modelled.

### Composition

DeliveryLiveness and RefreshSchedule each put one stage of the tick above its
job. DeliveryLiveness has the digest stage awake and asleep, over the lanes that
have a `digestHour` (`ScheduledLanes`): awake, a lane is invoked from its hour on while
its digest of today is not sent; asleep, while it owes an earlier day, and one
unscoped invocation carries the heartbeat. A lane without an hour is invoked by
operators alone. The digest job and the refresh run meet in one place only: the digest's
freshness banner reads `refresh_runs`. RefreshRun contains that read (`Reported`,
`ReadsFresh`); DeliveryClaim leaves it out because nothing a delivery decides
depends on the banner.

## 3. Runs

| run | instance | shows |
|---|---|---|
| DeliveryOverrun | 2 runs, 1 lane, clock 0..3 with a second date asleep, lease 2, 3 attempts, 1 report, `Spec` | with runs that outlive their leases, crash and settle late: types; a lease live by the real clock is never taken (LiveLeaseRespected); a slot delivered at its first attempt keeps its record (FirstDeliveryIsFinal) |
| DeliveryPrompt | 2 runs that name no lane, 1 lane, 4 instants of three dates, the first awake and the others asleep, lease 2, week 3, 2 attempts, `UnscopedSpec` | within their leases: at most one run holds a slot (MutualExclusion), *sent* is final (SentIsFinal), heartbeats of one week are of one lease (HeartbeatsApart), and ExclusiveDelivery is implemented (DeliversExclusively) |
| DeliveryLiveness | 1 run at a time, 2 lanes of which one has an hour, days of 2 hours, 2 dates awake and the rest asleep, week 3, 1 crash or throwing send, deletions and a default that moves, `LiveSpec` | a claimed slot of the lane with an hour is eventually sent, or its lane gone (OwedIsDelivered); a deleted lane's claims are settled (DeadLaneSettles) and it is never mailed (NoMailAfterDelete); the host is heard every week (HostIsHeard); *sent* never without its own mail, whichever slot's a lookup finds (NoSilentSkip) |
| RefreshRuns | 2 sweeps, 1 backfill, 2 players, 1 lane, lease 2, 2 rows, `MCSpec`: a race for the one watched player (clock 0..3), and a crowd of two who join and leave, 2 moves, one sweep of any scope at a time (clock 0..2) | types; only the newest row is running (RunningIsNewest); outcomes are final (OutcomeIsFinal); no stat line is overwritten with an older fetch (NoStaleOverwrite); a digest that reads fresh has complete data of everyone active since before the watermark (FreshIsComplete) |
| RefreshSchedule | 1 sweep at a time, 2 lanes of intervals 2 and 3, the former empty, 2 crashes, failures or clocks set back, clock 0..3, `LiveSpec` | the table's CHECK holds (WatermarkBeforeLease), every row ends (NoRunStaysRunning), every lane is covered within its interval again and again, whichever other lane was swept last (LaneIsCovered) |
| DbFiles | 2 processes, 2 seconds of 2 names, 1 commit, 1 snapshot kept, this build's schema 2, files elsewhere of schema 1 and 3, 1 kill or failure, `DbLiveSpec` | the lock: a swap is beside nobody (RestoresAlone), only the living are a reason to refuse (RefusedByTheLiving), a crash never wedges a restore out (AloneGetsIn); the files: see below |
| Roster | 3 or 4 players, 3 list names, 2 to 4 commands, 1 crash or failed tag write in two of five scenes | see below |
| Reports | a batter and a pitcher, years of ten days, 1 or 2 changes during a report; four families of worlds | see below |
| ViolHeartbeatWeek, ViolFreshScope, ViolRestoreAlone, ViolStagedBackfill | DeliveryPrompt's instance (HeartbeatSpacing); a lane-scoped sweep and 2 moves; 3 processes under DbLock's `Spec`; a batch and a sweep | **violated**: see section 5 |

*DbFiles.* LiveIsSound: the log lies over the file it was written for, the
schema is known, and migrated under whoever runs. NothingIsLost: what a reader
would have found goes on, or a published snapshot (or its own source) holds it.
MigrationIsGuarded: a migration has a snapshot to go back to, whoever pruned
meanwhile. SnapshotsAreKept: a published snapshot keeps its content until
retention takes it, which leaves KeepLast of its second or later. RestoreIsWhole:
a restore, wherever it ends, leaves what it found or what it installs, and
nothing on a fresh host it failed on.

*Roster.* SchemaHolds: one human one row, one live list of a name, one live
default. TagsFollowRows: derived tags are those of the row and its latest line,
but for whoever is about to write them or died before it could. RoundTrip: a backup
of any reachable database parses, rebuilds it in an empty one and is idempotent
where it was taken. RestoreIsFaithful: a restore puts back every entry and
keeps what the document does not speak of, or aborts. DefaultIsKept: a default
leaves only by a restore of a document without one. PromotedForGood: no late
NCAA fetch, attachment or restore turns a professional back.

*Reports.* UndisturbedRowsAreTrue: the digest's rows of a player nobody touched are
his games, whatever happened to the others between its reads. EveryoneIsListed: a
player in season is listed, with no games if need be; out of season or of scope
he is not. SeasonIsWhole: every game of the year counts for who stayed at his
sport, if its opening day is known and not after his first line. GameCountAgreesWithCard: the cohort's and the card's last games agree,
which are selected, folded and grouped by two pieces of code.
NeverSleepsInSeason: the pipeline is awake on the days of a watched season,
within what a known World Series date ends.

Bounds. `MaxTime` bounds the clock, `MaxAttempts` the claims on a slot,
`MaxReports` the reports, `MaxRuns` the rows, `MaxMoves` the moves of players,
`MaxCommits` and `MaxSecond` the commits and the seconds, `MAX_SEQ_PER_SECOND`
(1000 in the code) the names of a second, so that a second runs out of them,
`MaxPlayers` and `MaxLists` the rows, `budget.left` the commands, `left` the changes under a report,
and `MaxTrouble` or `trouble` the crashes and failures of the runs that have
fairness or many actors (DeliveryLiveness has one, which the rows show;
DeliveryOverrun, DeliveryPrompt and RefreshRuns crash without limit).

Two contenders are enough for every race here: each property
relates at most two holders, a holder and a row, or a writer and the data it
finds, and the safety theorems of section 4 hold for any number. A lease of
two ticks leaves a claim that is fresh, one that is old but live, and one that
has run out; one tick would lose the middle case, where frozen and real clocks
differ. In DeliveryPrompt the first midnight falls one tick after the start, so
that runs on either side of it are within one lease, and the last instant is a
week after the first: heartbeats too near, near enough, and far enough apart are
all possible. An invocation that names its lane differs there only asleep, where
it ends without a claim. The liveness runs, whose lease is one, ask
nothing of that case. In DbFiles two processes give every leftover a finder, a
snapshot of the same second a rival, and a listing a second one of another age;
KeepLast 1 and two seconds give a snapshot that goes, one that stays and one of
the same second. In Roster the five scenes (lists; adds; fetches; sweeps;
backups) are what the two actors can get between each other's statements with,
and four commands are a restore, a backup and two changes between. In Reports each
family enumerates one thing: Contents the lines (up to three of eight, in every
combination: doubleheaders, fielding without batting, two-way players, resumed games, a
league within a sport, corrected lines), Scopes the cohort, Seasons the
calendars about their dates, Races two changes during one report. The windows
are a day and three days; days of a season, of a year and of the World Series
are about the boundaries the formulas compare with. MaxRuns is 9 in
RefreshSchedule and does not bind. That run has one
sweep at a time, as launchd starts no tick while the last one runs; sweeps that
overlap are in the safety run, and a dead sweep's row refuses its successor
there too. Deadlock is checked in every run but
RefreshSchedule, whose clock and schedule end together with its troubles, and
the Roster runs, whose commands are used up.

Fairness. DeliveryLiveness assumes weak fairness of each run's own steps (an
awaited call answers or throws: the clients have timeouts), of the clock and of
the tick's sweep, and strong fairness of the tick's invocation of each live
lane *that has an hour* and of its heartbeat: launchd starts a tick every fifteen
minutes for ever, so such a lane that keeps owing a digest keeps being invoked, even
if at some instants another run is in the way. `tick.ts:389` and `:399` pass over the
other lanes, so nothing comes back to them; OwedIsDelivered does not speak of them. RefreshSchedule assumes weak fairness of a sweep's steps, of the
clock, and of the refresh stage. Nothing is assumed of operators, of list
commands, or that crashes happen. The last instant of the clock stands for all
later ones; crashes stop a lease before it, so that the bound on the clock does
not end a lease's life early. In DbFiles whoever has begun to open, to migrate, to
take a snapshot or to restore goes on, and a restore is asked for again; the
disk's failures are bounded; nobody is obliged to open, to write or to close.
Roster and Reports ask nothing that needs fairness.

Mutants. Every property of every passing run has a mutant in its module
(`Bug...`): a definition of the code changed as a plausible mistake would change
it, which makes the run fail on that property.

## 4. Proofs

For every number of runs, lanes, sweeps, backfills, players and processes, every
clock bound, lease, calendar, build and number of snapshots kept, and for any
persons, names, hours and recipients, tables and documents of any size, any
number of commands by the two actors, and reports over any lines, calendars and
windows with any number of changes between their statements (assumptions:
`ConstantAssumption`, `RosterAssumption`, `FilesAssumption`, or those of StatLines
and Reports: a season lies in its year, a game id is of one source and one kind,
what a line counts is a natural number, the unique indexes of lines and calendars
hold; TLC evaluates them on the instances):

| theorem | statement |
|---|---|
| `DeliveryClaimProofs!TypeCorrect` | `Spec => []TypeOK` |
| `FirstDeliveriesStay` | `Spec => FirstDeliveryIsFinal` |
| `LiveLeaseHonoured` | `Spec => LiveLeaseRespected` |
| `NothingSkipped` | `Spec => []NoSilentSkip` |
| `ExclusiveDeliveries` | `PromptSpec => []MutualExclusion` |
| `SentForGood` | `PromptSpec => SentIsFinal` |
| `DeletedStaysUnmailed` | `Spec => NoMailAfterDelete` |
| `HeartbeatsStayApart` | `PromptSpec => []HeartbeatsApart` |
| `KeepsPromise` | `PromptSpec => DeliversExclusively` |
| `RefreshRunProofs!TypeCorrect` | `Spec => []TypeOK` |
| `NewestRuns` | `Spec => []RunningIsNewest` |
| `WatermarksPrecede` | `Spec => []WatermarkBeforeLease` |
| `OutcomesAreFinal` | `Spec => OutcomeIsFinal` |
| `RefreshFenceProofs!NoStale` | `OneBackfill` assumed: `ForwardSpec => NoStaleOverwrite` |
| `FreshDigestsAreComplete` | `ForwardSpec => []FreshIsComplete` |
| `DbLockProofs!TypeCorrect` | `Spec => []TypeOK` |
| `OnlyTheLivingRefuse` | `Spec => []RefusedByTheLiving` |
| `RestoreIsAlone` | `SerialSpec => []RestoresAlone` |
| `DbFilesProofs!ImplementsLock` | `DbSpec => SerialSpec` |
| `SwapsAlone`, `OnlyLivingRefuse` | `DbSpec => []RestoresAlone`, `DbSpec => []RefusedByTheLiving` |
| `FilesTypeCorrect`, `FilesInvariant` | `DbSpec => []FilesTypeOK`, `DbSpec => []FilesInv` |
| `LiveStaysSound` | `DbSpec => []LiveIsSound` |
| `NothingGoesMissing` | `DbSpec => NothingIsLost` |
| `RestoresAreWhole` | `DbSpec => RestoreIsWhole` |
| `DbFilesProofs!SnapshotsStayKept` | `DbSpec => SnapshotsAreKept` |
| `MigrationsAreGuarded` | `DbSpec => MigrationIsGuarded` |
| `RosterProofs!RosterInvariant`, `RosterTypeCorrect` | `Spec => []RosterInv`, `Spec => []TypeOK` |
| `SchemaAlwaysHolds` | `Spec => []SchemaHolds` |
| `TagsAlwaysFollow` | `Spec => []TagsFollowRows` |
| `BackupsReturn` | `Spec => []RoundTrip` |
| `RestoresAreFaithful` | `Spec => RestoreIsFaithful` |
| `DefaultKept` | `Spec => DefaultIsKept` |
| `PromotionIsForGood` | `Spec => PromotedForGood` |
| `ReportProofs!ReportInvariant` | `Spec => []ReportInv` |
| `EveryoneStaysListed` | `Spec => []EveryoneIsListed` |
| `CountsAgree` | `Spec => []GameCountAgreesWithCard` |
| `NeverSleeps` | `Spec => []NeverSleepsInSeason` |
| `UndisturbedStaysTrue` | `Spec => []UndisturbedRowsAreTrue` |
| `SeasonsStayWhole` | `Spec => []SeasonIsWhole` |

Arguments. *First deliveries*: a claim takes the row's count plus one, so an invariant
that bounds what every holder carries by the count, and keeps the carried
numbers apart (`AttemptsDistinct`), is inductive. Whoever settles a slot's first attempt is then the
only one to hold a claim on it (`NobodyLeft`), and only a holder could rewrite it. *No silent skip*: a slot turns to sent only in
`settleSent`, reached with a receipt, or in `settleReconciled`, reached with a
lookup that found the slot's key; the invariant (`Vouched`) says that a run at
those points has its message in the mailbox, and `KeyNamesSlot` that a key
belongs to one slot, because no key depends on the movable default. *Exclusion*: the invariant is
`Prompt /\ HolderOwnsRow /\ MutualExclusion`: whoever holds a slot holds its
row, still *sending*, claimed at the holder's frozen instant; a taker needs an expired lease, and no prompt holder has one.
The refinement maps `working[r]` to the slot r holds and `done` to the rows
that read *sent*. *Heartbeats* (`HoldersClear`): whoever holds a
heartbeat's claim froze its instant less than a lease from every heartbeat sent, or a
week and more after it (or before): the ones sent when it claimed, by the rule under the lock; one
settled meanwhile, because both runs held their claims at that moment and neither was a
lease old. So the settlement keeps `SentClear`; HeartbeatsApart alone says nothing of a
claim in flight.

*Refresh runs* (`RunInv`): every row but the last is settled, since a claim
reaps the expired and is refused by the live; a sweep's row number is one that
exists and no other sweep's.
*No stale overwrite* (`FenceInv`): while a sweep's row is still running and its
lease is live, whatever was written since its claim was written by itself or
by a backfill that the same row would have fenced off, so the data is no newer
than what it has fetched (`SweepFenced`); a backfill that still passes its
fence has seen no run begin since its admission (`BackfillFenced`). Two
backfills of one player are not fenced from each other by the code, hence the
assumption `OneBackfill`. `NoStaleOverwrite` alone is not inductive: it says
nothing of a fetch that waits to be written.
*Fresh is complete* (`FreshInv`): a run is to answer for whoever is active, and
enrolled, since before its watermark (`Due`; nobody comes to be due later, as an
activation or enrolment is of now). Between selection and settlement, a sweep
that has met no failure still has each of them to do or knows him
(`SweepKnows`), so that a run that ends *ok* knows them all (`RunKnows`), and
keeps knowing them because whatever passes a fence was fetched after every run
there is began. Unlike NoStaleOverwrite this needs no `OneBackfill`: of two
backfills the older may win, but neither is older than a run they were admitted
after. The strongest claim exists because the covering runs are finitely many.

*Living refusers* (`LivingInv`): a written marker, or entry, whose owner is
alive under its first life is held by a process past writing it.
*Restore alone* (`SerialInv`): at most one process is in a window; an opener's
entry and a restore's marker are on disk as long as their owners count on them
(`Registered`, `Marked`); what is judged stale is nobody's (`NobodysMarker`,
`NobodysEntry`); and whoever was admitted before a scan began is in what the
scan has still to read, or was noticed (`Noticed`). RestoresAlone alone says
nothing of a scan that is under way.

*The files* (`FilesInv`): DbFiles's steps are DbLock's or leave it alone, so that
`SerialInv` carries over (`ImplementsLock`). To it come `PlacedAt` (what a
process does to the files is what its place in the interlock lets it do),
`Framed` (log frames lie over the main file), `ConnectedAt` (whoever is
connected has a file, migrated once it is ready or backs up) and `SwapAt` (how far
a restore has come tells what the live path holds, and that what it found is
published before the rename, and what it installs kept until after it). A step
of one process beside a restore is no step on the files, because the restore is
alone: that is where the composition with the lock is used. None of its three
properties is inductive alone: NothingIsLost needs, at the rename, that the safety
snapshot was of what the live path holds *now*.
*Retention* (`Retained`): what a listing calls old has `KeepLast` newer ones, and
keeps them while others prune on older listings, since of the pruned ones above it
the newest has `KeepLast` newer that stay. *A way back* (`GuardedAt`): from a
process's decision to snapshot until its migration, a database still of an old
schema has, in every snapshot of a later second, and in the one about to be
published, its own schema; no name is of a second to come (`Clocked`). Then
retention may take the process's own snapshot only for newer ones that serve.

*The roster* (`RosterInv`) has four parts. The tables are sound (`TablesInv`). A
command's job holds what its next step needs, and the rows and lists it has read
are still there (`JobsInv`): each step writes on earlier reads, so that
SchemaHolds alone is not inductive. The file written last is one a restore may
read (`DiskInv`). And whoever is wrongly tagged is owed a deriving by a job that
will do it, or by one that crashed (`TagsInv`; what a job owes by `Owes` is less
than what TagsFollowRows allows it). No row is ever deleted, and a professional
keeps his id and his lines' kind: so each step takes the tables to `Later` ones,
through which all that is remembered carries over (`RemembersLater`), and
PromotedForGood is part of it. Every action is shown `Safely`: the invariant,
`Later`, and the default kept.
*Restores* (BackupProofs): a document that parses and resolves gives each entry
one row and each row touched one entry (`EntriesLand`), in tables that are again
sound; its lists then merge or are created (`Restoration`), and from that follows
`Faithful`. *Round trip*: what `Export` writes parses, as sound tables have one
row for an identity and one live list for a name; each entry finds its own row
again, or none in an empty database (`BackAgain`). The attempt found the model to
lack a guard of the code, the missing Highlightly id of `refresh.ts:1119`.

*Reports* (`ReportInv`). A digest reads six times and its promises are about the
end, so the invariant says at each statement what the earlier ones have read of
a player nobody touched: after the first, whether he is active, after the second,
enrolled, then in scope (`PlayersRead`); from the fourth on, that the window is that of
calendars and date while neither moved (`WindowRead`, `SeasonRead`); from the
fifth on, that his lines are the window's and that he is idle just if he has none and
is in season on its last day (`LinesRead`). What others do is one lemma each,
`Elsewhere`: a step that leaves whatever is of other players alone. EveryoneIsListed then
follows: a line that makes a game of a player's makes a row.
*Game counts*: the two codes rank differently, one by counting over the whole
cohort the games whose last line is later, one by a scan of one player's lines
that stops at the limit. Both keep a game just if fewer than `GameLimit` of the
player's own come after its last line (`RankedIsOwn`, `ScanIsRanking`), since the
order on lines is total where ids differ; and the two foldings of fielding into
batting agree on one player's lines (`CardBattingIs`). *Sleep*: opening day and
the end of a watched season lie in its year, so the day is neither before the
earliest opening nor after the latest end. Minima and maxima of finite sets exist
by an induction over sets (`SetInduction`).
*Sums*: UndisturbedRowsAreTrue speaks of games, told from all their lines, the code of
lines, folded and grouped. A line made of a player's and its game are one to one
(`MadeIsGame`, `GameIsMade`: a line that counts is the one its game is counted by,
`SourceIsMain`), a line counts what its game does for every key (`CountedIs`), and
so do a row's lines and their games: the library's sum is the same along a bijection
(`SumAlong`, from `SumIsTotal`: any element may be taken out first, although the sum is defined
by taking a fixed one), and so are cardinalities (`SameCountOf`). A row's lines
are those of games that are alike (`BucketIsAlike`). For SeasonIsWhole the window begins in the
year and no later than the player's own opening (`SeasonFrom`), so that it has all
his lines of the year, and lines of one sport make one row (`OneRow`).

Only model-checked: every liveness property (fairness and ENABLED are out of
the prover's reach). Every invariant and action property of the passing runs is
stated by a theorem.

## 5. Where code and comments disagree

- **A fresh banner over an unfetched player** (ViolFreshScope).
  `refresh-run.ts:587` says a scoped run's coverage expires when the lane's
  active membership grows; the query looks at enrolment only, and a member who
  is activated again has an old enrolment.
- **A restore may run beside an opener** (ViolRestoreAlone). `lock.ts:33`
  argues that at least one side always observes the conflict. A marker is
  created and then written, and in between it reads as ownerless, hence stale:
  a second restore unlinks the first one's marker, the first goes on, and a
  third process opens. Under `SerialSpec` the claim is proved.
- **Two heartbeats in one week** (ViolHeartbeatWeek). `digest.ts:548` says a heartbeat
  is sent only if none was in the last seven days, and that the rule is evaluated inside the claim's
  transaction because runs on different days would not meet on the unique index;
  `delivery-claim.ts:113` and ADR 0034 say the same. The rule counts *sent* rows
  (`digest.ts:730`), and a run in flight has none yet: two that froze on
  either side of midnight both send. HeartbeatsApart, checked and proved under
  `PromptSpec`, is what remains: they are less than a lease apart.
- **A staged player is never backfilled** (ViolStagedBackfill).
  `watchlist/service.ts:475` says a batch stages identities and defers the season
  backfill to the next refresh. The sweep passes over every NCAA player without
  a legacy id (`refresh.ts:1079`), which every player added since has not.

The model-checker also showed what no comment rules out, and the properties above
leave room for: the season to date starts at the earliest opening of the sports
players are at *now* (`assemble.ts:391`), so that one who moved, or whose sport
has no calendar, may lose earlier games; the digest groups by sport
(`assemble.ts:317`), so that Dominican and complex league games add up in one row
whose label depends on the order of lines; a player deactivated between the reads of the cohort and the join appears
with no games (`assemble.ts:197`); one with lines of the other side only appears
not at all (`assemble.ts:222`); on the first of January the digest's season to
date is the new year's and the card's the old one's (`assemble.ts:391`,
`player-card.ts:206`).

One limit is a premise here and no disagreement in the runs. A lease counts
from the instant the run froze, and nothing stops a run whose lease has run
out: MutualExclusion, SentIsFinal, HeartbeatsApart and DeliversExclusively hold under
`PromptSpec` and not under `Spec`. A run that settles late may turn a slot its
successor delivered from *sent* to *failed*, which is then delivered again; under
`Spec` that much is confined to slots taken over (FirstDeliveryIsFinal), and no
such slot reads *sent* without a mail (NothingSkipped).

Two hazards the code leaves open, and no property here rules out. A lane without a
`digestHour` is invoked by operators alone: what such a run left failed or in flight waits
for the next operator (of the default lane, asleep, for the weekly heartbeat, whose
run recovers a day of that lane first). And an export reads the tables in four
statements (`player-list.ts:406`), between which another process may write: a
backup torn so may name members whose list or player it does not have, is refused by a
restore into a database that lacks them too, and there is not "re-importable", as
`player-list.ts:399` has it. RestoreIsFaithful says that it is
refused whole; RoundTrip is of the export of one state.

## 6. Not modelled

Provider clients, HTTP, MCP, CLI, rendering, configuration and the progress
stream are parsing and layout over the services modelled here, without state of
their own. Migrations are SQL that a library applies. Of modelled parts: which
probes a sweep makes per player and the upsert of single stat lines (a player's
lines are one fetch in RefreshRun), the counters of a refresh row, Postmark's
classification of answers, the card's year-to-date
window and `queryStatLines` (single reads), the rates computed from the sums, and a
process that touches the database outside the interlock (a replicator).

## 7. Plan

1. `TickDigest` (`jobs/tick.ts`): the digest stage over a frozen instant,
   lanes one after another; composed with DeliveryClaim
   and with RefreshSchedule into a whole tick.
2. The upsert of single stat lines beneath RefreshRun's fetches, composed with
   Reports, which then reads what a sweep has half written.
3. Proofs: that what a sweep leaves half written (2) is still undisturbed for
   the players it has not reached, from `ReportInv` and `RefreshRunProofs`.
