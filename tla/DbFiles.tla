------------------------------ MODULE DbFiles ------------------------------
(***************************************************************************)
(* The files under the interlock of DbLock: the live database and its      *)
(* write-ahead log, the snapshots, and what is done to them by startupDb   *)
(* (src/db/startup.ts: snapshot, prune, migrate), db:backup and db:restore *)
(* (src/backup/restore.ts: materialize, validate, safety snapshot,         *)
(* checkpoint, rename, tidy up, prune).                                    *)
(*                                                                         *)
(* An action is what one process does between two points at which another  *)
(* process, a failing call or a kill could matter.  Contents are told      *)
(* apart by the last commit in them and by how many migrations they have.  *)
(***************************************************************************)
EXTENDS DbLock, FiniteSets

CONSTANTS
    Build,                \* how many migrations this build knows
    Offsite,              \* contents of database files kept elsewhere
    KeepLast,             \* how many snapshots retention keeps
    MAX_SEQ_PER_SECOND,   \* sequence numbers within a second
    MaxCommits,           \* bound: commits by the program
    MaxSecond,            \* bound: the last second of the clock
    MaxTrouble            \* bound: crashes and failing calls

VARIABLES
    second,    \* the clock, in seconds
    main,      \* the live path: no file, or the content of its main file
    wal,       \* beside it: no frames, or what they were written over and add up to
    snapshot,  \* the published snapshots by name: what each holds
    commits,   \* how many commits there have been
    job,       \* what each process is doing to the files
    trouble    \* how many crashes and failures there may still be

fileVars == <<second, main, wal, snapshot, commits, job, trouble>>
allVars  == <<vars, fileVars>>

Content == [commit : 0..MaxCommits, schema : 0..Build + 1]
Blank   == [commit |-> 0, schema |-> 0]

(* A main file, or none; frames of a log, or none.                         *)
File == {{}} \cup {{c} : c \in Content}
Log  == {{}} \cup {{[over |-> o, top |-> t]} : o, t \in Content}

ASSUME FilesAssumption ==
    /\ Build \in Nat \ {0} /\ KeepLast \in Nat \ {0} /\ MAX_SEQ_PER_SECOND \in Nat \ {0}
    /\ MaxCommits \in Nat /\ MaxSecond \in Nat /\ MaxTrouble \in Nat
    /\ Offsite \subseteq Content

(* bryce-<second>-<sequence>.db                                            *)
Name == [at : 0..MaxSecond, seq : 0..MAX_SEQ_PER_SECOND - 1]

(* What the published snapshots hold.                                      *)
Stored == {snapshot[n] : n \in DOMAIN snapshot}

FileStep == {"none", "file", "copy", "publish", "list", "prune", "migrate", "ready",
             "choose", "checkpoint", "rename", "tidy", "done"}

(* why: what the snapshot under way is for; copy: what was copied, to be   *)
(* published or installed; was: what a restore found, if anything.         *)
Job == [step : FileStep, why : {"migrate", "backup", "swap"}, at : 0..MaxSecond,
        copy : File, install : File, was : File, old : SUBSET Name]

NoJob == [step |-> "none", why |-> "migrate", at |-> 0, copy |-> {}, install |-> {},
          was |-> {}, old |-> {}]

(* At its ease with the database open.                                     *)
Ready == [NoJob EXCEPT !.step = "ready"]

(* What a connection to the live path reads.                               *)
Live == {w.top : w \in wal} \cup (IF wal = {} THEN main ELSE {})

DbInit ==
    /\ Init
    /\ second = 0
    /\ main \in {{}, {[commit |-> 0, schema |-> 1]}}
    /\ wal = {}
    /\ snapshot = <<>>
    /\ commits = 0
    /\ job = [p \in Pid |-> NoJob]
    /\ trouble = MaxTrouble

At(p, step) == job[p].step = step
Then(p, step) == job' = [job EXCEPT ![p].step = step]

Connected(p) == pc[p] = "open" /\ ~At(p, "file")

-----------------------------------------------------------------------------
(* SQLite                                                                  *)

Write(c) == wal' = {[over |-> CHOOSE m \in main : TRUE, top |-> c]} /\ UNCHANGED main

(* The log is folded into the main file and emptied.                       *)
Fold == main' = Live /\ wal' = {}

(* The last connection to close folds the log.                             *)
Disconnect(p) ==
    IF Connected(p) /\ \A q \in Pid \ {p} : ~Connected(q)
    THEN Fold ELSE UNCHANGED <<main, wal>>

-----------------------------------------------------------------------------
(* Snapshots: createSnapshot and pruneSnapshots                            *)

(* A snapshot begins: its second is read, then the copying awaited.        *)
Copy(p) ==
    /\ At(p, "copy")
    /\ job' = [job EXCEPT ![p].step = "publish", ![p].copy = Live]
    /\ UNCHANGED <<vars, second, main, wal, snapshot, commits, trouble>>

BugNextAfterCount(s) == {[at |-> s, seq |-> Cardinality({n \in DOMAIN snapshot : n.at = s})]}

(* The first name of the second that link() finds free.                    *)
FreeName(s) ==
    LET free == {n \in Name \ DOMAIN snapshot : n.at = s}
    IN  {n \in free : \A o \in free : n.seq <= o.seq}

LinkSnapshot(p) ==
    /\ At(p, "publish")
    /\ \E n \in FreeName(job[p].at), c \in job[p].copy :
          snapshot' = [o \in DOMAIN snapshot \cup {n} |-> IF o = n THEN c ELSE snapshot[o]]
    /\ job' = [job EXCEPT ![p].copy = {},
                 ![p].step = IF job[p].why = "swap" THEN "checkpoint" ELSE "list"]
    /\ UNCHANGED <<vars, second, main, wal, commits, trouble>>

Newer(n, o) == n.at > o.at \/ (n.at = o.at /\ n.seq > o.seq)

BugOldestFirst == {n \in DOMAIN snapshot :
    Cardinality({o \in DOMAIN snapshot : Newer(n, o)}) >= KeepLast}

BeyondKept == {n \in DOMAIN snapshot :
    Cardinality({o \in DOMAIN snapshot : Newer(o, n)}) >= KeepLast}

(* The directory is listed, then the old ones are deleted by name.         *)
ListSnapshots(p) ==
    /\ At(p, "list")
    /\ job' = [job EXCEPT ![p].step = "prune", ![p].old = BeyondKept]
    /\ UNCHANGED <<vars, second, main, wal, snapshot, commits, trouble>>

PruneSnapshots(p) ==
    /\ At(p, "prune")
    /\ snapshot' = [n \in DOMAIN snapshot \ job[p].old |-> snapshot[n]]
    /\ job' = [job EXCEPT ![p] = CASE job[p].why = "migrate" -> [@ EXCEPT !.step = "migrate", !.old = {}]
                                  [] job[p].why = "backup"  -> Ready
                                  [] job[p].why = "swap"    -> [@ EXCEPT !.step = "done", !.old = {}]]
    /\ UNCHANGED <<vars, second, main, wal, commits, trouble>>

-----------------------------------------------------------------------------
(* Openers: startupDb, the program's commits, db:backup, close             *)

Enter(p) ==
    /\ Admitted(p)
    /\ Then(p, "file")
    /\ UNCHANGED <<second, main, wal, snapshot, commits, trouble>>

BugNoneIfBehindByOne(c) == c.schema > 0 /\ c.schema + 1 < Build

(* hasExistingSchema and hasPendingMigrations.                             *)
NeedsSnapshot(c) == c.schema > 0 /\ c.schema < Build

(* openDb creates the file where there is none; then what it holds decides *)
(* whether a snapshot precedes the migration.                              *)
OpenFile(p) ==
    LET found == IF main = {} THEN {Blank} ELSE Live
    IN  /\ At(p, "file")
        /\ main' = IF main = {} THEN {Blank} ELSE main
        /\ job' = [job EXCEPT ![p].why = "migrate", ![p].at = second,
                     ![p].step = IF \E c \in found : NeedsSnapshot(c) THEN "copy" ELSE "migrate"]
        /\ UNCHANGED <<vars, second, wal, snapshot, commits, trouble>>

Migrate(p) ==
    /\ At(p, "migrate")
    /\ \E c \in Live : IF c.schema < Build THEN Write([c EXCEPT !.schema = Build])
                                           ELSE UNCHANGED <<main, wal>>
    /\ job' = [job EXCEPT ![p] = Ready]
    /\ UNCHANGED <<vars, second, snapshot, commits, trouble>>

Commit(p) ==
    /\ pc[p] = "open" /\ At(p, "ready")
    /\ commits < MaxCommits
    /\ commits' = commits + 1
    /\ \E c \in Live : Write([c EXCEPT !.commit = commits + 1])
    /\ UNCHANGED <<vars, second, snapshot, job, trouble>>

Backup(p) ==
    /\ At(p, "ready")
    /\ job' = [job EXCEPT ![p].step = "copy", ![p].why = "backup", ![p].at = second]
    /\ UNCHANGED <<vars, second, main, wal, snapshot, commits, trouble>>

Leave(p) ==
    /\ Close(p)
    /\ Disconnect(p)
    /\ job' = [job EXCEPT ![p] = NoJob]
    /\ UNCHANGED <<second, snapshot, commits>>

CloseFile(p) == At(p, "ready") /\ Leave(p) /\ UNCHANGED trouble

-----------------------------------------------------------------------------
(* Restores: restoreSnapshot, from the lock on                             *)

EnterSwap(p) ==
    /\ Swap(p)
    /\ Then(p, "choose")
    /\ UNCHANGED <<second, main, wal, snapshot, commits, trouble>>

BugNoCompatibility(c) == c.schema > 0

(* validateMaterialized: the expected tables, and a history this build     *)
(* knows in order.                                                         *)
Valid(c) == c.schema \in 1..Build

BugNoSafetySnapshot == FALSE

liveExisted == main # {}

(* The candidate is copied beside the live file and the copy validated.    *)
Materialize(p, c) ==
    /\ At(p, "choose")
    /\ c \in Stored \cup Offsite /\ Valid(c)
    /\ job' = [job EXCEPT ![p].install = {c}, ![p].was = Live, ![p].why = "swap",
                 ![p].at = second, ![p].step = IF liveExisted THEN "copy" ELSE "rename"]
    /\ UNCHANGED <<vars, second, main, wal, snapshot, commits, trouble>>

(* The safety snapshot's connection closes; then wal_checkpoint(TRUNCATE). *)
Checkpoint(p) ==
    /\ At(p, "checkpoint")
    /\ Fold
    /\ Then(p, "rename")
    /\ UNCHANGED <<vars, second, snapshot, commits, trouble>>

Rename(p) ==
    /\ At(p, "rename")
    /\ main' = job[p].install
    /\ Then(p, "tidy")
    /\ UNCHANGED <<vars, second, wal, snapshot, commits, trouble>>

(* The replaced file's sidecars go.                                        *)
Tidy(p) ==
    /\ At(p, "tidy")
    /\ wal' = {}
    /\ Then(p, "list")
    /\ UNCHANGED <<vars, second, main, snapshot, commits, trouble>>

EndSwap(p) ==
    /\ Finish(p)
    /\ job' = [job EXCEPT ![p] = NoJob]
    /\ UNCHANGED <<second, snapshot, commits>>

Restored(p) == At(p, "done") /\ EndSwap(p) /\ UNCHANGED <<main, wal, trouble>>

BugFreshInstallStays(p) == UNCHANGED <<main, wal>>

(* What a failing restore takes back: before the rename nothing but its    *)
(* own copy, after it an install where there was no file.                  *)
RollBack(p) ==
    IF At(p, "tidy") /\ job[p].was = {} THEN main' = {} /\ wal' = {}
                                        ELSE UNCHANGED <<main, wal>>

(* The candidate does not validate, or it is gone.                         *)
Reject(p) ==
    /\ At(p, "choose")
    /\ \E c \in Stored \cup Offsite : ~Valid(c)
    /\ EndSwap(p)
    /\ UNCHANGED <<main, wal, trouble>>

-----------------------------------------------------------------------------
(* Failures: a call throws, the process ends what it was doing             *)

FailOpener(p) ==
    /\ At(p, "file") \/ At(p, "copy") \/ At(p, "publish") \/ At(p, "migrate")
    /\ Leave(p)

FailRestore(p) ==
    /\ \/ At(p, "choose") \/ At(p, "copy") \/ At(p, "publish") \/ At(p, "checkpoint")
       \/ At(p, "rename") \/ At(p, "tidy")
    /\ EndSwap(p)
    /\ RollBack(p)

Fail(p) == /\ trouble > 0 /\ trouble' = trouble - 1
           /\ FailOpener(p) \/ FailRestore(p)

(* The second's names are used up.                                         *)
Exhausted(p) ==
    /\ At(p, "publish") /\ FreeName(job[p].at) = {}
    /\ Leave(p) \/ (EndSwap(p) /\ RollBack(p))
    /\ UNCHANGED trouble

Die(p) ==
    /\ trouble > 0 /\ trouble' = trouble - 1
    /\ Crash(p)
    /\ job' = [job EXCEPT ![p] = NoJob]
    /\ UNCHANGED <<second, main, wal, snapshot, commits>>

DiskFull(p) ==
    /\ trouble > 0 /\ trouble' = trouble - 1
    /\ WriteThrows(p)
    /\ UNCHANGED <<second, main, wal, snapshot, commits, job>>

Tick ==
    /\ second < MaxSecond
    /\ second' = second + 1
    /\ UNCHANGED <<vars, main, wal, snapshot, commits, job, trouble>>

-----------------------------------------------------------------------------
LockStep(p) == \/ Register(p) \/ Refused(p) \/ Publish(p) \/ GiveUp(p)
               \/ Judge(p) \/ Clear(p) \/ Mark(p) \/ List(p)
               \/ (\E q \in Pid : Read(p, q)) \/ Drop(p) \/ Withdraw(p)

FileWork(p) == \/ OpenFile(p) \/ Migrate(p)
               \/ Copy(p) \/ LinkSnapshot(p) \/ ListSnapshots(p) \/ PruneSnapshots(p)
               \/ (\E c \in Stored \cup Offsite : Materialize(p, c))
               \/ Checkpoint(p) \/ Rename(p) \/ Tidy(p)

Crossing(p) == Enter(p) \/ EnterSwap(p) \/ Restored(p) \/ Reject(p) \/ Exhausted(p)

(* What the lock does is serial, as its argument presumes; what is done to *)
(* the files happens whenever it happens.                                  *)
Serially(p) ==
    /\ Undisturbed(p)
    /\ \/ (LockStep(p) \/ Open(p) \/ Restore(p)) /\ UNCHANGED fileVars
       \/ Crossing(p) \/ CloseFile(p) \/ Fail(p) \/ DiskFull(p)

DbNext ==
    \/ \E p \in Pid : \/ Serially(p) \/ FileWork(p) \/ Commit(p) \/ Backup(p) \/ Die(p)
                      \/ ReusePid(p) /\ UNCHANGED fileVars
    \/ Tick

DbSpec == DbInit /\ [][DbNext]_allVars

(* Whoever has begun goes on; a restore is asked for again and again; no   *)
(* one is obliged to open, to write, to back up or to close.               *)
DbLiveSpec ==
    /\ DbSpec
    /\ \A p \in Pid :
          /\ WF_allVars(FileWork(p))
          /\ WF_allVars(Undisturbed(p) /\ ((LockStep(p) /\ UNCHANGED fileVars) \/ Crossing(p)))
          /\ WF_allVars(Undisturbed(p) /\ Restore(p) /\ UNCHANGED fileVars)

-----------------------------------------------------------------------------
FilesTypeOK ==
    /\ TypeOK
    /\ second \in 0..MaxSecond
    /\ main \in File /\ wal \in Log
    /\ DOMAIN snapshot \subseteq Name /\ Stored \subseteq Content
    /\ commits \in 0..MaxCommits
    /\ job \in [Pid -> Job]
    /\ trouble \in 0..MaxTrouble

(* What the live path comes to hold is the main file's own log over the    *)
(* main file, at a schema this build knows; and whoever runs on it finds   *)
(* the schema fully migrated, whichever snapshot was restored before.      *)
LiveIsSound ==
    /\ \A w \in wal : main = {w.over}
    /\ \A c \in Live : c.schema <= Build
    /\ \A p \in Pid : At(p, "ready") => \A c \in Live : c.schema = Build

(* No commit and no database is lost: what readers of the live path would  *)
(* have found, its log included, is added to, or a published snapshot (or  *)
(* the file it came from) still holds it once it is gone.                  *)
Continues(c, d) ==
    \/ d.commit = c.commit /\ d.schema >= c.schema
    \/ d.commit = commits' /\ commits' = commits + 1 /\ d.schema = c.schema

NothingIsLost ==
    [][\A c \in Live : c.schema > 0 =>
          \/ \E d \in Live' : Continues(c, d)
          \/ c \in Stored' \cup Offsite]_allVars

(* A database is migrated only while a snapshot of its old schema, taken   *)
(* no earlier than this process started, is published: neither a failing   *)
(* snapshot nor anybody's retention leaves a migration without a way back. *)
(* Only another snapshot of that very second may have displaced it: names  *)
(* that retention frees within a second are given again, and sort older.   *)
WayBack(p, c) ==
    \E n \in DOMAIN snapshot :
        \/ n.at >= job[p].at /\ snapshot[n].schema = c.schema
        \/ n.at = job[p].at

MigrationIsGuarded ==
    [][\A p \in Pid, c \in Live :
          At(p, "migrate") /\ At(p, "ready")' /\ c.schema \in 1..Build - 1 => WayBack(p, c)]_allVars

(* A published snapshot keeps its content, whoever else takes one in the   *)
(* same second, until retention takes it away; and whoever prunes, on      *)
(* however old a listing, KeepLast others of its second or later stay.     *)
SnapshotsAreKept ==
    [][\A n \in DOMAIN snapshot :
          \/ n \in DOMAIN snapshot' /\ snapshot'[n] = snapshot[n]
          \/ /\ n \notin DOMAIN snapshot'
             /\ Cardinality({o \in DOMAIN snapshot' : o.at >= n.at}) >= KeepLast]_allVars

(* A restore, wherever it fails or is killed, leaves readers what it found *)
(* or what it installs, and nothing else; and one that reports a failure   *)
(* on a fresh host leaves no file there.                                   *)
Swapping(p) == job[p].why = "swap" /\ ~At(p, "none")

RestoreIsWhole ==
    [][\A p \in Pid : Swapping(p) =>
          /\ Live' \in {job[p].was, job[p].install}
          /\ pc'[p] = "idle" /\ p \in alive' /\ ~At(p, "done") /\ job[p].was = {} => Live' = {}]_allVars
=============================================================================
