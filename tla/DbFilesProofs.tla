---------------------------- MODULE DbFilesProofs ----------------------------
(***************************************************************************)
(* Proofs about DbFiles: the work on the files keeps to the interlock, so  *)
(* what DbLockProofs shows of it holds here; and, since a restore is       *)
(* alone, the live file stays sound, nothing a reader could have found is  *)
(* lost, and a restore leaves what it found or what it installs.  Whoever  *)
(* prunes, on however old a listing, retention leaves the newest           *)
(* snapshots, and a migration never goes ahead without one to go back to.  *)
(***************************************************************************)
EXTENDS DbFiles, DbLockProofs, FiniteSetTheorems, WellFoundedInduction

-----------------------------------------------------------------------------
(* The interlock                                                           *)

LEMMA LeavingCloses == ASSUME NEW p \in Pid, Leave(p) PROVE Close(p)
BY DEF Leave

LEMMA EndingFinishes == ASSUME NEW p \in Pid, EndSwap(p) PROVE Finish(p)
BY DEF EndSwap

(* Every step is one of the interlock's, or leaves the interlock alone.    *)
LEMMA KeepsToTheLock == [DbNext]_allVars => [SerialNext]_vars
<1> SUFFICES ASSUME [DbNext]_allVars PROVE [SerialNext]_vars
  OBVIOUS
<1>1. CASE UNCHANGED allVars
  BY <1>1 DEF allVars
<1>2. ASSUME NEW p \in Pid, Serially(p) PROVE SerialNext
  <2>1. Step(p)
    <3>1. CASE LockStep(p) \/ Open(p) \/ Restore(p)
      BY <3>1 DEF LockStep, Step, OpenStep, RestoreStep
    <3>2. CASE Crossing(p)
      BY <3>2, LeavingCloses, EndingFinishes
         DEF Crossing, Enter, EnterSwap, Restored, Reject, Exhausted, Step, OpenStep, RestoreStep
    <3>3. CASE CloseFile(p) \/ Fail(p)
      BY <3>3, LeavingCloses, EndingFinishes
         DEF CloseFile, Fail, FailOpener, FailRestore, Step, RestoreStep
    <3>4. CASE DiskFull(p)
      BY <3>4 DEF DiskFull, Step
    <3> QED BY <1>2, <3>1, <3>2, <3>3, <3>4 DEF Serially
  <2> QED BY <1>2, <2>1 DEF Serially, SerialNext
<1>3. ASSUME NEW p \in Pid, FileWork(p) \/ Commit(p) \/ Backup(p) PROVE UNCHANGED vars
  BY <1>3 DEF FileWork, OpenFile, Migrate, Copy, LinkSnapshot, ListSnapshots, PruneSnapshots,
              Materialize, Checkpoint, Rename, Tidy, Commit, Backup
<1>4. ASSUME NEW p \in Pid, Die(p) \/ ReusePid(p) PROVE SerialNext
  BY <1>4 DEF Die, SerialNext
<1>5. CASE Tick
  BY <1>5 DEF Tick
<1> QED BY <1>1, <1>2, <1>3, <1>4, <1>5 DEF DbNext

LEMMA LockedInit == DbInit => SerialInv
<1> SUFFICES ASSUME DbInit PROVE SerialInv
  OBVIOUS
<1>1. Init /\ \A p \in Pid : pc[p] = "idle"
  BY DEF DbInit, Init
<1>2. OneInWindow /\ Registered /\ Marked /\ NobodysMarker /\ NobodysEntry /\ Noticed
  BY <1>1 DEF OneInWindow, Window, Registered, Marked, Holding, NobodysMarker, NobodysEntry, Noticed
<1> QED BY <1>1, <1>2, TypeInit DEF SerialInv

LEMMA Alone == SerialInv => RestoresAlone
BY DEF SerialInv, TypeOK, RestoresAlone, Marked, Holding, Noticed

(* Whatever is done to the files, and wherever it fails, the processes keep *)
(* to the interlock.                                                       *)
THEOREM ImplementsLock == DbSpec => SerialSpec
<1>1. DbInit => Init
  BY DEF DbInit
<1> QED BY <1>1, KeepsToTheLock, PTL DEF DbSpec, SerialSpec

(* A restore swaps beside no opener and no other restore, and no one is    *)
(* refused on account of the dead, whatever fails around them.             *)
THEOREM SwapsAlone == DbSpec => []RestoresAlone
BY ImplementsLock, RestoreIsAlone, PTL

THEOREM OnlyLivingRefuse == DbSpec => []RefusedByTheLiving
<1>1. SerialNext => Next
  BY DEF SerialNext, Next
<1>2. SerialSpec => Spec
  BY <1>1, PTL DEF SerialSpec, Spec
<1> QED BY <1>2, ImplementsLock, OnlyTheLivingRefuse, PTL

-----------------------------------------------------------------------------
(* Types                                                                   *)

(* What a step does to the job of its process is all it does to jobs.      *)
LEMMA OneJob ==
    ASSUME job \in [Pid -> Job], NEW p \in Pid, NEW r \in Job, job' = [job EXCEPT ![p] = r]
    PROVE  job' \in [Pid -> Job] /\ job'[p] = r /\ \A q \in Pid \ {p} : job'[q] = job[q]
OBVIOUS

LEMMA JobNames ==
    /\ NoJob \in Job /\ NoJob.step = "none" /\ NoJob.why = "migrate"
    /\ Ready \in Job /\ Ready.step = "ready" /\ Ready.why = "migrate"
<1>1. {} \in File
  BY DEF File
<1> QED BY <1>1, FilesAssumption DEF NoJob, Ready, Job, FileStep

LEMMA ContentNames ==
    /\ Blank \in Content
    /\ [commit |-> 0, schema |-> 1] \in Content
    /\ \A c \in Content : /\ c.schema \in Nat /\ c.commit \in Nat
                          /\ [c EXCEPT !.schema = Build] \in Content
                          /\ [c EXCEPT !.schema = Build].schema = Build
                          /\ [c EXCEPT !.schema = Build].commit = c.commit
                          /\ \A n \in 0..MaxCommits :
                                /\ [c EXCEPT !.commit = n] \in Content
                                /\ [c EXCEPT !.commit = n].schema = c.schema
                                /\ [c EXCEPT !.commit = n].commit = n
BY FilesAssumption DEF Content, Blank

(* The live path reads one content at most.                                *)
LEMMA OneLive ==
    ASSUME FilesTypeOK
    PROVE  /\ Live \in File /\ Live \subseteq Content /\ \A c, d \in Live : c = d
           /\ main \subseteq Content /\ \A c, d \in main : c = d
           /\ wal = {} => Live = main
           /\ \A w \in wal : w.over \in Content /\ w.top \in Content /\ Live = {w.top}
BY DEF FilesTypeOK, File, Log, Live

LEMMA Written ==
    ASSUME FilesTypeOK, NEW c \in Content, Write(c), main # {}
    PROVE  /\ Live' = {c} /\ main' = main
           /\ wal' \in Log
           /\ \A w \in wal' : main = {w.over}
<1>1. PICK m \in Content : main = {m}
  BY DEF FilesTypeOK, File
<1>2. wal' = {[over |-> m, top |-> c]} /\ main' = main
  BY <1>1 DEF Write
<1> QED BY <1>1, <1>2 DEF Live, Log

LEMMA Folded ==
    ASSUME FilesTypeOK, Fold
    PROVE  Live' = Live /\ wal' = {} /\ main' = Live /\ main' \in File /\ wal' \in Log
BY DEF Fold, Live, FilesTypeOK, File, Log

(* What each step of the file work does to its job.                        *)
Moves(p, step, why) ==
    /\ job' \in [Pid -> Job] /\ \A q \in Pid \ {p} : job'[q] = job[q]
    /\ job'[p].step = step /\ job'[p].why = why
    /\ job'[p].install = job[p].install /\ job'[p].was = job[p].was

LEMMA StepMoves ==
    ASSUME FilesTypeOK, NEW p \in Pid, NEW step \in FileStep, Then(p, step)
    PROVE  Moves(p, step, job[p].why)
<1>1. job \in [Pid -> Job] /\ job[p] \in Job
  BY DEF FilesTypeOK
<1> QED BY <1>1 DEF Moves, Then, Job

LEMMA CopyMoves ==
    ASSUME FilesTypeOK, NEW p \in Pid, Copy(p)
    PROVE  Moves(p, "publish", job[p].why) /\ job'[p].copy = Live
<1>1. job \in [Pid -> Job] /\ job[p] \in Job /\ Live \in File
  BY OneLive DEF FilesTypeOK
<1>2. job' = [job EXCEPT ![p].step = "publish", ![p].copy = Live]
  BY DEF Copy
<1> QED BY <1>1, <1>2 DEF Moves, Job, FileStep

LEMMA LinkMoves ==
    ASSUME FilesTypeOK, NEW p \in Pid, LinkSnapshot(p)
    PROVE  Moves(p, IF job[p].why = "swap" THEN "checkpoint" ELSE "list", job[p].why)
<1>1. job \in [Pid -> Job] /\ job[p] \in Job
  BY DEF FilesTypeOK
<1>2. PICK s \in FileStep : s = IF job[p].why = "swap" THEN "checkpoint" ELSE "list"
  BY DEF FileStep
<1>3. job' = [job EXCEPT ![p].copy = {}, ![p].step = s]
  BY <1>2 DEF LinkSnapshot
<1>4. job'[p] = [job[p] EXCEPT !.copy = {}, !.step = s] /\ {} \in File
  BY <1>1, <1>3 DEF File
<1>5. \A q \in Pid \ {p} : job'[q] = job[q]
  BY <1>1, <1>3
<1> QED BY <1>1, <1>2, <1>3, <1>4, <1>5 DEF Moves, Job

LEMMA ListMoves ==
    ASSUME FilesTypeOK, NEW p \in Pid, ListSnapshots(p)
    PROVE  Moves(p, "prune", job[p].why)
<1>1. job \in [Pid -> Job] /\ job[p] \in Job /\ BeyondKept \subseteq Name
  BY DEF FilesTypeOK, BeyondKept
<1>2. job' = [job EXCEPT ![p].step = "prune", ![p].old = BeyondKept]
  BY DEF ListSnapshots
<1> QED BY <1>1, <1>2 DEF Moves, Job, FileStep

LEMMA PruneMoves ==
    ASSUME FilesTypeOK, NEW p \in Pid, PruneSnapshots(p)
    PROVE  /\ job[p].why = "swap" => Moves(p, "done", "swap")
           /\ job[p].why # "swap" =>
                 /\ job' \in [Pid -> Job] /\ \A q \in Pid \ {p} : job'[q] = job[q]
                 /\ job'[p].step \in {"migrate", "ready"} /\ job'[p].why = "migrate"
                 /\ job'[p].step = "ready" => job[p].why = "backup"
<1>1. job \in [Pid -> Job] /\ job[p] \in Job
  BY DEF FilesTypeOK
<1> QED BY <1>1, JobNames DEF PruneSnapshots, Moves, Job, FileStep

LEMMA OpenFileMoves ==
    ASSUME FilesTypeOK, NEW p \in Pid, OpenFile(p)
    PROVE  /\ job' \in [Pid -> Job] /\ \A q \in Pid \ {p} : job'[q] = job[q]
           /\ job'[p].step \in {"copy", "migrate"} /\ job'[p].why = "migrate"
<1>1. job \in [Pid -> Job] /\ job[p] \in Job /\ second \in 0..MaxSecond
  BY DEF FilesTypeOK
<1>2. PICK s \in {"copy", "migrate"} :
         job' = [job EXCEPT ![p].why = "migrate", ![p].at = second, ![p].step = s]
  BY DEF OpenFile
<1>3. job'[p] = [job[p] EXCEPT !.why = "migrate", !.at = second, !.step = s]
  BY <1>1, <1>2
<1>4. \A q \in Pid \ {p} : job'[q] = job[q]
  BY <1>1, <1>2
<1> QED BY <1>1, <1>2, <1>3, <1>4 DEF Job, FileStep

LEMMA BackupMoves ==
    ASSUME FilesTypeOK, NEW p \in Pid, Backup(p)
    PROVE  Moves(p, "copy", "backup")
<1>1. job \in [Pid -> Job] /\ job[p] \in Job /\ second \in 0..MaxSecond
  BY DEF FilesTypeOK
<1>2. job' = [job EXCEPT ![p].step = "copy", ![p].why = "backup", ![p].at = second]
  BY DEF Backup
<1>3. job'[p] = [job[p] EXCEPT !.step = "copy", !.why = "backup", !.at = second]
  BY <1>1, <1>2
<1>4. \A q \in Pid \ {p} : job'[q] = job[q]
  BY <1>1, <1>2
<1> QED BY <1>1, <1>2, <1>3, <1>4 DEF Moves, Job, FileStep

LEMMA MaterializeMoves ==
    ASSUME FilesTypeOK, NEW p \in Pid, NEW c, Materialize(p, c)
    PROVE  /\ job' \in [Pid -> Job] /\ \A q \in Pid \ {p} : job'[q] = job[q]
           /\ job'[p].step = IF liveExisted THEN "copy" ELSE "rename"
           /\ job'[p].why = "swap" /\ job'[p].install = {c} /\ job'[p].was = Live
<1>1. job \in [Pid -> Job] /\ job[p] \in Job /\ second \in 0..MaxSecond
  BY DEF FilesTypeOK
<1>2. Live \in File /\ {c} \in File
  BY OneLive, FilesAssumption DEF FilesTypeOK, Materialize, File
<1>3. PICK s \in FileStep : s = IF liveExisted THEN "copy" ELSE "rename"
  BY DEF FileStep
<1>4. job' = [job EXCEPT ![p].install = {c}, ![p].was = Live, ![p].why = "swap",
                ![p].at = second, ![p].step = s]
  BY <1>3 DEF Materialize
<1>5. job'[p] = [job[p] EXCEPT !.install = {c}, !.was = Live, !.why = "swap", !.at = second, !.step = s]
  BY <1>1, <1>4
<1>6. \A q \in Pid \ {p} : job'[q] = job[q]
  BY <1>1, <1>4
<1> QED BY <1>1, <1>2, <1>3, <1>4, <1>5, <1>6 DEF Job

(* Whoever ends, well or not, has nothing under way.                       *)
LEMMA EndMoves ==
    ASSUME FilesTypeOK, NEW p \in Pid, job' = [job EXCEPT ![p] = NoJob]
    PROVE  /\ job' \in [Pid -> Job] /\ \A q \in Pid \ {p} : job'[q] = job[q]
           /\ job'[p].step = "none" /\ job'[p].why = "migrate"
BY JobNames, OneJob DEF FilesTypeOK

LEMMA ReadyMoves ==
    ASSUME FilesTypeOK, NEW p \in Pid, job' = [job EXCEPT ![p] = Ready]
    PROVE  /\ job' \in [Pid -> Job] /\ \A q \in Pid \ {p} : job'[q] = job[q]
           /\ job'[p].step = "ready" /\ job'[p].why = "migrate"
BY JobNames, OneJob DEF FilesTypeOK

LEMMA FilesTypeInit == DbInit => FilesTypeOK
<1> SUFFICES ASSUME DbInit PROVE FilesTypeOK
  OBVIOUS
<1>1. TypeOK
  BY TypeInit DEF DbInit
<1>2. job \in [Pid -> Job]
  BY JobNames DEF DbInit
<1>3. main \in File /\ wal \in Log
  BY ContentNames DEF DbInit, File, Log
<1>4. DOMAIN snapshot = {} /\ Stored = {}
  BY DEF DbInit, Stored
<1> QED BY <1>1, <1>2, <1>3, <1>4, FilesAssumption DEF DbInit, FilesTypeOK

LEMMA DisconnectTypes ==
    ASSUME FilesTypeOK, NEW p \in Pid, Disconnect(p)
    PROVE  /\ main' \in File
           /\ wal' \in Log
           /\ Live' = Live
<1>1. CASE Fold
  BY <1>1, Folded
<1>2. CASE UNCHANGED <<main, wal>>
  BY <1>2 DEF FilesTypeOK, Live
<1> QED BY <1>1, <1>2 DEF Disconnect

LEMMA RollBackTypes ==
    ASSUME FilesTypeOK, NEW p \in Pid, RollBack(p)
    PROVE  /\ main' \in File
           /\ wal' \in Log
BY DEF RollBack, FilesTypeOK, File, Log

(* Log frames lie over the main file.                                      *)
Framed == \A w \in wal : main = {w.over}

LEMMA FramedMain == ASSUME FilesTypeOK, Framed PROVE Live = {} <=> main = {}
BY OneLive DEF Framed

(* A migration brings what is read to this build's schema, a commit counts *)
(* it on.                                                                  *)
LEMMA MigrationWrites ==
    ASSUME FilesTypeOK, Framed, NEW p \in Pid, Migrate(p)
    PROVE  /\ main' = main /\ wal' \in Log /\ Framed' /\ main # {}
           /\ \E c \in Live : \/ Live' = Live /\ ~(c.schema < Build)
                              \/ Live' = {[c EXCEPT !.schema = Build]} /\ c.schema < Build
<1>1. PICK c \in Live : IF c.schema < Build THEN Write([c EXCEPT !.schema = Build])
                                             ELSE UNCHANGED <<main, wal>>
  BY DEF Migrate
<1>2. main # {}
  BY FramedMain
<1>3. CASE c.schema < Build
  <2>1. [c EXCEPT !.schema = Build] \in Content /\ Write([c EXCEPT !.schema = Build])
    BY <1>1, <1>3, OneLive, ContentNames
  <2>2. /\ Live' = {[c EXCEPT !.schema = Build]} /\ main' = main
        /\ wal' \in Log /\ \A w \in wal' : main = {w.over}
    BY <1>2, <2>1, Written
  <2> QED BY <1>2, <1>3, <2>2 DEF Framed
<1>4. CASE ~(c.schema < Build)
  <2>1. main' = main /\ wal' = wal
    BY <1>1, <1>4
  <2> QED BY <1>2, <1>4, <2>1 DEF FilesTypeOK, Framed, Live
<1> QED BY <1>3, <1>4

LEMMA CommitWrites ==
    ASSUME FilesTypeOK, Framed, NEW p \in Pid, Commit(p)
    PROVE  /\ main' = main /\ wal' \in Log /\ Framed' /\ main # {}
           /\ commits' = commits + 1 /\ commits' \in 0..MaxCommits
           /\ \E c \in Live : Live' = {[c EXCEPT !.commit = commits + 1]}
<1>1. PICK c \in Live : Write([c EXCEPT !.commit = commits + 1])
  BY DEF Commit
<1>2. main # {}
  BY FramedMain
<1>3. commits' = commits + 1 /\ commits + 1 \in 0..MaxCommits
  BY FilesAssumption DEF Commit, FilesTypeOK
<1>4. [c EXCEPT !.commit = commits + 1] \in Content
  BY <1>3, OneLive, ContentNames
<1>5. /\ Live' = {[c EXCEPT !.commit = commits + 1]} /\ main' = main
      /\ wal' \in Log /\ \A w \in wal' : main = {w.over}
  BY <1>1, <1>2, <1>4, Written
<1> QED BY <1>2, <1>3, <1>5 DEF Framed

(* A snapshot is added, under a new name, or some are taken away.          *)
LEMMA Added ==
    ASSUME FilesTypeOK, NEW p \in Pid, LinkSnapshot(p)
    PROVE  /\ DOMAIN snapshot' \subseteq Name /\ Stored' \subseteq Content
           /\ Stored \subseteq Stored' /\ job[p].copy \cap Stored' # {}
<1>1. PICK n \in FreeName(job[p].at), c \in job[p].copy :
         snapshot' = [o \in DOMAIN snapshot \cup {n} |-> IF o = n THEN c ELSE snapshot[o]]
  BY DEF LinkSnapshot
<1>2. n \in Name \ DOMAIN snapshot /\ c \in Content
  <2>1. job[p] \in Job
    BY DEF FilesTypeOK
  <2>2. job[p].copy \in File
    BY <2>1 DEF Job
  <2> QED BY <1>1, <2>2 DEF FreeName, File
<1>3. /\ DOMAIN snapshot' = DOMAIN snapshot \cup {n} /\ snapshot'[n] = c
      /\ \A o \in DOMAIN snapshot : snapshot'[o] = snapshot[o]
  BY <1>1, <1>2
<1> QED BY <1>1, <1>2, <1>3 DEF Stored, FilesTypeOK

LEMMA TakenAway ==
    ASSUME FilesTypeOK, NEW p \in Pid, PruneSnapshots(p)
    PROVE  DOMAIN snapshot' \subseteq Name /\ Stored' \subseteq Content
<1>1. /\ DOMAIN snapshot' = DOMAIN snapshot \ job[p].old
      /\ \A n \in DOMAIN snapshot' : snapshot'[n] = snapshot[n]
  BY DEF PruneSnapshots
<1> QED BY <1>1 DEF Stored, FilesTypeOK

LEMMA FilesTypeStep == FilesTypeOK /\ Framed /\ [DbNext]_allVars => FilesTypeOK'
<1> SUFFICES ASSUME FilesTypeOK, Framed, [DbNext]_allVars PROVE FilesTypeOK'
  OBVIOUS
<1>t. TypeOK'
  <2>1. [Next]_vars
    BY KeepsToTheLock DEF SerialNext, Next
  <2> QED BY <2>1, TypeStep DEF FilesTypeOK
<1>s. snapshot' = snapshot => DOMAIN snapshot' \subseteq Name /\ Stored' \subseteq Content
  BY DEF Stored, FilesTypeOK
<1>m. UNCHANGED <<main, wal>> => main' \in File /\ wal' \in Log
  BY DEF FilesTypeOK
<1>e. trouble' = trouble - 1 /\ trouble > 0 => trouble' \in 0..MaxTrouble
  BY FilesAssumption DEF FilesTypeOK
<1>j. ASSUME NEW p \in Pid, NEW step \in FileStep, Then(p, step) PROVE job' \in [Pid -> Job]
  BY <1>j, StepMoves DEF Moves
<1>1. CASE UNCHANGED fileVars
  BY <1>t, <1>1, <1>s, <1>m DEF fileVars, FilesTypeOK
<1>2. ASSUME NEW p \in Pid, Enter(p) \/ EnterSwap(p) PROVE FilesTypeOK'
  <2>1. job' \in [Pid -> Job]
    BY <1>2, <1>j DEF Enter, EnterSwap, FileStep
  <2> QED BY <1>t, <1>2, <2>1, <1>s, <1>m DEF Enter, EnterSwap, FilesTypeOK
<1>3. ASSUME NEW p \in Pid, Copy(p) \/ ListSnapshots(p) \/ Backup(p) PROVE FilesTypeOK'
  <2>1. job' \in [Pid -> Job]
    BY <1>3, CopyMoves, ListMoves, BackupMoves DEF Moves
  <2> QED BY <1>t, <1>3, <2>1, <1>s, <1>m DEF Copy, ListSnapshots, Backup, FilesTypeOK
<1>4. ASSUME NEW p \in Pid, LinkSnapshot(p) \/ PruneSnapshots(p) PROVE FilesTypeOK'
  <2>1. job' \in [Pid -> Job]
    <3>1. job[p].why = "swap" \/ job[p].why # "swap"
      OBVIOUS
    <3> QED BY <1>4, <3>1, LinkMoves, PruneMoves DEF Moves
  <2>2. DOMAIN snapshot' \subseteq Name /\ Stored' \subseteq Content
    BY <1>4, Added, TakenAway
  <2> QED BY <1>t, <1>4, <2>1, <2>2, <1>m DEF LinkSnapshot, PruneSnapshots, FilesTypeOK
<1>5. ASSUME NEW p \in Pid, OpenFile(p) PROVE FilesTypeOK'
  <2>1. job' \in [Pid -> Job]
    BY <1>5, OpenFileMoves
  <2>2. main' \in File
    BY <1>5, ContentNames DEF OpenFile, FilesTypeOK, File
  <2> QED BY <1>t, <1>5, <2>1, <2>2, <1>s DEF OpenFile, FilesTypeOK
<1>6. ASSUME NEW p \in Pid, Migrate(p) PROVE FilesTypeOK'
  <2>1. job' \in [Pid -> Job]
    BY <1>6, ReadyMoves DEF Migrate
  <2>2. main' = main /\ wal' \in Log
    BY <1>6, MigrationWrites
  <2> QED BY <1>t, <1>6, <2>1, <2>2, <1>s DEF Migrate, FilesTypeOK
<1>7. ASSUME NEW p \in Pid, Commit(p) PROVE FilesTypeOK'
  <2>1. main' = main /\ wal' \in Log /\ commits' \in 0..MaxCommits
    BY <1>7, CommitWrites
  <2> QED BY <1>t, <1>7, <2>1, <1>s DEF Commit, FilesTypeOK
<1>8. ASSUME NEW p \in Pid, Leave(p), trouble' \in 0..MaxTrouble PROVE FilesTypeOK'
  <2>1. job' \in [Pid -> Job]
    BY <1>8, EndMoves DEF Leave
  <2>2. main' \in File /\ wal' \in Log
    BY <1>8, DisconnectTypes DEF Leave
  <2> QED BY <1>t, <1>8, <2>1, <2>2, <1>s DEF Leave, FilesTypeOK
<1>9. ASSUME NEW p \in Pid, NEW c, Materialize(p, c) PROVE FilesTypeOK'
  <2>1. job' \in [Pid -> Job]
    BY <1>9, MaterializeMoves
  <2> QED BY <1>t, <1>9, <2>1, <1>s, <1>m DEF Materialize, FilesTypeOK
<1>10. ASSUME NEW p \in Pid, Checkpoint(p) \/ Rename(p) \/ Tidy(p) PROVE FilesTypeOK'
  <2>1. job' \in [Pid -> Job]
    BY <1>10, <1>j DEF Checkpoint, Rename, Tidy, FileStep
  <2>2. main' \in File /\ wal' \in Log
    <3>1. CASE Checkpoint(p)
      BY <3>1, Folded DEF Checkpoint
    <3>2. CASE Rename(p)
      <4>1. job[p] \in Job
        BY DEF FilesTypeOK
      <4> QED BY <3>2, <4>1 DEF Rename, Job, FilesTypeOK
    <3>3. CASE Tidy(p)
      BY <3>3 DEF Tidy, FilesTypeOK, Log
    <3> QED BY <1>10, <3>1, <3>2, <3>3
  <2> QED BY <1>t, <1>10, <2>1, <2>2, <1>s DEF Checkpoint, Rename, Tidy, FilesTypeOK
<1>11. ASSUME NEW p \in Pid, EndSwap(p), RollBack(p) \/ UNCHANGED <<main, wal>>,
              trouble' \in 0..MaxTrouble
       PROVE  FilesTypeOK'
  <2>1. job' \in [Pid -> Job]
    BY <1>11, EndMoves DEF EndSwap
  <2>2. main' \in File /\ wal' \in Log
    BY <1>11, <1>m, RollBackTypes
  <2> QED BY <1>t, <1>11, <2>1, <2>2, <1>s DEF EndSwap, FilesTypeOK
<1>12. ASSUME NEW p \in Pid, Die(p) \/ DiskFull(p) PROVE FilesTypeOK'
  <2>1. job' \in [Pid -> Job]
    BY <1>12, EndMoves DEF Die, DiskFull, FilesTypeOK
  <2>2. trouble' \in 0..MaxTrouble
    BY <1>12, <1>e DEF Die, DiskFull
  <2> QED BY <1>t, <1>12, <2>1, <2>2, <1>s, <1>m DEF Die, DiskFull, FilesTypeOK
<1>13. CASE Tick
  <2>1. second' \in 0..MaxSecond
    BY <1>13, FilesAssumption DEF Tick, FilesTypeOK
  <2> QED BY <1>t, <1>13, <2>1, <1>s, <1>m DEF Tick, FilesTypeOK
<1>u. trouble' = trouble => trouble' \in 0..MaxTrouble
  BY DEF FilesTypeOK
<1>14. ASSUME NEW p \in Pid, Crossing(p) PROVE FilesTypeOK'
  BY <1>14, <1>2, <1>8, <1>11, <1>u DEF Crossing, Restored, Reject, Exhausted
<1>15. ASSUME NEW p \in Pid, CloseFile(p) \/ Fail(p) PROVE FilesTypeOK'
  BY <1>15, <1>8, <1>11, <1>u, <1>e DEF CloseFile, Fail, FailOpener, FailRestore
<1>16. ASSUME NEW p \in Pid, FileWork(p) PROVE FilesTypeOK'
  BY <1>16, <1>3, <1>4, <1>5, <1>6, <1>9, <1>10 DEF FileWork
<1>17. CASE UNCHANGED allVars
  BY <1>1, <1>17 DEF allVars
<1> QED BY <1>1, <1>3, <1>7, <1>12, <1>13, <1>14, <1>15, <1>16, <1>17 DEF DbNext, Serially
-----------------------------------------------------------------------------
(* The invariant                                                           *)

OpenerSteps == {"file", "copy", "publish", "list", "prune", "migrate", "ready"}
SwapSteps   == {"copy", "publish", "checkpoint", "rename", "tidy", "list", "prune", "done"}

(* What a process does to the files is what its place in the interlock     *)
(* lets it do.                                                             *)
PlacedAt(p) ==
    /\ pc[p] = "open" => job[p].step \in OpenerSteps /\ job[p].why # "swap"
    /\ pc[p] = "swap" => \/ At(p, "choose") /\ job[p].why # "swap"
                         \/ job[p].step \in SwapSteps /\ job[p].why = "swap"
    /\ At(p, "file") => job[p].why = "migrate"
    /\ pc[p] \notin {"open", "swap"} => At(p, "none") /\ job[p].why = "migrate"

(* Whoever is connected has a file, and once it has migrated that file,    *)
(* what it reads has this build's schema, its backups included.            *)
ConnectedAt(p) ==
    /\ Connected(p) => main # {}
    /\ pc[p] = "open" /\ (At(p, "ready") \/ job[p].why = "backup") =>
          \A c \in Live : c.schema = Build

(* How far a restore has come tells what the live path holds, and that     *)
(* what it found and what it installs are kept until they are in place.    *)
SwapAt(p) == pc[p] = "swap" =>
    /\ job[p].step \in {"copy", "publish", "checkpoint", "rename"} => Live = job[p].was
    /\ At(p, "publish") => job[p].copy = job[p].was
    /\ job[p].step \in {"checkpoint", "rename"} => job[p].was \subseteq Stored
    /\ job[p].step \in {"rename", "tidy", "list", "prune", "done"} => wal = {}
    /\ job[p].step \in {"copy", "publish", "checkpoint", "rename", "tidy"} =>
          job[p].install \subseteq Stored \cup Offsite
    /\ job[p].step \in {"tidy", "list", "prune", "done"} => Live = job[p].install
    /\ job[p].why = "swap" => \A c \in job[p].install : Valid(c)

FilesInv ==
    /\ SerialInv
    /\ FilesTypeOK
    /\ Framed
    /\ \A c \in Live : c.schema <= Build
    /\ \A p \in Pid : PlacedAt(p) /\ ConnectedAt(p) /\ SwapAt(p)

LEMMA FilesInvInit == DbInit => FilesInv
<1> SUFFICES ASSUME DbInit PROVE FilesInv
  OBVIOUS
<1>1. SerialInv /\ FilesTypeOK
  BY LockedInit, FilesTypeInit
<1>2. Framed /\ \A c \in Live : c.schema <= Build
  BY FilesAssumption DEF DbInit, Framed, Live
<1>3. ASSUME NEW p \in Pid PROVE PlacedAt(p) /\ ConnectedAt(p) /\ SwapAt(p)
  <2>1. pc[p] = "idle" /\ job[p] = NoJob
    BY DEF DbInit, Init
  <2> QED BY <2>1, JobNames DEF PlacedAt, ConnectedAt, Connected, SwapAt, At
<1> QED BY <1>1, <1>2, <1>3 DEF FilesInv

(* Neither comes to open or to swap nor ends it.                           *)
StaysPut(p) == pc'[p] = pc[p] \/ (pc[p] \notin {"open", "swap"} /\ pc'[p] \notin {"open", "swap"})

(* What stands for a process still stands after a step of another, as long *)
(* as neither the files nor what this process does is touched.             *)
LEMMA Untouched ==
    ASSUME NEW p \in Pid, PlacedAt(p), ConnectedAt(p), SwapAt(p),
           job'[p] = job[p], UNCHANGED <<main, wal>>, Stored \subseteq Stored',
           StaysPut(p)
    PROVE  PlacedAt(p)' /\ ConnectedAt(p)' /\ SwapAt(p)'
<1>1. Live' = Live
  BY DEF Live
<1>2. PlacedAt(p)'
  BY DEF PlacedAt, At, StaysPut
<1>3. ConnectedAt(p)'
  BY <1>1 DEF ConnectedAt, Connected, At, StaysPut
<1>4. SwapAt(p)'
  <2> SUFFICES ASSUME pc'[p] = "swap" PROVE SwapAt(p)'
    BY DEF SwapAt
  <2>1. pc[p] = "swap"
    BY DEF StaysPut
  <2> QED BY <1>1, <2>1 DEF SwapAt, At
<1> QED BY <1>2, <1>3, <1>4

(* Whoever has ended stands for nothing.                                   *)
LEMMA Ended ==
    ASSUME NEW p \in Pid, job'[p].step = "none", job'[p].why = "migrate",
           pc'[p] \notin {"open", "swap"}
    PROVE  PlacedAt(p)' /\ ConnectedAt(p)' /\ SwapAt(p)'
BY DEF PlacedAt, ConnectedAt, SwapAt, Connected, At

(* What the interlock does away from the files: no process comes to open   *)
(* or to swap, and none that does so goes on.                              *)
LEMMA AwayFromFiles ==
    ASSUME TypeOK, NEW p \in Pid,
           LockStep(p) \/ Open(p) \/ Restore(p) \/ WriteThrows(p)
    PROVE  \A q \in Pid : StaysPut(q)
BY DEF StaysPut, TypeOK, LockStep, Open, Restore, WriteThrows, Register, Refused, Deregister, Publish,
       GiveUp, Judge, Clear, Mark, List, Read, Drop, Withdraw, EndRestore, Goto

LEMMA Ends ==
    ASSUME TypeOK, NEW p \in Pid, Leave(p) \/ EndSwap(p) \/ Die(p)
    PROVE  /\ pc'[p] = "idle" /\ \A q \in Pid \ {p} : pc'[q] = pc[q]
           /\ job' = [job EXCEPT ![p] = NoJob] /\ snapshot' = snapshot
           /\ Leave(p) => pc[p] = "open"
           /\ EndSwap(p) => pc[p] = "swap"
BY DEF TypeOK, Leave, EndSwap, Die, Close, Deregister, Finish, Crash, EndRestore, Goto

LEMMA Enters ==
    ASSUME TypeOK, NEW p \in Pid, Enter(p) \/ EnterSwap(p)
    PROVE  /\ \A q \in Pid \ {p} : pc'[q] = pc[q]
           /\ pc[p] \notin {"open", "swap"}
           /\ Enter(p) => pc'[p] = "open" /\ Then(p, "file")
           /\ EnterSwap(p) => pc'[p] = "swap" /\ Then(p, "choose")
           /\ UNCHANGED <<main, wal, snapshot>>
BY DEF TypeOK, Enter, EnterSwap, Admitted, Swap, Goto

LEMMA NoneBesideASwap ==
    ASSUME SerialInv, NEW p \in Pid, pc[p] = "swap"
    PROVE  \A q \in Pid \ {p} : pc[q] \notin {"open", "swap"}
BY Alone DEF RestoresAlone

(* Beside a restore that goes on nobody stands for anything.               *)
LEMMA BesideARestore ==
    ASSUME FilesInv, NEW p \in Pid, pc[p] = "swap", pc' = pc,
           \A q \in Pid \ {p} : job'[q] = job[q]
    PROVE  \A q \in Pid \ {p} : PlacedAt(q)' /\ ConnectedAt(q)' /\ SwapAt(q)'
<1> SUFFICES ASSUME NEW q \in Pid \ {p} PROVE PlacedAt(q)' /\ ConnectedAt(q)' /\ SwapAt(q)'
  OBVIOUS
<1>1. pc[q] \notin {"open", "swap"} /\ PlacedAt(q)
  BY NoneBesideASwap DEF FilesInv
<1> QED BY <1>1 DEF PlacedAt, ConnectedAt, Connected, SwapAt, At

(* Beside an opener nobody swaps, and a database that was migrated stays   *)
(* so.                                                                     *)
LEMMA BesideAnOpener ==
    ASSUME FilesInv, NEW p \in Pid, pc[p] = "open",
           \A q \in Pid \ {p} : job'[q] = job[q] /\ pc'[q] = pc[q],
           \A q \in Pid \ {p} : Connected(q) => main' # {},
           main = {} \/ ((\A c \in Live : c.schema = Build) => \A c \in Live' : c.schema = Build)
    PROVE  \A q \in Pid \ {p} : PlacedAt(q)' /\ ConnectedAt(q)' /\ SwapAt(q)'
<1> SUFFICES ASSUME NEW q \in Pid \ {p} PROVE PlacedAt(q)' /\ ConnectedAt(q)' /\ SwapAt(q)'
  OBVIOUS
<1>1. pc[q] # "swap" /\ PlacedAt(q) /\ ConnectedAt(q)
  BY NoneBesideASwap DEF FilesInv
<1>2. job'[q] = job[q] /\ pc'[q] = pc[q] /\ (Connected(q) => main' # {})
  OBVIOUS
<1>3. PlacedAt(q)' /\ SwapAt(q)'
  BY <1>1, <1>2 DEF PlacedAt, SwapAt, At
<1>4. ConnectedAt(q)'
  <2>1. CASE ~Connected(q)
    BY <1>1, <1>2, <2>1 DEF ConnectedAt, Connected, PlacedAt, At
  <2>2. CASE Connected(q)
    <3>1. main # {} /\ main' # {}
      BY <1>1, <1>2, <2>2 DEF ConnectedAt
    <3>2. (\A c \in Live : c.schema = Build) => \A c \in Live' : c.schema = Build
      BY <3>1
    <3> QED BY <1>1, <1>2, <3>1, <3>2 DEF ConnectedAt, Connected, At
  <2> QED BY <2>1, <2>2
<1> QED BY <1>3, <1>4

Works(p) == \/ OpenFile(p) \/ Migrate(p) \/ Commit(p) \/ Backup(p)
            \/ Copy(p) \/ LinkSnapshot(p) \/ ListSnapshots(p) \/ PruneSnapshots(p)

LEMMA OpenersWork ==
    ASSUME FilesInv, NEW p \in Pid, pc[p] = "open", Works(p)
    PROVE  /\ Framed' /\ \A c \in Live' : c.schema <= Build
           /\ \A q \in Pid : PlacedAt(q)' /\ ConnectedAt(q)' /\ SwapAt(q)'
<1>1. pc' = pc
  BY DEF Works, OpenFile, Migrate, Commit, Backup, Copy, LinkSnapshot, ListSnapshots,
         PruneSnapshots, vars
<1>2. PlacedAt(p) /\ ConnectedAt(p) /\ Framed /\ FilesTypeOK /\ job[p].why # "swap"
  BY DEF FilesInv, PlacedAt
<1>3. (\A c \in Live : c.schema <= Build) /\ (\A q \in Pid : ConnectedAt(q))
  BY DEF FilesInv
<1>4. ASSUME UNCHANGED <<main, wal>>, \A q \in Pid \ {p} : job'[q] = job[q],
             PlacedAt(p)', ConnectedAt(p)'
      PROVE  /\ Framed' /\ \A c \in Live' : c.schema <= Build
             /\ \A q \in Pid : PlacedAt(q)' /\ ConnectedAt(q)' /\ SwapAt(q)'
  <2>1. Live' = Live /\ Framed'
    BY <1>2, <1>4 DEF Live, Framed
  <2>2. SwapAt(p)'
    BY <1>1 DEF SwapAt
  <2>3. \A q \in Pid \ {p} : PlacedAt(q)' /\ ConnectedAt(q)' /\ SwapAt(q)'
    BY <1>1, <1>3, <1>4, <2>1, BesideAnOpener DEF ConnectedAt
  <2> QED BY <1>3, <1>4, <2>1, <2>2, <2>3
<1>5. CASE Copy(p) \/ LinkSnapshot(p) \/ ListSnapshots(p)
  <2>1. /\ job'[p].step \in {"publish", "list", "prune"} /\ job'[p].why = job[p].why
        /\ \A q \in Pid \ {p} : job'[q] = job[q]
    BY <1>2, <1>5, CopyMoves, LinkMoves, ListMoves DEF Moves
  <2>2. UNCHANGED <<main, wal>> /\ job[p].step \in {"copy", "publish", "list"}
    BY <1>5 DEF Copy, LinkSnapshot, ListSnapshots, At
  <2>3. Live' = Live
    BY <2>2 DEF Live
  <2>4. PlacedAt(p)' /\ ConnectedAt(p)'
    BY <1>1, <1>2, <2>1, <2>2, <2>3
       DEF PlacedAt, ConnectedAt, Connected, At, OpenerSteps
  <2> QED BY <1>4, <2>1, <2>2, <2>4
<1>6. CASE PruneSnapshots(p)
  <2>1. /\ job'[p].step \in {"migrate", "ready"} /\ job'[p].why = "migrate"
        /\ job'[p].step = "ready" => job[p].why = "backup"
        /\ \A q \in Pid \ {p} : job'[q] = job[q]
    BY <1>2, <1>6, PruneMoves
  <2>2. UNCHANGED <<main, wal>> /\ job[p].step = "prune"
    BY <1>6 DEF PruneSnapshots, At
  <2>3. Live' = Live
    BY <2>2 DEF Live
  <2>4. PlacedAt(p)' /\ ConnectedAt(p)'
    BY <1>1, <1>2, <2>1, <2>2, <2>3
       DEF PlacedAt, ConnectedAt, Connected, At, OpenerSteps
  <2> QED BY <1>4, <2>1, <2>2, <2>4
<1>7. CASE Backup(p)
  <2>1. /\ job'[p].step = "copy" /\ job'[p].why = "backup"
        /\ \A q \in Pid \ {p} : job'[q] = job[q]
    BY <1>2, <1>7, BackupMoves DEF Moves
  <2>2. UNCHANGED <<main, wal>> /\ job[p].step = "ready"
    BY <1>7 DEF Backup, At
  <2>3. Live' = Live
    BY <2>2 DEF Live
  <2>4. PlacedAt(p)' /\ ConnectedAt(p)'
    BY <1>1, <1>2, <2>1, <2>2, <2>3
       DEF PlacedAt, ConnectedAt, Connected, At, OpenerSteps
  <2> QED BY <1>4, <2>1, <2>2, <2>4
<1>8. CASE OpenFile(p)
  <2>1. /\ job'[p].step \in {"copy", "migrate"} /\ job'[p].why = "migrate"
        /\ \A q \in Pid \ {p} : job'[q] = job[q]
    BY <1>2, <1>8, OpenFileMoves
  <2>2. wal' = wal /\ main' # {} /\ main' = IF main = {} THEN {Blank} ELSE main
    BY <1>8 DEF OpenFile
  <2>3. main = {} => wal = {} /\ wal' = {} /\ Live' = {Blank}
    BY <1>2, <2>2 DEF Framed, Live
  <2>4. main # {} => UNCHANGED <<main, wal>> /\ Live' = Live
    BY <2>2 DEF Live
  <2>5. Framed' /\ \A c \in Live' : c.schema <= Build
    BY <1>2, <1>3, <2>3, <2>4, FilesAssumption DEF Framed, Blank
  <2>6. PlacedAt(p)' /\ ConnectedAt(p)' /\ SwapAt(p)'
    BY <1>1, <2>1, <2>2 DEF PlacedAt, ConnectedAt, Connected, SwapAt, At, OpenerSteps
  <2>7. \A q \in Pid \ {p} : PlacedAt(q)' /\ ConnectedAt(q)' /\ SwapAt(q)'
    BY <1>1, <2>1, <2>2, <2>4, BesideAnOpener
  <2> QED BY <2>5, <2>6, <2>7
<1>9. CASE Migrate(p)
  <2>1. /\ job'[p].step = "ready" /\ job'[p].why = "migrate"
        /\ \A q \in Pid \ {p} : job'[q] = job[q]
    BY <1>2, <1>9, ReadyMoves DEF Migrate
  <2>2. PICK c \in Live : /\ main' = main /\ Framed' /\ main # {}
                          /\ \/ Live' = Live /\ ~(c.schema < Build)
                             \/ Live' = {[c EXCEPT !.schema = Build]} /\ c.schema < Build
    BY <1>2, <1>9, MigrationWrites
  <2>3. \A d \in Live' : d.schema = Build
    <3>1. CASE Live' = Live /\ ~(c.schema < Build)
      <4>1. c.schema \in Nat /\ c.schema <= Build /\ \A d \in Live : d = c
        BY <1>2, <1>3, OneLive, ContentNames
      <4> QED BY <3>1, <4>1, FilesAssumption
    <3>2. CASE Live' = {[c EXCEPT !.schema = Build]}
      <4>1. c \in Content
        BY <1>2, OneLive
      <4>2. [c EXCEPT !.schema = Build].schema = Build
        BY <4>1, ContentNames
      <4> QED BY <3>2, <4>2
    <3> QED BY <2>2, <3>1, <3>2
  <2>4. PlacedAt(p)' /\ ConnectedAt(p)' /\ SwapAt(p)'
    BY <1>1, <2>1, <2>2, <2>3 DEF PlacedAt, ConnectedAt, Connected, SwapAt, At, OpenerSteps
  <2>5. \A q \in Pid \ {p} : PlacedAt(q)' /\ ConnectedAt(q)' /\ SwapAt(q)'
    BY <1>1, <2>1, <2>2, <2>3, BesideAnOpener
  <2>6. \A d \in Live' : d.schema <= Build
    BY <2>3, FilesAssumption
  <2> QED BY <2>2, <2>4, <2>5, <2>6
<1>10. CASE Commit(p)
  <2>1. job' = job /\ job[p].step = "ready"
    BY <1>10 DEF Commit, At
  <2>2. /\ main' = main /\ Framed' /\ main # {} /\ commits + 1 \in 0..MaxCommits
    BY <1>2, <1>10, CommitWrites
  <2>3. PICK c \in Live : Live' = {[c EXCEPT !.commit = commits + 1]}
    BY <1>2, <1>10, CommitWrites
  <2>4. \A d \in Live' : d.schema = Build
    <3>1. c.schema = Build /\ c \in Content
      BY <1>2, <2>1, OneLive DEF ConnectedAt, At
    <3>2. [c EXCEPT !.commit = commits + 1].schema = Build
      BY <2>2, <3>1, ContentNames
    <3> QED BY <2>3, <3>2
  <2>5. PlacedAt(p)' /\ ConnectedAt(p)' /\ SwapAt(p)'
    BY <1>1, <1>2, <2>1, <2>2, <2>4
       DEF PlacedAt, ConnectedAt, Connected, SwapAt, At, OpenerSteps
  <2>6. \A q \in Pid \ {p} : PlacedAt(q)' /\ ConnectedAt(q)' /\ SwapAt(q)'
    BY <1>1, <2>1, <2>2, <2>4, BesideAnOpener
  <2>7. \A d \in Live' : d.schema <= Build
    BY <2>4, FilesAssumption
  <2> QED BY <2>2, <2>5, <2>6, <2>7
<1> QED BY <1>5, <1>6, <1>7, <1>8, <1>9, <1>10 DEF Works

Swaps(p) == \/ (\E c \in Stored \cup Offsite : Materialize(p, c))
            \/ Copy(p) \/ LinkSnapshot(p) \/ Checkpoint(p) \/ Rename(p) \/ Tidy(p)
            \/ ListSnapshots(p) \/ PruneSnapshots(p)

LEMMA RestoresWork ==
    ASSUME FilesInv, NEW p \in Pid, pc[p] = "swap", Swaps(p)
    PROVE  /\ Framed' /\ \A c \in Live' : c.schema <= Build
           /\ \A q \in Pid : PlacedAt(q)' /\ ConnectedAt(q)' /\ SwapAt(q)'
<1>1. pc' = pc
  BY DEF Swaps, Materialize, Copy, LinkSnapshot, Checkpoint, Rename, Tidy, ListSnapshots,
         PruneSnapshots, vars
<1>2. PlacedAt(p) /\ SwapAt(p) /\ Framed /\ FilesTypeOK
  BY DEF FilesInv
<1>3. \A c \in Live : c.schema <= Build
  BY DEF FilesInv
<1>4. ConnectedAt(p)'
  BY <1>1 DEF ConnectedAt, Connected
<1>5. ASSUME Framed', \A c \in Live' : c.schema <= Build,
             \A q \in Pid \ {p} : job'[q] = job[q], PlacedAt(p)', SwapAt(p)'
      PROVE  /\ Framed' /\ \A c \in Live' : c.schema <= Build
             /\ \A q \in Pid : PlacedAt(q)' /\ ConnectedAt(q)' /\ SwapAt(q)'
  BY <1>1, <1>4, <1>5, BesideARestore
<1>6. ~At(p, "choose") => job[p].step \in SwapSteps /\ job[p].why = "swap"
  BY <1>2 DEF PlacedAt
<1>7. ASSUME UNCHANGED <<main, wal>>
      PROVE  Live' = Live /\ Framed' /\ \A c \in Live' : c.schema <= Build
  BY <1>2, <1>3, <1>7 DEF Live, Framed
<1>8. ASSUME NEW c \in Stored \cup Offsite, Materialize(p, c) PROVE
             /\ Framed' /\ \A d \in Live' : d.schema <= Build
             /\ \A q \in Pid : PlacedAt(q)' /\ ConnectedAt(q)' /\ SwapAt(q)'
  <2>1. /\ job'[p].step = IF liveExisted THEN "copy" ELSE "rename"
        /\ job'[p].why = "swap" /\ job'[p].install = {c} /\ job'[p].was = Live
        /\ \A q \in Pid \ {p} : job'[q] = job[q]
    BY <1>2, <1>8, MaterializeMoves
  <2>2. UNCHANGED <<main, wal, snapshot>> /\ Valid(c)
    BY <1>8 DEF Materialize
  <2>3. Live' = Live /\ Stored' = Stored
    BY <1>7, <2>2 DEF Stored
  <2>4. ~liveExisted => Live = {} /\ wal = {}
    BY <1>2 DEF liveExisted, Framed, Live
  <2>5. PlacedAt(p)'
    BY <1>1, <2>1 DEF PlacedAt, At, SwapSteps
  <2>6. SwapAt(p)'
    <3>1. CASE liveExisted
      BY <1>8, <2>1, <2>2, <2>3, <3>1 DEF SwapAt, At, Valid
    <3>2. CASE ~liveExisted
      BY <1>8, <2>1, <2>2, <2>3, <2>4, <3>2 DEF SwapAt, At, Valid
    <3> QED BY <3>1, <3>2
  <2> QED BY <1>5, <1>7, <2>1, <2>2, <2>5, <2>6
<1>9. CASE Copy(p)
  <2>1. /\ job'[p].step = "publish" /\ job'[p].why = "swap" /\ job'[p].copy = Live
        /\ job'[p].install = job[p].install /\ job'[p].was = job[p].was
        /\ \A q \in Pid \ {p} : job'[q] = job[q]
    BY <1>2, <1>6, <1>9, CopyMoves DEF Moves, Copy, At
  <2>2. UNCHANGED <<main, wal, snapshot>> /\ job[p].step = "copy" /\ job[p].why = "swap"
    BY <1>6, <1>9 DEF Copy, At
  <2>3. Live' = Live /\ Stored' = Stored
    BY <1>7, <2>2 DEF Stored
  <2>4. PlacedAt(p)'
    BY <1>1, <2>1 DEF PlacedAt, At, SwapSteps
  <2>5. SwapAt(p)'
    BY <1>2, <2>1, <2>2, <2>3 DEF SwapAt, At
  <2> QED BY <1>5, <1>7, <2>1, <2>2, <2>4, <2>5
<1>10. CASE LinkSnapshot(p)
  <2>1. job[p].step = "publish" /\ job[p].why = "swap" /\ UNCHANGED <<main, wal>>
    BY <1>6, <1>10 DEF LinkSnapshot, At
  <2>2. /\ job'[p].step = "checkpoint" /\ job'[p].why = "swap"
        /\ job'[p].install = job[p].install /\ job'[p].was = job[p].was
        /\ \A q \in Pid \ {p} : job'[q] = job[q]
    BY <1>2, <1>10, <2>1, LinkMoves DEF Moves
  <2>3. Stored \subseteq Stored' /\ job[p].copy \cap Stored' # {}
    BY <1>2, <1>10, Added
  <2>4. job[p].copy = Live /\ job[p].was = Live /\ job[p].install \subseteq Stored \cup Offsite
    BY <1>2, <2>1 DEF SwapAt, At
  <2>5. Live \subseteq Stored'
    BY <1>2, <2>3, <2>4, OneLive
  <2>6. \A c \in job[p].install : Valid(c)
    BY <1>2, <2>1 DEF SwapAt
  <2>7. PlacedAt(p)'
    BY <1>1, <2>2 DEF PlacedAt, At, SwapSteps
  <2>8. SwapAt(p)'
    BY <1>7, <2>1, <2>2, <2>3, <2>4, <2>5, <2>6 DEF SwapAt, At, Valid
  <2> QED BY <1>5, <1>7, <2>1, <2>2, <2>7, <2>8
<1>11. CASE Checkpoint(p)
  <2>1. /\ job[p].step = "checkpoint" /\ job[p].why = "swap" /\ snapshot' = snapshot
        /\ Then(p, "rename") /\ Fold
    BY <1>6, <1>11 DEF Checkpoint, At
  <2>2. /\ job'[p].step = "rename" /\ job'[p].why = "swap"
        /\ job'[p].install = job[p].install /\ job'[p].was = job[p].was
        /\ \A q \in Pid \ {p} : job'[q] = job[q]
    BY <1>2, <2>1, StepMoves DEF Moves, FileStep
  <2>3. Live' = Live /\ wal' = {} /\ Stored' = Stored
    BY <1>2, <2>1, Folded DEF Stored
  <2>4. Framed'
    BY <2>3 DEF Framed
  <2>5. PlacedAt(p)'
    BY <1>1, <2>2 DEF PlacedAt, At, SwapSteps
  <2>6. SwapAt(p)'
    BY <1>2, <2>1, <2>2, <2>3 DEF SwapAt, At, Valid
  <2> QED BY <1>3, <1>5, <2>2, <2>3, <2>4, <2>5, <2>6
<1>12. CASE Rename(p)
  <2>1. /\ job[p].step = "rename" /\ job[p].why = "swap" /\ UNCHANGED <<wal, snapshot>>
        /\ Then(p, "tidy") /\ main' = job[p].install
    BY <1>6, <1>12 DEF Rename, At
  <2>2. /\ job'[p].step = "tidy" /\ job'[p].why = "swap"
        /\ job'[p].install = job[p].install /\ job'[p].was = job[p].was
        /\ \A q \in Pid \ {p} : job'[q] = job[q]
    BY <1>2, <2>1, StepMoves DEF Moves, FileStep
  <2>3. wal = {} /\ job[p].install \subseteq Stored \cup Offsite /\ \A c \in job[p].install : Valid(c)
    BY <1>2, <2>1 DEF SwapAt
  <2>4. Live' = job[p].install /\ wal' = {} /\ Stored' = Stored
    BY <2>1, <2>3 DEF Stored, Live
  <2>5. Framed' /\ \A c \in Live' : c.schema <= Build
    BY <2>3, <2>4, FilesAssumption DEF Framed, Valid
  <2>6. PlacedAt(p)'
    BY <1>1, <2>2 DEF PlacedAt, At, SwapSteps
  <2>7. SwapAt(p)'
    BY <2>2, <2>3, <2>4 DEF SwapAt, At, Valid
  <2> QED BY <1>5, <2>2, <2>5, <2>6, <2>7
<1>13. CASE Tidy(p)
  <2>1. /\ job[p].step = "tidy" /\ job[p].why = "swap" /\ UNCHANGED <<main, snapshot>>
        /\ Then(p, "list") /\ wal' = {}
    BY <1>6, <1>13 DEF Tidy, At
  <2>2. /\ job'[p].step = "list" /\ job'[p].why = "swap"
        /\ job'[p].install = job[p].install /\ job'[p].was = job[p].was
        /\ \A q \in Pid \ {p} : job'[q] = job[q]
    BY <1>2, <2>1, StepMoves DEF Moves, FileStep
  <2>3. wal = {} /\ Live = job[p].install /\ \A c \in job[p].install : Valid(c)
    BY <1>2, <2>1 DEF SwapAt
  <2>4. Live' = Live /\ Framed' /\ \A c \in Live' : c.schema <= Build
    BY <1>7, <2>1, <2>3
  <2>5. PlacedAt(p)'
    BY <1>1, <2>2 DEF PlacedAt, At, SwapSteps
  <2>6. SwapAt(p)'
    BY <2>1, <2>2, <2>3, <2>4 DEF SwapAt, At, Valid
  <2> QED BY <1>5, <2>2, <2>4, <2>5, <2>6
<1>14. CASE ListSnapshots(p) \/ PruneSnapshots(p)
  <2>1. /\ job[p].step \in {"list", "prune"} /\ job[p].why = "swap"
        /\ UNCHANGED <<main, wal>>
    BY <1>6, <1>14 DEF ListSnapshots, PruneSnapshots, At
  <2>2. /\ job'[p].step \in {"prune", "done"} /\ job'[p].why = "swap"
        /\ job'[p].install = job[p].install /\ job'[p].was = job[p].was
        /\ \A q \in Pid \ {p} : job'[q] = job[q]
    BY <1>2, <1>14, <2>1, ListMoves, PruneMoves DEF Moves
  <2>3. wal = {} /\ Live = job[p].install /\ \A c \in job[p].install : Valid(c)
    BY <1>2, <2>1 DEF SwapAt
  <2>4. Live' = Live /\ Framed' /\ \A c \in Live' : c.schema <= Build
    BY <1>7, <2>1
  <2>5. PlacedAt(p)'
    BY <1>1, <2>2 DEF PlacedAt, At, SwapSteps
  <2>6. SwapAt(p)'
    BY <2>1, <2>2, <2>3, <2>4 DEF SwapAt, At, Valid
  <2> QED BY <1>5, <2>2, <2>4, <2>5, <2>6
<1> QED BY <1>8, <1>9, <1>10, <1>11, <1>12, <1>13, <1>14 DEF Swaps

(* The file work of a process is an opener's, or a restore's.              *)
LEMMA WorkIsPlaced ==
    ASSUME FilesInv, NEW p \in Pid, FileWork(p) \/ Commit(p) \/ Backup(p)
    PROVE  (pc[p] = "open" /\ Works(p)) \/ (pc[p] = "swap" /\ Swaps(p))
<1>1. PlacedAt(p)
  BY DEF FilesInv
<1>2. CASE FileWork(p)
  BY <1>1, <1>2 DEF FileWork, Works, Swaps, PlacedAt, At, OpenerSteps, SwapSteps, OpenFile,
     Migrate, Copy, LinkSnapshot, ListSnapshots, PruneSnapshots, Materialize, Checkpoint,
     Rename, Tidy
<1>3. CASE Commit(p) \/ Backup(p)
  BY <1>1, <1>3 DEF Works, PlacedAt, At, SwapSteps, Commit, Backup
<1> QED BY <1>2, <1>3

-----------------------------------------------------------------------------
(* Every step keeps the invariant                                          *)

Resting == UNCHANGED <<main, wal, snapshot, job>> /\ \A q \in Pid : StaysPut(q)

LEMMA RestingKeeps ==
    ASSUME FilesInv, Resting
    PROVE  /\ Framed' /\ \A c \in Live' : c.schema <= Build
           /\ \A q \in Pid : PlacedAt(q)' /\ ConnectedAt(q)' /\ SwapAt(q)'
<1>1. Live' = Live /\ Stored' = Stored /\ Framed'
  BY DEF Resting, Live, Stored, Framed, FilesInv
<1>2. ASSUME NEW q \in Pid PROVE PlacedAt(q)' /\ ConnectedAt(q)' /\ SwapAt(q)'
  <2>1. PlacedAt(q) /\ ConnectedAt(q) /\ SwapAt(q)
    BY DEF FilesInv
  <2>2. StaysPut(q) /\ job'[q] = job[q] /\ UNCHANGED <<main, wal>> /\ Stored \subseteq Stored'
    BY <1>1 DEF Resting
  <2> QED BY <2>1, <2>2, Untouched
<1> QED BY <1>1, <1>2 DEF FilesInv

LEMMA EndingKeeps ==
    ASSUME FilesInv, NEW p \in Pid,
           \/ Leave(p) \/ Die(p)
           \/ EndSwap(p) /\ (RollBack(p) \/ UNCHANGED <<main, wal>>)
    PROVE  /\ Framed' /\ \A c \in Live' : c.schema <= Build
           /\ \A q \in Pid : PlacedAt(q)' /\ ConnectedAt(q)' /\ SwapAt(q)'
<1>1. TypeOK /\ FilesTypeOK /\ Framed /\ \A c \in Live : c.schema <= Build
  BY DEF FilesInv, FilesTypeOK
<1>2. /\ pc'[p] = "idle" /\ \A q \in Pid \ {p} : pc'[q] = pc[q]
      /\ job' = [job EXCEPT ![p] = NoJob] /\ snapshot' = snapshot
      /\ Leave(p) => pc[p] = "open"
      /\ EndSwap(p) => pc[p] = "swap"
  BY <1>1, Ends
<1>3. /\ \A q \in Pid \ {p} : job'[q] = job[q]
      /\ job'[p].step = "none" /\ job'[p].why = "migrate"
  BY <1>1, <1>2, EndMoves
<1>4. PlacedAt(p)' /\ ConnectedAt(p)' /\ SwapAt(p)'
  BY <1>2, <1>3, Ended
<1>5. CASE UNCHANGED <<main, wal>>
  <2>1. Live' = Live /\ Stored' = Stored /\ Framed'
    BY <1>1, <1>2, <1>5 DEF Live, Stored, Framed
  <2>2. ASSUME NEW q \in Pid \ {p} PROVE PlacedAt(q)' /\ ConnectedAt(q)' /\ SwapAt(q)'
    <3>1. PlacedAt(q) /\ ConnectedAt(q) /\ SwapAt(q)
      BY DEF FilesInv
    <3>2. StaysPut(q) /\ job'[q] = job[q] /\ Stored \subseteq Stored'
      BY <1>2, <1>3, <2>1 DEF StaysPut
    <3> QED BY <1>5, <3>1, <3>2, Untouched
  <2> QED BY <1>1, <1>4, <2>1, <2>2
<1>6. CASE Leave(p) /\ Fold
  <2>1. Live' = Live /\ wal' = {} /\ Framed'
    BY <1>1, <1>6, Folded DEF Framed
  <2>2. \A q \in Pid \ {p} : Connected(q) => main' # {}
    <3>1. ASSUME NEW q \in Pid \ {p}, Connected(q) PROVE main' # {}
      <4>1. main # {}
        BY <3>1 DEF FilesInv, ConnectedAt
      <4> QED BY <1>1, <1>6, <4>1, FramedMain, Folded
    <3> QED BY <3>1
  <2>3. pc[p] = "open"
    BY <1>2, <1>6
  <2>4. \A q \in Pid \ {p} : PlacedAt(q)' /\ ConnectedAt(q)' /\ SwapAt(q)'
    BY <1>2, <1>3, <2>1, <2>2, <2>3, BesideAnOpener
  <2> QED BY <1>1, <1>4, <2>1, <2>4
<1>7. CASE EndSwap(p) /\ main' = {} /\ wal' = {}
  <2>1. pc[p] = "swap"
    BY <1>2, <1>7
  <2>2. Live' = {} /\ Framed'
    BY <1>7 DEF Live, Framed
  <2>3. ASSUME NEW q \in Pid \ {p} PROVE PlacedAt(q)' /\ ConnectedAt(q)' /\ SwapAt(q)'
    <3>1. pc[q] \notin {"open", "swap"} /\ PlacedAt(q)
      BY <2>1, NoneBesideASwap DEF FilesInv
    <3>2. job'[q] = job[q] /\ pc'[q] = pc[q]
      BY <1>2, <1>3
    <3> QED BY <3>1, <3>2 DEF PlacedAt, ConnectedAt, Connected, SwapAt, At
  <2> QED BY <1>4, <2>2, <2>3
<1> QED BY <1>5, <1>6, <1>7 DEF Leave, Disconnect, RollBack, Die

LEMMA EnteringKeeps ==
    ASSUME FilesInv, NEW p \in Pid, Enter(p) \/ EnterSwap(p)
    PROVE  /\ Framed' /\ \A c \in Live' : c.schema <= Build
           /\ \A q \in Pid : PlacedAt(q)' /\ ConnectedAt(q)' /\ SwapAt(q)'
<1>1. TypeOK /\ FilesTypeOK /\ Framed /\ \A c \in Live : c.schema <= Build
  BY DEF FilesInv, FilesTypeOK
<1>2. /\ \A q \in Pid \ {p} : pc'[q] = pc[q]
      /\ pc[p] \notin {"open", "swap"}
      /\ UNCHANGED <<main, wal, snapshot>>
  BY <1>1, Enters
<1>3. PICK s \in {"file", "choose"} :
         /\ Then(p, s)
         /\ pc'[p] = IF s = "file" THEN "open" ELSE "swap"
  BY <1>1, Enters
<1>4. /\ job'[p].step = s /\ job'[p].why = job[p].why
      /\ \A q \in Pid \ {p} : job'[q] = job[q]
  BY <1>1, <1>3, StepMoves DEF FileStep, Moves
<1>5. PlacedAt(p)
  BY DEF FilesInv
<1>6. PlacedAt(p)' /\ ConnectedAt(p)' /\ SwapAt(p)'
  BY <1>2, <1>3, <1>4, <1>5 DEF PlacedAt, ConnectedAt, Connected, SwapAt, At, OpenerSteps
<1>7. Live' = Live /\ Stored' = Stored /\ Framed'
  BY <1>1, <1>2 DEF Live, Stored, Framed
<1>8. ASSUME NEW q \in Pid \ {p} PROVE PlacedAt(q)' /\ ConnectedAt(q)' /\ SwapAt(q)'
  <2>1. PlacedAt(q) /\ ConnectedAt(q) /\ SwapAt(q)
    BY DEF FilesInv
  <2>2. StaysPut(q) /\ job'[q] = job[q] /\ UNCHANGED <<main, wal>> /\ Stored \subseteq Stored'
    BY <1>2, <1>4, <1>7 DEF StaysPut
  <2> QED BY <2>1, <2>2, Untouched
<1> QED BY <1>1, <1>6, <1>7, <1>8

(* What a step is to the files: nothing, someone's coming, going or work.  *)
LEMMA StepsOnFiles ==
    ASSUME FilesInv, [DbNext]_allVars
    PROVE  \/ Resting
           \/ \E p \in Pid :
                \/ Enter(p) \/ EnterSwap(p) \/ Leave(p) \/ Die(p)
                \/ EndSwap(p) /\ UNCHANGED <<main, wal>> /\ (At(p, "done") \/ At(p, "choose"))
                \/ /\ EndSwap(p) /\ RollBack(p)
                   /\ job[p].step \in {"choose", "copy", "publish", "checkpoint", "rename", "tidy"}
                \/ pc[p] = "open" /\ Works(p)
                \/ pc[p] = "swap" /\ Swaps(p)
<1>1. TypeOK
  BY DEF FilesInv, FilesTypeOK
<1>2. CASE UNCHANGED allVars \/ Tick
  BY <1>2 DEF allVars, fileVars, vars, Tick, Resting, StaysPut
<1>3. ASSUME NEW p \in Pid, ReusePid(p) /\ UNCHANGED fileVars PROVE Resting
  BY <1>3 DEF ReusePid, fileVars, Resting, StaysPut
<1>4. ASSUME NEW p \in Pid,
             ((LockStep(p) \/ Open(p) \/ Restore(p)) /\ UNCHANGED fileVars) \/ DiskFull(p)
      PROVE  Resting
  <2>1. \A q \in Pid : StaysPut(q)
    BY <1>1, <1>4, AwayFromFiles DEF DiskFull
  <2> QED BY <1>4, <2>1 DEF DiskFull, fileVars, Resting
<1>5. ASSUME NEW p \in Pid, FileWork(p) \/ Commit(p) \/ Backup(p)
      PROVE  (pc[p] = "open" /\ Works(p)) \/ (pc[p] = "swap" /\ Swaps(p))
  BY <1>5, WorkIsPlaced
<1>6. ASSUME NEW p \in Pid, Crossing(p) \/ CloseFile(p) \/ Fail(p)
      PROVE  \/ Enter(p) \/ EnterSwap(p) \/ Leave(p)
             \/ EndSwap(p) /\ UNCHANGED <<main, wal>> /\ (At(p, "done") \/ At(p, "choose"))
             \/ /\ EndSwap(p) /\ RollBack(p)
                /\ job[p].step \in {"choose", "copy", "publish", "checkpoint", "rename", "tidy"}
  BY <1>6 DEF Crossing, Restored, Reject, Exhausted, CloseFile, Fail, FailOpener, FailRestore, At
<1> QED BY <1>2, <1>3, <1>4, <1>5, <1>6 DEF DbNext, Serially

LEMMA FilesInvStep == FilesInv /\ [DbNext]_allVars => FilesInv'
<1> SUFFICES ASSUME FilesInv, [DbNext]_allVars PROVE FilesInv'
  OBVIOUS
<1>1. SerialInv'
  BY KeepsToTheLock, SerialInvStep DEF FilesInv
<1>2. FilesTypeOK'
  BY FilesTypeStep DEF FilesInv
<1>3. /\ Framed' /\ \A c \in Live' : c.schema <= Build
      /\ \A q \in Pid : PlacedAt(q)' /\ ConnectedAt(q)' /\ SwapAt(q)'
  BY StepsOnFiles, RestingKeeps, EndingKeeps, EnteringKeeps, OpenersWork, RestoresWork
<1> QED BY <1>1, <1>2, <1>3 DEF FilesInv

(* A reachable state has the invariant; it is what the other theorems rest *)
(* on.                                                                     *)
THEOREM FilesInvariant == DbSpec => []FilesInv
BY FilesInvInit, FilesInvStep, PTL DEF DbSpec

-----------------------------------------------------------------------------
(* What it gives                                                           *)

(* Every variable of the files has its type.                               *)
THEOREM FilesTypeCorrect == DbSpec => []FilesTypeOK
<1>1. FilesInv => FilesTypeOK
  BY DEF FilesInv
<1> QED BY <1>1, FilesInvariant, PTL

(* The live path holds the main file's own log over the main file, at a    *)
(* schema this build knows, and is migrated under whoever runs on it.      *)
THEOREM LiveStaysSound == DbSpec => []LiveIsSound
<1>1. ASSUME FilesInv PROVE LiveIsSound
  <2>1. ASSUME NEW p \in Pid, At(p, "ready") PROVE \A c \in Live : c.schema = Build
    <3>1. PlacedAt(p) /\ ConnectedAt(p)
      BY <1>1 DEF FilesInv
    <3>2. pc[p] = "open"
      BY <2>1, <3>1 DEF PlacedAt, At, SwapSteps
    <3> QED BY <2>1, <3>1, <3>2 DEF ConnectedAt
  <2> QED BY <1>1, <2>1 DEF FilesInv, Framed, LiveIsSound
<1> QED BY <1>1, FilesInvariant, PTL

(* What the live path reads changes only with a commit, a migration, and a *)
(* restore's renaming or taking back.                                      *)
LEMMA WhenLiveChanges ==
    ASSUME FilesInv, [DbNext]_allVars
    PROVE  \/ Live' = Live
           \/ Stored' = Stored /\
              \/ Live = {} /\ \E p \in Pid : pc[p] = "open"
              \/ \E p \in Pid : pc[p] = "open" /\ (Migrate(p) \/ Commit(p))
              \/ \E p \in Pid : /\ pc[p] = "swap" /\ At(p, "rename") /\ Live' = job[p].install
              \/ \E p \in Pid : /\ pc[p] = "swap" /\ At(p, "tidy") /\ job[p].was = {} /\ Live' = {}
<1>1. FilesTypeOK /\ TypeOK /\ Framed
  BY DEF FilesInv, FilesTypeOK
<1>2. UNCHANGED <<main, wal>> => Live' = Live
  BY DEF Live
<1>3. snapshot' = snapshot => Stored' = Stored
  BY DEF Stored
<1>4. ASSUME NEW p \in Pid, Enter(p) \/ EnterSwap(p) \/ Die(p) PROVE Live' = Live
  BY <1>2, <1>4, <1>1, Enters DEF Die
<1>5. ASSUME NEW p \in Pid, Leave(p) PROVE Live' = Live
  BY <1>1, <1>5, DisconnectTypes DEF Leave
<1>6. ASSUME NEW p \in Pid, EndSwap(p), RollBack(p)
      PROVE  \/ Live' = Live
             \/ /\ Stored' = Stored /\ pc[p] = "swap" /\ At(p, "tidy")
                /\ job[p].was = {} /\ Live' = {}
  <2>1. pc[p] = "swap" /\ Stored' = Stored
    BY <1>1, <1>3, <1>6, Ends
  <2>2. main' = {} /\ wal' = {} => Live' = {}
    BY DEF Live
  <2> QED BY <1>2, <1>6, <2>1, <2>2 DEF RollBack
<1>7. ASSUME NEW p \in Pid, pc[p] = "open", Works(p)
      PROVE  \/ Live' = Live
             \/ Stored' = Stored /\ (Live = {} \/ Migrate(p) \/ Commit(p))
  <2>1. CASE OpenFile(p)
    <3>1. main # {} => UNCHANGED <<main, wal>>
      BY <2>1 DEF OpenFile
    <3>2. main = {} => Live = {}
      BY <1>1, FramedMain
    <3> QED BY <1>2, <1>3, <2>1, <3>1, <3>2 DEF OpenFile
  <2>2. CASE Migrate(p) \/ Commit(p)
    BY <1>3, <2>2 DEF Migrate, Commit
  <2>3. CASE ~OpenFile(p) /\ ~Migrate(p) /\ ~Commit(p)
    BY <1>2, <1>7, <2>3 DEF Works, Backup, Copy, LinkSnapshot, ListSnapshots, PruneSnapshots
  <2> QED BY <2>1, <2>2, <2>3
<1>8. ASSUME NEW p \in Pid, pc[p] = "swap", Swaps(p)
      PROVE  \/ Live' = Live
             \/ Stored' = Stored /\ At(p, "rename") /\ Live' = job[p].install
  <2>1. SwapAt(p)
    BY DEF FilesInv
  <2>2. CASE Rename(p)
    <3>1. wal = {} /\ wal' = {} /\ main' = job[p].install
      BY <1>8, <2>1, <2>2 DEF SwapAt, Rename, At
    <3> QED BY <1>3, <2>2, <3>1 DEF Rename, Live
  <2>3. CASE Checkpoint(p)
    BY <1>1, <2>3, Folded DEF Checkpoint
  <2>4. CASE Tidy(p)
    <3>1. wal = {} /\ wal' = {} /\ main' = main
      BY <1>8, <2>1, <2>4 DEF SwapAt, Tidy, At
    <3> QED BY <1>2, <3>1
  <2>5. CASE ~Rename(p) /\ ~Checkpoint(p) /\ ~Tidy(p)
    BY <1>2, <1>8, <2>5 DEF Swaps, Materialize, Copy, LinkSnapshot, ListSnapshots, PruneSnapshots
  <2> QED BY <2>2, <2>3, <2>4, <2>5
<1>9. CASE Resting
  BY <1>2, <1>9 DEF Resting
<1> QED BY StepsOnFiles, <1>2, <1>4, <1>5, <1>6, <1>7, <1>8, <1>9

(* No commit and no database is lost: what readers of the live path would  *)
(* have found is added to, or a published snapshot, or the file it came    *)
(* from, still holds it.                                                   *)
THEOREM NothingGoesMissing == DbSpec => NothingIsLost
<1> DEFINE Kept == \A c \in Live : c.schema > 0 =>
                      \/ \E d \in Live' : Continues(c, d)
                      \/ c \in Stored' \cup Offsite
<1>1. FilesInv /\ [DbNext]_allVars => [Kept]_allVars
  <2> SUFFICES ASSUME FilesInv, [DbNext]_allVars, NEW c \in Live
               PROVE  \/ \E d \in Live' : Continues(c, d)
                      \/ c \in Stored' \cup Offsite
    OBVIOUS
  <2>1. FilesTypeOK /\ Framed
    BY DEF FilesInv
  <2>2. c \in Content /\ c.schema \in Nat /\ c.commit \in Nat /\ \A d \in Live : d = c
    BY <2>1, OneLive, ContentNames
  <2>3. CASE Live' = Live
    BY <2>2, <2>3 DEF Continues
  <2>4. ASSUME NEW p \in Pid, Migrate(p) PROVE \E d \in Live' : Continues(c, d)
    <3>1. PICK b \in Live : \/ Live' = Live
                            \/ Live' = {[b EXCEPT !.schema = Build]} /\ b.schema < Build
      BY <2>1, <2>4, MigrationWrites
    <3>2. b = c /\ [c EXCEPT !.schema = Build].schema = Build
          /\ [c EXCEPT !.schema = Build].commit = c.commit
      BY <2>2, ContentNames
    <3>3. CASE Live' = {[c EXCEPT !.schema = Build]} /\ c.schema < Build
      BY <2>2, <3>2, <3>3, FilesAssumption DEF Continues
    <3>4. CASE Live' = {[b EXCEPT !.schema = Build]} /\ b.schema < Build
      <4>1. [b EXCEPT !.schema = Build] = [c EXCEPT !.schema = Build]
        BY <3>2
      <4>2. Live' = {[c EXCEPT !.schema = Build]} /\ c.schema < Build
        BY <3>2, <3>4, <4>1
      <4> QED BY <3>3, <4>2
    <3>5. CASE Live' = Live
      BY <2>2, <3>5 DEF Continues
    <3> QED BY <3>1, <3>4, <3>5
  <2>5. ASSUME NEW p \in Pid, Commit(p) PROVE \E d \in Live' : Continues(c, d)
    <3>1. PICK b \in Live : Live' = {[b EXCEPT !.commit = commits + 1]}
      BY <2>1, <2>5, CommitWrites
    <3>2. commits' = commits + 1 /\ commits + 1 \in 0..MaxCommits
      BY <2>1, <2>5, CommitWrites
    <3>3. b = c /\ [c EXCEPT !.commit = commits + 1].schema = c.schema
          /\ [c EXCEPT !.commit = commits + 1].commit = commits + 1
      BY <2>2, <3>2, ContentNames
    <3> QED BY <3>1, <3>2, <3>3 DEF Continues
  <2>6. ASSUME NEW p \in Pid, pc[p] = "swap", At(p, "rename"), Stored' = Stored
        PROVE  c \in Stored'
    <3>1. SwapAt(p)
      BY DEF FilesInv
    <3> QED BY <2>6, <3>1 DEF SwapAt, At
  <2>7. ASSUME NEW p \in Pid, pc[p] = "swap", At(p, "tidy"), Stored' = Stored
        PROVE  c \in Stored' \cup Offsite
    <3>1. SwapAt(p)
      BY DEF FilesInv
    <3> QED BY <2>7, <3>1 DEF SwapAt, At
  <2> QED BY WhenLiveChanges, <2>3, <2>4, <2>5, <2>6, <2>7
<1> QED BY <1>1, FilesInvariant, PTL DEF DbSpec, NothingIsLost

(* A restore that ends without having succeeded ends so.                   *)
LEMMA WhenASwapEnds ==
    ASSUME FilesInv, [DbNext]_allVars, NEW p \in Pid, Swapping(p), pc'[p] = "idle",
           p \in alive', ~At(p, "done")
    PROVE  RollBack(p) /\ job[p].step \in {"copy", "publish", "checkpoint", "rename", "tidy"}
<1>1. TypeOK /\ PlacedAt(p)
  BY DEF FilesInv, FilesTypeOK
<1>2. pc[p] = "swap" /\ job[p].step \in SwapSteps
  BY <1>1 DEF PlacedAt, Swapping, At
<1>3. ~Resting
  BY <1>2 DEF Resting, StaysPut
<1>4. ASSUME NEW q \in Pid, Enter(q) \/ EnterSwap(q) PROVE FALSE
  BY <1>1, <1>2, <1>4, Enters
<1>5. ASSUME NEW q \in Pid, Works(q) \/ Swaps(q) PROVE FALSE
  <2>1. pc' = pc
    BY <1>5 DEF Works, Swaps, OpenFile, Migrate, Commit, Backup, Copy, LinkSnapshot,
       ListSnapshots, PruneSnapshots, Materialize, Checkpoint, Rename, Tidy, vars
  <2> QED BY <1>2, <2>1
<1>6. ASSUME NEW q \in Pid, Leave(q) \/ EndSwap(q) \/ Die(q) PROVE q = p /\ EndSwap(p)
  <2>1. q = p
    BY <1>1, <1>2, <1>6, Ends
  <2>2. ~Leave(p)
    BY <1>1, <1>2, Ends
  <2>3. ~Die(p)
    BY DEF Die, Crash
  <2> QED BY <1>6, <2>1, <2>2, <2>3
<1>7. ~At(p, "choose")
  BY <1>2 DEF At, SwapSteps
<1>8. PICK q \in Pid :
         \/ Enter(q) \/ EnterSwap(q) \/ Leave(q) \/ Die(q)
         \/ EndSwap(q) /\ UNCHANGED <<main, wal>> /\ (At(q, "done") \/ At(q, "choose"))
         \/ /\ EndSwap(q) /\ RollBack(q)
            /\ job[q].step \in {"choose", "copy", "publish", "checkpoint", "rename", "tidy"}
         \/ pc[q] = "open" /\ Works(q)
         \/ pc[q] = "swap" /\ Swaps(q)
  BY StepsOnFiles, <1>3
<1>9. q = p /\ ~Enter(q) /\ ~EnterSwap(q) /\ ~Works(q) /\ ~Swaps(q)
  BY <1>4, <1>5, <1>6, <1>8
<1>10. EndSwap(p) /\ ~Leave(p) /\ ~Die(p)
  BY <1>1, <1>2, <1>6, <1>8, <1>9, Ends DEF Die, Crash
<1> QED BY <1>7, <1>8, <1>9, <1>10 DEF At

(* A restore, wherever it fails or is killed, leaves readers what it found *)
(* or what it installs; and one that reports a failure on a fresh host     *)
(* leaves no file there.                                                   *)
THEOREM RestoresAreWhole == DbSpec => RestoreIsWhole
<1> DEFINE Whole == \A p \in Pid : Swapping(p) =>
              /\ Live' \in {job[p].was, job[p].install}
              /\ pc'[p] = "idle" /\ p \in alive' /\ ~At(p, "done") /\ job[p].was = {} => Live' = {}
<1>1. FilesInv /\ [DbNext]_allVars => [Whole]_allVars
  <2> SUFFICES ASSUME FilesInv, [DbNext]_allVars, NEW p \in Pid, Swapping(p)
               PROVE  /\ Live' \in {job[p].was, job[p].install}
                      /\ pc'[p] = "idle" /\ p \in alive' /\ ~At(p, "done") /\ job[p].was = {}
                            => Live' = {}
    OBVIOUS
  <2>1. PlacedAt(p) /\ SwapAt(p) /\ SerialInv
    BY DEF FilesInv
  <2>2. pc[p] = "swap" /\ job[p].step \in SwapSteps
    BY <2>1 DEF PlacedAt, Swapping, At
  <2>3. \A q \in Pid : pc[q] # "open" /\ (pc[q] = "swap" => q = p)
    BY <2>1, <2>2, NoneBesideASwap
  <2>4. Live \in {job[p].was, job[p].install}
    BY <2>1, <2>2 DEF SwapAt, SwapSteps, At
  <2>5. Live' \in {job[p].was, job[p].install}
    BY <2>3, <2>4, WhenLiveChanges
  <2>6. ASSUME pc'[p] = "idle", p \in alive', ~At(p, "done"), job[p].was = {}
        PROVE  Live' = {}
    <3>1. RollBack(p) /\ job[p].step \in {"copy", "publish", "checkpoint", "rename", "tidy"}
      BY <2>6, WhenASwapEnds
    <3>2. CASE At(p, "tidy")
      BY <2>6, <3>1, <3>2 DEF RollBack, Live
    <3>3. CASE ~At(p, "tidy")
      <4>1. Live = {}
        BY <2>1, <2>2, <2>6, <3>1, <3>3 DEF SwapAt, At
      <4>2. UNCHANGED <<main, wal>>
        BY <3>1, <3>3 DEF RollBack
      <4> QED BY <4>1, <4>2 DEF Live
    <3> QED BY <3>2, <3>3
  <2> QED BY <2>5, <2>6
<1> QED BY <1>1, FilesInvariant, PTL DEF DbSpec, RestoreIsWhole

-----------------------------------------------------------------------------
(* Names in their order                                                    *)

Above(S, n) == {o \in S : Newer(o, n)}

LEMMA NamesAreNumbers ==
    ASSUME NEW n \in Name
    PROVE  n.at \in 0..MaxSecond /\ n.seq \in 0..MAX_SEQ_PER_SECOND - 1
           /\ n.at \in Nat /\ n.seq \in Nat
BY FilesAssumption DEF Name

LEMMA NamesAreFinite == ASSUME NEW S, S \subseteq Name PROVE IsFiniteSet(S)
<1> DEFINE Pair == (0..MaxSecond) \X (0..MAX_SEQ_PER_SECOND - 1)
           f == [n \in Name |-> <<n.at, n.seq>>]
<1>1. IsFiniteSet(Pair)
  <2>1. IsFiniteSet(0..MaxSecond) /\ IsFiniteSet(0..MAX_SEQ_PER_SECOND - 1)
    BY FS_Interval, FilesAssumption
  <2> QED BY <2>1, FS_Product
<1>2. f \in [Name -> Pair]
  BY NamesAreNumbers
<1>3. \A a, b \in Name : f[a] = f[b] => a = b
  BY DEF Name
<1>4. f \in Injection(Name, Pair)
  BY <1>2, <1>3, Zenon DEF Injection, IsInjective
<1>5. IsFiniteSet(Name)
  BY <1>1, <1>4, FS_Injection
<1> QED BY <1>5, FS_Subset

LEMMA NewerIsAnOrder ==
    ASSUME NEW a \in Name, NEW b \in Name, NEW c \in Name
    PROVE  /\ ~Newer(a, a)
           /\ Newer(a, b) /\ Newer(b, c) => Newer(a, c)
BY NamesAreNumbers DEF Newer

(* Of some names, one that none of them is newer than.                     *)
LEMMA Newest ==
    ASSUME NEW T, T \subseteq Name, T # {}
    PROVE  \E y \in T : \A z \in T : ~Newer(z, y)
<1> DEFINE Uppers == {Above(T, y) : y \in T}
<1>1. Uppers \subseteq FiniteSubsetsOf(T) /\ Uppers # {}
  BY NamesAreFinite DEF Above, FiniteSubsetsOf
<1>2. PICK U \in Uppers : \A V \in Uppers : <<V, U>> \notin StrictSubsetOrdering(T)
  BY <1>1, FS_StrictSubsetOrderingWellFounded, WFMin
<1>3. PICK y \in T : U = Above(T, y)
  BY <1>2
<1>4. ASSUME NEW z \in T, Newer(z, y) PROVE FALSE
  <2>1. Above(T, z) \subseteq Above(T, y) /\ z \in Above(T, y) /\ z \notin Above(T, z)
    BY <1>4, NewerIsAnOrder DEF Above
  <2>2. <<Above(T, z), Above(T, y)>> \in StrictSubsetOrdering(T)
    BY <2>1 DEF StrictSubsetOrdering, Above
  <2> QED BY <1>2, <1>3, <2>2
<1> QED BY <1>4

(* However old the listings: what each of them had KeepLast newer ones     *)
(* than leaves KeepLast newer ones to every name that had them.            *)
LEMMA RetentionLeaves ==
    ASSUME NEW S, S \subseteq Name, NEW D, D \subseteq Name, NEW n \in Name,
           Cardinality(Above(S, n)) >= KeepLast,
           \A y \in D : Cardinality(Above(S, y)) >= KeepLast
    PROVE  Cardinality(Above(S \ D, n)) >= KeepLast
<1> DEFINE T == Above(S, n) \cap D
<1>1. CASE T = {}
  <2>1. Above(S \ D, n) = Above(S, n)
    BY <1>1 DEF Above
  <2> QED BY <2>1
<1>2. CASE T # {}
  <2>1. PICK y \in T : \A z \in T : ~Newer(z, y)
    BY <1>2, Newest DEF Above
  <2>2. Above(S, y) \subseteq Above(S \ D, n)
    BY <2>1, NewerIsAnOrder DEF Above
  <2>3. /\ IsFiniteSet(Above(S \ D, n)) /\ IsFiniteSet(Above(S, y))
    BY NamesAreFinite DEF Above
  <2>4. Cardinality(Above(S, y)) <= Cardinality(Above(S \ D, n))
    BY <2>2, <2>3, FS_Subset
  <2>5. Cardinality(Above(S, y)) >= KeepLast
    OBVIOUS
  <2> QED BY <2>3, <2>4, <2>5, FS_CardinalityType, FilesAssumption
<1> QED BY <1>1, <1>2

-----------------------------------------------------------------------------
(* What the steps do to listings, names and clocks                         *)

(* No listing grows, and no job comes to be of another second than its own *)
(* or the present one.                                                     *)
JobsKept == \A q \in Pid : /\ job'[q].old \subseteq job[q].old
                           /\ job'[q].at \in {0, second, job[q].at}

SnapshotsStay == /\ DOMAIN snapshot \subseteq DOMAIN snapshot'
                 /\ \A n \in DOMAIN snapshot : snapshot'[n] = snapshot[n]

LEMMA JobsKeptByOne ==
    ASSUME FilesTypeOK, NEW p \in Pid,
           \A q \in Pid \ {p} : job'[q] = job[q],
           job'[p].old \subseteq job[p].old, job'[p].at \in {0, second, job[p].at}
    PROVE  JobsKept
BY DEF JobsKept

LEMMA JobsKeptByStep ==
    ASSUME FilesTypeOK, NEW p \in Pid, NEW step \in FileStep, Then(p, step)
    PROVE  JobsKept /\ job'[p] = [job[p] EXCEPT !.step = step]
<1>1. job \in [Pid -> Job] /\ job[p] \in Job
  BY DEF FilesTypeOK
<1> QED BY <1>1 DEF Then, JobsKept, Job

LEMMA JobsKeptByEnd ==
    ASSUME FilesTypeOK, NEW p \in Pid, NEW r \in {NoJob, Ready}, job' = [job EXCEPT ![p] = r]
    PROVE  JobsKept
<1>1. job \in [Pid -> Job] /\ NoJob.old = {} /\ NoJob.at = 0 /\ Ready.old = {} /\ Ready.at = 0
  BY DEF FilesTypeOK, NoJob, Ready
<1> QED BY <1>1 DEF JobsKept

LEMMA OpenFileKeeps ==
    ASSUME FilesTypeOK, NEW p \in Pid, OpenFile(p)
    PROVE  JobsKept /\ job'[p].at = second
<1>1. job \in [Pid -> Job] /\ job[p] \in Job
  BY DEF FilesTypeOK
<1>2. PICK s \in {"copy", "migrate"} :
         job' = [job EXCEPT ![p].why = "migrate", ![p].at = second, ![p].step = s]
  BY DEF OpenFile
<1>3. job'[p] = [job[p] EXCEPT !.why = "migrate", !.at = second, !.step = s]
  BY <1>1, <1>2
<1>4. \A q \in Pid \ {p} : job'[q] = job[q]
  BY <1>1, <1>2
<1>5. job'[p].old = job[p].old /\ job'[p].at = second
  BY <1>1, <1>3 DEF Job
<1> QED BY <1>4, <1>5, JobsKeptByOne

LEMMA BackupKeeps == ASSUME FilesTypeOK, NEW p \in Pid, Backup(p) PROVE JobsKept
<1>1. job \in [Pid -> Job] /\ job[p] \in Job
  BY DEF FilesTypeOK
<1>2. job' = [job EXCEPT ![p].step = "copy", ![p].why = "backup", ![p].at = second]
  BY DEF Backup
<1>3. job'[p] = [job[p] EXCEPT !.step = "copy", !.why = "backup", !.at = second]
  BY <1>1, <1>2
<1>4. \A q \in Pid \ {p} : job'[q] = job[q]
  BY <1>1, <1>2
<1>5. job'[p].old = job[p].old /\ job'[p].at = second
  BY <1>1, <1>3 DEF Job
<1> QED BY <1>4, <1>5, JobsKeptByOne

LEMMA CopyKeeps ==
    ASSUME FilesTypeOK, NEW p \in Pid, Copy(p)
    PROVE  JobsKept /\ job'[p].at = job[p].at
<1>1. job \in [Pid -> Job] /\ job[p] \in Job
  BY DEF FilesTypeOK
<1>2. job' = [job EXCEPT ![p].step = "publish", ![p].copy = Live]
  BY DEF Copy
<1> QED BY <1>1, <1>2 DEF JobsKept, Job

LEMMA LinkKeeps ==
    ASSUME FilesTypeOK, NEW p \in Pid, LinkSnapshot(p)
    PROVE  JobsKept /\ job'[p].at = job[p].at
<1>1. job \in [Pid -> Job] /\ job[p] \in Job
  BY DEF FilesTypeOK
<1>2. PICK s \in FileStep : s = IF job[p].why = "swap" THEN "checkpoint" ELSE "list"
  BY DEF FileStep
<1>3. job' = [job EXCEPT ![p].copy = {}, ![p].step = s]
  BY <1>2 DEF LinkSnapshot
<1>4. job'[p] = [job[p] EXCEPT !.copy = {}, !.step = s]
  BY <1>1, <1>3
<1>5. \A q \in Pid \ {p} : job'[q] = job[q]
  BY <1>1, <1>3
<1>6. job'[p].old = job[p].old /\ job'[p].at = job[p].at
  BY <1>1, <1>4 DEF Job
<1> QED BY <1>5, <1>6, JobsKeptByOne

(* The new name is free, and of the second the snapshot began in.          *)
LEMMA LinkAdds ==
    ASSUME FilesTypeOK, NEW p \in Pid, LinkSnapshot(p)
    PROVE  \E n \in Name, c \in job[p].copy :
              /\ n.at = job[p].at /\ n \notin DOMAIN snapshot
              /\ DOMAIN snapshot' = DOMAIN snapshot \cup {n} /\ snapshot'[n] = c
              /\ SnapshotsStay
<1>1. PICK n \in FreeName(job[p].at), c \in job[p].copy :
         snapshot' = [o \in DOMAIN snapshot \cup {n} |-> IF o = n THEN c ELSE snapshot[o]]
  BY DEF LinkSnapshot
<1>2. n \in Name /\ n.at = job[p].at /\ n \notin DOMAIN snapshot
  BY <1>1 DEF FreeName
<1>3. /\ DOMAIN snapshot' = DOMAIN snapshot \cup {n} /\ snapshot'[n] = c
      /\ \A o \in DOMAIN snapshot : snapshot'[o] = snapshot[o]
  BY <1>1, <1>2
<1> QED BY <1>2, <1>3 DEF SnapshotsStay

LEMMA ListKeeps ==
    ASSUME FilesTypeOK, NEW p \in Pid, ListSnapshots(p)
    PROVE  /\ \A q \in Pid \ {p} : job'[q] = job[q]
           /\ job'[p].old = BeyondKept /\ job'[p].at = job[p].at
<1>1. job \in [Pid -> Job] /\ job[p] \in Job
  BY DEF FilesTypeOK
<1>2. job' = [job EXCEPT ![p].step = "prune", ![p].old = BeyondKept]
  BY DEF ListSnapshots
<1> QED BY <1>1, <1>2 DEF Job

LEMMA PruneKeeps ==
    ASSUME FilesTypeOK, NEW p \in Pid, PruneSnapshots(p)
    PROVE  /\ JobsKept /\ job'[p].step \in {"migrate", "ready", "done"}
           /\ job'[p].step = "migrate" => job'[p].at = job[p].at
<1>1. /\ job \in [Pid -> Job] /\ job[p] \in Job
      /\ Ready.old = {} /\ Ready.at = 0 /\ Ready.step = "ready"
  BY DEF FilesTypeOK, NoJob, Ready
<1>2. PICK r : /\ job' = [job EXCEPT ![p] = r]
               /\ \/ r = [job[p] EXCEPT !.step = "migrate", !.old = {}]
                  \/ r = Ready
                  \/ r = [job[p] EXCEPT !.step = "done", !.old = {}]
  BY <1>1 DEF PruneSnapshots, Job
<1>3. job'[p] = r /\ \A q \in Pid \ {p} : job'[q] = job[q]
  BY <1>1, <1>2
<1>4. /\ r.old = {} /\ r.at \in {0, job[p].at} /\ r.step \in {"migrate", "ready", "done"}
      /\ r.step = "migrate" => r.at = job[p].at
  BY <1>1, <1>2 DEF Job
<1> QED BY <1>3, <1>4, JobsKeptByOne

LEMMA MaterializeKeeps ==
    ASSUME FilesTypeOK, NEW p \in Pid, NEW c, Materialize(p, c) PROVE JobsKept
<1>1. job \in [Pid -> Job] /\ job[p] \in Job
  BY DEF FilesTypeOK
<1>2. PICK s : job' = [job EXCEPT ![p].install = {c}, ![p].was = Live, ![p].why = "swap",
                         ![p].at = second, ![p].step = s]
  BY DEF Materialize
<1>3. job'[p] = [job[p] EXCEPT !.install = {c}, !.was = Live, !.why = "swap", !.at = second, !.step = s]
  BY <1>1, <1>2
<1>4. \A q \in Pid \ {p} : job'[q] = job[q]
  BY <1>1, <1>2
<1>5. job'[p].old = job[p].old /\ job'[p].at = second
  BY <1>1, <1>3 DEF Job
<1> QED BY <1>4, <1>5, JobsKeptByOne

(* Listings are made and snapshots removed nowhere else.                   *)
LEMMA StepsOnSnapshots ==
    ASSUME FilesInv, [DbNext]_allVars
    PROVE  \/ \E p \in Pid : ListSnapshots(p) \/ PruneSnapshots(p) \/ LinkSnapshot(p)
           \/ snapshot' = snapshot /\ JobsKept
<1>t. FilesTypeOK /\ TypeOK
  BY DEF FilesInv, FilesTypeOK
<1>1. CASE Resting
  BY <1>1 DEF Resting, JobsKept
<1>2. ASSUME NEW p \in Pid, Enter(p) \/ EnterSwap(p) PROVE snapshot' = snapshot /\ JobsKept
  BY <1>t, <1>2, Enters, JobsKeptByStep DEF FileStep
<1>3. ASSUME NEW p \in Pid, Leave(p) \/ Die(p) \/ EndSwap(p) PROVE snapshot' = snapshot /\ JobsKept
  BY <1>t, <1>3, Ends, JobsKeptByEnd
<1>4. ASSUME NEW p \in Pid, Works(p)
      PROVE  \/ ListSnapshots(p) \/ PruneSnapshots(p) \/ LinkSnapshot(p)
             \/ snapshot' = snapshot /\ JobsKept
  <2>1. CASE OpenFile(p) \/ Backup(p) \/ Copy(p)
    BY <1>t, <2>1, OpenFileKeeps, BackupKeeps, CopyKeeps DEF OpenFile, Backup, Copy
  <2>2. CASE Migrate(p)
    BY <1>t, <2>2, JobsKeptByEnd DEF Migrate
  <2>3. CASE Commit(p)
    BY <2>3 DEF Commit, JobsKept
  <2> QED BY <1>4, <2>1, <2>2, <2>3 DEF Works
<1>5. ASSUME NEW p \in Pid, Swaps(p)
      PROVE  \/ ListSnapshots(p) \/ PruneSnapshots(p) \/ LinkSnapshot(p)
             \/ snapshot' = snapshot /\ JobsKept
  <2>1. CASE Copy(p)
    BY <1>t, <2>1, CopyKeeps DEF Copy
  <2>2. ASSUME NEW c, Materialize(p, c) PROVE snapshot' = snapshot /\ JobsKept
    BY <1>t, <2>2, MaterializeKeeps DEF Materialize
  <2>3. CASE Checkpoint(p) \/ Rename(p) \/ Tidy(p)
    BY <1>t, <2>3, JobsKeptByStep DEF Checkpoint, Rename, Tidy, FileStep
  <2> QED BY <1>5, <2>1, <2>2, <2>3 DEF Swaps
<1> QED BY StepsOnFiles, <1>1, <1>2, <1>3, <1>4, <1>5

-----------------------------------------------------------------------------
(* Retention                                                               *)

(* Whatever a listing says is old has KeepLast newer ones, and keeps them, *)
(* although others add and prune between the listing and the deletion.     *)
Retained ==
    \A p \in Pid : \A n \in job[p].old : Cardinality(Above(DOMAIN snapshot, n)) >= KeepLast

LEMMA PruningLeaves ==
    ASSUME FilesTypeOK, Retained, NEW p \in Pid, PruneSnapshots(p),
           NEW n \in Name, Cardinality(Above(DOMAIN snapshot, n)) >= KeepLast
    PROVE  Cardinality(Above(DOMAIN snapshot', n)) >= KeepLast
<1>1. DOMAIN snapshot \subseteq Name /\ job[p].old \subseteq Name
  BY DEF FilesTypeOK, Job
<1>2. DOMAIN snapshot' = DOMAIN snapshot \ job[p].old
  BY DEF PruneSnapshots
<1>3. \A y \in job[p].old : Cardinality(Above(DOMAIN snapshot, y)) >= KeepLast
  BY DEF Retained
<1> QED BY <1>1, <1>2, <1>3, RetentionLeaves

LEMMA RetainedStep == FilesInv /\ Retained /\ [DbNext]_allVars => Retained'
<1> SUFFICES ASSUME FilesInv, Retained, [DbNext]_allVars PROVE Retained'
  OBVIOUS
<1>t. /\ FilesTypeOK /\ DOMAIN snapshot \subseteq Name /\ DOMAIN snapshot' \subseteq Name
      /\ \A q \in Pid : job[q].old \subseteq Name
  BY FilesInvStep DEF FilesInv, FilesTypeOK, Job
<1>1. ASSUME JobsKept, SnapshotsStay PROVE Retained'
  <2> SUFFICES ASSUME NEW q \in Pid, NEW n \in job'[q].old
               PROVE  Cardinality(Above(DOMAIN snapshot', n)) >= KeepLast
    BY DEF Retained
  <2>1. n \in job[q].old
    BY <1>1 DEF JobsKept
  <2>2. Cardinality(Above(DOMAIN snapshot, n)) >= KeepLast
    BY <2>1 DEF Retained
  <2>3. Above(DOMAIN snapshot, n) \subseteq Above(DOMAIN snapshot', n)
    BY <1>1 DEF SnapshotsStay, Above
  <2>4. IsFiniteSet(Above(DOMAIN snapshot', n)) /\ IsFiniteSet(Above(DOMAIN snapshot, n))
    BY <1>t, NamesAreFinite DEF Above
  <2>5. Cardinality(Above(DOMAIN snapshot, n)) <= Cardinality(Above(DOMAIN snapshot', n))
    BY <2>3, <2>4, FS_Subset
  <2> QED BY <2>2, <2>4, <2>5, FS_CardinalityType, FilesAssumption
<1>2. ASSUME NEW p \in Pid, ListSnapshots(p) PROVE Retained'
  <2>1. /\ snapshot' = snapshot /\ job'[p].old = BeyondKept
        /\ \A q \in Pid \ {p} : job'[q] = job[q]
    BY <1>t, <1>2, ListKeeps DEF ListSnapshots
  <2>2. \A n \in BeyondKept : Cardinality(Above(DOMAIN snapshot, n)) >= KeepLast
    BY DEF BeyondKept, Above
  <2> QED BY <2>1, <2>2 DEF Retained
<1>3. ASSUME NEW p \in Pid, PruneSnapshots(p) PROVE Retained'
  <2> SUFFICES ASSUME NEW q \in Pid, NEW n \in job'[q].old
               PROVE  Cardinality(Above(DOMAIN snapshot', n)) >= KeepLast
    BY DEF Retained
  <2>1. n \in job[q].old /\ n \in Name
    BY <1>t, <1>3, PruneKeeps DEF JobsKept
  <2>2. Cardinality(Above(DOMAIN snapshot, n)) >= KeepLast
    BY <2>1 DEF Retained
  <2> QED BY <1>t, <1>3, <2>1, <2>2, PruningLeaves
<1>4. ASSUME NEW p \in Pid, LinkSnapshot(p) PROVE Retained'
  BY <1>1, <1>4, <1>t, LinkKeeps, LinkAdds
<1>5. CASE snapshot' = snapshot /\ JobsKept
  BY <1>1, <1>5 DEF SnapshotsStay
<1> QED BY StepsOnSnapshots, <1>2, <1>3, <1>4, <1>5

(* A published snapshot keeps its content until retention takes it, and    *)
(* whoever prunes, on however old a listing, leaves KeepLast others of its *)
(* second or later.                                                        *)
THEOREM SnapshotsStayKept == DbSpec => SnapshotsAreKept
<1> DEFINE A == \A n \in DOMAIN snapshot :
          \/ n \in DOMAIN snapshot' /\ snapshot'[n] = snapshot[n]
          \/ /\ n \notin DOMAIN snapshot'
             /\ Cardinality({o \in DOMAIN snapshot' : o.at >= n.at}) >= KeepLast
<1>1. DbInit => Retained
  BY DEF DbInit, Retained, NoJob
<1>2. ASSUME FilesInv, Retained, [DbNext]_allVars PROVE A
  <2>t. FilesTypeOK /\ DOMAIN snapshot \subseteq Name /\ DOMAIN snapshot' \subseteq Name
    BY <1>2, FilesInvStep DEF FilesInv, FilesTypeOK
  <2>1. SnapshotsStay => A
    BY DEF SnapshotsStay
  <2>2. ASSUME NEW p \in Pid, PruneSnapshots(p), NEW n \in DOMAIN snapshot
        PROVE  \/ n \in DOMAIN snapshot' /\ snapshot'[n] = snapshot[n]
               \/ /\ n \notin DOMAIN snapshot'
                  /\ Cardinality({o \in DOMAIN snapshot' : o.at >= n.at}) >= KeepLast
    <3>1. snapshot' = [o \in DOMAIN snapshot \ job[p].old |-> snapshot[o]]
      BY <2>2 DEF PruneSnapshots
    <3>2. CASE n \notin job[p].old
      BY <3>1, <3>2
    <3>3. CASE n \in job[p].old
      <4> DEFINE Later == {o \in DOMAIN snapshot' : o.at >= n.at}
      <4>1. Cardinality(Above(DOMAIN snapshot', n)) >= KeepLast
        BY <1>2, <2>t, <2>2, <3>3, PruningLeaves DEF Retained
      <4>2. Above(DOMAIN snapshot', n) \subseteq Later
        BY <2>t, NamesAreNumbers DEF Above, Newer
      <4>3. IsFiniteSet(Later) /\ IsFiniteSet(Above(DOMAIN snapshot', n))
        BY <2>t, NamesAreFinite DEF Above
      <4>4. Cardinality(Above(DOMAIN snapshot', n)) <= Cardinality(Later)
        BY <4>2, <4>3, FS_Subset
      <4>5. Cardinality(Later) >= KeepLast
        BY <4>1, <4>3, <4>4, FS_CardinalityType, FilesAssumption
      <4> QED BY <3>1, <3>3, <4>5
    <3> QED BY <3>2, <3>3
  <2>3. ASSUME NEW p \in Pid, LinkSnapshot(p) PROVE A
    BY <2>t, <2>1, <2>3, LinkAdds
  <2>4. snapshot' = snapshot => A
    BY <2>1 DEF SnapshotsStay
  <2> QED BY <1>2, <2>2, <2>3, <2>4, StepsOnSnapshots DEF ListSnapshots
<1>3. FilesInv /\ Retained /\ [DbNext]_allVars => [A]_allVars
  BY <1>2
<1> QED BY <1>1, <1>3, RetainedStep, FilesInvariant, PTL DEF DbSpec, SnapshotsAreKept

-----------------------------------------------------------------------------
(* The way back                                                            *)

(* No name, and no job, is of a second to come.                            *)
Clocked == /\ \A n \in DOMAIN snapshot : n.at <= second
           /\ \A q \in Pid : job[q].at <= second

LEMMA ClockMoves == [DbNext]_allVars => second' \in {second, second + 1}
<1>1. ASSUME NEW p \in Pid, Serially(p) PROVE second' = second
  BY <1>1 DEF Serially, fileVars, Crossing, Enter, EnterSwap, Restored, Reject, Exhausted,
     CloseFile, Fail, FailOpener, FailRestore, Leave, EndSwap, DiskFull
<1>2. ASSUME NEW p \in Pid, FileWork(p) PROVE second' = second
  BY <1>2 DEF FileWork, OpenFile, Migrate, Copy, LinkSnapshot, ListSnapshots, PruneSnapshots,
     Materialize, Checkpoint, Rename, Tidy
<1> QED BY <1>1, <1>2 DEF DbNext, Commit, Backup, Die, fileVars, allVars, Tick

LEMMA ClockedStep == FilesInv /\ Clocked /\ [DbNext]_allVars => Clocked'
<1> SUFFICES ASSUME FilesInv, Clocked, [DbNext]_allVars PROVE Clocked'
  OBVIOUS
<1>0. /\ FilesTypeOK /\ second \in Nat /\ second' \in Nat /\ second <= second'
      /\ DOMAIN snapshot \subseteq Name /\ \A q \in Pid : job[q].at \in Nat
  BY ClockMoves, FilesAssumption DEF FilesInv, FilesTypeOK, Job
<1>n. \A n \in DOMAIN snapshot : n.at \in Nat /\ n.at <= second
  BY <1>0, NamesAreNumbers DEF Clocked
<1>j. \A q \in Pid : job[q].at <= second
  BY DEF Clocked
<1>1. ASSUME JobsKept PROVE \A q \in Pid : job'[q].at <= second'
  BY <1>0, <1>1, <1>j DEF JobsKept
<1>2. ASSUME NEW p \in Pid, LinkSnapshot(p) PROVE Clocked'
  <2>1. PICK n \in Name : n.at = job[p].at /\ DOMAIN snapshot' = DOMAIN snapshot \cup {n}
    BY <1>0, <1>2, LinkAdds
  <2>2. \A o \in DOMAIN snapshot' : o.at <= second'
    BY <1>0, <1>n, <1>j, <2>1
  <2> QED BY <1>0, <1>1, <1>2, <2>2, LinkKeeps DEF Clocked
<1>3. ASSUME NEW p \in Pid, PruneSnapshots(p) PROVE Clocked'
  <2>1. DOMAIN snapshot' \subseteq DOMAIN snapshot
    BY <1>3 DEF PruneSnapshots
  <2> QED BY <1>0, <1>1, <1>3, <1>n, <2>1, PruneKeeps DEF Clocked
<1>4. ASSUME NEW p \in Pid, ListSnapshots(p) PROVE Clocked'
  <2>1. snapshot' = snapshot /\ \A q \in Pid : job'[q].at = job[q].at
    BY <1>0, <1>4, ListKeeps DEF ListSnapshots
  <2> QED BY <1>0, <1>n, <1>j, <2>1 DEF Clocked
<1>5. CASE snapshot' = snapshot /\ JobsKept
  BY <1>0, <1>1, <1>n, <1>5 DEF Clocked
<1> QED BY StepsOnSnapshots, <1>2, <1>3, <1>4, <1>5

(* Between deciding on a snapshot and the migration, over a database that  *)
(* has still to be migrated: what has been snapshot since the decision, or *)
(* is about to be, is of that schema, ...                                  *)
Behind(p) == pc[p] = "open" /\ job[p].step \in {"copy", "publish", "list", "prune", "migrate"}

SinceThen(p, c) ==
    /\ \A n \in DOMAIN snapshot : n.at > job[p].at => snapshot[n].schema = c.schema
    /\ \A q \in Pid : At(q, "publish") /\ job[q].at > job[p].at =>
          \A d \in job[q].copy : d.schema = c.schema

(* ... and from the publishing on there is a way back.                     *)
GuardedAt(p) == Behind(p) =>
    \A c \in Live : c.schema < Build =>
        /\ SinceThen(p, c)
        /\ job[p].step \in {"list", "prune", "migrate"} /\ c.schema # 0 => WayBack(p, c)

(* It is enough that the files are as they were, that p is where it was,   *)
(* and that nobody comes to publish.                                       *)
LEMMA NothingNew ==
    ASSUME NEW p \in Pid, GuardedAt(p), Live' = Live, snapshot' = snapshot,
           pc'[p] = pc[p] /\ job'[p] = job[p],
           \A q \in Pid : job'[q] = job[q] \/ job'[q].step # "publish"
    PROVE  GuardedAt(p)'
<1>1. \A c \in Live : SinceThen(p, c) => SinceThen(p, c)'
  BY DEF SinceThen, At
<1>2. \A c \in Live : WayBack(p, c) => WayBack(p, c)'
  BY DEF WayBack
<1> QED BY <1>1, <1>2 DEF GuardedAt, Behind

LEMMA WhenMigrated ==
    ASSUME FilesInv', NEW q \in Pid, pc'[q] = "open",
           job'[q].step = "ready" \/ job'[q].why = "backup"
    PROVE  \A p \in Pid : GuardedAt(p)'
<1>1. ConnectedAt(q)'
  BY DEF FilesInv
<1>2. \A c \in Live' : c.schema = Build
  BY <1>1 DEF ConnectedAt, At
<1> QED BY <1>2, FilesAssumption DEF GuardedAt

LEMMA OpeningGuards ==
    ASSUME FilesInv, Clocked, NEW q \in Pid, pc[q] = "open", OpenFile(q),
           \A p \in Pid : GuardedAt(p)
    PROVE  \A p \in Pid : GuardedAt(p)'
<1>0. /\ FilesTypeOK /\ Framed /\ second \in Nat /\ snapshot' = snapshot /\ pc' = pc
      /\ DOMAIN snapshot \subseteq Name /\ \A r \in Pid : job[r].at \in Nat
      /\ \A n \in DOMAIN snapshot : n.at \in Nat
  BY NamesAreNumbers, FilesAssumption DEF FilesInv, FilesTypeOK, Job, OpenFile, vars
<1>1. /\ \A r \in Pid \ {q} : job'[r] = job[r]
      /\ job'[q].step \in {"copy", "migrate"} /\ job'[q].at = second
  BY <1>0, OpenFileMoves, OpenFileKeeps
<1>2. \A c : SinceThen(q, c)'
  <2>1. \A n \in DOMAIN snapshot' : ~(n.at > job'[q].at)
    BY <1>0, <1>1 DEF Clocked
  <2>2. \A r \in Pid : job'[r].step = "publish" => ~(job'[r].at > job'[q].at)
    BY <1>0, <1>1 DEF Clocked
  <2> QED BY <2>1, <2>2 DEF SinceThen, At
<1>3. CASE main = {}
  <2>1. Live' = {Blank}
    <3>1. Live = {} /\ wal = {} /\ wal' = wal /\ main' = {Blank}
      BY <1>0, <1>3, FramedMain DEF OpenFile, Framed
    <3> QED BY <3>1 DEF Live
  <2>2. GuardedAt(q)'
    BY <1>2, <2>1 DEF GuardedAt, Blank
  <2>3. ASSUME NEW p \in Pid \ {q} PROVE GuardedAt(p)'
    <3>1. ConnectedAt(p)
      BY DEF FilesInv
    <3>2. ~Behind(p)
      BY <1>3, <3>1 DEF ConnectedAt, Connected, Behind, At
    <3> QED BY <1>0, <1>1, <3>2 DEF GuardedAt, Behind
  <2> QED BY <2>2, <2>3
<1>4. CASE main # {}
  <2>1. Live' = Live
    BY <1>4 DEF OpenFile, Live
  <2>2. job'[q].step = "migrate" => \A c \in Live : ~NeedsSnapshot(c)
    <3>1. SUFFICES ASSUME NEW c \in Live, NeedsSnapshot(c) PROVE job'[q].step = "copy"
      BY <1>1
    <3>2. job' = [job EXCEPT ![q].why = "migrate", ![q].at = second, ![q].step = "copy"]
      BY <1>4, <3>1 DEF OpenFile
    <3>3. job[q] \in Job /\ job \in [Pid -> Job]
      BY <1>0 DEF FilesTypeOK
    <3> QED BY <3>2, <3>3 DEF Job
  <2>3. \A c \in Live : NeedsSnapshot(c) <=> c.schema # 0 /\ c.schema < Build
    <3>1. \A c \in Live : c.schema \in Nat
      BY <1>0, OneLive, ContentNames
    <3> QED BY <3>1 DEF NeedsSnapshot
  <2>4. GuardedAt(q)'
    BY <1>1, <1>2, <2>1, <2>2, <2>3 DEF GuardedAt
  <2>5. ASSUME NEW p \in Pid \ {q} PROVE GuardedAt(p)'
    BY <1>0, <1>1, <2>1, NothingNew
  <2> QED BY <2>4, <2>5
<1> QED BY <1>3, <1>4

LEMMA CopyingGuards ==
    ASSUME FilesInv, NEW q \in Pid, Copy(q), NEW p \in Pid, GuardedAt(p)
    PROVE  GuardedAt(p)'
<1>0. FilesTypeOK /\ UNCHANGED <<pc, main, wal, snapshot>> /\ At(q, "copy") /\ Live' = Live
  BY DEF FilesInv, Copy, vars, Live
<1>1. /\ \A r \in Pid \ {q} : job'[r] = job[r]
      /\ job'[q].step = "publish" /\ job'[q].copy = Live /\ job'[q].at = job[q].at
  BY <1>0, CopyMoves, CopyKeeps DEF Moves
<1>2. job'[p].at = job[p].at
  BY <1>1
<1>3. ASSUME NEW c \in Live, SinceThen(p, c) PROVE SinceThen(p, c)'
  <2>1. \A d \in job'[q].copy : d.schema = c.schema
    BY <1>0, <1>1, OneLive
  <2> QED BY <1>0, <1>1, <1>2, <1>3, <2>1 DEF SinceThen, At
<1>4. \A c \in Live : WayBack(p, c) => WayBack(p, c)'
  BY <1>0, <1>2 DEF WayBack
<1>5. Behind(p)' => Behind(p)
  BY <1>0, <1>1 DEF Behind, At
<1>6. p = q => job'[p].step \notin {"list", "prune", "migrate"}
  BY <1>1
<1>7. p # q => job'[p] = job[p]
  BY <1>1
<1> QED BY <1>0, <1>3, <1>4, <1>5, <1>6, <1>7 DEF GuardedAt

LEMMA LinkingGuards ==
    ASSUME FilesInv, NEW q \in Pid, pc[q] = "open", LinkSnapshot(q), NEW p \in Pid, GuardedAt(p)
    PROVE  GuardedAt(p)'
<1>0. /\ FilesTypeOK /\ UNCHANGED <<pc, main, wal>> /\ At(q, "publish") /\ Live' = Live
      /\ DOMAIN snapshot \subseteq Name /\ job[q].why # "swap"
  BY DEF FilesInv, FilesTypeOK, PlacedAt, LinkSnapshot, vars, Live
<1>1. /\ \A r \in Pid \ {q} : job'[r] = job[r]
      /\ job'[q].step = "list" /\ job'[q].at = job[q].at
  BY <1>0, LinkMoves, LinkKeeps DEF Moves
<1>2. PICK n \in Name, d \in job[q].copy :
         /\ n.at = job[q].at /\ DOMAIN snapshot' = DOMAIN snapshot \cup {n} /\ snapshot'[n] = d
         /\ SnapshotsStay
  BY <1>0, LinkAdds
<1>3. job'[p].at = job[p].at /\ \A r \in Pid : job'[r] = job[r] \/ job'[r].step # "publish"
  BY <1>1
<1>4. ASSUME NEW c \in Live, SinceThen(p, c) PROVE SinceThen(p, c)'
  <2>1. n.at > job[p].at => d.schema = c.schema
    BY <1>0, <1>2, <1>4 DEF SinceThen
  <2>2. \A o \in DOMAIN snapshot' : o.at > job'[p].at => snapshot'[o].schema = c.schema
    BY <1>2, <1>3, <1>4, <2>1 DEF SinceThen, SnapshotsStay
  <2> QED BY <1>3, <1>4, <2>2 DEF SinceThen, At
<1>5. \A c \in Live : WayBack(p, c) => WayBack(p, c)'
  BY <1>2, <1>3 DEF WayBack, SnapshotsStay
<1>6. p = q => \A c : WayBack(p, c)'
  BY <1>1, <1>2 DEF WayBack
<1>7. Behind(p)' => Behind(p)
  BY <1>0, <1>1 DEF Behind, At
<1>8. p # q => job'[p] = job[p]
  BY <1>1
<1> QED BY <1>0, <1>4, <1>5, <1>6, <1>7, <1>8 DEF GuardedAt

(* Retention takes a way back only where a newer snapshot is one.          *)
LEMMA PruningGuards ==
    ASSUME FilesInv, Retained, NEW q \in Pid, PruneSnapshots(q), NEW p \in Pid, GuardedAt(p)
    PROVE  GuardedAt(p)'
<1>0. /\ FilesTypeOK /\ UNCHANGED <<pc, main, wal>> /\ At(q, "prune") /\ Live' = Live
      /\ DOMAIN snapshot \subseteq Name /\ job[p].at \in Nat
      /\ \A m \in Name : m.at \in Nat
  BY NamesAreNumbers DEF FilesInv, FilesTypeOK, PruneSnapshots, vars, Live, Job
<1>1. /\ \A r \in Pid \ {q} : job'[r] = job[r]
      /\ job'[q].step \in {"migrate", "ready", "done"}
      /\ job'[q].step = "migrate" => job'[q].at = job[q].at
  <2>1. job[q].why = "swap" \/ job[q].why # "swap"
    OBVIOUS
  <2> QED BY <1>0, <2>1, PruneMoves, PruneKeeps DEF Moves
<1>2. /\ DOMAIN snapshot' \subseteq DOMAIN snapshot
      /\ \A o \in DOMAIN snapshot' : snapshot'[o] = snapshot[o]
      /\ DOMAIN snapshot' = DOMAIN snapshot \ job[q].old
  BY DEF PruneSnapshots
<1>3. Behind(p)' => Behind(p) /\ job'[p].at = job[p].at
  BY <1>0, <1>1 DEF Behind, At
<1>4. \A r \in Pid : job'[r] = job[r] \/ job'[r].step # "publish"
  BY <1>1
<1>5. ASSUME NEW c \in Live, SinceThen(p, c), job'[p].at = job[p].at PROVE SinceThen(p, c)'
  BY <1>2, <1>4, <1>5 DEF SinceThen, At
<1>6. ASSUME NEW c \in Live, SinceThen(p, c), WayBack(p, c), job'[p].at = job[p].at
      PROVE  WayBack(p, c)'
  <2>1. PICK n \in DOMAIN snapshot : \/ n.at >= job[p].at /\ snapshot[n].schema = c.schema
                                     \/ n.at = job[p].at
    BY <1>6 DEF WayBack
  <2>2. CASE n \in DOMAIN snapshot'
    BY <1>2, <1>6, <2>1, <2>2 DEF WayBack
  <2>3. CASE n \notin DOMAIN snapshot'
    <3>1. n \in job[q].old /\ n \in Name
      BY <1>0, <1>2, <2>3
    <3>2. Cardinality(Above(DOMAIN snapshot', n)) >= KeepLast
      BY <1>0, <3>1, PruningLeaves DEF Retained
    <3>3. PICK o \in DOMAIN snapshot' : Newer(o, n)
      BY <3>2, FS_EmptySet, FilesAssumption DEF Above
    <3>4. o \in Name /\ o.at \in Nat /\ n.at \in Nat /\ o.at >= n.at
      BY <1>0, <1>2, <3>1, <3>3 DEF Newer
    <3>5. o.at = job[p].at \/ o.at > job[p].at
      BY <1>0, <2>1, <3>4
    <3>6. o.at > job[p].at => snapshot[o].schema = c.schema
      BY <1>2, <1>6, <3>3 DEF SinceThen
    <3> QED BY <1>0, <1>2, <1>6, <3>3, <3>4, <3>5, <3>6 DEF WayBack
  <2> QED BY <2>2, <2>3
<1>7. job'[p].step \in {"list", "prune", "migrate"} => job[p].step \in {"list", "prune", "migrate"}
  BY <1>0, <1>1 DEF At
<1> QED BY <1>0, <1>3, <1>5, <1>6, <1>7 DEF GuardedAt

GuardInv == FilesInv /\ Retained /\ Clocked /\ \A p \in Pid : GuardedAt(p)

LEMMA GuardedStep == GuardInv /\ [DbNext]_allVars => GuardInv'
<1> SUFFICES ASSUME GuardInv, [DbNext]_allVars PROVE \A p \in Pid : GuardedAt(p)'
  BY FilesInvStep, RetainedStep, ClockedStep DEF GuardInv
<1>0. /\ FilesInv /\ FilesInv' /\ Retained /\ Clocked /\ FilesTypeOK /\ TypeOK /\ Framed /\ SerialInv
      /\ \A p \in Pid : GuardedAt(p)
  BY FilesInvStep DEF GuardInv, FilesInv, FilesTypeOK
<1>1. CASE Resting
  <2>1. Live' = Live
    BY <1>1 DEF Resting, Live
  <2> SUFFICES ASSUME NEW p \in Pid, Behind(p)' PROVE GuardedAt(p)'
    BY DEF GuardedAt
  <2>2. pc'[p] = pc[p]
    BY <1>1 DEF Resting, StaysPut, Behind
  <2> QED BY <1>0, <1>1, <2>1, <2>2, NothingNew DEF Resting
<1>2. ASSUME NEW q \in Pid, Enter(q) \/ EnterSwap(q), NEW p \in Pid PROVE GuardedAt(p)'
  <2>1. /\ \A r \in Pid \ {q} : pc'[r] = pc[r] /\ job'[r] = job[r]
        /\ job'[q].step \in {"file", "choose"}
        /\ UNCHANGED <<main, wal, snapshot>>
    BY <1>0, <1>2, Enters, StepMoves DEF FileStep, Moves
  <2>2. Live' = Live
    BY <2>1 DEF Live
  <2>3. CASE p = q
    BY <2>1, <2>3 DEF GuardedAt, Behind
  <2>4. CASE p # q
    BY <1>0, <2>1, <2>2, <2>4, NothingNew
  <2> QED BY <2>3, <2>4
<1>3. ASSUME NEW q \in Pid, Leave(q) \/ Die(q), NEW p \in Pid PROVE GuardedAt(p)'
  <2>1. /\ pc'[q] = "idle" /\ snapshot' = snapshot /\ job'[q].step = "none"
        /\ \A r \in Pid \ {q} : pc'[r] = pc[r] /\ job'[r] = job[r]
    BY <1>0, <1>3, Ends, EndMoves
  <2>2. Live' = Live
    BY <1>0, <1>3, DisconnectTypes DEF Leave, Die, Live
  <2>3. CASE p = q
    BY <2>1, <2>3 DEF GuardedAt, Behind
  <2>4. CASE p # q
    BY <1>0, <2>1, <2>2, <2>4, NothingNew
  <2> QED BY <2>3, <2>4
<1>4. ASSUME NEW q \in Pid, pc[q] = "swap", \A r \in Pid \ {q} : pc'[r] = pc[r],
             pc'[q] # "open", NEW p \in Pid
      PROVE  GuardedAt(p)'
  BY <1>0, <1>4, NoneBesideASwap DEF GuardedAt, Behind
<1>5. ASSUME NEW q \in Pid, EndSwap(q), NEW p \in Pid PROVE GuardedAt(p)'
  <2>1. pc[q] = "swap" /\ pc'[q] = "idle" /\ \A r \in Pid \ {q} : pc'[r] = pc[r]
    BY <1>0, <1>5, Ends
  <2> QED BY <1>4, <2>1
<1>6. ASSUME NEW q \in Pid, pc[q] = "swap", Swaps(q), NEW p \in Pid PROVE GuardedAt(p)'
  <2>1. pc' = pc
    BY <1>6 DEF Swaps, Materialize, Copy, LinkSnapshot, Checkpoint, Rename, Tidy,
       ListSnapshots, PruneSnapshots, vars
  <2> QED BY <1>4, <1>6, <2>1
<1>7. ASSUME NEW q \in Pid, pc[q] = "open", Works(q), NEW p \in Pid PROVE GuardedAt(p)'
  <2>1. CASE OpenFile(q)
    BY <1>0, <1>7, <2>1, OpeningGuards
  <2>2. CASE Migrate(q) \/ Commit(q)
    <3>1. pc' = pc /\ job'[q].step = "ready"
      BY <1>0, <2>2, ReadyMoves DEF Migrate, Commit, At, vars
    <3> QED BY <1>0, <1>7, <3>1, WhenMigrated
  <2>3. CASE Backup(q)
    <3>1. pc' = pc /\ job'[q].why = "backup"
      BY <1>0, <2>3, BackupMoves DEF Backup, Moves, vars
    <3> QED BY <1>0, <1>7, <3>1, WhenMigrated
  <2>4. CASE Copy(q) \/ LinkSnapshot(q) \/ PruneSnapshots(q)
    BY <1>0, <1>7, <2>4, CopyingGuards, LinkingGuards, PruningGuards
  <2>5. CASE ListSnapshots(q)
    <3>1. /\ UNCHANGED <<pc, main, wal, snapshot>> /\ At(q, "list")
          /\ \A r \in Pid \ {q} : job'[r] = job[r]
          /\ job'[q].step = "prune" /\ job'[q].at = job[q].at
      BY <1>0, <2>5, ListMoves, ListKeeps DEF ListSnapshots, Moves, vars
    <3>2. Live' = Live
      BY <3>1 DEF Live
    <3>3. CASE p = q
      <4>1. \A c \in Live : SinceThen(p, c) => SinceThen(p, c)'
        BY <3>1, <3>3 DEF SinceThen, At
      <4>2. \A c \in Live : WayBack(p, c) => WayBack(p, c)'
        BY <3>1, <3>3 DEF WayBack
      <4> QED BY <1>0, <3>1, <3>2, <3>3, <4>1, <4>2 DEF GuardedAt, Behind, At
    <3>4. CASE p # q
      BY <1>0, <3>1, <3>2, <3>4, NothingNew
    <3> QED BY <3>3, <3>4
  <2> QED BY <1>7, <2>1, <2>2, <2>3, <2>4, <2>5 DEF Works
<1> QED BY <1>0, StepsOnFiles, <1>1, <1>2, <1>3, <1>5, <1>6, <1>7

(* No migration goes ahead without a snapshot of the old schema to go back *)
(* to, taken no earlier than the process started (or displaced by another  *)
(* of that very second): whoever adds, prunes, fails or dies meanwhile.    *)
THEOREM MigrationsAreGuarded == DbSpec => MigrationIsGuarded
<1> DEFINE A == \A p \in Pid, c \in Live :
          At(p, "migrate") /\ At(p, "ready")' /\ c.schema \in 1..Build - 1 => WayBack(p, c)
<1>1. DbInit => Retained /\ Clocked /\ \A p \in Pid : GuardedAt(p)
  <2> SUFFICES ASSUME DbInit PROVE Retained /\ Clocked /\ \A p \in Pid : GuardedAt(p)
    OBVIOUS
  <2>1. /\ \A p \in Pid : pc[p] = "idle" /\ job[p] = NoJob
        /\ DOMAIN snapshot = {} /\ second = 0
    BY DEF DbInit, Init
  <2>2. NoJob.old = {} /\ NoJob.at = 0
    BY DEF NoJob
  <2> QED BY <2>1, <2>2 DEF Retained, Clocked, GuardedAt, Behind
<1>2. ASSUME GuardInv PROVE A
  <2> SUFFICES ASSUME NEW p \in Pid, NEW c \in Live, At(p, "migrate"), c.schema \in 1..Build - 1
               PROVE  WayBack(p, c)
    OBVIOUS
  <2>1. PlacedAt(p) /\ GuardedAt(p)
    BY <1>2 DEF GuardInv, FilesInv
  <2>2. Behind(p)
    BY <2>1 DEF PlacedAt, Behind, At, SwapSteps
  <2>3. c.schema < Build /\ c.schema # 0
    BY FilesAssumption
  <2> QED BY <2>1, <2>2, <2>3 DEF GuardedAt, At
<1>3. DbInit => GuardInv
  BY <1>1, FilesInvInit DEF GuardInv
<1>4. GuardInv /\ [DbNext]_allVars => [A]_allVars
  BY <1>2
<1> QED BY <1>3, <1>4, GuardedStep, PTL DEF DbSpec, MigrationIsGuarded
=============================================================================
