------------------------------- MODULE DbLock -------------------------------
(***************************************************************************)
(* The interlock of src/db/lock.ts around the live database: openers (the  *)
(* server, the jobs, the command line) coexist and leave a presence file   *)
(* per pid; a restore publishes an exclusive marker and runs alone.  Each  *)
(* side publishes its own flag before it reads the other's.                *)
(*                                                                         *)
(* A file comes to be in two steps, created and then written; one that     *)
(* looks stale is removed in two steps, judged and then unlinked.  Crashes *)
(* leave files behind, and a pid may be given to a new process.            *)
(***************************************************************************)
EXTENDS Naturals

CONSTANT Pid   \* the pids of Bryce's processes

VARIABLES
    alive,     \* the pids that name a process
    reused,    \* history: those that named an earlier one, which died
    presence,  \* .bryce.lock/<pid>.json: absent, created but empty, or written
    marker,    \* .bryce.restore.lock: NoMarker, or who created it and whether written
    pc,        \* where each process is
    restore    \* what a process holds while it acquires the restore lock

vars == <<alive, reused, presence, marker, pc, restore>>

MarkerAttempts == 3

FileState == {"none", "empty", "written"}
NoMarker  == [owner |-> {}, written |-> FALSE]
Marker    == {NoMarker} \cup [owner : {{p} : p \in Pid}, written : BOOLEAN]

Opening   == {"register", "check", "open"}
Restoring == {"publish", "judge", "clear", "mark", "list", "scan", "drop", "swap"}
Phase     == {"idle"} \cup Opening \cup Restoring

(* tries: attempts at the marker; todo: entries of the registry not read   *)
(* yet; stale: the entry found dead; busy: a live holder was seen.         *)
Acquiring == [tries : 0..MarkerAttempts, todo : SUBSET Pid, stale : SUBSET Pid,
              busy : BOOLEAN]

NotAcquiring == [tries |-> 0, todo |-> {}, stale |-> {}, busy |-> FALSE]

Init ==
    /\ alive = Pid
    /\ reused = {}
    /\ presence = [p \in Pid |-> "none"]
    /\ marker = NoMarker
    /\ pc = [p \in Pid |-> "idle"]
    /\ restore = [p \in Pid |-> NotAcquiring]

Goto(p, phase) == pc' = [pc EXCEPT ![p] = phase]

(* readOwner with isProcessAlive: an empty file has no owner.              *)
LiveEntry(p) == presence[p] = "written" /\ p \in alive

BugOwnerIsEnough == marker.written

LiveMarker == marker.written /\ marker.owner \subseteq alive

-----------------------------------------------------------------------------
(* Openers: acquireOpenLock, and the release when they close               *)

Open(p) ==
    /\ p \in alive /\ pc[p] = "idle"
    /\ presence' = [presence EXCEPT ![p] = "empty"]
    /\ Goto(p, "register")
    /\ UNCHANGED <<alive, reused, marker, restore>>

(* What is written to a file that was unlinked meanwhile is lost.          *)
Register(p) ==
    /\ pc[p] = "register"
    /\ presence' = [presence EXCEPT ![p] = IF @ = "empty" THEN "written" ELSE @]
    /\ Goto(p, "check")
    /\ UNCHANGED <<alive, reused, marker, restore>>

Admitted(p) ==
    /\ pc[p] = "check"
    /\ ~LiveMarker
    /\ Goto(p, "open")
    /\ UNCHANGED <<alive, reused, presence, marker, restore>>

Deregister(p) ==
    /\ presence' = [presence EXCEPT ![p] = "none"]
    /\ Goto(p, "idle")
    /\ UNCHANGED <<alive, reused, marker, restore>>

Refused(p) == pc[p] = "check" /\ LiveMarker /\ Deregister(p)

Close(p) == pc[p] = "open" /\ Deregister(p)

-----------------------------------------------------------------------------
(* Restores: acquireRestoreLock, the swap, and the release                 *)

EndRestore(p) ==
    /\ Goto(p, "idle")
    /\ restore' = [restore EXCEPT ![p] = NotAcquiring]

Restore(p) ==
    /\ p \in alive /\ pc[p] = "idle"
    /\ Goto(p, "publish")
    /\ UNCHANGED <<alive, reused, presence, marker, restore>>

AttemptsLeft(p) == restore[p].tries < MarkerAttempts

(* O_CREAT with O_EXCL: created, or EEXIST and the owner is to be read.    *)
Publish(p) ==
    /\ pc[p] = "publish"
    /\ AttemptsLeft(p)
    /\ restore' = [restore EXCEPT ![p].tries = @ + 1]
    /\ \/ /\ marker = NoMarker
          /\ marker' = [owner |-> {p}, written |-> FALSE]
          /\ Goto(p, "mark")
       \/ /\ marker # NoMarker
          /\ Goto(p, "judge")
          /\ UNCHANGED marker
    /\ UNCHANGED <<alive, reused, presence>>

GiveUp(p) ==
    /\ pc[p] = "publish"
    /\ ~AttemptsLeft(p)
    /\ EndRestore(p)
    /\ UNCHANGED <<alive, reused, presence, marker>>

BugNoSelfHeal == marker # NoMarker

AnotherRestores == LiveMarker

Judge(p) ==
    /\ pc[p] = "judge"
    /\ \/ AnotherRestores /\ EndRestore(p)
       \/ ~AnotherRestores /\ Goto(p, "clear") /\ UNCHANGED restore
    /\ UNCHANGED <<alive, reused, presence, marker>>

Clear(p) ==
    /\ pc[p] = "clear"
    /\ marker' = NoMarker
    /\ Goto(p, "publish")
    /\ UNCHANGED <<alive, reused, presence, restore>>

Mark(p) ==
    /\ pc[p] = "mark"
    /\ marker' = IF marker.owner = {p} THEN [marker EXCEPT !.written = TRUE] ELSE marker
    /\ Goto(p, "list")
    /\ UNCHANGED <<alive, reused, presence, restore>>

(* liveHolders: the directory is listed, then each entry is read.          *)
List(p) ==
    /\ pc[p] = "list"
    /\ restore' = [restore EXCEPT ![p].todo = {q \in Pid : presence[q] # "none"}]
    /\ Goto(p, "scan")
    /\ UNCHANGED <<alive, reused, presence, marker>>

BugLastEntryWins(p, q) ==
    /\ pc[p] = "scan" /\ q \in restore[p].todo
    /\ restore' = [restore EXCEPT ![p].todo  = @ \ {q},
                                  ![p].stale = IF LiveEntry(q) THEN {} ELSE {q},
                                  ![p].busy  = LiveEntry(q)]
    /\ Goto(p, IF LiveEntry(q) THEN "scan" ELSE "drop")
    /\ UNCHANGED <<alive, reused, presence, marker>>

Read(p, q) ==
    /\ pc[p] = "scan" /\ q \in restore[p].todo
    /\ restore' = [restore EXCEPT ![p].todo  = @ \ {q},
                                  ![p].stale = IF LiveEntry(q) THEN {} ELSE {q},
                                  ![p].busy  = @ \/ LiveEntry(q)]
    /\ Goto(p, IF LiveEntry(q) THEN "scan" ELSE "drop")
    /\ UNCHANGED <<alive, reused, presence, marker>>

Drop(p) ==
    /\ pc[p] = "drop"
    /\ presence' = [q \in Pid |-> IF q \in restore[p].stale THEN "none" ELSE presence[q]]
    /\ restore' = [restore EXCEPT ![p].stale = {}]
    /\ Goto(p, "scan")
    /\ UNCHANGED <<alive, reused, marker>>

Swap(p) ==
    /\ pc[p] = "scan" /\ restore[p].todo = {} /\ ~restore[p].busy
    /\ Goto(p, "swap")
    /\ UNCHANGED <<alive, reused, presence, marker, restore>>

(* releaseMarker: only a marker that names this process is unlinked.       *)
BugKeepsMarker(p) == marker' = marker

releaseMarker(p) ==
    marker' = IF marker.owner = {p} /\ marker.written THEN NoMarker ELSE marker

Withdraw(p) ==
    /\ pc[p] = "scan" /\ restore[p].todo = {} /\ restore[p].busy
    /\ releaseMarker(p)
    /\ EndRestore(p)
    /\ UNCHANGED <<alive, reused, presence>>

Finish(p) ==
    /\ pc[p] = "swap"
    /\ releaseMarker(p)
    /\ EndRestore(p)
    /\ UNCHANGED <<alive, reused, presence>>

-----------------------------------------------------------------------------
(* Failures                                                                *)

(* The write throws (a full disk): the created file stays, empty.          *)
WriteThrows(p) ==
    /\ pc[p] \in {"register", "mark"}
    /\ EndRestore(p)
    /\ UNCHANGED <<alive, reused, presence, marker>>

(* A killed process leaves its files behind.                               *)
Crash(p) ==
    /\ p \in alive
    /\ alive' = alive \ {p}
    /\ reused' = reused \ {p}
    /\ EndRestore(p)
    /\ UNCHANGED <<presence, marker>>

(* A new process gets a dead one's pid.                                    *)
ReusePid(p) ==
    /\ p \notin alive
    /\ alive' = alive \cup {p}
    /\ reused' = reused \cup {p}
    /\ UNCHANGED <<presence, marker, pc, restore>>

-----------------------------------------------------------------------------
OpenStep(p)    == Register(p) \/ Admitted(p) \/ Refused(p)
RestoreStep(p) == \/ Publish(p) \/ GiveUp(p) \/ Judge(p) \/ Clear(p) \/ Mark(p)
                  \/ List(p) \/ (\E q \in Pid : Read(p, q)) \/ Drop(p)
                  \/ Swap(p) \/ Withdraw(p) \/ Finish(p)

Step(p) == \/ Open(p) \/ OpenStep(p) \/ Close(p)
           \/ Restore(p) \/ RestoreStep(p)
           \/ WriteThrows(p)

Next == \E p \in Pid : Step(p) \/ Crash(p) \/ ReusePid(p)

Spec == Init /\ [][Next]_vars

(* Between creating a file and writing it, and between judging a file and  *)
(* unlinking it, lie a few instructions.  The protocol's argument presumes *)
(* that no other process gets in there; a crash still may.                 *)
Window == {"register", "mark", "judge", "clear", "drop"}

Undisturbed(p) == \A q \in Pid \ {p} : pc[q] \notin Window

SerialNext == \E p \in Pid : (Step(p) /\ Undisturbed(p)) \/ Crash(p) \/ ReusePid(p)

SerialSpec == Init /\ [][SerialNext]_vars

(* Whoever has begun goes on, and the disk is not full forever; a restore  *)
(* is asked for again and again; no one is obliged to open or to close.    *)
LiveSpec ==
    /\ SerialSpec
    /\ \A p \in Pid : /\ WF_vars((OpenStep(p) \/ RestoreStep(p)) /\ Undisturbed(p))
                      /\ WF_vars(Restore(p) /\ Undisturbed(p))
                      /\ SF_vars(Mark(p) /\ Undisturbed(p))

-----------------------------------------------------------------------------
TypeOK ==
    /\ alive \in SUBSET Pid
    /\ reused \in SUBSET alive
    /\ presence \in [Pid -> FileState]
    /\ marker \in Marker
    /\ pc \in [Pid -> Phase]
    /\ restore \in [Pid -> Acquiring]
    /\ \A p \in Pid \ alive : pc[p] = "idle"

(* The promise of the interlock: a process that swaps the live file does   *)
(* so beside no process that has it open and no other that swaps it.       *)
RestoresAlone ==
    \A p \in Pid : pc[p] = "swap" => \A q \in Pid \ {p} : pc[q] \notin {"open", "swap"}

(* Whatever crashed and whichever files it left, a file that reads as      *)
(* someone's names a process that really opens, or really restores: no     *)
(* one is refused on account of the dead.  Only a pid that was given to a  *)
(* new process may still be taken for its predecessor.                     *)
RefusedByTheLiving ==
    /\ LiveMarker => \A p \in marker.owner \ reused : pc[p] \in Restoring
    /\ \A p \in Pid \ reused : LiveEntry(p) => pc[p] \in Opening

(* A crash never wedges the database shut: a process that goes on asking   *)
(* for the restore lock gets it in the end, unless it dies, or opens       *)
(* itself, or the others never rest, or a reused pid owns a leftover.      *)
Leftover(p) == presence[p] # "none" \/ marker.owner = {p}

AloneGetsIn ==
    \A p \in Pid : []<>(\/ p \notin alive
                        \/ \E q \in Pid \ {p} : pc[q] # "idle"
                        \/ pc[p] \in Opening \cup {"swap"}
                        \/ \E q \in reused : Leftover(q))
=============================================================================
