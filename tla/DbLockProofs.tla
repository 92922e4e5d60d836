---------------------------- MODULE DbLockProofs ----------------------------
(***************************************************************************)
(* Proofs about DbLock: types, that no one is refused on account of the    *)
(* dead, and, where nothing gets between a file's creation and its first   *)
(* byte, that a restore swaps the live file alone.                         *)
(***************************************************************************)
EXTENDS DbLock, TLAPS

(* A step of p moves p alone.                                              *)
LEMMA GotoMovesOne ==
    ASSUME TypeOK, NEW p \in Pid, NEW phase \in Phase, Goto(p, phase)
    PROVE  /\ pc' \in [Pid -> Phase]
           /\ pc'[p] = phase
           /\ \A q \in Pid \ {p} : pc'[q] = pc[q]
BY DEF TypeOK, Goto

LEMMA PhaseNames ==
    /\ Opening \subseteq Phase /\ Restoring \subseteq Phase /\ "idle" \in Phase
    /\ Opening \cap Restoring = {} /\ "idle" \notin Opening \cup Restoring
BY DEF Phase, Opening, Restoring

-----------------------------------------------------------------------------
(* Types                                                                   *)

LEMMA TypeInit == Init => TypeOK
<1> SUFFICES ASSUME Init PROVE TypeOK
  OBVIOUS
<1>1. NotAcquiring \in Acquiring /\ NoMarker \in Marker
  BY DEF NotAcquiring, Acquiring, Marker, MarkerAttempts
<1> QED BY <1>1, PhaseNames DEF Init, TypeOK, FileState

LEMMA TypeStep == TypeOK /\ [Next]_vars => TypeOK'
<1> SUFFICES ASSUME TypeOK, Next PROVE TypeOK'
  BY DEF TypeOK, vars
<1> USE DEF Goto, EndRestore, Deregister
<1>0. NotAcquiring \in Acquiring /\ NoMarker \in Marker
  BY DEF NotAcquiring, Acquiring, Marker, MarkerAttempts
<1>1. ASSUME NEW p \in Pid, Open(p) \/ Register(p) \/ Admitted(p) \/ Refused(p) \/ Close(p)
      PROVE  TypeOK'
  BY <1>1 DEF TypeOK, Open, Register, Admitted, Refused, Close, FileState, Phase, Opening
<1>2. ASSUME NEW p \in Pid, Restore(p) \/ GiveUp(p) \/ Judge(p) \/ Clear(p) \/ Swap(p)
                            \/ Withdraw(p) \/ Finish(p) \/ WriteThrows(p)
      PROVE  TypeOK'
  BY <1>0, <1>2 DEF TypeOK, Restore, GiveUp, Judge, Clear, Swap, Withdraw, Finish, WriteThrows,
                    releaseMarker, Phase, Restoring
<1>3. ASSUME NEW p \in Pid, Publish(p) PROVE TypeOK'
  <2>1. [restore[p] EXCEPT !.tries = @ + 1] \in Acquiring
    <3>1. restore[p] \in Acquiring /\ restore[p].tries \in 0..3 /\ restore[p].tries < 3
      BY <1>3 DEF TypeOK, Publish, AttemptsLeft, Acquiring, MarkerAttempts
    <3>2. restore[p].tries + 1 \in 0..3
      BY <3>1
    <3> QED BY <3>1, <3>2 DEF Acquiring, MarkerAttempts
  <2>2. [owner |-> {p}, written |-> FALSE] \in Marker
    BY DEF Marker
  <2>3. restore' \in [Pid -> Acquiring]
    <3>1. restore' = [restore EXCEPT ![p] = [restore[p] EXCEPT !.tries = @ + 1]]
      BY <1>3 DEF Publish, TypeOK
    <3> QED BY <2>1, <3>1 DEF TypeOK
  <2> QED BY <1>3, <2>2, <2>3 DEF TypeOK, Publish, Phase, Restoring
<1>4. ASSUME NEW p \in Pid, Mark(p) PROVE TypeOK'
  BY <1>4 DEF TypeOK, Mark, Marker, NoMarker, Phase, Restoring
<1>5. ASSUME NEW p \in Pid, List(p) PROVE TypeOK'
  BY <1>5 DEF TypeOK, List, Acquiring, Phase, Restoring
<1>6. ASSUME NEW p \in Pid, NEW q \in Pid, Read(p, q) PROVE TypeOK'
  <2>1. restore[p] \in Acquiring
    BY DEF TypeOK
  <2>2. restore'[p] \in Acquiring /\ \A r \in Pid \ {p} : restore'[r] = restore[r]
    BY <1>6, <2>1 DEF TypeOK, Read, Acquiring, LiveEntry
  <2>3. restore' \in [Pid -> Acquiring]
    BY <1>6, <2>2 DEF TypeOK, Read
  <2>4. pc' \in [Pid -> Phase] /\ \A r \in Pid \ alive : pc'[r] = "idle"
    BY <1>6 DEF TypeOK, Read, Phase, Restoring
  <2> QED BY <1>6, <2>3, <2>4 DEF TypeOK, Read
<1>7. ASSUME NEW p \in Pid, Drop(p) PROVE TypeOK'
  BY <1>7 DEF TypeOK, Drop, Acquiring, Phase, Restoring, FileState
<1>8. ASSUME NEW p \in Pid, Crash(p) \/ ReusePid(p) PROVE TypeOK'
  BY <1>0, <1>8 DEF TypeOK, Crash, ReusePid, Phase
<1> QED BY <1>1, <1>2, <1>3, <1>4, <1>5, <1>6, <1>7, <1>8
        DEF Next, Step, OpenStep, RestoreStep

(* Every process that is somewhere in the protocol is alive, and every     *)
(* variable of the interlock stays in its range.                           *)
THEOREM TypeCorrect == Spec => []TypeOK
BY TypeInit, TypeStep, PTL DEF Spec

-----------------------------------------------------------------------------
(* No one is refused on account of the dead                                *)

(* A written marker whose owner is not mistaken for its predecessor names  *)
(* a restore past its publication; such an entry of the registry names an  *)
(* opener past its registration.                                           *)
Holding == {"list", "scan", "drop", "swap"}

OwnerHolds ==
    \A p \in Pid \cap (alive \ reused) :
        marker = [owner |-> {p}, written |-> TRUE] => pc[p] \in Holding

EntryOpens ==
    \A p \in Pid \cap (alive \ reused) :
        presence[p] = "written" => pc[p] \in {"check", "open"}

LivingInv == TypeOK /\ OwnerHolds /\ EntryOpens

LEMMA LivingStep == LivingInv /\ [Next]_vars => LivingInv'
<1> SUFFICES ASSUME LivingInv, [Next]_vars PROVE OwnerHolds' /\ EntryOpens'
  BY TypeStep DEF LivingInv
<1> USE DEF LivingInv, Goto, EndRestore, Deregister
<1>1. CASE UNCHANGED vars
  BY <1>1 DEF vars, OwnerHolds, EntryOpens
<1>2. ASSUME NEW p \in Pid, Open(p) \/ Register(p) \/ Admitted(p) \/ Refused(p) \/ Close(p)
      PROVE  OwnerHolds' /\ EntryOpens'
  <2>1. OwnerHolds'
    BY <1>2 DEF OwnerHolds, TypeOK, Holding, Open, Register, Admitted, Refused, Close
  <2>2. EntryOpens'
    BY <1>2 DEF EntryOpens, TypeOK, Open, Register, Admitted, Refused, Close
  <2> QED BY <2>1, <2>2
<1>3. ASSUME NEW p \in Pid, Restore(p) \/ Publish(p) \/ GiveUp(p) \/ Judge(p) \/ Clear(p)
                            \/ Mark(p) \/ List(p) \/ Drop(p) \/ Swap(p) \/ WriteThrows(p)
      PROVE  OwnerHolds' /\ EntryOpens'
  <2>1. OwnerHolds'
    BY <1>3 DEF OwnerHolds, TypeOK, Holding, NoMarker, Restore, Publish, GiveUp, Judge, Clear,
                Mark, List, Drop, Swap, WriteThrows
  <2>2. EntryOpens'
    BY <1>3 DEF EntryOpens, TypeOK, Restore, Publish, GiveUp, Judge, Clear, Mark, List, Drop,
                Swap, WriteThrows
  <2> QED BY <2>1, <2>2
<1>4. ASSUME NEW p \in Pid, NEW q \in Pid, Read(p, q) PROVE OwnerHolds' /\ EntryOpens'
  BY <1>4 DEF Read, OwnerHolds, EntryOpens, TypeOK, Holding
<1>5. ASSUME NEW p \in Pid, Withdraw(p) \/ Finish(p) PROVE OwnerHolds' /\ EntryOpens'
  <2>1. OwnerHolds'
    BY <1>5 DEF OwnerHolds, TypeOK, Holding, NoMarker, Withdraw, Finish, releaseMarker
  <2>2. EntryOpens'
    BY <1>5 DEF EntryOpens, TypeOK, Withdraw, Finish
  <2> QED BY <2>1, <2>2
<1>6. ASSUME NEW p \in Pid, Crash(p) \/ ReusePid(p) PROVE OwnerHolds' /\ EntryOpens'
  BY <1>6 DEF OwnerHolds, EntryOpens, TypeOK, Crash, ReusePid
<1> QED BY <1>1, <1>2, <1>3, <1>4, <1>5, <1>6 DEF Next, Step, OpenStep, RestoreStep

(* A live marker always names a process that restores, and a live entry of *)
(* the registry one that opens, unless its pid was given to a new process: *)
(* liveRestoreMarker and liveHolders never report the dead.                *)
THEOREM OnlyTheLivingRefuse == Spec => []RefusedByTheLiving
<1>1. Init => LivingInv
  <2>1. Init => OwnerHolds /\ EntryOpens
    BY DEF Init, OwnerHolds, EntryOpens, NoMarker
  <2> QED BY <2>1, TypeInit DEF LivingInv
<1>2. LivingInv => RefusedByTheLiving
  <2> SUFFICES ASSUME LivingInv PROVE RefusedByTheLiving
    OBVIOUS
  <2>1. ASSUME LiveMarker, NEW p \in marker.owner \ reused PROVE pc[p] \in Restoring
    <3>1. marker \in Marker /\ marker # NoMarker /\ marker.written = TRUE
      BY <2>1 DEF LivingInv, TypeOK, LiveMarker, NoMarker
    <3>2. p \in Pid /\ marker = [owner |-> {p}, written |-> TRUE]
      BY <2>1, <3>1 DEF Marker
    <3>3. p \in alive
      BY <2>1 DEF LiveMarker
    <3> QED BY <2>1, <3>2, <3>3 DEF LivingInv, OwnerHolds, Holding, Restoring
  <2>2. ASSUME NEW p \in Pid \ reused, LiveEntry(p) PROVE pc[p] \in Opening
    BY <2>2 DEF LivingInv, EntryOpens, LiveEntry, Opening
  <2> QED BY <2>1, <2>2 DEF RefusedByTheLiving
<1> QED BY <1>1, <1>2, LivingStep, PTL DEF Spec

-----------------------------------------------------------------------------
(* A restore swaps alone                                                   *)

OneInWindow ==
    \A p \in Pid, q \in Pid : p # q /\ pc[p] \in Window => pc[q] \notin Window

(* An opener's entry is there from its registration to its release.        *)
Registered ==
    \A p \in Pid : /\ pc[p] = "register" => presence[p] = "empty"
                   /\ pc[p] \in {"check", "open"} => presence[p] = "written"

(* So is the marker of a process that holds it.                            *)
Marked ==
    \A p \in Pid : /\ pc[p] = "mark" => marker = [owner |-> {p}, written |-> FALSE]
                   /\ pc[p] \in Holding => marker = [owner |-> {p}, written |-> TRUE]

(* What is about to be unlinked as stale is nobody's.                      *)
NobodysMarker ==
    \A p \in Pid, q \in Pid : pc[p] = "clear" => pc[q] \notin Holding \cup {"mark"}

NobodysEntry ==
    \A p \in Pid, q \in Pid :
        pc[p] = "drop" /\ q \in restore[p].stale => pc[q] \notin Opening

(* A scan sees whoever was admitted before it began; no one is after.      *)
Noticed ==
    \A p \in Pid, q \in Pid :
        /\ pc[p] \in {"scan", "drop"} /\ pc[q] = "open" =>
               q \in restore[p].todo \/ restore[p].busy
        /\ pc[p] = "swap" => pc[q] # "open"

SerialInv == /\ TypeOK /\ OneInWindow /\ Registered /\ Marked
             /\ NobodysMarker /\ NobodysEntry /\ Noticed

SerialStep(p) == Step(p) /\ Undisturbed(p)

LEMMA WindowStep ==
    ASSUME SerialInv, NEW p \in Pid, SerialStep(p)
    PROVE  OneInWindow'
<1>1. \A q \in Pid \ {p} : pc'[q] = pc[q]
  BY DEF SerialInv, TypeOK, SerialStep, Step, OpenStep, RestoreStep, Open, Register, Admitted,
         Refused, Close, Restore, Publish, GiveUp, Judge, Clear, Mark, List, Read, Drop, Swap,
         Withdraw, Finish, WriteThrows, Goto, EndRestore, Deregister
<1> QED BY <1>1 DEF SerialInv, OneInWindow, SerialStep, Undisturbed

(* The opener's steps.                                                     *)
LEMMA OpenerStep ==
    ASSUME SerialInv, NEW p \in Pid, Undisturbed(p), Open(p) \/ OpenStep(p) \/ Close(p)
    PROVE  Registered' /\ Marked' /\ NobodysMarker' /\ NobodysEntry' /\ Noticed'
<1> USE DEF OpenStep, Open, Register, Admitted, Refused, Close, Goto, Deregister
<1>1. Registered'
  BY DEF SerialInv, TypeOK, Registered
<1>2. Marked'
  BY DEF SerialInv, TypeOK, Marked, Holding
<1>3. NobodysMarker'
  BY DEF SerialInv, TypeOK, NobodysMarker, Holding
<1>4. NobodysEntry'
  BY DEF SerialInv, TypeOK, NobodysEntry, Opening, Undisturbed, Window
<1>5. Noticed'
  <2>1. \A q \in Pid : pc[q] \in Holding => LiveMarker
    BY DEF SerialInv, TypeOK, Marked, Holding, LiveMarker
  <2> QED BY <2>1 DEF SerialInv, TypeOK, Noticed, Holding
<1> QED BY <1>1, <1>2, <1>3, <1>4, <1>5

(* The steps up to the marker.                                             *)
LEMMA PublishingStep ==
    ASSUME SerialInv, NEW p \in Pid, Undisturbed(p),
           Restore(p) \/ Publish(p) \/ GiveUp(p) \/ Judge(p) \/ Clear(p) \/ Mark(p)
    PROVE  Registered' /\ Marked' /\ NobodysMarker' /\ NobodysEntry' /\ Noticed'
<1> USE DEF Restore, Publish, GiveUp, Judge, Clear, Mark, Goto, EndRestore
<1>1. Registered'
  BY DEF SerialInv, TypeOK, Registered
<1>2. Marked'
  BY DEF SerialInv, TypeOK, Marked, NobodysMarker, Holding, NoMarker, Undisturbed, Window
<1>3. NobodysMarker'
  <2>1. \A q \in Pid : pc[q] \in Holding => LiveMarker
    BY DEF SerialInv, TypeOK, Marked, Holding, LiveMarker
  <2> QED BY <2>1 DEF SerialInv, TypeOK, NobodysMarker, Holding, Undisturbed, Window,
                      AnotherRestores
<1>4. NobodysEntry'
  BY DEF SerialInv, TypeOK, NobodysEntry, Opening
<1>5. Noticed'
  BY DEF SerialInv, TypeOK, Noticed
<1> QED BY <1>1, <1>2, <1>3, <1>4, <1>5

(* The scan of the registry.                                               *)
LEMMA ReadingStep ==
    ASSUME SerialInv, NEW p \in Pid, Undisturbed(p), NEW x \in Pid, Read(p, x)
    PROVE  Registered' /\ Marked' /\ NobodysMarker' /\ NobodysEntry' /\ Noticed'
<1>t. restore \in [Pid -> Acquiring] /\ restore[p] \in Acquiring /\ pc \in [Pid -> Phase]
  BY DEF SerialInv, TypeOK
<1>1. Registered' /\ Marked' /\ NobodysMarker'
  BY DEF Read, Goto, SerialInv, TypeOK, Registered, Marked, NobodysMarker, Holding
<1>2. /\ restore'[p].todo = restore[p].todo \ {x}
      /\ restore'[p].stale \subseteq {x}
      /\ restore[p].busy => restore'[p].busy
      /\ LiveEntry(x) => restore'[p].busy /\ restore'[p].stale = {}
      /\ \A q \in Pid \ {p} : restore'[q] = restore[q] /\ pc'[q] = pc[q]
  BY <1>t DEF Read, Goto, Acquiring, LiveEntry
<1>3. pc[p] = "scan" /\ pc'[p] \in {"scan", "drop"}
  BY <1>t DEF Read, Goto, LiveEntry
<1>4. \A q \in Pid : pc[q] \in {"check", "open"} => LiveEntry(q)
  BY DEF SerialInv, TypeOK, Registered, LiveEntry
<1>5. \A q \in Pid : pc[q] # "register"
  BY <1>3 DEF Undisturbed, Window
<1>6. ~LiveEntry(x) => pc'[x] \notin Opening
  BY <1>2, <1>3, <1>4, <1>5 DEF Opening
<1>7. NobodysEntry'
  <2> SUFFICES ASSUME NEW r \in Pid, NEW q \in Pid, pc'[r] = "drop", q \in restore'[r].stale
               PROVE  pc'[q] \notin Opening
    BY DEF NobodysEntry
  <2>1. CASE r = p
    BY <1>2, <1>6, <2>1
  <2>2. CASE r # p
    BY <1>2, <1>3, <2>2 DEF SerialInv, NobodysEntry, Opening
  <2> QED BY <2>1, <2>2
<1>8. Noticed'
  <2> SUFFICES ASSUME NEW r \in Pid, NEW q \in Pid, pc'[q] = "open"
               PROVE  /\ pc'[r] \in {"scan", "drop"} =>
                             q \in restore'[r].todo \/ restore'[r].busy
                      /\ pc'[r] # "swap"
    BY DEF Noticed
  <2>1. q # p /\ pc[q] = "open"
    BY <1>2, <1>3
  <2>2. CASE r = p
    BY <1>2, <1>3, <1>4, <2>1, <2>2 DEF SerialInv, Noticed
  <2>3. CASE r # p
    BY <1>2, <2>1, <2>3 DEF SerialInv, Noticed
  <2> QED BY <2>2, <2>3
<1> QED BY <1>1, <1>7, <1>8

(* What goes before and after it.                                          *)
LEMMA ScanningStep ==
    ASSUME SerialInv, NEW p \in Pid, Undisturbed(p),
           List(p) \/ Drop(p) \/ Swap(p) \/ Withdraw(p) \/ Finish(p)
    PROVE  Registered' /\ Marked' /\ NobodysMarker' /\ NobodysEntry' /\ Noticed'
<1> USE DEF List, Drop, Swap, Withdraw, Finish, Goto, EndRestore
<1>0. \A q \in Pid : pc[q] = "open" => presence[q] # "none"
  BY DEF SerialInv, Registered
<1>1. Registered'
  BY DEF SerialInv, TypeOK, Registered, NobodysEntry, Opening
<1>2. Marked'
  <2>1. marker = [owner |-> {p}, written |-> TRUE]
    BY DEF SerialInv, TypeOK, Marked, Holding
  <2>2. \A q \in Pid \ {p} : pc'[q] \notin Holding \cup {"mark"}
    BY <2>1 DEF SerialInv, TypeOK, Marked
  <2>3. pc'[p] \in Holding => marker' = marker
    BY DEF SerialInv, TypeOK, Holding
  <2>4. pc'[p] # "mark"
    BY DEF SerialInv, TypeOK
  <2> QED BY <2>1, <2>2, <2>3, <2>4 DEF Marked
<1>3. NobodysMarker'
  BY DEF SerialInv, TypeOK, NobodysMarker, Holding
<1>4. NobodysEntry'
  BY DEF SerialInv, TypeOK, NobodysEntry, Opening
<1>5. Noticed'
  <2>1. CASE List(p)
    BY <1>0, <2>1 DEF SerialInv, TypeOK, Noticed, Acquiring
  <2>2. CASE Drop(p)
    BY <2>2 DEF SerialInv, TypeOK, Noticed, Acquiring
  <2>3. CASE Swap(p)
    BY <2>3 DEF SerialInv, TypeOK, Noticed
  <2>4. CASE Withdraw(p) \/ Finish(p)
    BY <2>4 DEF SerialInv, TypeOK, Noticed
  <2> QED BY <2>1, <2>2, <2>3, <2>4
<1> QED BY <1>1, <1>2, <1>3, <1>4, <1>5

LEMMA FailureStep ==
    ASSUME SerialInv, NEW p \in Pid,
           WriteThrows(p) \/ Crash(p) \/ ReusePid(p)
    PROVE  OneInWindow' /\ Registered' /\ Marked' /\ NobodysMarker' /\ NobodysEntry' /\ Noticed'
<1> USE DEF WriteThrows, Crash, ReusePid, Goto, EndRestore
<1>1. OneInWindow'
  BY DEF SerialInv, TypeOK, OneInWindow, Window
<1>2. Registered' /\ Marked'
  BY DEF SerialInv, TypeOK, Registered, Marked, Holding
<1>3. NobodysMarker' /\ NobodysEntry'
  BY DEF SerialInv, TypeOK, NobodysMarker, NobodysEntry, Holding, Opening
<1>4. Noticed'
  BY DEF SerialInv, TypeOK, Noticed
<1> QED BY <1>1, <1>2, <1>3, <1>4

LEMMA SerialInvStep == SerialInv /\ [SerialNext]_vars => SerialInv'
<1> SUFFICES ASSUME SerialInv, [SerialNext]_vars PROVE SerialInv'
  OBVIOUS
<1>1. TypeOK'
  BY TypeStep DEF SerialInv, SerialNext, Next
<1>2. CASE UNCHANGED vars
  BY <1>1, <1>2 DEF SerialInv, vars, OneInWindow, Registered, Marked, NobodysMarker, NobodysEntry,
                    Noticed
<1>3. ASSUME NEW p \in Pid, SerialStep(p) PROVE SerialInv'
  <2>1. OneInWindow'
    BY <1>3, WindowStep
  <2>2. Registered' /\ Marked' /\ NobodysMarker' /\ NobodysEntry' /\ Noticed'
    BY <1>3, OpenerStep, PublishingStep, ReadingStep, ScanningStep, FailureStep
       DEF SerialStep, Step, RestoreStep
  <2> QED BY <1>1, <2>1, <2>2 DEF SerialInv
<1>4. ASSUME NEW p \in Pid, Crash(p) \/ ReusePid(p) PROVE SerialInv'
  BY <1>1, <1>4, FailureStep DEF SerialInv
<1> QED BY <1>2, <1>3, <1>4 DEF SerialNext, SerialStep

(* However many processes open, restore, crash and inherit pids: as long   *)
(* as no other process gets between a file's creation and its first byte,  *)
(* or between a verdict and its unlink, a restore swaps the live file      *)
(* beside no opener and no other restore.                                  *)
THEOREM RestoreIsAlone == SerialSpec => []RestoresAlone
<1>1. Init => SerialInv
  <2>1. Init => \A p \in Pid : pc[p] = "idle"
    BY DEF Init
  <2>2. Init => OneInWindow /\ Registered /\ Marked /\ NobodysMarker /\ NobodysEntry /\ Noticed
    BY <2>1 DEF OneInWindow, Window, Registered, Marked, Holding, NobodysMarker, NobodysEntry,
                Noticed
  <2> QED BY <2>2, TypeInit DEF SerialInv
<1>2. SerialInv => RestoresAlone
  BY DEF SerialInv, TypeOK, RestoresAlone, Marked, Holding, Noticed
<1> QED BY <1>1, <1>2, SerialInvStep, PTL DEF SerialSpec
=============================================================================
