---------------------------- MODULE ListCommands ----------------------------
(***************************************************************************)
(* The commands on named lists (lists/service.ts).  A list is addressed by *)
(* the name of a live row; setDefaultList, configureList and deleteList    *)
(* read and write under one write lock, the others on earlier answers.     *)
(* A refused command ends without a trace; such ends are steps only where  *)
(* something was read before.                                              *)
(***************************************************************************)
EXTENDS Roster

NewList(n) ==
  [name |-> n, live |-> TRUE, isDefault |-> FALSE, digestHour |-> Null, digestTo |-> Null]

\* createList: the name is looked up, then inserted; the unique index has the last word.
createList(a) ==
  \E n \in Names :
    /\ findLiveList(n) = {}
    /\ Begin(a, [Job("insertList") EXCEPT !.name = n])
    /\ Calm /\ UNCHANGED db

insertList(a) ==
  LET inserted == Append(db.lists, NewList(job[a].name)) IN
  /\ At(a, "insertList") /\ Len(db.lists) < MaxLists
  /\ db' = IF ListsAccepted(inserted) THEN [db EXCEPT !.lists = inserted] ELSE db
  /\ End(a) /\ Calm

\* renameList: the list is resolved, the new name looked up, and the row updated by its id,
\* whether or not it is still live.
renameList(a) ==
  \E n, new \in Names : \E l \in findLiveList(n) :
    /\ Begin(a, [Job(IF n = new THEN "rename" ELSE "clash") EXCEPT !.list = l, !.name = new])
    /\ Calm /\ UNCHANGED db

renameClash(a) ==
  /\ At(a, "clash")
  /\ IF findLiveList(job[a].name) = {}
       THEN Continue(a, [job[a] EXCEPT !.at = "rename"])
       ELSE End(a)
  /\ Calm /\ UNCHANGED db

renameWrite(a) ==
  LET renamed == [db.lists EXCEPT ![job[a].list].name = job[a].name] IN
  /\ At(a, "rename")
  /\ db' = IF ListsAccepted(renamed) THEN [db EXCEPT !.lists = renamed] ELSE db
  /\ End(a) /\ Calm

BugKeepsOldDefault(ls, l) == [ls EXCEPT ![l].isDefault = TRUE]

\* The flag moves: every live holder is cleared before the target is set.
Redefaulted(ls, l) ==
  [k \in DOMAIN ls |->
     IF k = l THEN [ls[k] EXCEPT !.isDefault = TRUE]
     ELSE IF ls[k].live THEN [ls[k] EXCEPT !.isDefault = FALSE] ELSE ls[k]]

setDefaultList(a) ==
  \E n \in Names : \E l \in findLiveList(n) :
    /\ Transact(a)
    /\ db' = IF db.lists[l].isDefault THEN db
             ELSE [db EXCEPT !.lists = Redefaulted(db.lists, l)]
    /\ Calm

BugDeletesDefault(a) ==
  \E n \in Names : \E l \in findLiveList(n) :
    /\ Transact(a)
    /\ db' = [db EXCEPT !.lists[l].live = FALSE]
    /\ Calm

\* A list that carries the default flag is refused by the UPDATE's own condition.
deleteList(a) ==
  \E n \in Names : \E l \in findLiveList(n) :
    /\ ~ db.lists[l].isDefault
    /\ Transact(a)
    /\ db' = [db EXCEPT !.lists[l].live = FALSE]
    /\ Calm

\* digestRecipientProblem: "-" is how an unset recipient is displayed.
usableRecipient(to) == to # "-"

\* A patch names the columns it writes; Null clears one, an absent column is left alone.
Patches ==
  {[digestHour |-> h] : h \in Hours \cup {Null}}
    \cup {[digestTo |-> to] : to \in {r \in Recipients : usableRecipient(r)} \cup {Null}}

configureList(a) ==
  \E n \in Names, patch \in Patches : \E l \in findLiveList(n) :
    /\ Transact(a)
    /\ db' = [db EXCEPT !.lists[l] =
                [c \in DOMAIN @ |-> IF c \in DOMAIN patch THEN patch[c] ELSE @[c]]]
    /\ Calm

(***************************************************************************)
(* Membership.  The list is resolved first; the references are resolved    *)
(* and the rows written afterwards, with no second look at the list.       *)
(***************************************************************************)
ListCommand(a, step) ==
  \E n \in Names, ref \in PlayerRef : \E l \in findLiveList(n) :
    /\ Begin(a, [Job(step) EXCEPT !.list = l, !.ref = ref])
    /\ Calm /\ UNCHANGED db

addToList(a) == ListCommand(a, "addMembers")
removeFromList(a) == ListCommand(a, "removeMembers")

BugSwapsColumns(d, l, S) == [d EXCEPT !.members = @ \cup (S \X {l})]

insertMemberships(d, l, S) == [d EXCEPT !.members = @ \cup ({l} \X S)]

addMembers(a) ==
  /\ At(a, "addMembers")
  /\ db' = insertMemberships(db, job[a].list, Resolved(job[a].ref))
  /\ End(a) /\ Calm

removeMembers(a) ==
  /\ At(a, "removeMembers")
  /\ db' = [db EXCEPT !.members = @ \ ({job[a].list} \X Resolved(job[a].ref))]
  /\ End(a) /\ Calm

\* addPlayerIdsToLiveList: the last step of `players add`; the list must still be live.
addPlayerIdsToLiveList(a, S) ==
  IF db.lists[job[a].list].live THEN insertMemberships(db, job[a].list, S) ELSE db
=============================================================================
