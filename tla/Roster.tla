------------------------------- MODULE Roster -------------------------------
(***************************************************************************)
(* The watch list's database: players with their one current identity,     *)
(* named lists, memberships and tags (db/schema.ts), and the actors that   *)
(* work on it, a server and a command line, one command each at a time.    *)
(* Rows are never deleted, so a row's id is its place in the sequence.     *)
(*                                                                         *)
(* A command runs in steps; a step is one SQL statement or one             *)
(* transaction, and between two steps of a command the other actor may     *)
(* take any of its own.                                                    *)
(***************************************************************************)
EXTENDS Naturals, Sequences, FiniteSets, SequencesExt

CONSTANTS
  Persons, Seqs, HlIds,   \* MLB person ids, stats.ncaa.org ids, Highlightly ids
  Names,                  \* the names a list may be given
  Server, Cli,            \* the two actors
  Null,                   \* SQL's NULL
  MaxPlayers, MaxLists    \* bounds: rows of either table

ASSUME RosterAssumption ==
  /\ Null \notin Persons \cup Seqs \cup HlIds \cup Names
  /\ Null \notin BOOLEAN /\ Null \notin {"-", "legacy_html", "highlightly_pending", "highlightly_active"}
  /\ Server # Cli
  /\ {MaxPlayers, MaxLists} \subseteq Nat

Actors == {Server, Cli}

VARIABLES
  db,       \* the tables
  job,      \* per actor: where its command is, and the command's local variables
  file,     \* the backup written last, or Null
  behind,   \* players whose derived tags were not rewritten: a crash, a failed write
  budget,   \* how many commands are still to be given, and which (a bound)
  trouble   \* how many crashes and failed tag writes are still to come (a bound)

vars == <<db, job, file, behind, budget, trouble>>

(***************************************************************************)
(* Rows.                                                                   *)
(***************************************************************************)
Levels == {"mlb", "milb", "ncaa"}
SourceStates == {"legacy_html", "highlightly_pending", "highlightly_active"}

\* The classification a player's last stat line carries, or the Highlightly id it was
\* fetched under.
LineKinds == {"none", "legacy", "pro", "dsl"} \cup HlIds

PlayerRow == [ext : Persons \cup {Null}, seq : Seqs \cup {Null}, hl : HlIds \cup {Null},
              src : SourceStates \cup {Null}, level : Levels,
              milb : {"Rookie", Null}, active : BOOLEAN]

Hours == {7, 8}
Recipients == {"mail", "-"}     \* "-" displays as unset, and is not a recipient

ListRow == [name : Names, live : BOOLEAN, isDefault : BOOLEAN,
            digestHour : Hours \cup {Null}, digestTo : Recipients \cup {Null}]

Tags == {"level:mlb", "level:ncaa", "level:rookie", "level:dsl", "prospect"}

Ids == DOMAIN db.players
Lists == DOMAIN db.lists
LiveLists == {l \in Lists : db.lists[l].live}
HasDefault == \E l \in LiveLists : db.lists[l].isDefault
Active == {p \in Ids : db.players[p].active}

Tables == [players : Seq(PlayerRow), lists : Seq(ListRow), members : SUBSET (Nat \X Nat),
           derived : Seq(SUBSET Tags), rostered : SUBSET Nat, line : Seq(LineKinds)]

EmptyDb == [players |-> <<>>, lists |-> <<>>, members |-> {},
            derived |-> <<>>, rostered |-> {}, line |-> <<>>]

(***************************************************************************)
(* The constraints the tables declare.                                     *)
(***************************************************************************)
identityStateCheck(r) ==
  \/ /\ r.level = "ncaa" /\ r.ext = Null
     /\ r.seq # Null \/ r.hl # Null
     /\ r.src \in SourceStates
  \/ /\ r.level \in {"mlb", "milb"} /\ r.ext # Null
     /\ r.seq = Null /\ r.hl = Null /\ r.src = Null

activeIdentityCheck(r) == r.src = "highlightly_active" => r.hl # Null

UniqueIds(ps) ==
  \A i, j \in DOMAIN ps : i # j =>
    /\ ps[i].ext # Null => ps[i].ext # ps[j].ext
    /\ ps[i].seq # Null => ps[i].seq # ps[j].seq
    /\ ps[i].hl # Null => ps[i].hl # ps[j].hl

\* What an insert or an update of players must leave for SQLite to accept it.
PlayersAccepted(ps) ==
  UniqueIds(ps) /\ \A i \in DOMAIN ps : identityStateCheck(ps[i]) /\ activeIdentityCheck(ps[i])

LiveNamesUnique(ls) ==
  \A i, j \in DOMAIN ls : i # j /\ ls[i].live /\ ls[j].live => ls[i].name # ls[j].name

OneLiveDefault(ls) ==
  \A i, j \in DOMAIN ls :
    ls[i].live /\ ls[j].live /\ ls[i].isDefault /\ ls[j].isDefault => i = j

ListsAccepted(ls) == LiveNamesUnique(ls) /\ OneLiveDefault(ls)

(***************************************************************************)
(* Derived tags: a pure function of the row and of the latest stat line.   *)
(* The level tag is single; a Dominican Summer League line supersedes the  *)
(* level of a player who is still at Rookie.                               *)
(***************************************************************************)
levelRule(r) ==
  CASE r.level = "mlb" -> {"level:mlb"}
    [] r.level = "ncaa" -> {"level:ncaa"}
    [] r.level = "milb" -> IF r.milb = "Rookie" THEN {"level:rookie"} ELSE {}

prospectRule(r) == IF r.level = "mlb" THEN {} ELSE {"prospect"}

dslRule(r, line) ==
  IF r.level = "milb" /\ r.milb = "Rookie" /\ line = "dsl" THEN {"level:dsl"} ELSE {}

deriveTags(r, line) ==
  prospectRule(r) \cup (IF dslRule(r, line) = {} THEN levelRule(r) ELSE dslRule(r, line))

\* The tables after syncDerivedTags of the players S: the row and its line are read anew.
Synced(d, S) ==
  [d EXCEPT !.derived = [p \in DOMAIN d.players |->
     IF p \in S THEN deriveTags(d.players[p], d.line[p]) ELSE d.derived[p]]]

Untagged == {p \in Ids : db.derived[p] = {}}

(***************************************************************************)
(* Writing rows.                                                           *)
(***************************************************************************)
WithRow(d, p, r) == [d EXCEPT !.players[p] = r]

\* An inserted player has no tags, no lines and no memberships yet.
WithNewRow(d, r) ==
  [d EXCEPT !.players = Append(@, r), !.derived = Append(@, {}), !.line = Append(@, "none")]

ProRow(e, at) ==
  [ext |-> e, seq |-> Null, hl |-> Null, src |-> Null,
   level |-> at.level, milb |-> at.milb, active |-> TRUE]

\* Where the MLB API can say a person plays (resolveLocation); without a team, the majors.
Locations == {[level |-> "mlb", milb |-> Null], [level |-> "milb", milb |-> "Rookie"]}

HighlightlyRow(h) ==
  [ext |-> Null, seq |-> Null, hl |-> h, src |-> "highlightly_active",
   level |-> "ncaa", milb |-> Null, active |-> TRUE]

\* How a surface addresses a player: by person id or by Highlightly id.
PlayerRef == Persons \cup HlIds
RefersTo(ref, r) == ref = r.ext \/ ref = r.hl
Resolved(ref) == {p \in Ids : RefersTo(ref, db.players[p])}
BySeq(s) == {p \in Ids : db.players[p].seq = s}

ListNamed(ls, n) == {l \in DOMAIN ls : ls[l].live /\ ls[l].name = n}
findLiveList(n) == ListNamed(db.lists, n)

(***************************************************************************)
(* Jobs.  `at` names the next step; the rest are the local variables it    *)
(* will use, read by earlier steps and not read again.                     *)
(***************************************************************************)
Job(at) ==
  [at |-> at, kind |-> "none", list |-> 0, name |-> Null, row |-> 0, ref |-> Null,
   snap |-> Null, todo |-> <<>>, sweep |-> <<>>, done |-> {}, tagged |-> {},
   rows |-> <<>>, doc |-> Null]

Idle(a) == job[a].at = "idle"
At(a, step) == job[a].at = step

\* A command ends: the server waits for the next, a command line process exits.
Ended(a) == Job(IF a = Server THEN "idle" ELSE "down")

\* The first step of a command.
Begin(a, j) ==
  /\ Idle(a) /\ budget.left > 0
  /\ budget' = [budget EXCEPT !.left = @ - 1]
  /\ job' = [job EXCEPT ![a] = j]

Continue(a, j) == job' = [job EXCEPT ![a] = j] /\ UNCHANGED budget
End(a) == Continue(a, Ended(a))

\* One transaction: a command of a single step begins and ends in it.
Transact(a) ==
  /\ Idle(a) /\ budget.left > 0
  /\ budget' = [budget EXCEPT !.left = @ - 1]
  /\ job' = [job EXCEPT ![a] = Ended(a)]

\* The disk and the trouble of the run are as before.
Calm == UNCHANGED <<file, behind, trouble>>

(***************************************************************************)
(* Startup.  Every process opens the database through startupDb, which     *)
(* derives the tags of the players who have none; stale tags stay.         *)
(***************************************************************************)
syncUntaggedDerivedTags(a) ==
  /\ At(a, "down")
  /\ db' = Synced(db, Untagged)
  /\ behind' = behind \ Untagged
  /\ Continue(a, Job("idle"))
  /\ UNCHANGED <<file, trouble>>

\* The players whose tags a command has still to rewrite.
Owed(a) ==
  {p \in job[a].done \ job[a].tagged : job[a].at # "attach"}
    \cup {p \in {job[a].row} : job[a].at \in {"sync", "sweepSync"}}

\* A process dies inside a command, between two of its steps: what it committed stays,
\* and whom it would have tagged next is behind.
Crash(a) ==
  /\ ~ Idle(a) /\ ~ At(a, "down") /\ trouble > 0
  /\ trouble' = trouble - 1
  /\ behind' = behind \cup Owed(a)
  /\ Continue(a, Job("down"))
  /\ UNCHANGED <<db, file>>
=============================================================================
