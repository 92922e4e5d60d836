---------------------------- MODULE WatchCommands ----------------------------
(***************************************************************************)
(* The commands on players (watchlist/service.ts, tags/service.ts) and     *)
(* what a refresh writes into their rows (jobs/refresh.ts).                *)
(*                                                                         *)
(* Providers answer anything they may: a person's location is any of       *)
(* Locations, a fetch may fail.  Whether a backfill is admitted and its    *)
(* writes pass the fence is the matter of RefreshRun; here it may be       *)
(* refused at either point.                                                *)
(***************************************************************************)
EXTENDS Roster

(***************************************************************************)
(* Adding.  A single add and a batch share the entry loop: look the        *)
(* identity up, then re-activate the row found or insert a new one.        *)
(***************************************************************************)
KindOf(ref) == IF ref \in Persons THEN "mlb" ELSE "hl"

\* addPlayer, addHighlightlyNcaaPlayer; `players add` resolves a list first.
addPlayer(a) ==
  \E ref \in PlayerRef, l \in LiveLists \cup {0} :
    /\ l # 0 => a = Cli
    /\ Begin(a, [Job("find") EXCEPT !.kind = KindOf(ref), !.list = l, !.todo = <<ref>>])
    /\ Calm /\ UNCHANGED db

\* batchAddPlayers: one list for the whole batch, and no reference twice, though a name may
\* turn out to be a person given by id too.
batchAddPlayers(a) ==
  \E x, y \in PlayerRef, l \in LiveLists \cup {0} :
    /\ x = y => x \in Persons
    /\ l # 0 => a = Server
    /\ Begin(a, [Job("find") EXCEPT !.kind = "batch", !.list = l, !.todo = <<x, y>>])
    /\ Calm /\ UNCHANGED db

\* The membership is the last step of an add, if a list was named.
Proceed(a, j) == Continue(a, IF j.at = "attach" /\ j.list = 0 THEN Ended(a) ELSE j)

BugStagesUntagged(j) ==
  LET rest == [j EXCEPT !.todo = Tail(@)] IN
  [rest EXCEPT !.at = IF rest.todo # <<>> THEN "find" ELSE "attach"]

\* After an entry: the next one, or what follows the last; j has the entry's outcome.
NextEntry(j) ==
  LET rest == [j EXCEPT !.todo = Tail(@)] IN
  IF rest.todo # <<>> THEN [rest EXCEPT !.at = "find"]
  ELSE [rest EXCEPT !.at = IF rest.kind = "hl" \/ rest.done = {} THEN "attach" ELSE "derive"]

\* The provider knows the identity, and the row is looked for.  An unknown identity fails
\* the entry: it ends a single add and is passed over in a batch.
findEntry(a) ==
  LET found == Resolved(Head(job[a].todo)) IN
  /\ At(a, "find")
  /\ \/ /\ found # {}
        /\ \E p \in found : Continue(a, [job[a] EXCEPT !.at = "reactivate", !.row = p])
     \/ found = {} /\ Continue(a, [job[a] EXCEPT !.at = "insert", !.row = 0])
     \/ IF job[a].kind = "batch" THEN Proceed(a, NextEntry(job[a])) ELSE End(a)
  /\ Calm /\ UNCHANGED db

\* The row was found: its name is rewritten and it is active again; nothing is refreshed.
reactivate(a) ==
  /\ At(a, "reactivate")
  /\ db' = [db EXCEPT !.players[job[a].row].active = TRUE]
  /\ Proceed(a, NextEntry([job[a] EXCEPT !.done = @ \cup {job[a].row}]))
  /\ Calm

\* No row was found, which may no longer be so: the unique index decides.  A batch records
\* the failed entry and goes on; a single add ends with the error.
insertPlayer(a) ==
  LET ref == Head(job[a].todo)
      id == Len(db.players) + 1
      Inserted(r) ==
        IF PlayersAccepted(Append(db.players, r))
          THEN /\ db' = WithNewRow(db, r)
               /\ Proceed(a, IF job[a].kind = "batch"
                                THEN NextEntry([job[a] EXCEPT !.done = @ \cup {id}])
                                ELSE [job[a] EXCEPT !.at = "prime", !.row = id, !.done = {id}])
          ELSE /\ UNCHANGED db
               /\ IF job[a].kind = "batch" THEN Proceed(a, NextEntry(job[a])) ELSE End(a)
  IN /\ At(a, "insert") /\ Len(db.players) < MaxPlayers
     /\ IF ref \in Persons THEN \E place \in Locations : Inserted(ProRow(ref, place))
                           ELSE Inserted(HighlightlyRow(ref))
     /\ Calm

\* syncDerivedTags of each player the add staged; an MLB add that was not refreshed, a
\* re-add and a batch come here, a Highlightly add never does.
deriveAdded(a) ==
  \E p \in job[a].done \ job[a].tagged :
    /\ At(a, "derive")
    /\ db' = Synced(db, {p})
    /\ behind' = behind \ {p}
    /\ Proceed(a, [job[a] EXCEPT !.tagged = @ \cup {p},
                    !.at = IF job[a].done = job[a].tagged \cup {p} THEN "attach" ELSE "derive"])
    /\ UNCHANGED <<file, trouble>>

(***************************************************************************)
(* Refreshing one player: the row is read once, everything fetched, and    *)
(* the result written into the row of that id, whatever it holds by then;  *)
(* the tags follow in a transaction of their own, best effort.             *)
(***************************************************************************)
\* A backfill asked for by itself (runRefreshForPlayer behind POST /refresh and the like).
refreshPlayerCommand(a) ==
  \E ref \in PlayerRef : \E p \in Resolved(ref) :
    /\ Begin(a, [Job("prime") EXCEPT !.kind = "refresh", !.row = p])
    /\ Calm /\ UNCHANGED db

\* What a command does after a backfill that wrote nothing: passed over, or failed.  An MLB
\* add derives the tags in both cases, and attaches only if the add did not fail.
Unrefreshed(j, failed) ==
  CASE j.kind = "mlb" -> [j EXCEPT !.at = "derive", !.list = IF failed THEN 0 ELSE @]
    [] j.kind = "hl" -> [j EXCEPT !.at = "attach", !.list = IF failed THEN 0 ELSE @]
    [] OTHER -> [j EXCEPT !.at = "attach"]

IsAttached(r) == r.src \in {"highlightly_pending", "highlightly_active"}

\* An NCAA row that is not attached, or without a Highlightly id, must be attached first.
Refreshable(r) == r.level = "ncaa" => IsAttached(r) /\ r.hl # Null

\* runRefreshForPlayer: asleep or a sweep is running (passed over); a legacy player must be
\* attached first (failed); otherwise the row is read and fetched for.
runRefreshForPlayer(a) ==
  LET r == db.players[job[a].row] IN
  /\ At(a, "prime")
  /\ \/ Proceed(a, Unrefreshed(job[a], FALSE))
     \/ Proceed(a, Unrefreshed(job[a], TRUE))
     \/ /\ Refreshable(r)
        /\ Continue(a, [job[a] EXCEPT !.at = "write", !.snap = r])
  /\ Calm /\ UNCHANGED db

\* refreshPlayer's transaction: a location is written only when the provider names a team;
\* lines may have come with it.
Relocated(d, p, place, line) ==
  [d EXCEPT !.players[p].level = place.level, !.players[p].milb = place.milb, !.line[p] = line]

RefreshedPro(d, p) ==
  {Relocated(d, p, place, line) :
     place \in Locations \cup {[level |-> d.players[p].level, milb |-> d.players[p].milb]},
     line \in {d.line[p], "pro", "dsl"}}

\* refreshHighlightlyNcaaPlayer's transaction, for the row as it was read: a pending
\* player's legacy lines go, the fetched ones come if there are any, the identity is active.
RefreshedNcaa(d, p, snap) ==
  LET kept == IF snap.src = "highlightly_pending" /\ d.line[p] = "legacy" THEN "none" ELSE d.line[p] IN
  {[d EXCEPT !.players[p].src = "highlightly_active", !.line[p] = line] : line \in {snap.hl, kept}}

BugLinesOutsideTransaction(d, p, snap) ==
  LET after == IF snap.level = "ncaa" THEN RefreshedNcaa(d, p, snap) ELSE RefreshedPro(d, p) IN
  {IF PlayersAccepted(w.players) THEN w ELSE [w EXCEPT !.players = d.players] : w \in after}

\* The guarded write of one player.  A row the constraints refuse rolls the lines back too.
Written(d, p, snap) ==
  {w \in (IF snap.level = "ncaa" THEN RefreshedNcaa(d, p, snap) ELSE RefreshedPro(d, p)) :
     PlayersAccepted(w.players)}

writeBackfill(a) ==
  /\ At(a, "write")
  /\ \/ /\ db' \in Written(db, job[a].row, job[a].snap)
        /\ Continue(a, [job[a] EXCEPT !.at = "sync"])
     \/ Proceed(a, Unrefreshed(job[a], FALSE)) /\ UNCHANGED db
     \/ Proceed(a, Unrefreshed(job[a], TRUE)) /\ UNCHANGED db
  /\ Calm

\* syncDerivedTagsBestEffort: done, or given up with a notice.
SyncRow(a) ==
  LET p == job[a].row IN
  \/ /\ db' = Synced(db, {p})
     /\ behind' = behind \ {p}
     /\ UNCHANGED trouble
  \/ /\ trouble > 0
     /\ trouble' = trouble - 1
     /\ behind' = behind \cup {p}
     /\ UNCHANGED db

syncBackfill(a) ==
  /\ At(a, "sync")
  /\ SyncRow(a)
  /\ Proceed(a, [job[a] EXCEPT !.at = "attach"])
  /\ UNCHANGED file

(***************************************************************************)
(* The sweep: the active rows are read once, in whatever order the         *)
(* database has them, and each player refreshed from the row as it was     *)
(* read (runRefresh, refreshOnePlayer).                                    *)
(***************************************************************************)
runRefresh(a) ==
  LET selected == SetToSeq(Active) IN
  /\ selected # <<>>
  /\ Begin(a, [Job("sweep") EXCEPT !.kind = "sweep",
                 !.sweep = [i \in DOMAIN selected |->
                             [row |-> selected[i], snap |-> db.players[selected[i]]]]])
  /\ Calm /\ UNCHANGED db

NextSwept(a) ==
  LET rest == Tail(job[a].sweep) IN
  IF rest = <<>> THEN Ended(a) ELSE [Job("sweep") EXCEPT !.kind = "sweep", !.sweep = rest]

\* refreshOnePlayer: an NCAA row without a stats.ncaa.org id is passed over, one that is not
\* attached fails, the others are fetched for.
Fetchable(r) == Refreshable(r) /\ (r.level = "ncaa" => r.seq # Null)

BugForgetsTags(a) ==
  LET next == Head(job[a].sweep) IN
  /\ At(a, "sweep")
  /\ db' \in IF Fetchable(next.snap) THEN Written(db, next.row, next.snap) ELSE {db}
  /\ Continue(a, NextSwept(a))
  /\ Calm

sweepPlayer(a) ==
  LET next == Head(job[a].sweep) IN
  /\ At(a, "sweep")
  /\ \/ /\ Fetchable(next.snap)
        /\ db' \in Written(db, next.row, next.snap)
        /\ Continue(a, [job[a] EXCEPT !.at = "sweepSync", !.row = next.row])
     \/ Continue(a, NextSwept(a)) /\ UNCHANGED db     \* passed over, or failed
  /\ Calm

sweepSync(a) ==
  /\ At(a, "sweepSync")
  /\ SyncRow(a)
  /\ Continue(a, NextSwept(a))
  /\ UNCHANGED file

(***************************************************************************)
(* Identities.                                                             *)
(***************************************************************************)
\* attachHighlightlyNcaaPlayer: the row is found by its legacy id before the provider is
\* asked, and written by its own id afterwards.
attachHighlightlyNcaaPlayer(a) ==
  \E s \in Seqs, h \in HlIds : \E p \in BySeq(s) :
    /\ Begin(a, [Job("bind") EXCEPT !.row = p, !.ref = h])
    /\ Calm /\ UNCHANGED db

bindHighlightly(a) ==
  LET p == job[a].row
      bound == WithRow(db, p, [db.players[p] EXCEPT !.hl = job[a].ref, !.src = "highlightly_pending"])
  IN /\ At(a, "bind")
     /\ db' = IF PlayersAccepted(bound.players) THEN bound ELSE db
     /\ End(a) /\ Calm

\* promoteHighlightlyNcaaPlayer: asked first, then one transaction over an active, fully
\* attached row; its tags are rewritten with it, its memberships and lines stay its own.
promoteHighlightlyNcaaPlayer(a) ==
  \E h \in HlIds, e \in Persons, place \in Locations : \E p \in Resolved(h) :
    /\ db.players[p].level = "ncaa" /\ db.players[p].src = "highlightly_active"
    /\ db.players[p].active
    /\ Resolved(e) = {}
    /\ Transact(a)
    /\ db' = Synced(WithRow(db, p, ProRow(e, place)), {p})
    /\ behind' = behind \ {p}
    /\ UNCHANGED <<file, trouble>>

deactivatePlayer(a) ==
  \E ref \in PlayerRef : \E p \in Resolved(ref) :
    /\ Begin(a, [Job("deactivate") EXCEPT !.row = p])
    /\ Calm /\ UNCHANGED db

deactivateRow(a) ==
  /\ At(a, "deactivate")
  /\ db' = [db EXCEPT !.players[job[a].row].active = FALSE]
  /\ End(a) /\ Calm

\* addManualTag, removeManualTag: the one manual tag of the model is status:rostered.  The
\* player is resolved in a step of its own, which no other step can undo: rows stay.
tagPlayer(a) ==
  \E ref \in PlayerRef, tagged \in BOOLEAN : \E p \in Resolved(ref) :
    /\ Transact(a)
    /\ db' = [db EXCEPT !.rostered = IF tagged THEN @ \cup {p} ELSE @ \ {p}]
    /\ Calm

\* `seed tag rebuild`: every player's derived tags.
syncAllDerivedTags(a) ==
  /\ Transact(a)
  /\ db' = Synced(db, Ids) /\ behind' = {}
  /\ UNCHANGED <<file, trouble>>
=============================================================================
