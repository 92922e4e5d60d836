----------------------------- MODULE RosterSpec -----------------------------
(***************************************************************************)
(* The roster as a whole: the commands the surfaces offer, the steps of    *)
(* those under way, startups and crashes.  The properties are those of the *)
(* tables under every interleaving of a server's and a command line's      *)
(* commands.                                                               *)
(***************************************************************************)
EXTENDS ListCommands, WatchCommands, PlayerBackup

(***************************************************************************)
(* What each surface offers.  The HTTP server carries two, REST and MCP.   *)
(***************************************************************************)
PlayerRoutes == {"add", "batch", "promote", "attach", "deactivate", "tag"}
RefreshRoutes == {"refresh", "sweep"}
ListRoutes == {"create", "rename", "delete", "setDefault", "addTo", "removeFrom"}
RestCommands == PlayerRoutes \cup RefreshRoutes \cup ListRoutes

\* MCP binds no legacy player.
WatchTools == {"add", "batch", "promote", "deactivate", "tag", "refresh", "sweep"}
ListTools == {"create", "rename", "delete", "setDefault", "addTo", "removeFrom"}
McpCommands == WatchTools \cup ListTools

\* Only the command line configures lists, rebuilds tags, and writes or restores backups; it
\* refreshes no single player.
SeedCommands == {"add", "promote", "deactivate", "tag", "rebuild"}
ListsCommands == {"create", "rename", "delete", "setDefault", "configure", "addTo", "removeFrom"}
CliCommands == SeedCommands \cup ListsCommands \cup {"batch", "sweep", "backup", "restore"}

Offers(a) == IF a = Server THEN RestCommands \cup McpCommands ELSE CliCommands

Given(a, command) == command \in budget.menu \cap Offers(a)

ListStep(a) ==
  \/ Given(a, "create") /\ createList(a)
  \/ insertList(a)
  \/ Given(a, "rename") /\ renameList(a)
  \/ renameClash(a)
  \/ renameWrite(a)
  \/ Given(a, "setDefault") /\ setDefaultList(a)
  \/ Given(a, "delete") /\ deleteList(a)
  \/ Given(a, "configure") /\ configureList(a)
  \/ Given(a, "addTo") /\ addToList(a)
  \/ addMembers(a)
  \/ Given(a, "removeFrom") /\ removeFromList(a)
  \/ removeMembers(a)

\* The last step of an add that named a list.  A batch writes its memberships for the list
\* it resolved first; `players add` looks whether the list is still live.
attachToList(a) ==
  /\ At(a, "attach")
  /\ db' = IF job[a].kind = "batch" THEN insertMemberships(db, job[a].list, job[a].done)
           ELSE addPlayerIdsToLiveList(a, job[a].done)
  /\ End(a) /\ Calm

AddStep(a) ==
  \/ Given(a, "add") /\ addPlayer(a)
  \/ Given(a, "batch") /\ batchAddPlayers(a)
  \/ findEntry(a) \/ reactivate(a) \/ insertPlayer(a) \/ deriveAdded(a) \/ attachToList(a)

RefreshStep(a) ==
  \/ Given(a, "refresh") /\ refreshPlayerCommand(a)
  \/ runRefreshForPlayer(a) \/ writeBackfill(a) \/ syncBackfill(a)
  \/ Given(a, "sweep") /\ runRefresh(a)
  \/ sweepPlayer(a) \/ sweepSync(a)

IdentityStep(a) ==
  \/ Given(a, "attach") /\ attachHighlightlyNcaaPlayer(a)
  \/ bindHighlightly(a)
  \/ Given(a, "promote") /\ promoteHighlightlyNcaaPlayer(a)
  \/ Given(a, "deactivate") /\ deactivatePlayer(a)
  \/ deactivateRow(a)
  \/ Given(a, "tag") /\ tagPlayer(a)
  \/ Given(a, "rebuild") /\ syncAllDerivedTags(a)

BackupStep(a) ==
  \/ Given(a, "backup") /\ createPlayerListBackup(a)
  \/ exportLists(a) \/ exportMembers(a) \/ writePlayerListBackupFile(a)
  \/ Given(a, "restore") /\ restorePlayerListBackup(a)

Next ==
  \E a \in Actors :
    \/ ListStep(a) \/ AddStep(a) \/ RefreshStep(a) \/ IdentityStep(a) \/ BackupStep(a)
    \/ syncUntaggedDerivedTags(a) \/ Crash(a)

\* The tables are within their constraints, and consistent: rows, tags and lines are as many as
\* players, and every membership and manual tag is of rows that exist.
Consistent(d) ==
  /\ d \in Tables
  /\ Len(d.derived) = Len(d.players) /\ Len(d.line) = Len(d.players)
  /\ d.members \subseteq (DOMAIN d.lists) \X (DOMAIN d.players) /\ d.rostered \subseteq DOMAIN d.players

Sound(d) == Consistent(d) /\ PlayersAccepted(d.players) /\ ListsAccepted(d.lists)

\* Behaviours start with any tables that earlier ones may have left, tagged and with no
\* recipient that displays as unset, and with nothing under way.
Init ==
  /\ Sound(db)
  /\ \A p \in Ids : db.derived[p] = deriveTags(db.players[p], db.line[p])
  /\ \A l \in Lists : usableRecipient(db.lists[l].digestTo)
  /\ job = [a \in Actors |-> Ended(a)]
  /\ file = Null /\ behind = {} /\ trouble \in Nat
  /\ budget \in [menu : SUBSET (RestCommands \cup McpCommands \cup CliCommands), left : Nat]

Spec == Init /\ [][Next]_vars

\* The start of a behaviour in which n of the commands S are given and so
\* many faults happen, over tables that an
\* earlier one may have left: tagged, and within the constraints.
Starts(d, S, n, faults) ==
  /\ db = Synced(d, DOMAIN d.players)
  /\ job = [a \in Actors |-> Ended(a)]
  /\ file = Null /\ behind = {} /\ trouble = faults
  /\ budget = [menu |-> S, left |-> n]

(***************************************************************************)
(* Properties.                                                             *)
(***************************************************************************)
\* The tables are consistent, and what a command remembers of them, rows and lists that it
\* read in earlier steps, is still there.
TypeOK ==
  /\ Consistent(db)
  /\ behind \subseteq Ids
  /\ \A a \in Actors : job[a].row \in Ids \cup {0} /\ job[a].list \in Lists \cup {0} /\ job[a].done \subseteq Ids

\* One human identity is one row, one live name is one list, at most one live list is the
\* default, and every row is wholly NCAA or wholly professional: so say the tables, and the
\* promotion, the moving of the default and the restore, which do not ask them in this
\* model, never need their refusal.
SchemaHolds == PlayersAccepted(db.players) /\ ListsAccepted(db.lists)

\* A player's derived tags are those of his row and of his latest line, unless a command is
\* about to rewrite them, or one died or failed before it did.  None at all has only an NCAA
\* player: a Highlightly add, whose first refresh may be passed over, leaves the deriving to a
\* later one; no add leaves a professional untagged.
TagsFollowRows ==
  \A p \in Ids \ (behind \cup UNION {Owed(a) : a \in Actors}) :
    \/ db.derived[p] = deriveTags(db.players[p], db.line[p])
    \/ db.derived[p] = {} /\ db.players[p].level = "ncaa"

\* A backup of any database that can be reached parses, rebuilds the roster in an empty
\* database, and changes nothing it describes when it is restored where it was taken.
RoundTrip ==
  LET doc == Export(db) IN
  /\ parsePlayerListBackup(doc)
  /\ Export(Restored(EmptyDb, doc)) = doc
  /\ Export(Restored(db, doc)) = doc

\* What a restore of doc over d must have left when it did anything.
Faithful(d, doc, after) ==
  /\ PlayersAccepted(after.players) /\ ListsAccepted(after.lists)
  /\ \A e \in doc.players : \E p \in DOMAIN after.players :
       /\ after.players[p] = RowOf(doc, e)
       /\ e.rostered # Null => (p \in after.rostered <=> e.rostered)
       /\ p \in DOMAIN d.players => d.line[p] = after.line[p]
       /\ after.derived[p] = deriveTags(after.players[p], after.line[p])
  /\ \A m \in doc.members : \E l \in ListNamed(after.lists, m.list), p \in DOMAIN after.players :
       <<l, p>> \in after.members /\ \A i \in Carried(m) : after.players[p][i] = m[i]
  /\ d.members \subseteq after.members
  /\ \A p \in DOMAIN d.players :
       \/ after.players[p] = d.players[p] /\ (p \in after.rostered <=> p \in d.rostered)
       \/ \E e \in doc.players : p \in Targets(d, e)
  /\ {l.name : l \in {k \in ListsOf(after) : k.isDefault}}
       = {l.name : l \in {k \in IF doc.listed THEN doc.lists ELSE ListsOf(d) : k.isDefault}}

\* A restore puts every entry, membership and manual tag of the document back, keeps what the
\* document does not speak of, and leaves the document's default and no other; or it aborts.
RestoreIsFaithful ==
  [][\A a \in Actors : Given(a, "restore") /\ budget' # budget /\ db' # db =>
       \A doc \in Documents :
         parsePlayerListBackup(doc) /\ db' = Restored(db, doc) => Faithful(db, doc, db')]_vars

\* While one list is the default, there is one after every step: only a restore of a document
\* whose lists name none takes it away.
DefaultIsKept ==
  [][HasDefault => HasDefault' \/ \E doc \in Documents :
       db' = Restored(db, doc) /\ \A l \in doc.lists : ~ l.isDefault]_vars

\* Once professional, a player keeps his person id and his professional history: no late NCAA
\* backfill, attachment or restore turns him back or writes its lines under him.
PromotedForGood ==
  [][\A p \in Ids : db.players[p].ext # Null =>
       /\ db'.players[p].ext = db.players[p].ext
       /\ db'.line[p] \in {db.line[p], "pro", "dsl"}]_vars

\* The player a sweep comes to is one it fetches for if he is attached to Highlightly: "batch-add
\* stages identity and defers the season backfill to the next Refresh, which sweeps
\* loadActivePlayers" (watchlist/service.ts).
StagedBackfill ==
  \A a \in Actors : At(a, "sweep") =>
    LET r == Head(job[a].sweep).snap IN IsAttached(r) /\ r.hl # Null => Fetchable(r)
=============================================================================
