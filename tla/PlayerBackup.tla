---------------------------- MODULE PlayerBackup ----------------------------
(***************************************************************************)
(* The Player List Backup (backup/player-list.ts) and its restore          *)
(* (watchlist/service.ts): a document of the roster in natural identities, *)
(* written by four reads of the tables and put back by one transaction.    *)
(*                                                                         *)
(* A document's parts are sets: their order decides nothing but the row    *)
(* ids of what a restore inserts, which are never carried over.            *)
(***************************************************************************)
EXTENDS Roster

CONSTANT Files  \* player list backups lying about from earlier times

Identity == {"ext", "seq", "hl"}
Carried(r) == {i \in Identity : r[i] # Null}

(***************************************************************************)
(* Writing.                                                                *)
(***************************************************************************)
\* `rostered` stands for the entry's `tags`: always present when it is written today, and
\* Null in the first version, which had no such field.
PlayerEntry(r, rostered) ==
  [ext |-> r.ext, seq |-> r.seq, hl |-> r.hl, src |-> r.src, level |-> r.level,
   milb |-> r.milb, active |-> r.active, rostered |-> rostered]

ListEntry(l) ==
  [name |-> l.name, isDefault |-> l.isDefault, digestHour |-> l.digestHour, digestTo |-> l.digestTo]

BugForgetsHighlightly(l, r) ==
  [list |-> l.name, ext |-> r.ext, seq |-> IF r.ext = Null THEN r.seq ELSE Null, hl |-> Null]

\* A member names its list, and its player by the first identity he carries.
MemberEntry(l, r) ==
  [list |-> l.name,
   ext |-> r.ext,
   seq |-> IF r.ext = Null THEN r.seq ELSE Null,
   hl |-> IF r.ext = Null /\ r.seq = Null THEN r.hl ELSE Null]

PlayersOf(ps, rostered) == {PlayerEntry(ps[p], p \in rostered) : p \in DOMAIN ps}
ListsOf(d) == {ListEntry(d.lists[l]) : l \in {k \in DOMAIN d.lists : d.lists[k].live}}
MembersOf(d) ==
  {MemberEntry(d.lists[m[1]], d.players[m[2]]) : m \in {n \in d.members : d.lists[n[1]].live}}

PLAYER_BACKUP_VERSION == 5

Backup(players, lists, members) ==
  [version |-> PLAYER_BACKUP_VERSION, players |-> players, listed |-> TRUE, lists |-> lists, members |-> members]

\* What createPlayerListBackup returns when nothing is written between its reads.
Export(d) == Backup(PlayersOf(d.players, d.rostered), ListsOf(d), MembersOf(d))

(***************************************************************************)
(* Parsing: the shape a file has, and what the schema lets through of it.  *)
(* `listed` says whether the file has `lists` at all.                      *)
(***************************************************************************)
Entry == [ext : Persons \cup {Null}, seq : Seqs \cup {Null}, hl : HlIds \cup {Null},
          src : SourceStates \cup {Null}, level : Levels, milb : {"Rookie", Null},
          active : BOOLEAN, rostered : BOOLEAN \cup {Null}]

Lane == [name : Names, isDefault : BOOLEAN,
         digestHour : Hours \cup {Null}, digestTo : Recipients \cup {Null}]

Member == [list : Names, ext : Persons \cup {Null}, seq : Seqs \cup {Null}, hl : HlIds \cup {Null}]

Document == [version : 1 .. PLAYER_BACKUP_VERSION, players : SUBSET Entry,
             listed : BOOLEAN, lists : SUBSET Lane, members : SUBSET Member]

\* A file names a list once, as whoever wrote it had one live list of a name.
WellFormed(doc) ==
  /\ doc \in Document
  /\ IsFiniteSet(doc.players) /\ IsFiniteSet(doc.lists)
  /\ ~ doc.listed => doc.lists = {}
  /\ \A l, k \in doc.lists : l.name = k.name => l = k

ASSUME FilesAssumption == \A doc \in Files : WellFormed(doc)

EntryAccepted(version, e) ==
  IF e.level = "ncaa"
    THEN /\ e.ext = Null
         /\ e.seq # Null \/ e.hl # Null
         /\ e.src = "highlightly_active" => e.hl # Null
         /\ version >= 3 => e.src # Null
         /\ version < 3 => e.hl = Null
    ELSE /\ e.ext # Null
         \* a promotion as it was once written: the retired id beside the new one
         /\ e.seq # Null => version < 4
         /\ e.hl = Null /\ e.src = Null

LaneAccepted(version, l) ==
  version < 5 => ~ l.isDefault /\ l.digestHour = Null /\ l.digestTo = Null

MemberAccepted(version, m) ==
  Cardinality(Carried(m)) = 1 /\ (m.hl # Null => version >= 4)

parsePlayerListBackup(doc) ==
  /\ doc.version = 1 => doc.lists = {} /\ doc.members = {}
  /\ \A e \in doc.players : EntryAccepted(doc.version, e)
  /\ \A e, f \in doc.players : e # f => \A i \in Carried(e) : e[i] # f[i]
  /\ \A l \in doc.lists : LaneAccepted(doc.version, l)
  /\ Cardinality({l \in doc.lists : l.isDefault}) <= 1
  /\ \A m \in doc.members : MemberAccepted(doc.version, m)

(***************************************************************************)
(* Restoring.  Every entry is resolved against the tables as they were;    *)
(* one that finds two rows, or two that find the same one, abort.          *)
(***************************************************************************)
Targets(d, e) == {p \in DOMAIN d.players : \E i \in Carried(e) : d.players[p][i] = e[i]}

EntriesResolve(d, doc) ==
  /\ \A e \in doc.players : Cardinality(Targets(d, e)) <= 1
  /\ \A e, f \in doc.players : e # f => Targets(d, e) \cap Targets(d, f) = {}

\* The row an entry becomes.  The oldest versions know no source state; a pro row sheds
\* whatever NCAA identity the entry had.
RowOf(doc, e) ==
  LET pro == e.level # "ncaa" IN
  [ext |-> e.ext, level |-> e.level, milb |-> e.milb, active |-> e.active,
   seq |-> IF pro THEN Null ELSE e.seq,
   hl |-> IF pro THEN Null ELSE e.hl,
   src |-> IF pro THEN Null ELSE IF e.src = Null /\ doc.version < 3 THEN "legacy_html" ELSE e.src]

\* writableDigestTo: the value that displays as unset is unset.
writableDigestTo(to) == IF to = "-" THEN Null ELSE to

ListOf(e) ==
  [name |-> e.name, live |-> TRUE, isDefault |-> e.isDefault,
   digestHour |-> e.digestHour, digestTo |-> writableDigestTo(e.digestTo)]

\* Phase 2: rows found are overwritten, the others inserted; their derived tags are rebuilt
\* in the same transaction, and their manual tags are the entry's where it has any.
WithEntries(d, doc) ==
  LET found == {e \in doc.players : Targets(d, e) # {}}
      fresh == SetToSeq(doc.players \ found)
      old == Len(d.players)
      EntryAt(p) == IF p > old THEN fresh[p - old] ELSE CHOOSE e \in found : p \in Targets(d, e)
      touched == (UNION {Targets(d, e) : e \in found}) \cup ((old + 1) .. (old + Len(fresh)))
      all == 1 .. (old + Len(fresh))
      written == [d EXCEPT
        !.players = [p \in all |-> IF p \in touched THEN RowOf(doc, EntryAt(p)) ELSE d.players[p]],
        !.derived = @ \o [i \in DOMAIN fresh |-> {}],
        !.line = @ \o [i \in DOMAIN fresh |-> "none"],
        !.rostered = {p \in all : IF p \in touched /\ EntryAt(p).rostered # Null
                                    THEN EntryAt(p).rostered ELSE p \in d.rostered}]
  IN Synced(written, touched)

\* Phase 3: the document's default wins where it has lists at all; a live list of the same
\* name takes its configuration, and the others are created.
WithLists(d, doc) ==
  LET fresh == SetToSeq({e \in doc.lists : ListNamed(d.lists, e.name) = {}})
      Merged(l) ==
        LET of == {e \in doc.lists : l.live /\ e.name = l.name} IN
        IF of # {} THEN ListOf(CHOOSE e \in of : TRUE)
        ELSE IF l.live THEN [l EXCEPT !.isDefault = FALSE] ELSE l
  IN IF ~ doc.listed THEN d
     ELSE [d EXCEPT !.lists = [k \in DOMAIN @ |-> Merged(@[k])] \o [i \in DOMAIN fresh |-> ListOf(fresh[i])]]

BugReplacesMembers(d, doc) ==
  [d EXCEPT !.members = UNION {ListNamed(d.lists, m.list) \X Targets(d, m) : m \in doc.members}]

MembersResolve(d, doc) ==
  \A m \in doc.members : ListNamed(d.lists, m.list) # {} /\ Targets(d, m) # {}

WithMembers(d, doc) ==
  [d EXCEPT !.members = @ \cup UNION {ListNamed(d.lists, m.list) \X Targets(d, m) : m \in doc.members}]

\* restorePlayerListBackup: all of it, or an abort that leaves the tables alone.
Restored(d, doc) ==
  LET listed == WithLists(WithEntries(d, doc), doc) IN
  IF EntriesResolve(d, doc) /\ MembersResolve(listed, doc) THEN WithMembers(listed, doc) ELSE d

(***************************************************************************)
(* The commands.                                                           *)
(***************************************************************************)
\* createPlayerListBackup: players, lists, members and manual tags, one query each.
createPlayerListBackup(a) ==
  /\ Begin(a, [Job("exportLists") EXCEPT !.rows = db.players])
  /\ Calm /\ UNCHANGED db

exportLists(a) ==
  /\ At(a, "exportLists")
  /\ Continue(a, [job[a] EXCEPT !.at = "exportMembers", !.doc = Backup({}, ListsOf(db), {})])
  /\ Calm /\ UNCHANGED db

exportMembers(a) ==
  /\ At(a, "exportMembers")
  /\ Continue(a, [job[a] EXCEPT !.at = "writeFile", !.doc.members = MembersOf(db)])
  /\ Calm /\ UNCHANGED db

\* The tags are read last, and the whole goes to a temporary file and is renamed.
writePlayerListBackupFile(a) ==
  /\ At(a, "writeFile")
  /\ file' = [job[a].doc EXCEPT !.players = PlayersOf(job[a].rows, db.rostered)]
  /\ End(a)
  /\ UNCHANGED <<db, behind, trouble>>

\* The file given to a restore: this database's last backup or one of the old ones.
Documents == Files \cup ({file} \ {Null})

\* runPlayersRestore: parsed, then put back in one transaction.
restorePlayerListBackup(a) ==
  \E doc \in Documents :
    /\ parsePlayerListBackup(doc)
    /\ Len(Restored(db, doc).players) <= MaxPlayers /\ Len(Restored(db, doc).lists) <= MaxLists
    /\ Transact(a)
    /\ db' = Restored(db, doc)
    /\ Calm
=============================================================================
