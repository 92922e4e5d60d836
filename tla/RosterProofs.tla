----------------------------- MODULE RosterProofs -----------------------------
(***************************************************************************)
(* Proofs about the roster: the tables under every interleaving of the     *)
(* server's and the command line's commands, for any persons, names and    *)
(* documents and tables of any size.                                       *)
(***************************************************************************)
EXTENDS BackupProofs

(***************************************************************************)
(* What every step keeps of the tables.                                    *)
(***************************************************************************)
Usable(d) == \A l \in DOMAIN d.lists : usableRecipient(d.lists[l].digestTo)

\* Rows and lists stay, and a professional keeps his person id and his history.
Later(d, e) ==
  /\ DOMAIN d.players \subseteq DOMAIN e.players /\ DOMAIN d.lists \subseteq DOMAIN e.lists
  /\ \A p \in DOMAIN d.players : d.players[p].ext # Null =>
       e.players[p].ext = d.players[p].ext /\ e.line[p] \in {d.line[p], "pro", "dsl"}

Evolves(d, e) == Sound(e) /\ Usable(e) /\ Later(d, e)

\* A player's derived tags are as they should be, or he is an NCAA player who has none yet.
Right(d, p) ==
  \/ d.derived[p] = deriveTags(d.players[p], d.line[p])
  \/ d.derived[p] = {} /\ d.players[p].level = "ncaa"

\* Nobody's tags but those of S went wrong.
Intact(d, e, S) ==
  \A p \in DOMAIN e.players \ S : Right(e, p) \/ (p \in DOMAIN d.players /\ ~ Right(d, p))

Defaulted(d) == \E l \in DOMAIN d.lists : d.lists[l].live /\ d.lists[l].isDefault

LEMMA Unchanged ==
    ASSUME NEW d, Sound(d), Usable(d)
    PROVE  Evolves(d, d) /\ Intact(d, d, {})
BY DEF Evolves, Later, Intact

(***************************************************************************)
(* Operations on lists and memberships.                                    *)
(***************************************************************************)
\* Lists of any kind that their table accepts, in place of the lists.
LEMMA ListsWritten ==
    ASSUME NEW d, Sound(d), NEW ls \in Seq(ListRow), DOMAIN d.lists \subseteq DOMAIN ls,
           ListsAccepted(ls), \A l \in DOMAIN ls : usableRecipient(ls[l].digestTo)
    PROVE  /\ Evolves(d, [d EXCEPT !.lists = ls]) /\ Intact(d, [d EXCEPT !.lists = ls], {})
           /\ [d EXCEPT !.lists = ls].lists = ls
<1> DEFINE e == [d EXCEPT !.lists = ls]
<1>1. d \in Tables
  BY DEF Sound, Consistent
<1>2. /\ e \in Tables /\ e.players = d.players /\ e.lists = ls /\ e.members = d.members
      /\ e.derived = d.derived /\ e.rostered = d.rostered /\ e.line = d.line
  BY <1>1, PutLists
<1> HIDE DEF e
<1>3. d.members \subseteq (DOMAIN ls) \X (DOMAIN d.players)
  BY DEF Sound, Consistent
<1>4. Sound(e)
  BY <1>2, <1>3 DEF Sound, Consistent
<1>5. Usable(e) /\ Later(d, e) /\ Intact(d, e, {})
  BY <1>2 DEF Usable, Later, Intact, Right
<1> QED BY <1>2, <1>4, <1>5 DEF e, Evolves

\* One list rewritten.
LEMMA ListWritten ==
    ASSUME NEW d, Sound(d), Usable(d), NEW l \in DOMAIN d.lists, NEW r \in ListRow,
           ListsAccepted([d.lists EXCEPT ![l] = r]), usableRecipient(r.digestTo)
    PROVE  LET e == [d EXCEPT !.lists = [d.lists EXCEPT ![l] = r]] IN
           /\ Evolves(d, e) /\ Intact(d, e, {})
           /\ e.lists[l] = r /\ \A k \in DOMAIN d.lists : k \in DOMAIN e.lists /\ (k # l => e.lists[k] = d.lists[k])
<1> DEFINE ls == [d.lists EXCEPT ![l] = r]
<1>1. d.lists \in Seq(ListRow)
  BY Columns DEF Sound
<1>2. ls \in Seq(ListRow) /\ DOMAIN ls = DOMAIN d.lists /\ ls[l] = r
      /\ \A k \in DOMAIN d.lists : k # l => ls[k] = d.lists[k]
  BY <1>1, ExceptSeq
<1>3. \A k \in DOMAIN ls : usableRecipient(ls[k].digestTo)
  BY <1>2 DEF Usable
<1> HIDE DEF ls
<1>4. /\ Evolves(d, [d EXCEPT !.lists = ls]) /\ Intact(d, [d EXCEPT !.lists = ls], {})
      /\ [d EXCEPT !.lists = ls].lists = ls
  BY <1>2, <1>3, ListsWritten DEF ls
<1> QED BY <1>2, <1>4 DEF ls

\* A row that has the name of the row before it, and is live and the default no more than it
\* was, may take its place.
LEMMA ListAccepted ==
    ASSUME NEW ls, ListsAccepted(ls), NEW l \in DOMAIN ls, NEW r,
           r.name = ls[l].name, r.live => ls[l].live, r.live /\ r.isDefault => ls[l].isDefault
    PROVE  ListsAccepted([ls EXCEPT ![l] = r])
<1> DEFINE w == [ls EXCEPT ![l] = r]
<1>1. DOMAIN w = DOMAIN ls /\ w[l] = r /\ \A k \in DOMAIN ls : k # l => w[k] = ls[k]
  OBVIOUS
<1> HIDE DEF w
<1>2. \A k \in DOMAIN ls : /\ w[k].name = ls[k].name /\ (w[k].live => ls[k].live)
                           /\ w[k].live /\ w[k].isDefault => ls[k].isDefault
  BY <1>1
<1>3. LiveNamesUnique(w)
  BY <1>1, <1>2 DEF ListsAccepted, LiveNamesUnique
<1>4. OneLiveDefault(w)
  BY <1>1, <1>2 DEF ListsAccepted, OneLiveDefault
<1> QED BY <1>3, <1>4 DEF ListsAccepted, w

\* Moving the default leaves one.
LEMMA DefaultMoves ==
    ASSUME NEW d, Sound(d), Usable(d), NEW l \in DOMAIN d.lists, d.lists[l].live
    PROVE  LET e == [d EXCEPT !.lists = Redefaulted(d.lists, l)] IN
           Evolves(d, e) /\ Intact(d, e, {}) /\ Defaulted(e)
<1> DEFINE ls == Redefaulted(d.lists, l)
<1>1. d.lists \in Seq(ListRow) /\ DOMAIN d.lists = 1 .. Len(d.lists) /\ Len(d.lists) \in Nat
      /\ \A k \in DOMAIN d.lists : d.lists[k] \in ListRow
  BY Columns DEF Sound
<1>2. DOMAIN ls = DOMAIN d.lists
      /\ \A k \in DOMAIN d.lists : /\ ls[k] \in ListRow /\ ls[k].name = d.lists[k].name
                                   /\ ls[k].live = d.lists[k].live /\ ls[k].digestTo = d.lists[k].digestTo
                                   /\ ls[k].live => (ls[k].isDefault <=> k = l)
  BY <1>1 DEF Redefaulted, ListRow
<1>3. ls \in [1 .. Len(d.lists) -> ListRow]
  <2>1. ls = [k \in DOMAIN d.lists |-> ls[k]]
    BY DEF Redefaulted
  <2> HIDE DEF ls
  <2> QED BY <2>1, <1>1, <1>2
<1> HIDE DEF ls
<1>4. ls \in Seq(ListRow)
  BY <1>1, <1>3
<1>5. LiveNamesUnique(ls)
  BY <1>2 DEF Sound, ListsAccepted, LiveNamesUnique
<1>6. OneLiveDefault(ls)
  BY <1>2 DEF OneLiveDefault
<1>7. \A k \in DOMAIN ls : usableRecipient(ls[k].digestTo)
  BY <1>2 DEF Usable
<1>8. /\ Evolves(d, [d EXCEPT !.lists = ls]) /\ Intact(d, [d EXCEPT !.lists = ls], {})
      /\ [d EXCEPT !.lists = ls].lists = ls
  BY <1>2, <1>4, <1>5, <1>6, <1>7, ListsWritten DEF ListsAccepted
<1>9. Defaulted([d EXCEPT !.lists = ls])
  BY <1>2, <1>8 DEF Defaulted
<1> QED BY <1>8, <1>9 DEF ls

\* A new list is nobody's default and named like no live one.
LEMMA ListInserted ==
    ASSUME NEW d, Sound(d), Usable(d), NEW n \in Names, ListsAccepted(Append(d.lists, NewList(n)))
    PROVE  LET e == [d EXCEPT !.lists = Append(d.lists, NewList(n))] IN
           Evolves(d, e) /\ Intact(d, e, {}) /\ (Defaulted(d) => Defaulted(e))
<1> DEFINE ls == Append(d.lists, NewList(n))
<1>1. d.lists \in Seq(ListRow) /\ DOMAIN d.lists = 1 .. Len(d.lists) /\ Len(d.lists) \in Nat
  BY Columns DEF Sound
<1>2. NewList(n) \in ListRow /\ NewList(n).digestTo = Null
  BY DEF NewList, ListRow
<1>3. ls \in Seq(ListRow) /\ DOMAIN ls = 1 .. (Len(d.lists) + 1)
      /\ ls[Len(d.lists) + 1] = NewList(n) /\ \A k \in DOMAIN d.lists : ls[k] = d.lists[k]
  BY <1>1, <1>2, AppendProperties
<1> HIDE DEF ls
<1>4. DOMAIN d.lists \subseteq DOMAIN ls
  BY <1>1, <1>3
<1>5. \A k \in DOMAIN ls : usableRecipient(ls[k].digestTo)
  BY <1>1, <1>2, <1>3, RosterAssumption DEF Usable, usableRecipient
<1>6. /\ Evolves(d, [d EXCEPT !.lists = ls]) /\ Intact(d, [d EXCEPT !.lists = ls], {})
      /\ [d EXCEPT !.lists = ls].lists = ls
  BY <1>3, <1>4, <1>5, ListsWritten DEF ls
<1>7. Defaulted(d) => Defaulted([d EXCEPT !.lists = ls])
  BY <1>3, <1>4, <1>6 DEF Defaulted
<1> QED BY <1>6, <1>7 DEF ls

\* Memberships of lists and players there are, added or taken away.
LEMMA MembersWritten ==
    ASSUME NEW d, Sound(d), Usable(d), NEW ms, ms \subseteq (DOMAIN d.lists) \X (DOMAIN d.players)
    PROVE  LET e == [d EXCEPT !.members = ms] IN
           Evolves(d, e) /\ Intact(d, e, {}) /\ e.lists = d.lists
<1> DEFINE e == [d EXCEPT !.members = ms]
<1>1. d \in Tables /\ ms \in SUBSET (Nat \X Nat)
  BY Columns DEF Sound
<1>2. /\ e \in Tables /\ e.players = d.players /\ e.lists = d.lists /\ e.members = ms
      /\ e.derived = d.derived /\ e.rostered = d.rostered /\ e.line = d.line
  BY <1>1, PutMembers
<1> HIDE DEF e
<1>3. Sound(e)
  BY <1>2 DEF Sound, Consistent
<1>4. Usable(e) /\ Later(d, e) /\ Intact(d, e, {})
  BY <1>2 DEF Usable, Later, Intact, Right
<1> QED BY <1>2, <1>3, <1>4 DEF e, Evolves

\* Manual tags of players there are.
LEMMA RosteredWritten ==
    ASSUME NEW d, Sound(d), Usable(d), NEW R, R \subseteq DOMAIN d.players
    PROVE  LET e == [d EXCEPT !.rostered = R] IN
           Evolves(d, e) /\ Intact(d, e, {}) /\ e.lists = d.lists
<1> DEFINE e == [d EXCEPT !.rostered = R]
<1>1. d \in Tables /\ R \in SUBSET Nat
  BY Columns DEF Sound
<1>2. /\ e \in Tables /\ e.players = d.players /\ e.lists = d.lists /\ e.members = d.members
      /\ e.derived = d.derived /\ e.rostered = R /\ e.line = d.line
  BY <1>1, PutRostered
<1> HIDE DEF e
<1>3. Sound(e)
  BY <1>2 DEF Sound, Consistent
<1>4. Usable(e) /\ Later(d, e) /\ Intact(d, e, {})
  BY <1>2 DEF Usable, Later, Intact, Right
<1> QED BY <1>2, <1>3, <1>4 DEF e, Evolves

\* Deriving tags anew makes them right.
LEMMA TagsWritten ==
    ASSUME NEW d, Sound(d), Usable(d), NEW S
    PROVE  /\ Evolves(d, Synced(d, S)) /\ Intact(d, Synced(d, S), {})
           /\ \A p \in DOMAIN d.players : p \in S => Right(Synced(d, S), p)
           /\ Synced(d, S).lists = d.lists /\ Synced(d, S).players = d.players
<1> DEFINE e == Synced(d, S)
<1>1. /\ Consistent(e) /\ e.players = d.players /\ e.lists = d.lists /\ e.members = d.members
      /\ e.rostered = d.rostered /\ e.line = d.line
      /\ \A p \in DOMAIN d.players :
           e.derived[p] = IF p \in S THEN deriveTags(d.players[p], d.line[p]) ELSE d.derived[p]
  BY SyncedIs DEF Sound
<1> HIDE DEF e
<1>2. Sound(e) /\ Usable(e) /\ Later(d, e)
  BY <1>1 DEF Sound, Usable, Later
<1>3. \A p \in DOMAIN d.players : p \in S => Right(e, p)
  BY <1>1 DEF Right
<1>4. Intact(d, e, {})
  BY <1>1 DEF Intact, Right
<1> QED BY <1>1, <1>2, <1>3, <1>4 DEF e, Evolves

(***************************************************************************)
(* Operations on players.                                                  *)
(***************************************************************************)
\* One row and its line rewritten: all the rest is as it was.
Rewritten(d, e, p, r, line) ==
  /\ e \in Tables /\ e.lists = d.lists /\ e.members = d.members
  /\ e.derived = d.derived /\ e.rostered = d.rostered
  /\ DOMAIN e.players = DOMAIN d.players /\ Len(e.players) = Len(d.players) /\ Len(e.line) = Len(d.line)
  /\ e.players[p] = r /\ e.line[p] = line
  /\ \A q \in DOMAIN d.players : q # p => e.players[q] = d.players[q] /\ e.line[q] = d.line[q]

LEMMA RowRewritten ==
    ASSUME NEW d, Sound(d), NEW p \in DOMAIN d.players, NEW r \in PlayerRow, NEW line \in LineKinds,
           NEW e, e = [d EXCEPT !.players = [d.players EXCEPT ![p] = r], !.line = [d.line EXCEPT ![p] = line]]
    PROVE  Rewritten(d, e, p, r, line)
<1> DEFINE ps == [d.players EXCEPT ![p] = r]
           lines == [d.line EXCEPT ![p] = line]
<1>1. /\ d \in Tables /\ d.players \in Seq(PlayerRow) /\ d.line \in Seq(LineKinds)
      /\ DOMAIN d.line = DOMAIN d.players
  BY Columns DEF Sound
<1>2. ps \in Seq(PlayerRow) /\ Len(ps) = Len(d.players) /\ DOMAIN ps = DOMAIN d.players /\ ps[p] = r
      /\ \A q \in DOMAIN d.players : q # p => ps[q] = d.players[q]
  BY <1>1, ExceptSeq
<1>3. lines \in Seq(LineKinds) /\ Len(lines) = Len(d.line) /\ lines[p] = line
      /\ \A q \in DOMAIN d.players : q # p => lines[q] = d.line[q]
  BY <1>1, ExceptSeq
<1>4. e = [d EXCEPT !.players = ps, !.line = lines]
  OBVIOUS
<1> HIDE DEF ps, lines
<1>5. /\ e \in Tables /\ e.players = ps /\ e.lists = d.lists /\ e.members = d.members
      /\ e.derived = d.derived /\ e.rostered = d.rostered /\ e.line = lines
  BY <1>1, <1>2, <1>3, <1>4 DEF Tables
<1> QED BY <1>2, <1>3, <1>5 DEF Rewritten

\* Where only the row is written, its line stays.
LEMMA RowPut ==
    ASSUME NEW d, Sound(d), NEW p \in DOMAIN d.players, NEW r \in PlayerRow
    PROVE  Rewritten(d, WithRow(d, p, r), p, r, d.line[p])
<1> DEFINE e == WithRow(d, p, r)
           ps == [d.players EXCEPT ![p] = r]
<1>1. /\ d \in Tables /\ d.players \in Seq(PlayerRow)
  BY Columns DEF Sound
<1>2. ps \in Seq(PlayerRow) /\ Len(ps) = Len(d.players) /\ DOMAIN ps = DOMAIN d.players /\ ps[p] = r
      /\ \A q \in DOMAIN d.players : q # p => ps[q] = d.players[q]
  BY <1>1, ExceptSeq
<1>3. e = [d EXCEPT !.players = ps]
  BY DEF WithRow
<1> HIDE DEF ps, e
<1>4. /\ e \in Tables /\ e.players = ps /\ e.lists = d.lists /\ e.members = d.members
      /\ e.derived = d.derived /\ e.rostered = d.rostered /\ e.line = d.line
  BY <1>1, <1>2, <1>3, PutPlayers
<1>5. Rewritten(d, e, p, r, d.line[p])
  BY <1>2, <1>4 DEF Rewritten
<1> QED BY <1>5 DEF e

\* If the table accepts it, and a professional stays one with his history, the tables stand;
\* the tags are right if level, league and line are the same.
LEMMA RowStands ==
    ASSUME NEW d, Sound(d), Usable(d), NEW p \in DOMAIN d.players, NEW r, NEW line, NEW e,
           Rewritten(d, e, p, r, line), PlayersAccepted(e.players),
           d.players[p].ext # Null => r.ext = d.players[p].ext /\ line \in {d.line[p], "pro", "dsl"}
    PROVE  /\ Evolves(d, e) /\ Intact(d, e, {p})
           /\ r.level = d.players[p].level /\ r.milb = d.players[p].milb /\ line = d.line[p] => Intact(d, e, {})
<1>1. Consistent(e)
  BY DEF Rewritten, Sound, Consistent
<1>2. Sound(e) /\ Usable(e)
  BY <1>1 DEF Rewritten, Sound, Usable
<1>3. Later(d, e)
  BY DEF Rewritten, Later
<1>4. \A q \in DOMAIN d.players : q # p => (Right(e, q) <=> Right(d, q))
  BY DEF Rewritten, Right
<1>5. Intact(d, e, {p})
  BY <1>4 DEF Rewritten, Intact
<1>6. ASSUME r.level = d.players[p].level, r.milb = d.players[p].milb, line = d.line[p] PROVE Intact(d, e, {})
  <2>1. Right(e, p) <=> Right(d, p)
    BY <1>6 DEF Rewritten, Right, deriveTags, prospectRule, dslRule, levelRule
  <2> QED BY <2>1, <1>4 DEF Rewritten, Intact
<1> QED BY <1>2, <1>3, <1>5, <1>6 DEF Evolves

\* A row within the constraints of its own that shares no identity with another is accepted.
LEMMA RowAccepted ==
    ASSUME NEW d, Sound(d), NEW p \in DOMAIN d.players, NEW r, NEW line, NEW e, Rewritten(d, e, p, r, line),
           identityStateCheck(r), activeIdentityCheck(r),
           \A q \in DOMAIN d.players : q # p =>
             /\ r.ext # Null => r.ext # d.players[q].ext
             /\ r.seq # Null => r.seq # d.players[q].seq
             /\ r.hl # Null => r.hl # d.players[q].hl
    PROVE  PlayersAccepted(e.players)
<1>1. \A q \in DOMAIN e.players : identityStateCheck(e.players[q]) /\ activeIdentityCheck(e.players[q])
  BY DEF Rewritten, Sound, PlayersAccepted
<1>2. UniqueIds(d.players)
  BY DEF Sound, PlayersAccepted
<1>3. UniqueIds(e.players)
  BY <1>2 DEF Rewritten, UniqueIds
<1> QED BY <1>1, <1>3 DEF PlayersAccepted

\* A player (de)activated.
LEMMA ActiveWritten ==
    ASSUME NEW d, Sound(d), Usable(d), NEW p \in DOMAIN d.players, NEW b \in BOOLEAN
    PROVE  LET e == [d EXCEPT !.players[p].active = b] IN
           Evolves(d, e) /\ Intact(d, e, {}) /\ e.lists = d.lists
<1> DEFINE r == [d.players[p] EXCEPT !.active = b]
           e == [d EXCEPT !.players[p].active = b]
<1>1. d.players[p] \in PlayerRow
  BY Columns DEF Sound
<1>2. /\ r \in PlayerRow /\ r.ext = d.players[p].ext /\ r.seq = d.players[p].seq /\ r.hl = d.players[p].hl
      /\ r.src = d.players[p].src /\ r.level = d.players[p].level /\ r.milb = d.players[p].milb
  BY <1>1 DEF PlayerRow
<1>3. e = WithRow(d, p, r)
  BY DEF WithRow
<1> HIDE DEF r, e
<1>4. Rewritten(d, e, p, r, d.line[p])
  BY <1>2, <1>3, RowPut
<1>5. identityStateCheck(r) /\ activeIdentityCheck(r)
  BY <1>2 DEF Sound, PlayersAccepted, identityStateCheck, activeIdentityCheck
<1>6. UniqueIds(d.players)
  BY DEF Sound, PlayersAccepted
<1>7. \A q \in DOMAIN d.players : q # p =>
        /\ r.ext # Null => r.ext # d.players[q].ext
        /\ r.seq # Null => r.seq # d.players[q].seq
        /\ r.hl # Null => r.hl # d.players[q].hl
  BY <1>2, <1>6 DEF UniqueIds
<1>8. PlayersAccepted(e.players)
  BY <1>4, <1>5, <1>7, RowAccepted
<1>9. Evolves(d, e) /\ Intact(d, e, {})
  BY <1>2, <1>4, <1>8, RowStands
<1> QED BY <1>4, <1>9 DEF Rewritten, e

\* A legacy player bound to Highlightly, unless the table refuses.
LEMMA Bound ==
    ASSUME NEW d, Sound(d), Usable(d), NEW p \in DOMAIN d.players, NEW h \in HlIds
    PROVE  LET e == WithRow(d, p, [d.players[p] EXCEPT !.hl = h, !.src = "highlightly_pending"]) IN
           PlayersAccepted(e.players) => Evolves(d, e) /\ Intact(d, e, {}) /\ e.lists = d.lists
<1> DEFINE r == [d.players[p] EXCEPT !.hl = h, !.src = "highlightly_pending"]
           e == WithRow(d, p, r)
<1>1. d.players[p] \in PlayerRow
  BY Columns DEF Sound
<1>2. /\ r \in PlayerRow /\ r.ext = d.players[p].ext
      /\ r.level = d.players[p].level /\ r.milb = d.players[p].milb
  BY <1>1 DEF PlayerRow, SourceStates
<1> HIDE DEF r
<1>3. Rewritten(d, e, p, r, d.line[p])
  BY <1>2, RowPut
<1> HIDE DEF e
<1>4. PlayersAccepted(e.players) => Evolves(d, e) /\ Intact(d, e, {})
  BY <1>2, <1>3, RowStands
<1> QED BY <1>3, <1>4 DEF Rewritten, e, r

\* An NCAA player turned professional under a person id nobody has.
LEMMA Promoted ==
    ASSUME NEW d, Sound(d), Usable(d), NEW p \in DOMAIN d.players, d.players[p].level = "ncaa",
           NEW x \in Persons, \A q \in DOMAIN d.players : d.players[q].ext # x, NEW place \in Locations
    PROVE  LET e == Synced(WithRow(d, p, ProRow(x, place)), {p}) IN
           Evolves(d, e) /\ Intact(d, e, {}) /\ Right(e, p) /\ e.lists = d.lists
<1> DEFINE r == ProRow(x, place)
           w == WithRow(d, p, r)
           e == Synced(w, {p})
<1>1. /\ r \in PlayerRow /\ r.ext = x /\ r.seq = Null /\ r.hl = Null /\ r.src = Null
      /\ r.level \in {"mlb", "milb"}
  BY DEF ProRow, Locations, PlayerRow, Levels
<1> HIDE DEF r
<1>2. Rewritten(d, w, p, r, d.line[p])
  BY <1>1, RowPut
<1> HIDE DEF w, e
<1>3. x # Null
  BY RosterAssumption
<1>4. identityStateCheck(r) /\ activeIdentityCheck(r)
  BY <1>1, <1>3, RosterAssumption DEF identityStateCheck, activeIdentityCheck
<1>5. PlayersAccepted(w.players)
  BY <1>1, <1>2, <1>4, RowAccepted
<1>6. d.players[p].ext = Null
  BY DEF Sound, PlayersAccepted, identityStateCheck
<1>7. Evolves(d, w) /\ Intact(d, w, {p})
  BY <1>2, <1>5, <1>6, RowStands
<1>8. p \in DOMAIN w.players /\ w.lists = d.lists /\ DOMAIN w.players = DOMAIN d.players
  BY <1>2 DEF Rewritten
<1>9. Evolves(w, e) /\ Intact(w, e, {}) /\ Right(e, p) /\ e.lists = w.lists /\ e.players = w.players
  BY <1>7, <1>8, TagsWritten DEF Evolves, e
<1>10. e.line = w.line
  BY <1>7, SyncedIs DEF Evolves, Sound, e
<1>11. Later(d, e)
  BY <1>7, <1>8, <1>9, <1>10 DEF Evolves, Later
<1>12. Intact(d, e, {})
  BY <1>7, <1>8, <1>9 DEF Intact
<1> QED BY <1>8, <1>9, <1>11, <1>12 DEF Evolves, e, w, r

\* A new row the table accepts is the last; an NCAA player's lack of tags is right.
LEMMA Inserted ==
    ASSUME NEW d, Sound(d), Usable(d), NEW r \in PlayerRow, PlayersAccepted(Append(d.players, r))
    PROVE  LET e == WithNewRow(d, r) IN
           /\ Evolves(d, e) /\ e.lists = d.lists
           /\ Len(d.players) + 1 \in DOMAIN e.players /\ Intact(d, e, {Len(d.players) + 1})
           /\ r.level = "ncaa" => Intact(d, e, {})
<1> DEFINE n == Len(d.players)
           e == WithNewRow(d, r)
           ps == Append(d.players, r)
           tags == Append(d.derived, {})
           lines == Append(d.line, "none")
<1>1. /\ d \in Tables /\ d.players \in Seq(PlayerRow) /\ d.line \in Seq(LineKinds)
      /\ d.derived \in Seq(SUBSET Tags) /\ Len(d.line) = n /\ Len(d.derived) = n
      /\ n \in Nat /\ DOMAIN d.players = 1 .. n
      /\ DOMAIN d.line = 1 .. n /\ DOMAIN d.derived = 1 .. n
  BY Columns DEF Sound
<1>2. ps \in Seq(PlayerRow) /\ Len(ps) = n + 1 /\ DOMAIN ps = 1 .. (n + 1) /\ ps[n + 1] = r
      /\ \A q \in 1 .. n : ps[q] = d.players[q]
  BY <1>1, AppendProperties
<1>3. lines \in Seq(LineKinds) /\ Len(lines) = n + 1 /\ \A q \in 1 .. n : lines[q] = d.line[q]
  <2>1. "none" \in LineKinds
    BY DEF LineKinds
  <2> QED BY <2>1, <1>1, AppendProperties
<1>4. tags \in Seq(SUBSET Tags) /\ Len(tags) = n + 1 /\ tags[n + 1] = {}
      /\ \A q \in 1 .. n : tags[q] = d.derived[q]
  <2>1. {} \in SUBSET Tags
    OBVIOUS
  <2> QED BY <2>1, <1>1, AppendProperties
<1>5. e = [d EXCEPT !.players = ps, !.derived = tags, !.line = lines]
  BY DEF WithNewRow
<1>6. PlayersAccepted(ps)
  OBVIOUS
<1> HIDE DEF ps, tags, lines, e, n
<1>7. /\ e \in Tables /\ e.players = ps /\ e.lists = d.lists /\ e.members = d.members
      /\ e.derived = tags /\ e.rostered = d.rostered /\ e.line = lines
  BY <1>1, <1>2, <1>3, <1>4, <1>5 DEF Tables
<1>8. DOMAIN d.players \subseteq DOMAIN e.players /\ n + 1 \in DOMAIN e.players
      /\ \A q \in DOMAIN e.players : q \in DOMAIN d.players \/ q = n + 1
  BY <1>1, <1>2, <1>7
<1>9. Consistent(e)
  <2>1. d.members \subseteq (DOMAIN d.lists) \X (DOMAIN d.players) /\ d.rostered \subseteq DOMAIN d.players
    BY DEF Sound, Consistent
  <2>2. d.members \subseteq (DOMAIN e.lists) \X (DOMAIN e.players) /\ d.rostered \subseteq DOMAIN e.players
    BY <2>1, <1>7, <1>8
  <2> QED BY <2>2, <1>2, <1>3, <1>4, <1>7 DEF Consistent
<1>10. Sound(e) /\ Usable(e)
  BY <1>6, <1>7, <1>9 DEF Sound, Usable
<1>11. Later(d, e)
  BY <1>1, <1>2, <1>3, <1>7, <1>8 DEF Later
<1>12. \A q \in DOMAIN d.players : Right(e, q) <=> Right(d, q)
  BY <1>1, <1>2, <1>3, <1>4, <1>7 DEF Right
<1>13. Intact(d, e, {n + 1})
  BY <1>8, <1>12 DEF Intact
<1>14. r.level = "ncaa" => Right(e, n + 1)
  BY <1>2, <1>4, <1>7 DEF Right
<1>15. r.level = "ncaa" => Intact(d, e, {})
  BY <1>8, <1>12, <1>14 DEF Intact
<1> QED BY <1>7, <1>8, <1>10, <1>11, <1>13, <1>15 DEF Evolves, e, n

\* A refresh's write of one player, for a professional and for an NCAA player.
LEMMA ProRewritten ==
    ASSUME NEW d, Sound(d), NEW p \in DOMAIN d.players, NEW e \in RefreshedPro(d, p)
    PROVE  \E r \in PlayerRow, line \in {d.line[p], "pro", "dsl"} :
             r.ext = d.players[p].ext /\ Rewritten(d, e, p, r, line)
<1>1. PICK place \in Locations \cup {[level |-> d.players[p].level, milb |-> d.players[p].milb]},
           line \in {d.line[p], "pro", "dsl"} :
        e = Relocated(d, p, place, line)
  BY DEF RefreshedPro
<1> DEFINE r == [d.players[p] EXCEPT !.level = place.level, !.milb = place.milb]
<1>2. d.players[p] \in PlayerRow /\ d.line[p] \in LineKinds /\ d \in Tables
  BY Columns DEF Sound
<1>3. place.level \in Levels /\ place.milb \in {"Rookie", Null}
  <2>1. CASE place \in Locations
    BY <2>1 DEF Locations, Levels
  <2>2. CASE place = [level |-> d.players[p].level, milb |-> d.players[p].milb]
    BY <2>2, <1>2 DEF PlayerRow
  <2> QED BY <1>1, <2>1, <2>2
<1>4. r \in PlayerRow /\ r.ext = d.players[p].ext
  BY <1>2, <1>3 DEF PlayerRow
<1>5. line \in LineKinds
  BY <1>2 DEF LineKinds
<1>6. d.players \in Seq(PlayerRow)
  BY Columns DEF Sound
<1>7. e = [d EXCEPT !.players = [d.players EXCEPT ![p] = r], !.line = [d.line EXCEPT ![p] = line]]
  BY <1>1 DEF Relocated
<1> HIDE DEF r
<1>8. Rewritten(d, e, p, r, line)
  BY <1>4, <1>5, <1>7, RowRewritten
<1> QED BY <1>4, <1>8

LEMMA NcaaRewritten ==
    ASSUME NEW d, Sound(d), NEW p \in DOMAIN d.players, NEW snap, snap.hl \in HlIds,
           NEW e \in RefreshedNcaa(d, p, snap)
    PROVE  \E r \in PlayerRow, line \in LineKinds :
             /\ r.ext = d.players[p].ext /\ r.src = "highlightly_active"
             /\ Rewritten(d, e, p, r, line)
<1> DEFINE kept == IF snap.src = "highlightly_pending" /\ d.line[p] = "legacy" THEN "none" ELSE d.line[p]
           r == [d.players[p] EXCEPT !.src = "highlightly_active"]
<1>1. PICK line \in {snap.hl, kept} :
        e = [d EXCEPT !.players[p].src = "highlightly_active", !.line[p] = line]
  BY Zenon DEF RefreshedNcaa
<1>2. d.players[p] \in PlayerRow /\ d.line[p] \in LineKinds
  BY Columns DEF Sound
<1>3. r \in PlayerRow /\ r.ext = d.players[p].ext /\ r.src = "highlightly_active"
  BY <1>2 DEF PlayerRow, SourceStates
<1>4. line \in LineKinds
  BY <1>2 DEF LineKinds
<1>5. e = [d EXCEPT !.players = [d.players EXCEPT ![p] = r], !.line = [d.line EXCEPT ![p] = line]]
  BY <1>1
<1> HIDE DEF r
<1>6. Rewritten(d, e, p, r, line)
  BY <1>3, <1>4, <1>5, RowRewritten
<1> QED BY <1>3, <1>4, <1>6

\* Whatever a refresh fetched, for the row as it is or as it once was, the tables stand.
LEMMA Refreshed ==
    ASSUME NEW d, Sound(d), Usable(d), NEW p \in DOMAIN d.players, NEW snap \in PlayerRow, Refreshable(snap),
           NEW e \in Written(d, p, snap)
    PROVE  Evolves(d, e) /\ Intact(d, e, {p}) /\ e.lists = d.lists
<1>1. PlayersAccepted(e.players)
  BY DEF Written
<1>2. CASE snap.level = "ncaa"
  <2>1. snap.hl \in HlIds
    BY <1>2 DEF PlayerRow, Refreshable
  <2>2. e \in RefreshedNcaa(d, p, snap)
    BY <1>2 DEF Written
  <2>3. PICK r \in PlayerRow, line \in LineKinds :
          r.ext = d.players[p].ext /\ r.src = "highlightly_active" /\ Rewritten(d, e, p, r, line)
    BY <2>1, <2>2, NcaaRewritten
  <2>4. e.players[p] = r /\ p \in DOMAIN e.players /\ e.lists = d.lists
    BY <2>3 DEF Rewritten
  <2>5. r.ext = Null
    BY <1>1, <2>3, <2>4, RosterAssumption DEF PlayersAccepted, identityStateCheck
  <2> QED BY <1>1, <2>3, <2>4, <2>5, RowStands
<1>3. CASE snap.level # "ncaa"
  <2>1. e \in RefreshedPro(d, p)
    BY <1>3 DEF Written
  <2>2. PICK r \in PlayerRow, line \in {d.line[p], "pro", "dsl"} :
          r.ext = d.players[p].ext /\ Rewritten(d, e, p, r, line)
    BY <2>1, ProRewritten
  <2>3. e.lists = d.lists
    BY <2>2 DEF Rewritten
  <2> QED BY <1>1, <2>2, <2>3, RowStands
<1> QED BY <1>2, <1>3

\* A restore: the tables stand, nobody's tags go wrong, and no default is lost but to a
\* document whose lists name none.
LEMMA RestoreStands ==
    ASSUME NEW d, Sound(d), Usable(d), NEW doc, WellFormed(doc), parsePlayerListBackup(doc)
    PROVE  /\ Evolves(d, Restored(d, doc)) /\ Intact(d, Restored(d, doc), {})
           /\ Defaulted(d) => Defaulted(Restored(d, doc)) \/ \A l \in doc.lists : ~ l.isDefault
<1> DEFINE e == Restored(d, doc)
<1>1. CASE e = d
  BY <1>1, Unchanged
<1>2. CASE Restoration(d, doc, e)
  <2>1. PICK S, of : Landed(d, doc, e, S, of)
    BY <1>2 DEF Restoration
  <2> HIDE DEF e
  <2>2. Sound(e)
    BY <1>2 DEF Restoration
  <2>3. Consistent(d) /\ PlayersAccepted(d.players) /\ ListsAccepted(d.lists)
    BY DEF Sound
  <2>4. Usable(e) /\ DOMAIN d.lists \subseteq DOMAIN e.lists
    <3>1. CASE doc.listed
      <4>1. Listed(d.lists, doc, e.lists)
        BY <3>1, <1>2 DEF Restoration
      <4>2. (\A k \in DOMAIN d.lists : usableRecipient(d.lists[k].digestTo))
              => \A k \in DOMAIN e.lists : usableRecipient(e.lists[k].digestTo)
        BY <4>1, <2>3, ListsStand
      <4>3. DOMAIN d.lists \subseteq DOMAIN e.lists
        BY <4>1 DEF Listed
      <4> QED BY <4>2, <4>3 DEF Usable
    <3>2. CASE ~ doc.listed
      BY <3>2, <1>2 DEF Restoration, Usable
    <3> QED BY <3>1, <3>2
  <2>5. DOMAIN d.players \subseteq DOMAIN e.players /\ \A p \in DOMAIN d.players : e.line[p] = d.line[p]
    BY <2>1 DEF Landed
  <2>6. ASSUME NEW p \in DOMAIN d.players, d.players[p].ext # Null PROVE e.players[p].ext = d.players[p].ext
    <3>1. CASE p \notin S
      BY <3>1, <2>1 DEF Landed
    <3>2. CASE p \in S
      <4>1. e.players[p] = RowOf(doc, of[p]) /\ p \in Targets(d, of[p])
        BY <3>2, <2>1 DEF Landed
      <4>2. d.players[p].seq = Null /\ d.players[p].hl = Null
        BY <2>6, <2>3 DEF PlayersAccepted, identityStateCheck
      <4>3. of[p].ext = d.players[p].ext
        BY <4>1, <4>2, TargetsAre
      <4> QED BY <4>1, <4>3 DEF RowOf
    <3> QED BY <3>1, <3>2
  <2>7. Later(d, e)
    BY <2>4, <2>5, <2>6 DEF Later
  <2>8. ASSUME NEW p \in DOMAIN e.players PROVE Right(e, p) \/ (p \in DOMAIN d.players /\ ~ Right(d, p))
    <3>1. CASE p \in S
      BY <3>1, <2>1 DEF Landed, Right
    <3>2. CASE p \notin S
      <4>1. /\ p \in DOMAIN d.players /\ e.players[p] = d.players[p] /\ e.derived[p] = d.derived[p]
            /\ e.line[p] = d.line[p]
        BY <3>2, <2>1 DEF Landed
      <4> QED BY <4>1 DEF Right
    <3> QED BY <3>1, <3>2
  <2>9. Intact(d, e, {})
    BY <2>8 DEF Intact
  <2>10. Defaulted(d) => Defaulted(e) \/ \A l \in doc.lists : ~ l.isDefault
    <3>1. CASE doc.listed
      <4> DEFINE ls == e.lists
      <4>1. Listed(d.lists, doc, ls)
        BY <3>1, <1>2 DEF Restoration
      <4> HIDE DEF ls
      <4>2. \A x \in doc.lists : x.isDefault =>
              \E k \in DOMAIN ls : ls[k].live /\ ls[k].isDefault /\ ls[k].name = x.name
        <5> SUFFICES ASSUME NEW x \in doc.lists, x.isDefault
                     PROVE  \E k \in DOMAIN ls : ls[k].live /\ ls[k].isDefault /\ ls[k].name = x.name
          OBVIOUS
        <5>1. PICK k \in DOMAIN ls : ls[k] = ListOf(x)
          BY <4>1 DEF Listed
        <5>2. ListOf(x).live /\ ListOf(x).isDefault /\ ListOf(x).name = x.name
          BY DEF ListOf
        <5> QED BY <5>1, <5>2
      <4> QED BY <4>2 DEF Defaulted, ls
    <3>2. CASE ~ doc.listed
      BY <3>2, <1>2 DEF Restoration, Defaulted
    <3> QED BY <3>1, <3>2
  <2> QED BY <2>2, <2>4, <2>7, <2>9, <2>10 DEF Evolves, e
<1> QED BY <1>1, <1>2, RestoredIs

(***************************************************************************)
(* The inductive invariant: beside the tables, what the commands under way *)
(* remember of them, and whose tags they owe.                              *)
(***************************************************************************)
Steps ==
  {"idle", "down", "insertList", "clash", "rename", "addMembers", "removeMembers", "find", "reactivate",
   "insert", "prime", "write", "sync", "derive", "attach", "sweep", "sweepSync", "bind", "deactivate",
   "exportLists", "exportMembers", "writeFile"}

JobType ==
  [at : Steps, kind : {"none", "mlb", "hl", "batch", "refresh", "sweep"}, list : Nat, name : Names \cup {Null},
   row : Nat, ref : {Null} \cup PlayerRef, snap : {Null} \cup PlayerRow, todo : Seq(PlayerRef),
   sweep : Seq([row : Nat, snap : PlayerRow]), done : SUBSET Nat, tagged : SUBSET Nat,
   rows : Seq(PlayerRow), doc : {Null} \cup Document]

RowSteps == {"reactivate", "prime", "write", "sync", "sweepSync", "deactivate", "bind"}
ListSteps == {"clash", "rename", "addMembers", "removeMembers"}
EntrySteps == {"find", "reactivate", "insert"}
RefreshSteps == {"prime", "write", "sync"}

\* The rows and lists a command has read are there, and it has what its next step needs.  A
\* refresh alone adds nobody; one that belongs to an add is of the player added.
Recalls(j, d) ==
  /\ j.row \in DOMAIN d.players \cup {0} /\ j.list \in DOMAIN d.lists \cup {0}
  /\ j.done \subseteq DOMAIN d.players
  /\ \A i \in 1 .. Len(j.sweep) : j.sweep[i].row \in DOMAIN d.players
  /\ j.at \in RowSteps => j.row # 0
  /\ j.at \in ListSteps => j.list # 0
  /\ j.at \in {"insertList", "clash", "rename"} => j.name \in Names
  /\ j.at \in {"addMembers", "removeMembers"} => j.ref \in PlayerRef
  /\ j.at = "bind" => j.ref \in HlIds
  /\ j.at \in EntrySteps => j.todo # <<>> /\ j.kind \in {"mlb", "hl", "batch"} /\ j.tagged = {}
  /\ j.at \in EntrySteps /\ j.kind = "hl" => Head(j.todo) \notin Persons
  /\ j.at \in EntrySteps /\ j.kind # "batch" => j.done = {} /\ Len(j.todo) = 1
  /\ j.at \in RefreshSteps => j.kind \in {"mlb", "hl", "refresh"} /\ j.done \subseteq {j.row}
  /\ j.at \in RefreshSteps /\ j.kind = "refresh" => j.done = {}
  /\ j.at = "derive" => j.kind \in {"mlb", "batch"}
  /\ j.at = "write" => j.snap \in PlayerRow /\ Refreshable(j.snap)
  /\ j.at \in {"sweep", "sweepSync"} => j.sweep # <<>>
  /\ j.at \in {"exportMembers", "writeFile"} => WellFormed(j.doc)
  /\ j.at \notin EntrySteps \cup RefreshSteps \cup {"derive", "attach"} => j.done = {}

Remembers(j, d) == Recalls(j, d) /\ (j.at = "attach" => j.list # 0)

\* Whose tags a command will still write.  A Highlightly add owes none, and no command does
\* once it comes to the list.
Owes(j) ==
  {p \in j.done \ j.tagged : j.at # "attach" /\ j.kind # "hl"}
    \cup {p \in {j.row} : j.at \in {"sync", "sweepSync"}}

TablesInv == Sound(db) /\ Usable(db)
JobsInv == job \in [Actors -> JobType] /\ \A a \in Actors : Remembers(job[a], db)
DiskInv == behind \subseteq Ids /\ (file # Null => WellFormed(file))
TagsInv == \A p \in Ids : Right(db, p) \/ p \in behind \/ \E a \in Actors : p \in Owes(job[a])

RosterInv == TablesInv /\ JobsInv /\ DiskInv /\ TagsInv

\* What every step does: it keeps the invariant, a professional's identity and history, and
\* the default, unless it restores a document whose lists name none.
Forsworn == \E doc \in Documents : db' = Restored(db, doc) /\ \A l \in doc.lists : ~ l.isDefault

KeepsDefault == Defaulted(db) => Defaulted(db') \/ Forsworn

Safely == RosterInv' /\ Later(db, db') /\ KeepsDefault

\* What is remembered of tables is true of later ones.
LEMMA RemembersLater ==
    ASSUME NEW j, NEW d, NEW e, Remembers(j, d), Later(d, e)
    PROVE  Remembers(j, e)
BY DEF Remembers, Recalls, Later

\* A step of actor a, in three sizes.
LEMMA Step ==
    ASSUME RosterInv, NEW a \in Actors, NEW j \in JobType, job' = [job EXCEPT ![a] = j],
           Evolves(db, db'), Remembers(j, db'), KeepsDefault,
           behind' \subseteq DOMAIN db'.players, file' # Null => WellFormed(file'),
           \A p \in DOMAIN db'.players :
             \/ Right(db', p) \/ p \in behind' \/ p \in Owes(j)
             \/ p \in DOMAIN db.players /\ ~ Right(db, p) /\ p \notin behind /\ p \notin Owes(job[a])
    PROVE  Safely
<1>1. TablesInv' /\ Later(db, db')
  BY DEF Evolves, TablesInv
<1>2. job' \in [Actors -> JobType] /\ job'[a] = j /\ \A b \in Actors : b # a => job'[b] = job[b]
  BY DEF RosterInv, JobsInv
<1>3. \A b \in Actors : Remembers(job'[b], db')
  BY <1>1, <1>2, RemembersLater DEF RosterInv, JobsInv
<1>4. JobsInv'
  BY <1>2, <1>3 DEF JobsInv
<1>5. DiskInv'
  BY DEF DiskInv, Ids
<1>6. TagsInv'
  <2> SUFFICES ASSUME NEW p \in DOMAIN db'.players
               PROVE  Right(db', p) \/ p \in behind' \/ \E b \in Actors : p \in Owes(job'[b])
    BY DEF TagsInv, Ids
  <2>1. CASE Right(db', p) \/ p \in behind' \/ p \in Owes(j)
    BY <2>1, <1>2
  <2>2. CASE p \in DOMAIN db.players /\ ~ Right(db, p) /\ p \notin behind /\ p \notin Owes(job[a])
    <3>1. PICK b \in Actors : p \in Owes(job[b])
      BY <2>2 DEF RosterInv, TagsInv, Ids
    <3>2. job'[b] = job[b]
      BY <2>2, <3>1, <1>2
    <3> QED BY <3>1, <3>2
  <2> QED BY <2>1, <2>2
<1> QED BY <1>1, <1>4, <1>5, <1>6 DEF Safely, RosterInv

\* A step that writes the tables and nothing else.
LEMMA WritingStep ==
    ASSUME RosterInv, NEW a \in Actors, NEW j \in JobType, job' = [job EXCEPT ![a] = j], Calm,
           NEW S, Evolves(db, db'), Intact(db, db', S), Remembers(j, db'), KeepsDefault,
           S \cup Owes(job[a]) \subseteq Owes(j)
    PROVE  Safely
<1>1. behind' = behind /\ file' = file
  BY DEF Calm
<1>2. behind' \subseteq DOMAIN db'.players
  BY <1>1 DEF RosterInv, DiskInv, Ids, Evolves, Later
<1>3. file' # Null => WellFormed(file')
  BY <1>1 DEF RosterInv, DiskInv
<1>4. \A p \in DOMAIN db'.players :
        \/ Right(db', p) \/ p \in behind' \/ p \in Owes(j)
        \/ p \in DOMAIN db.players /\ ~ Right(db, p) /\ p \notin behind /\ p \notin Owes(job[a])
  BY <1>1 DEF Intact
<1> QED BY <1>2, <1>3, <1>4, Step

\* A step that only reads.
LEMMA ReadingStep ==
    ASSUME RosterInv, NEW a \in Actors, NEW j \in JobType, job' = [job EXCEPT ![a] = j], Calm, UNCHANGED db,
           Remembers(j, db), Owes(job[a]) \subseteq Owes(j)
    PROVE  Safely
<1>1. Evolves(db, db') /\ Intact(db, db', {}) /\ Remembers(j, db')
  BY Unchanged DEF RosterInv, TablesInv
<1>2. KeepsDefault
  BY DEF KeepsDefault
<1> QED BY <1>1, <1>2, WritingStep

\* Where a command begins or ends, nothing is owed.
LEMMA JobIs ==
    ASSUME NEW at \in Steps
    PROVE  /\ Job(at) \in JobType /\ Job(at).at = at /\ Job(at).kind = "none" /\ Job(at).list = 0
           /\ Job(at).name = Null /\ Job(at).row = 0 /\ Job(at).ref = Null /\ Job(at).snap = Null
           /\ Job(at).todo = <<>> /\ Job(at).sweep = <<>> /\ Job(at).done = {} /\ Job(at).tagged = {}
           /\ Job(at).rows = <<>> /\ Job(at).doc = Null
<1>1. <<>> \in Seq(PlayerRef) /\ <<>> \in Seq([row : Nat, snap : PlayerRow]) /\ <<>> \in Seq(PlayerRow)
  OBVIOUS
<1>2. Job(at) \in JobType
  BY <1>1 DEF Job, JobType
<1>3. /\ Job(at).at = at /\ Job(at).kind = "none" /\ Job(at).list = 0
      /\ Job(at).name = Null /\ Job(at).row = 0 /\ Job(at).ref = Null /\ Job(at).snap = Null
      /\ Job(at).todo = <<>> /\ Job(at).sweep = <<>> /\ Job(at).done = {} /\ Job(at).tagged = {}
      /\ Job(at).rows = <<>> /\ Job(at).doc = Null
  BY DEF Job
<1> QED BY <1>2, <1>3

LEMMA JobRemembers ==
    ASSUME NEW at \in {"idle", "down"}, NEW d
    PROVE  Job(at) \in JobType /\ Remembers(Job(at), d) /\ Owes(Job(at)) = {}
<1> DEFINE j == Job(at)
<1>1. /\ j \in JobType /\ j.at \in {"idle", "down"} /\ j.row = 0 /\ j.list = 0 /\ j.done = {} /\ j.tagged = {}
      /\ j.sweep = <<>>
  <2>1. at \in Steps
    BY DEF Steps
  <2> QED BY <2>1, JobIs
<1> HIDE DEF j
<1>2. Recalls(j, d)
  BY <1>1 DEF Recalls, RowSteps, ListSteps, EntrySteps, RefreshSteps
<1>3. Remembers(j, d)
  BY <1>1, <1>2 DEF Remembers
<1>4. Owes(j) = {}
  BY <1>1 DEF Owes
<1> QED BY <1>1, <1>3, <1>4 DEF j

LEMMA EndedRemembers ==
    ASSUME NEW a, NEW d
    PROVE  Ended(a) \in JobType /\ Remembers(Ended(a), d) /\ Owes(Ended(a)) = {}
BY JobRemembers DEF Ended

LEMMA IdleOwesNothing ==
    ASSUME RosterInv, NEW a \in Actors, job[a].at \notin EntrySteps \cup RefreshSteps \cup {"derive", "sweepSync"}
    PROVE  Owes(job[a]) = {}
<1>1. Remembers(job[a], db)
  BY DEF RosterInv, JobsInv
<1>2. job[a].at # "attach" => job[a].done = {}
  BY <1>1 DEF Remembers, Recalls, RefreshSteps
<1> QED BY <1>2 DEF Owes, RefreshSteps

\* A command's first step, which reads; one transaction; a command's last step.
LEMMA Begins ==
    ASSUME RosterInv, NEW a \in Actors, NEW j \in JobType, Begin(a, j), Calm, UNCHANGED db, Remembers(j, db)
    PROVE  Safely
<1>1. job' = [job EXCEPT ![a] = j] /\ job[a].at = "idle"
  BY DEF Begin, Idle
<1>2. Owes(job[a]) = {}
  BY <1>1, IdleOwesNothing DEF EntrySteps, RefreshSteps
<1> QED BY <1>1, <1>2, ReadingStep

LEMMA Transacts ==
    ASSUME RosterInv, NEW a \in Actors, Transact(a), Calm,
           Evolves(db, db'), Intact(db, db', {}), KeepsDefault
    PROVE  Safely
<1>1. job' = [job EXCEPT ![a] = Ended(a)] /\ job[a].at = "idle"
  BY DEF Transact, Idle
<1>2. Owes(job[a]) = {}
  BY <1>1, IdleOwesNothing DEF EntrySteps, RefreshSteps
<1>3. Ended(a) \in JobType /\ Remembers(Ended(a), db') /\ Owes(Ended(a)) = {}
  BY EndedRemembers
<1> QED BY <1>1, <1>2, <1>3, WritingStep

LEMMA Ends ==
    ASSUME RosterInv, NEW a \in Actors, End(a), Calm,
           job[a].at \notin EntrySteps \cup RefreshSteps \cup {"derive", "sweepSync"},
           Evolves(db, db'), Intact(db, db', {}), KeepsDefault
    PROVE  Safely
<1>1. job' = [job EXCEPT ![a] = Ended(a)]
  BY DEF End, Continue
<1>2. Owes(job[a]) = {}
  BY IdleOwesNothing
<1>3. Ended(a) \in JobType /\ Remembers(Ended(a), db') /\ Owes(Ended(a)) = {}
  BY EndedRemembers
<1> QED BY <1>1, <1>2, <1>3, WritingStep

\* Where the lists stay as they are, so does the default.
LEMMA SameLists ==
    ASSUME db'.lists = db.lists
    PROVE  KeepsDefault
BY DEF KeepsDefault, Defaulted

LEMMA LiveListsAre ==
    ASSUME NEW n, NEW l \in findLiveList(n)
    PROVE  l \in DOMAIN db.lists /\ db.lists[l].live /\ db.lists[l].name = n
BY DEF findLiveList, ListNamed

\* What the invariant says of the actor that takes the step.
LEMMA Knows ==
    ASSUME RosterInv, NEW a \in Actors
    PROVE  /\ job[a] \in JobType /\ Remembers(job[a], db) /\ Recalls(job[a], db)
           /\ Sound(db) /\ Usable(db) /\ Consistent(db)
           /\ Len(db.players) \in Nat /\ DOMAIN db.players = 1 .. Len(db.players)
           /\ Len(db.lists) \in Nat /\ DOMAIN db.lists = 1 .. Len(db.lists)
<1>1. Consistent(db)
  BY DEF RosterInv, TablesInv, Sound
<1> QED BY <1>1, Columns DEF RosterInv, TablesInv, JobsInv, Remembers

(***************************************************************************)
(* The commands on lists.                                                  *)
(***************************************************************************)
LEMMA CreatesList ==
    ASSUME RosterInv, NEW a \in Actors, createList(a)
    PROVE  Safely
<1>1. PICK n \in Names : Begin(a, [Job("insertList") EXCEPT !.name = n]) /\ Calm /\ UNCHANGED db
  BY DEF createList
<1> DEFINE b == Job("insertList")
           j == [b EXCEPT !.name = n]
<1>b. b \in JobType /\ b.at = "insertList" /\ b.row = 0 /\ b.list = 0 /\ b.done = {} /\ b.sweep = <<>>
  <2>1. "insertList" \in Steps
    BY DEF Steps
  <2> QED BY <2>1, JobIs
<1> HIDE DEF b
<1>2. j \in JobType /\ j.at = "insertList" /\ j.row = 0 /\ j.list = 0 /\ j.done = {} /\ j.name = n /\ j.sweep = <<>>
  BY <1>b DEF JobType
<1> HIDE DEF j
<1>3. Remembers(j, db)
  BY <1>2 DEF Remembers, Recalls, RowSteps, ListSteps, EntrySteps, RefreshSteps
<1> QED BY <1>1, <1>2, <1>3, Begins DEF j, b

LEMMA InsertsList ==
    ASSUME RosterInv, NEW a \in Actors, insertList(a)
    PROVE  Safely
<1>1. job[a].name \in Names
  BY Knows DEF insertList, At, Recalls
<1>2. Evolves(db, db') /\ Intact(db, db', {}) /\ KeepsDefault
  <2>1. CASE ListsAccepted(Append(db.lists, NewList(job[a].name)))
    <3>1. db' = [db EXCEPT !.lists = Append(db.lists, NewList(job[a].name))]
      BY <2>1 DEF insertList
    <3> QED BY <1>1, <2>1, <3>1, Knows, ListInserted DEF KeepsDefault
  <2>2. CASE ~ ListsAccepted(Append(db.lists, NewList(job[a].name)))
    <3>1. db' = db
      BY <2>2 DEF insertList
    <3> QED BY <3>1, Knows, Unchanged DEF KeepsDefault
  <2> QED BY <2>1, <2>2
<1> QED BY <1>2, Ends DEF insertList, At, EntrySteps, RefreshSteps

LEMMA RenamesList ==
    ASSUME RosterInv, NEW a \in Actors, renameList(a)
    PROVE  Safely
<1>0. PICK n \in Names, new \in Names : \E l \in findLiveList(n) :
        /\ Begin(a, [Job(IF n = new THEN "rename" ELSE "clash") EXCEPT !.list = l, !.name = new])
        /\ Calm /\ UNCHANGED db
  BY DEF renameList
<1>1. PICK l \in findLiveList(n) :
        /\ Begin(a, [Job(IF n = new THEN "rename" ELSE "clash") EXCEPT !.list = l, !.name = new])
        /\ Calm /\ UNCHANGED db
  BY <1>0
<1> DEFINE at == IF n = new THEN "rename" ELSE "clash"
           b == Job(at)
           j == [b EXCEPT !.list = l, !.name = new]
<1>2. l \in DOMAIN db.lists /\ l \in Nat /\ l # 0
  BY Knows, LiveListsAre
<1>3. at \in {"rename", "clash"} /\ at \in Steps
  BY DEF Steps
<1> HIDE DEF at
<1>b. b \in JobType /\ b.at = at /\ b.row = 0 /\ b.done = {} /\ b.sweep = <<>>
  BY <1>3, JobIs
<1> HIDE DEF b
<1>4. j \in JobType /\ j.at = at /\ j.row = 0 /\ j.list = l /\ j.done = {} /\ j.name = new /\ j.sweep = <<>>
  BY <1>2, <1>b DEF JobType
<1> HIDE DEF j
<1>5. Remembers(j, db)
  BY <1>2, <1>3, <1>4 DEF Remembers, Recalls, RowSteps, ListSteps, EntrySteps, RefreshSteps
<1> QED BY <1>1, <1>4, <1>5, Begins DEF j, b, at

LEMMA FindsClash ==
    ASSUME RosterInv, NEW a \in Actors, renameClash(a)
    PROVE  Safely
<1>1. job[a] \in JobType /\ Recalls(job[a], db) /\ job[a].at = "clash" /\ Calm /\ UNCHANGED db
  BY Knows DEF renameClash, At
<1>2. CASE End(a)
  <2>1. Evolves(db, db') /\ Intact(db, db', {}) /\ KeepsDefault
    BY <1>1, Knows, Unchanged, SameLists
  <2> QED BY <1>1, <1>2, <2>1, Ends DEF EntrySteps, RefreshSteps
<1>3. CASE Continue(a, [job[a] EXCEPT !.at = "rename"])
  <2> DEFINE j == [job[a] EXCEPT !.at = "rename"]
  <2>1. /\ j \in JobType /\ j.at = "rename" /\ j.row = job[a].row /\ j.list = job[a].list /\ j.done = job[a].done
        /\ j.name = job[a].name /\ j.sweep = job[a].sweep
    BY <1>1 DEF JobType, Steps
  <2>2. job' = [job EXCEPT ![a] = j]
    BY <1>3 DEF Continue
  <2> HIDE DEF j
  <2>3. Remembers(j, db)
    BY <1>1, <2>1 DEF Remembers, Recalls, RowSteps, ListSteps, EntrySteps, RefreshSteps
  <2>4. Owes(job[a]) = {}
    BY <1>1, IdleOwesNothing DEF EntrySteps, RefreshSteps
  <2> QED BY <1>1, <2>1, <2>2, <2>3, <2>4, ReadingStep
<1> QED BY <1>2, <1>3 DEF renameClash

LEMMA WritesName ==
    ASSUME RosterInv, NEW a \in Actors, renameWrite(a)
    PROVE  Safely
<1>1. /\ job[a].name \in Names /\ job[a].list \in DOMAIN db.lists /\ job[a].at = "rename" /\ End(a) /\ Calm
      /\ db.lists[job[a].list] \in ListRow
  BY Knows, Columns DEF renameWrite, At, Recalls, ListSteps
<1> DEFINE l == job[a].list
           r == [db.lists[l] EXCEPT !.name = job[a].name]
           renamed == [db.lists EXCEPT ![l].name = job[a].name]
<1>2. /\ r \in ListRow /\ r.digestTo = db.lists[l].digestTo
      /\ r.live = db.lists[l].live /\ r.isDefault = db.lists[l].isDefault
  BY <1>1 DEF ListRow
<1>3. renamed = [db.lists EXCEPT ![l] = r]
  OBVIOUS
<1>4. usableRecipient(r.digestTo)
  BY <1>1, <1>2, Knows DEF Usable
<1>5. db' = IF ListsAccepted(renamed) THEN [db EXCEPT !.lists = renamed] ELSE db
  BY DEF renameWrite
<1> HIDE DEF r, renamed
<1>6. CASE ListsAccepted(renamed)
  <2>1. db' = [db EXCEPT !.lists = [db.lists EXCEPT ![l] = r]] /\ ListsAccepted([db.lists EXCEPT ![l] = r])
    BY <1>3, <1>5, <1>6
  <2>2. /\ Evolves(db, db') /\ Intact(db, db', {})
        /\ db'.lists[l] = r /\ \A k \in DOMAIN db.lists : k \in DOMAIN db'.lists /\ (k # l => db'.lists[k] = db.lists[k])
    <3>1. l \in DOMAIN db.lists /\ r \in ListRow /\ usableRecipient(r.digestTo) /\ Sound(db) /\ Usable(db)
      BY <1>1, <1>2, <1>4, Knows
    <3> HIDE DEF l
    <3> QED BY <2>1, <3>1, ListWritten
  <2>3. KeepsDefault
    BY <1>1, <1>2, <2>2 DEF KeepsDefault, Defaulted
  <2> QED BY <1>1, <2>2, <2>3, Ends DEF EntrySteps, RefreshSteps
<1>7. CASE ~ ListsAccepted(renamed)
  <2>1. Evolves(db, db') /\ Intact(db, db', {}) /\ KeepsDefault
    BY <1>5, <1>7, Knows, Unchanged DEF KeepsDefault
  <2> QED BY <1>1, <2>1, Ends DEF EntrySteps, RefreshSteps
<1> QED BY <1>6, <1>7

LEMMA SetsDefault ==
    ASSUME RosterInv, NEW a \in Actors, setDefaultList(a)
    PROVE  Safely
<1>1. PICK n \in Names : \E l \in findLiveList(n) :
        /\ Transact(a) /\ Calm
        /\ db' = IF db.lists[l].isDefault THEN db ELSE [db EXCEPT !.lists = Redefaulted(db.lists, l)]
  BY DEF setDefaultList
<1>2. PICK l \in findLiveList(n) :
        /\ Transact(a) /\ Calm
        /\ db' = IF db.lists[l].isDefault THEN db ELSE [db EXCEPT !.lists = Redefaulted(db.lists, l)]
  BY <1>1
<1>3. l \in DOMAIN db.lists /\ db.lists[l].live
  BY LiveListsAre
<1>4. Evolves(db, db') /\ Intact(db, db', {}) /\ KeepsDefault
  <2>1. CASE db.lists[l].isDefault
    BY <1>2, <2>1, Knows, Unchanged DEF KeepsDefault
  <2>2. CASE ~ db.lists[l].isDefault
    BY <1>2, <1>3, <2>2, Knows, DefaultMoves DEF KeepsDefault
  <2> QED BY <2>1, <2>2
<1> QED BY <1>2, <1>4, Transacts

LEMMA DeletesList ==
    ASSUME RosterInv, NEW a \in Actors, deleteList(a)
    PROVE  Safely
<1>1. PICK n \in Names : \E l \in findLiveList(n) :
        ~ db.lists[l].isDefault /\ Transact(a) /\ Calm /\ db' = [db EXCEPT !.lists[l].live = FALSE]
  BY DEF deleteList
<1>2. PICK l \in findLiveList(n) :
        ~ db.lists[l].isDefault /\ Transact(a) /\ Calm /\ db' = [db EXCEPT !.lists[l].live = FALSE]
  BY <1>1
<1>3. l \in DOMAIN db.lists /\ db.lists[l].live /\ db.lists[l] \in ListRow /\ ListsAccepted(db.lists)
  BY Knows, Columns, LiveListsAre DEF Sound
<1> DEFINE r == [db.lists[l] EXCEPT !.live = FALSE]
<1>4. /\ r \in ListRow /\ r.digestTo = db.lists[l].digestTo /\ r.name = db.lists[l].name
      /\ r.live = FALSE /\ r.isDefault = db.lists[l].isDefault
  BY <1>3 DEF ListRow
<1>5. db' = [db EXCEPT !.lists = [db.lists EXCEPT ![l] = r]]
  BY <1>2
<1> HIDE DEF r
<1>6. usableRecipient(r.digestTo)
  BY <1>3, <1>4, Knows DEF Usable
<1>7. ListsAccepted([db.lists EXCEPT ![l] = r])
  BY <1>3, <1>4, ListAccepted
<1>8. /\ Evolves(db, db') /\ Intact(db, db', {})
      /\ db'.lists[l] = r /\ \A k \in DOMAIN db.lists : k \in DOMAIN db'.lists /\ (k # l => db'.lists[k] = db.lists[k])
  BY <1>3, <1>4, <1>5, <1>6, <1>7, Knows, ListWritten
<1>9. KeepsDefault
  BY <1>2, <1>8 DEF KeepsDefault, Defaulted
<1> QED BY <1>2, <1>8, <1>9, Transacts

LEMMA ConfiguresList ==
    ASSUME RosterInv, NEW a \in Actors, configureList(a)
    PROVE  Safely
<1>1. PICK n \in Names, patch \in Patches : \E l \in findLiveList(n) :
        /\ Transact(a) /\ Calm
        /\ db' = [db EXCEPT !.lists[l] = [c \in DOMAIN @ |-> IF c \in DOMAIN patch THEN patch[c] ELSE @[c]]]
  BY DEF configureList
<1>2. PICK l \in findLiveList(n) :
        /\ Transact(a) /\ Calm
        /\ db' = [db EXCEPT !.lists[l] = [c \in DOMAIN @ |-> IF c \in DOMAIN patch THEN patch[c] ELSE @[c]]]
  BY <1>1
<1>3. l \in DOMAIN db.lists /\ db.lists[l] \in ListRow /\ ListsAccepted(db.lists) /\ usableRecipient(db.lists[l].digestTo)
  BY Knows, Columns, LiveListsAre DEF Sound, Usable
<1> DEFINE row == db.lists[l]
           r == [c \in DOMAIN row |-> IF c \in DOMAIN patch THEN patch[c] ELSE row[c]]
<1>4. db' = [db EXCEPT !.lists = [db.lists EXCEPT ![l] = r]]
  BY <1>2
<1>5. DOMAIN row = {"name", "live", "isDefault", "digestHour", "digestTo"}
      /\ row = [name |-> row.name, live |-> row.live, isDefault |-> row.isDefault,
                digestHour |-> row.digestHour, digestTo |-> row.digestTo]
  BY <1>3 DEF ListRow
<1>6. /\ r \in ListRow /\ usableRecipient(r.digestTo) /\ r.name = row.name
      /\ r.live = row.live /\ r.isDefault = row.isDefault
  <2>1. CASE \E h \in Hours \cup {Null} : patch = [digestHour |-> h]
    <3>1. PICK h \in Hours \cup {Null} : patch = [digestHour |-> h]
      BY <2>1
    <3>2. DOMAIN patch = {"digestHour"} /\ patch["digestHour"] = h
      BY <3>1
    <3>3. r = [name |-> row.name, live |-> row.live, isDefault |-> row.isDefault,
               digestHour |-> h, digestTo |-> row.digestTo]
      BY <1>5, <3>2
    <3> QED BY <1>3, <3>3 DEF ListRow
  <2>2. CASE \E to \in {x \in Recipients : usableRecipient(x)} \cup {Null} : patch = [digestTo |-> to]
    <3>1. PICK to \in {x \in Recipients : usableRecipient(x)} \cup {Null} : patch = [digestTo |-> to]
      BY <2>2
    <3>2. DOMAIN patch = {"digestTo"} /\ patch["digestTo"] = to
      BY <3>1
    <3>3. r = [name |-> row.name, live |-> row.live, isDefault |-> row.isDefault,
               digestHour |-> row.digestHour, digestTo |-> to]
      BY <1>5, <3>2
    <3>4. usableRecipient(to)
      BY RosterAssumption DEF usableRecipient
    <3> QED BY <1>3, <3>3, <3>4 DEF ListRow
  <2> QED BY <2>1, <2>2 DEF Patches
<1> HIDE DEF r
<1>7. ListsAccepted([db.lists EXCEPT ![l] = r])
  BY <1>3, <1>6, ListAccepted
<1>8. /\ Evolves(db, db') /\ Intact(db, db', {})
      /\ db'.lists[l] = r /\ \A k \in DOMAIN db.lists : k \in DOMAIN db'.lists /\ (k # l => db'.lists[k] = db.lists[k])
  <2>1. l \in DOMAIN db.lists /\ r \in ListRow /\ usableRecipient(r.digestTo) /\ Sound(db) /\ Usable(db)
    BY <1>3, <1>6, Knows
  <2> HIDE DEF row
  <2> QED BY <1>4, <1>7, <2>1, ListWritten
<1>9. KeepsDefault
  BY <1>6, <1>8 DEF KeepsDefault, Defaulted
<1> QED BY <1>2, <1>8, <1>9, Transacts

\* Memberships of lists and players that are there.
LEMMA MembersStand ==
    ASSUME RosterInv, NEW a \in Actors, NEW ms, ms \subseteq Lists \X Ids,
           db' = [db EXCEPT !.members = ms]
    PROVE  Evolves(db, db') /\ Intact(db, db', {}) /\ KeepsDefault
<1>1. Sound(db) /\ Usable(db) /\ ms \subseteq (DOMAIN db.lists) \X (DOMAIN db.players)
  BY Knows DEF Lists, Ids
<1>2. Evolves(db, db') /\ Intact(db, db', {}) /\ db'.lists = db.lists
  BY <1>1, MembersWritten
<1> QED BY <1>2, SameLists

LEMMA MembershipsStand ==
    ASSUME RosterInv, NEW a \in Actors, NEW l \in Lists, NEW S, S \subseteq Ids,
           db' = insertMemberships(db, l, S)
    PROVE  Evolves(db, db') /\ Intact(db, db', {}) /\ KeepsDefault
<1> DEFINE ms == db.members \cup ({l} \X S)
<1>1. db.members \subseteq Lists \X Ids
  BY Knows DEF Consistent, Lists, Ids
<1>2. ms \subseteq Lists \X Ids
  BY <1>1
<1>3. db' = [db EXCEPT !.members = ms]
  BY DEF insertMemberships
<1> HIDE DEF ms
<1> QED BY <1>2, <1>3, MembersStand

LEMMA ChoosesMember ==
    ASSUME RosterInv, NEW a \in Actors, NEW step \in {"addMembers", "removeMembers"}, ListCommand(a, step)
    PROVE  Safely
<1>0. PICK n \in Names, ref \in PlayerRef : \E l \in findLiveList(n) :
        Begin(a, [Job(step) EXCEPT !.list = l, !.ref = ref]) /\ Calm /\ UNCHANGED db
  BY DEF ListCommand
<1>1. PICK l \in findLiveList(n) : Begin(a, [Job(step) EXCEPT !.list = l, !.ref = ref]) /\ Calm /\ UNCHANGED db
  BY <1>0
<1> DEFINE b == Job(step)
           j == [b EXCEPT !.list = l, !.ref = ref]
<1>2. l \in DOMAIN db.lists /\ l \in Nat /\ l # 0
  BY Knows, LiveListsAre
<1>3. b \in JobType /\ b.at = step /\ b.row = 0 /\ b.done = {} /\ b.sweep = <<>>
  <2>1. step \in Steps
    BY DEF Steps
  <2> QED BY <2>1, JobIs
<1> HIDE DEF b
<1>4. j \in JobType /\ j.at = step /\ j.row = 0 /\ j.list = l /\ j.done = {} /\ j.ref = ref /\ j.sweep = <<>>
  BY <1>2, <1>3 DEF JobType
<1> HIDE DEF j
<1>5. Remembers(j, db)
  BY <1>2, <1>4 DEF Remembers, Recalls, RowSteps, ListSteps, EntrySteps, RefreshSteps
<1> QED BY <1>1, <1>4, <1>5, Begins DEF j, b

LEMMA AddsMembers ==
    ASSUME RosterInv, NEW a \in Actors, addMembers(a)
    PROVE  Safely
<1>1. job[a].at = "addMembers" /\ job[a].list \in Lists /\ End(a) /\ Calm
  BY Knows DEF addMembers, At, Recalls, ListSteps, Lists
<1>2. Resolved(job[a].ref) \subseteq Ids
  BY DEF Resolved
<1>3. Evolves(db, db') /\ Intact(db, db', {}) /\ KeepsDefault
  BY <1>1, <1>2, MembershipsStand DEF addMembers
<1> QED BY <1>1, <1>3, Ends DEF EntrySteps, RefreshSteps

LEMMA RemovesMembers ==
    ASSUME RosterInv, NEW a \in Actors, removeMembers(a)
    PROVE  Safely
<1> DEFINE ms == db.members \ ({job[a].list} \X Resolved(job[a].ref))
<1>1. db.members \subseteq Lists \X Ids
  BY Knows DEF Consistent, Lists, Ids
<1>2. ms \subseteq Lists \X Ids
  BY <1>1
<1>3. db' = [db EXCEPT !.members = ms]
  BY DEF removeMembers
<1> HIDE DEF ms
<1>4. Evolves(db, db') /\ Intact(db, db', {}) /\ KeepsDefault
  BY <1>2, <1>3, MembersStand
<1> QED BY <1>4, Ends DEF removeMembers, At, EntrySteps, RefreshSteps

LEMMA ListStepSafe ==
    ASSUME RosterInv, NEW a \in Actors, ListStep(a)
    PROVE  Safely
BY CreatesList, InsertsList, RenamesList, FindsClash, WritesName, SetsDefault, DeletesList, ConfiguresList,
   ChoosesMember, AddsMembers, RemovesMembers DEF ListStep, addToList, removeFromList

(***************************************************************************)
(* Adding.                                                                 *)
(***************************************************************************)
\* A membership that no list was named for is left out, and the command ends.
LEMMA Proceeds ==
    ASSUME NEW a \in Actors, NEW j \in JobType, NEW d, Recalls(j, d), Proceed(a, j)
    PROVE  \E i \in JobType : job' = [job EXCEPT ![a] = i] /\ Remembers(i, d) /\ Owes(j) \subseteq Owes(i)
<1>1. CASE j.at = "attach" /\ j.list = 0
  <2>1. job' = [job EXCEPT ![a] = Ended(a)]
    BY <1>1 DEF Proceed, Continue
  <2>2. Owes(j) = {}
    BY <1>1 DEF Owes
  <2> QED BY <2>1, <2>2, EndedRemembers
<1>2. CASE ~ (j.at = "attach" /\ j.list = 0)
  <2>1. job' = [job EXCEPT ![a] = j]
    BY <1>2 DEF Proceed, Continue
  <2>2. Remembers(j, d)
    BY <1>2 DEF Remembers
  <2> QED BY <2>1, <2>2
<1> QED BY <1>1, <1>2

\* After an entry, the players added so far are those whose tags are owed.
LEMMA NextEntryIs ==
    ASSUME NEW d, NEW j \in JobType, Recalls(j, d), j.at \in EntrySteps, NEW done, done \subseteq DOMAIN d.players,
           DOMAIN d.players \subseteq Nat
    PROVE  LET i == NextEntry([j EXCEPT !.done = done]) IN
           /\ i \in JobType /\ Recalls(i, d)
           /\ Owes(i) = {p \in done \ j.tagged : j.kind # "hl"}
<1> DEFINE rest == [j EXCEPT !.done = done, !.todo = Tail(j.todo)]
           i == NextEntry([j EXCEPT !.done = done])
           next == IF rest.todo # <<>> THEN "find" ELSE IF rest.kind = "hl" \/ done = {} THEN "attach" ELSE "derive"
<1>1. j.todo \in Seq(PlayerRef) /\ j.todo # <<>> /\ j.kind \in {"mlb", "hl", "batch"}
  BY DEF JobType, Recalls
<1>2. Tail(j.todo) \in Seq(PlayerRef) /\ Len(Tail(j.todo)) = Len(j.todo) - 1
  BY <1>1
<1>3. i = [rest EXCEPT !.at = next]
  BY DEF NextEntry, JobType
<1>4. rest \in JobType /\ rest.done = done /\ rest.todo = Tail(j.todo) /\ rest.kind = j.kind /\ rest.row = j.row
      /\ rest.list = j.list /\ rest.sweep = j.sweep /\ rest.tagged = j.tagged
  BY <1>2 DEF JobType
<1>5. next \in {"find", "attach", "derive"} /\ next \in Steps
  BY DEF Steps
<1>6. next = "find" <=> rest.todo # <<>>
  OBVIOUS
<1>7. next # "find" => (next = "attach" <=> rest.kind = "hl" \/ done = {})
  OBVIOUS
<1> HIDE DEF rest, i, next
<1>8. i \in JobType /\ i.at = next /\ i.done = done /\ i.todo = rest.todo /\ i.kind = j.kind /\ i.row = j.row
      /\ i.list = j.list /\ i.sweep = j.sweep /\ i.tagged = j.tagged
  BY <1>3, <1>4, <1>5 DEF JobType
<1>9. next = "find" => j.kind = "batch"
  BY <1>2, <1>4, <1>6 DEF Recalls, JobType
<1>10. Recalls(i, d)
  BY <1>1, <1>4, <1>5, <1>6, <1>7, <1>8, <1>9 DEF Recalls, RowSteps, ListSteps, EntrySteps, RefreshSteps
<1>11. Owes(i) = {p \in done \ j.tagged : j.kind # "hl"}
  BY <1>1, <1>4, <1>5, <1>6, <1>7, <1>8 DEF Owes
<1> QED BY <1>8, <1>10, <1>11 DEF i

LEMMA AddsPlayer ==
    ASSUME RosterInv, NEW a \in Actors, addPlayer(a)
    PROVE  Safely
<1>1. PICK ref \in PlayerRef, l \in LiveLists \cup {0} :
        Begin(a, [Job("find") EXCEPT !.kind = KindOf(ref), !.list = l, !.todo = <<ref>>]) /\ Calm /\ UNCHANGED db
  BY DEF addPlayer
<1> DEFINE b == Job("find")
           kind == KindOf(ref)
           todo == <<ref>>
           j == [b EXCEPT !.kind = kind, !.list = l, !.todo = todo]
<1>2. b \in JobType /\ b.at = "find" /\ b.row = 0 /\ b.done = {} /\ b.tagged = {} /\ b.sweep = <<>>
  <2>1. "find" \in Steps
    BY DEF Steps
  <2> QED BY <2>1, JobIs
<1>3. l \in DOMAIN db.lists \cup {0} /\ l \in Nat
  BY Knows DEF LiveLists, Lists
<1>4. /\ kind \in {"mlb", "hl"} /\ todo \in Seq(PlayerRef) /\ todo # <<>> /\ Len(todo) = 1
      /\ kind = "hl" => Head(todo) \notin Persons
  BY DEF KindOf
<1> HIDE DEF b, kind, todo
<1>5. /\ j \in JobType /\ j.at = "find" /\ j.kind = kind /\ j.row = 0 /\ j.list = l /\ j.done = {} /\ j.todo = todo
      /\ j.tagged = {} /\ j.sweep = <<>>
  BY <1>2, <1>3, <1>4 DEF JobType
<1> HIDE DEF j
<1>6. Remembers(j, db)
  BY <1>3, <1>4, <1>5 DEF Remembers, Recalls, RowSteps, ListSteps, EntrySteps, RefreshSteps
<1> QED BY <1>1, <1>5, <1>6, Begins DEF j, b, kind, todo

LEMMA AddsBatch ==
    ASSUME RosterInv, NEW a \in Actors, batchAddPlayers(a)
    PROVE  Safely
<1>1. PICK x \in PlayerRef, y \in PlayerRef, l \in LiveLists \cup {0} :
        Begin(a, [Job("find") EXCEPT !.kind = "batch", !.list = l, !.todo = <<x, y>>]) /\ Calm /\ UNCHANGED db
  BY DEF batchAddPlayers
<1> DEFINE b == Job("find")
           todo == <<x, y>>
           j == [b EXCEPT !.kind = "batch", !.list = l, !.todo = todo]
<1>2. b \in JobType /\ b.at = "find" /\ b.row = 0 /\ b.done = {} /\ b.tagged = {} /\ b.sweep = <<>>
  <2>1. "find" \in Steps
    BY DEF Steps
  <2> QED BY <2>1, JobIs
<1>3. l \in DOMAIN db.lists \cup {0} /\ l \in Nat
  BY Knows DEF LiveLists, Lists
<1>4. todo \in Seq(PlayerRef) /\ todo # <<>>
  OBVIOUS
<1> HIDE DEF b, todo
<1>5. /\ j \in JobType /\ j.at = "find" /\ j.kind = "batch" /\ j.row = 0 /\ j.list = l /\ j.done = {} /\ j.todo = todo
      /\ j.tagged = {} /\ j.sweep = <<>>
  BY <1>2, <1>3, <1>4 DEF JobType
<1> HIDE DEF j
<1>6. Remembers(j, db)
  BY <1>3, <1>4, <1>5 DEF Remembers, Recalls, RowSteps, ListSteps, EntrySteps, RefreshSteps
<1> QED BY <1>1, <1>5, <1>6, Begins DEF j, b, todo

\* An entry that failed, in a batch: those added before it are still owed their tags.
LEMMA PassedOver ==
    ASSUME RosterInv, NEW a \in Actors, job[a].at \in EntrySteps, Calm, UNCHANGED db,
           IF job[a].kind = "batch" THEN Proceed(a, NextEntry(job[a])) ELSE End(a)
    PROVE  Safely
<1> DEFINE j == job[a]
<1>1. j \in JobType /\ Recalls(j, db) /\ DOMAIN db.players \subseteq Nat
  BY Knows
<1>2. Owes(j) = {p \in j.done \ j.tagged : j.kind # "hl"}
  BY DEF Owes, EntrySteps
<1>3. CASE j.kind = "batch"
  <2> DEFINE i == NextEntry(j)
  <2>1. j = [j EXCEPT !.done = j.done]
    BY <1>1 DEF JobType
  <2>2. /\ NextEntry([j EXCEPT !.done = j.done]) \in JobType
        /\ Recalls(NextEntry([j EXCEPT !.done = j.done]), db)
        /\ Owes(NextEntry([j EXCEPT !.done = j.done])) = {p \in j.done \ j.tagged : j.kind # "hl"}
    <3>1. j.done \subseteq DOMAIN db.players
      BY <1>1 DEF Recalls
    <3> HIDE DEF j
    <3> QED BY <1>1, <3>1, NextEntryIs DEF j
  <2>3. i \in JobType /\ Recalls(i, db) /\ Owes(i) = Owes(j)
    BY <1>2, <2>1, <2>2
  <2>4. Proceed(a, i)
    BY <1>3
  <2> HIDE DEF i
  <2>5. PICK k \in JobType : job' = [job EXCEPT ![a] = k] /\ Remembers(k, db) /\ Owes(i) \subseteq Owes(k)
    BY <2>3, <2>4, Proceeds
  <2> QED BY <2>3, <2>5, ReadingStep
<1>4. CASE j.kind # "batch"
  <2>1. Owes(j) = {}
    BY <1>1, <1>2, <1>4 DEF Recalls
  <2>2. job' = [job EXCEPT ![a] = Ended(a)]
    BY <1>4 DEF End, Continue
  <2>3. Ended(a) \in JobType /\ Remembers(Ended(a), db)
    BY EndedRemembers
  <2> QED BY <2>1, <2>2, <2>3, ReadingStep
<1> QED BY <1>3, <1>4

LEMMA FindsEntry ==
    ASSUME RosterInv, NEW a \in Actors, findEntry(a)
    PROVE  Safely
<1> DEFINE j == job[a]
           found == Resolved(Head(j.todo))
<1>1. j \in JobType /\ Recalls(j, db) /\ j.at = "find" /\ Calm /\ UNCHANGED db /\ DOMAIN db.players \subseteq Nat
      /\ 0 \notin DOMAIN db.players
  <2>1. j \in JobType /\ Recalls(j, db) /\ DOMAIN db.players = 1 .. Len(db.players) /\ Len(db.players) \in Nat
    BY Knows
  <2>2. j.at = "find" /\ Calm /\ UNCHANGED db
    BY DEF findEntry, At
  <2> HIDE DEF j
  <2> QED BY <2>1, <2>2
<1>2. ASSUME NEW p \in DOMAIN db.players \cup {0}, NEW at \in {"reactivate", "insert"}, at = "reactivate" => p # 0,
             job' = [job EXCEPT ![a] = [j EXCEPT !.at = at, !.row = p]]
      PROVE  Safely
  <2> DEFINE i == [j EXCEPT !.at = at, !.row = p]
  <2>1. p \in Nat /\ at \in Steps
    BY <1>1 DEF Steps
  <2>2. /\ i \in JobType /\ i.at = at /\ i.kind = j.kind /\ i.row = p /\ i.list = j.list /\ i.done = j.done
        /\ i.todo = j.todo /\ i.sweep = j.sweep /\ i.tagged = j.tagged
    BY <1>1, <2>1 DEF JobType
  <2> HIDE DEF i
  <2>3. Remembers(i, db)
    BY <1>1, <1>2, <2>2 DEF Remembers, Recalls, RowSteps, ListSteps, EntrySteps, RefreshSteps
  <2>4. Owes(j) \subseteq Owes(i)
    BY <1>1, <2>2 DEF Owes
  <2> QED BY <1>1, <1>2, <2>2, <2>3, <2>4, ReadingStep DEF i
<1>3. CASE \E p \in found : Continue(a, [job[a] EXCEPT !.at = "reactivate", !.row = p])
  <2>1. PICK p \in found : Continue(a, [job[a] EXCEPT !.at = "reactivate", !.row = p])
    BY <1>3
  <2>2. p \in DOMAIN db.players
    BY DEF Resolved, Ids
  <2>3. job' = [job EXCEPT ![a] = [j EXCEPT !.at = "reactivate", !.row = p]] /\ p # 0
    BY <1>1, <2>1, <2>2 DEF Continue
  <2> QED BY <1>2, <2>2, <2>3
<1>4. CASE Continue(a, [job[a] EXCEPT !.at = "insert", !.row = 0])
  BY <1>2, <1>4 DEF Continue
<1>5. CASE IF job[a].kind = "batch" THEN Proceed(a, NextEntry(job[a])) ELSE End(a)
  BY <1>1, <1>5, PassedOver DEF EntrySteps
<1> QED BY <1>3, <1>4, <1>5 DEF findEntry

LEMMA Reactivates ==
    ASSUME RosterInv, NEW a \in Actors, reactivate(a)
    PROVE  Safely
<1> DEFINE j == job[a]
           p == j.row
           done == j.done \cup {p}
           i == NextEntry([j EXCEPT !.done = done])
<1>1. /\ j \in JobType /\ Remembers(j, db) /\ j.at = "reactivate" /\ Calm /\ Sound(db) /\ Usable(db)
      /\ Proceed(a, i) /\ db' = [db EXCEPT !.players[p].active = TRUE]
  BY Knows DEF reactivate, At
<1> HIDE DEF i
<1>2. p \in DOMAIN db.players
  BY <1>1 DEF Remembers, Recalls, RowSteps
<1>3. Evolves(db, db') /\ Intact(db, db', {}) /\ db'.lists = db.lists
  <2> HIDE DEF p
  <2> QED BY <1>1, <1>2, ActiveWritten
<1>4. Remembers(j, db') /\ done \subseteq DOMAIN db'.players /\ DOMAIN db'.players \subseteq Nat
  <2>1. Remembers(j, db') /\ p \in DOMAIN db'.players /\ Consistent(db')
    BY <1>1, <1>2, <1>3, RemembersLater DEF Evolves, Later, Sound
  <2>2. DOMAIN db'.players = 1 .. Len(db'.players) /\ Len(db'.players) \in Nat
    BY <2>1, Columns
  <2>3. DOMAIN db'.players \subseteq Nat
    BY <2>2
  <2> QED BY <2>1, <2>3 DEF Remembers, Recalls
<1>5. i \in JobType /\ Recalls(i, db') /\ Owes(i) = {q \in done \ j.tagged : j.kind # "hl"}
  <2>1. j \in JobType /\ Recalls(j, db') /\ j.at \in EntrySteps
    BY <1>1, <1>4 DEF Remembers, EntrySteps
  <2> HIDE DEF j, done
  <2> QED BY <1>4, <2>1, NextEntryIs DEF i
<1>6. Owes(j) \subseteq Owes(i)
  BY <1>1, <1>5 DEF Owes
<1>7. PICK k \in JobType : job' = [job EXCEPT ![a] = k] /\ Remembers(k, db') /\ Owes(i) \subseteq Owes(k)
  BY <1>1, <1>5, Proceeds
<1>8. KeepsDefault
  BY <1>3, SameLists
<1> QED BY <1>1, <1>3, <1>6, <1>7, <1>8, WritingStep

LEMMA InsertsRow ==
    ASSUME RosterInv, NEW a \in Actors, job[a].at = "insert", Calm,
           NEW r \in PlayerRow, job[a].kind = "hl" => r.level = "ncaa",
           PlayersAccepted(Append(db.players, r)), db' = WithNewRow(db, r), NEW id, id = Len(db.players) + 1,
           Proceed(a, IF job[a].kind = "batch"
                        THEN NextEntry([job[a] EXCEPT !.done = job[a].done \cup {id}])
                        ELSE [job[a] EXCEPT !.at = "prime", !.row = id, !.done = {id}])
    PROVE  Safely
<1> DEFINE j == job[a]
           done == j.done \cup {id}
<1>1. j \in JobType /\ Remembers(j, db) /\ Sound(db) /\ Usable(db)
  BY Knows
<1>2. /\ Evolves(db, db') /\ db'.lists = db.lists /\ id \in DOMAIN db'.players /\ Intact(db, db', {id})
      /\ r.level = "ncaa" => Intact(db, db', {})
  BY <1>1, Inserted
<1>3. Remembers(j, db') /\ Recalls(j, db') /\ DOMAIN db'.players \subseteq Nat /\ 0 \notin DOMAIN db'.players
  <2>1. Remembers(j, db') /\ Consistent(db')
    BY <1>1, <1>2, RemembersLater DEF Evolves, Sound
  <2>2. DOMAIN db'.players = 1 .. Len(db'.players) /\ Len(db'.players) \in Nat
    BY <2>1, Columns
  <2>3. DOMAIN db'.players \subseteq Nat /\ 0 \notin DOMAIN db'.players
    BY <2>2
  <2> QED BY <2>1, <2>3 DEF Remembers
<1>4. KeepsDefault
  BY <1>2, SameLists
<1>5. id \notin j.done /\ id \notin j.tagged
  <2>1. id \notin DOMAIN db.players
    BY Knows
  <2> QED BY <1>1, <2>1 DEF Remembers, Recalls, EntrySteps
<1>6. CASE j.kind = "batch"
  <2> DEFINE i == NextEntry([j EXCEPT !.done = done])
  <2>1. i \in JobType /\ Recalls(i, db') /\ Owes(i) = {q \in done \ j.tagged : j.kind # "hl"}
    <3>1. j \in JobType /\ Recalls(j, db') /\ j.at \in EntrySteps /\ done \subseteq DOMAIN db'.players
      BY <1>1, <1>2, <1>3 DEF Recalls, EntrySteps
    <3> HIDE DEF j, done
    <3> QED BY <1>3, <3>1, NextEntryIs
  <2>2. Proceed(a, i)
    BY <1>6
  <2> HIDE DEF i
  <2>3. {id} \cup Owes(j) \subseteq Owes(i)
    BY <1>5, <1>6, <2>1 DEF Owes
  <2>4. PICK k \in JobType : job' = [job EXCEPT ![a] = k] /\ Remembers(k, db') /\ Owes(i) \subseteq Owes(k)
    BY <2>1, <2>2, Proceeds
  <2>5. {id} \cup Owes(j) \subseteq Owes(k)
    BY <2>3, <2>4
  <2> QED BY <1>2, <1>4, <2>4, <2>5, WritingStep
<1>7. CASE j.kind # "batch"
  <2> DEFINE i == [j EXCEPT !.at = "prime", !.row = id, !.done = {id}]
  <2>1. "prime" \in Steps /\ id \in Nat /\ id # 0
    BY <1>2, <1>3 DEF Steps
  <2>2. /\ i \in JobType /\ i.at = "prime" /\ i.kind = j.kind /\ i.row = id /\ i.list = j.list /\ i.done = {id}
        /\ i.todo = j.todo /\ i.sweep = j.sweep /\ i.tagged = j.tagged
    BY <1>1, <2>1 DEF JobType
  <2>3. Proceed(a, i)
    BY <1>7
  <2> HIDE DEF i
  <2>4. Recalls(i, db')
    BY <1>2, <1>3, <1>7, <2>1, <2>2 DEF Recalls, RowSteps, ListSteps, EntrySteps, RefreshSteps
  <2>5. Owes(j) = {}
    BY <1>1, <1>7 DEF Owes, Remembers, Recalls, EntrySteps
  <2>6. PICK k \in JobType : job' = [job EXCEPT ![a] = k] /\ Remembers(k, db') /\ Owes(i) \subseteq Owes(k)
    BY <2>2, <2>3, <2>4, Proceeds
  <2>7. CASE j.kind = "hl"
    <3>1. Intact(db, db', {}) /\ {} \cup Owes(j) \subseteq Owes(k)
      BY <1>2, <2>5, <2>7
    <3> QED BY <1>2, <1>4, <2>6, <3>1, WritingStep
  <2>8. CASE j.kind # "hl"
    <3>1. {id} \cup Owes(j) \subseteq Owes(k)
      BY <1>5, <2>2, <2>5, <2>6, <2>8 DEF Owes
    <3> QED BY <1>2, <1>4, <2>6, <3>1, WritingStep
  <2> QED BY <2>7, <2>8
<1> QED BY <1>6, <1>7

LEMMA InsertsPlayer ==
    ASSUME RosterInv, NEW a \in Actors, insertPlayer(a)
    PROVE  Safely
<1> DEFINE ref == Head(job[a].todo)
           id == Len(db.players) + 1
           put(r) == IF job[a].kind = "batch"
                       THEN NextEntry([job[a] EXCEPT !.done = job[a].done \cup {id}])
                       ELSE [job[a] EXCEPT !.at = "prime", !.row = id, !.done = {id}]
<1>1. job[a].at = "insert" /\ Calm /\ job[a].at \in EntrySteps
  BY DEF insertPlayer, At, EntrySteps
<1>2. ref \in PlayerRef /\ (job[a].kind = "hl" => ref \notin Persons)
  <2>1. job[a].todo \in Seq(PlayerRef) /\ job[a].todo # <<>> /\ (job[a].kind = "hl" => ref \notin Persons)
    BY <1>1, Knows DEF Recalls, JobType
  <2> QED BY <2>1
<1>3. ASSUME NEW r \in PlayerRow, job[a].kind = "hl" => r.level = "ncaa",
             IF PlayersAccepted(Append(db.players, r))
               THEN db' = WithNewRow(db, r) /\ Proceed(a, put(r))
               ELSE UNCHANGED db /\ IF job[a].kind = "batch" THEN Proceed(a, NextEntry(job[a])) ELSE End(a)
      PROVE  Safely
  <2>1. CASE PlayersAccepted(Append(db.players, r))
    <3>1. db' = WithNewRow(db, r) /\ Proceed(a, put(r))
      BY <1>3, <2>1
    <3> QED BY <1>1, <1>3, <2>1, <3>1, InsertsRow
  <2>2. CASE ~ PlayersAccepted(Append(db.players, r))
    <3>1. UNCHANGED db /\ IF job[a].kind = "batch" THEN Proceed(a, NextEntry(job[a])) ELSE End(a)
      BY <1>3, <2>2
    <3> QED BY <1>1, <3>1, PassedOver
  <2> QED BY <2>1, <2>2
<1>4. CASE ref \in Persons
  <2>1. PICK place \in Locations :
          IF PlayersAccepted(Append(db.players, ProRow(ref, place)))
            THEN db' = WithNewRow(db, ProRow(ref, place)) /\ Proceed(a, put(ProRow(ref, place)))
            ELSE UNCHANGED db /\ IF job[a].kind = "batch" THEN Proceed(a, NextEntry(job[a])) ELSE End(a)
    BY <1>4 DEF insertPlayer
  <2>2. ProRow(ref, place) \in PlayerRow
    BY <1>4 DEF ProRow, PlayerRow, Locations, Levels, SourceStates
  <2> QED BY <1>2, <1>3, <1>4, <2>1, <2>2
<1>5. CASE ref \notin Persons
  <2>1. IF PlayersAccepted(Append(db.players, HighlightlyRow(ref)))
          THEN db' = WithNewRow(db, HighlightlyRow(ref)) /\ Proceed(a, put(HighlightlyRow(ref)))
          ELSE UNCHANGED db /\ IF job[a].kind = "batch" THEN Proceed(a, NextEntry(job[a])) ELSE End(a)
    BY <1>5 DEF insertPlayer
  <2>2. HighlightlyRow(ref) \in PlayerRow /\ HighlightlyRow(ref).level = "ncaa"
    BY <1>2, <1>5 DEF HighlightlyRow, PlayerRow, PlayerRef, Levels, SourceStates
  <2> QED BY <1>3, <2>1, <2>2
<1> QED BY <1>4, <1>5

\* A step that rewrites the tags of the players S.
LEMMA SyncingStep ==
    ASSUME RosterInv, NEW a \in Actors, NEW j \in JobType, job' = [job EXCEPT ![a] = j],
           NEW S, Evolves(db, db'), Intact(db, db', {}), \A p \in S : p \in DOMAIN db'.players => Right(db', p),
           behind' = behind \ S, UNCHANGED file, Remembers(j, db'), KeepsDefault,
           Owes(job[a]) \ S \subseteq Owes(j)
    PROVE  Safely
<1>1. behind' \subseteq DOMAIN db'.players
  BY DEF RosterInv, DiskInv, Ids, Evolves, Later
<1>2. file' # Null => WellFormed(file')
  BY DEF RosterInv, DiskInv
<1>3. \A p \in DOMAIN db'.players :
        \/ Right(db', p) \/ p \in behind' \/ p \in Owes(j)
        \/ p \in DOMAIN db.players /\ ~ Right(db, p) /\ p \notin behind /\ p \notin Owes(job[a])
  BY DEF Intact
<1> QED BY <1>1, <1>2, <1>3, Step

LEMMA DerivesAdded ==
    ASSUME RosterInv, NEW a \in Actors, deriveAdded(a)
    PROVE  Safely
<1> DEFINE j == job[a]
<1>1. PICK p \in j.done \ j.tagged :
        /\ At(a, "derive") /\ db' = Synced(db, {p}) /\ behind' = behind \ {p} /\ UNCHANGED <<file, trouble>>
        /\ Proceed(a, [job[a] EXCEPT !.tagged = @ \cup {p},
                         !.at = IF job[a].done = job[a].tagged \cup {p} THEN "attach" ELSE "derive"])
  BY DEF deriveAdded
<1> DEFINE tagged == j.tagged \cup {p}
           at == IF j.done = tagged THEN "attach" ELSE "derive"
           i == [j EXCEPT !.tagged = tagged, !.at = at]
<1>2. /\ j \in JobType /\ Remembers(j, db) /\ j.at = "derive" /\ Sound(db) /\ Usable(db)
      /\ p \in DOMAIN db.players /\ p \in Nat
  BY <1>1, Knows DEF At, Recalls, JobType
<1>3. at \in {"attach", "derive"} /\ at \in Steps /\ tagged \in SUBSET Nat /\ (at = "attach" => j.done = tagged)
  BY <1>2 DEF Steps, JobType
<1>4. Proceed(a, i)
  BY <1>1
<1> HIDE DEF at, tagged
<1>5. /\ i \in JobType /\ i.at = at /\ i.kind = j.kind /\ i.row = j.row /\ i.list = j.list /\ i.done = j.done
      /\ i.sweep = j.sweep /\ i.tagged = tagged
  BY <1>2, <1>3 DEF JobType
<1> HIDE DEF i
<1>6. /\ Evolves(db, db') /\ Intact(db, db', {}) /\ db'.lists = db.lists
      /\ \A q \in {p} : q \in DOMAIN db'.players => Right(db', q)
  <2>1. /\ Evolves(db, db') /\ Intact(db, db', {}) /\ db'.lists = db.lists /\ db'.players = db.players
        /\ \A q \in DOMAIN db.players : q \in {p} => Right(db', q)
    BY <1>1, <1>2, TagsWritten
  <2> QED BY <2>1
<1>7. Remembers(j, db')
  BY <1>2, <1>6, RemembersLater DEF Evolves
<1>8. Recalls(i, db')
  BY <1>2, <1>3, <1>5, <1>7 DEF Remembers, Recalls, RowSteps, ListSteps, EntrySteps, RefreshSteps
<1>9. Owes(j) \ {p} \subseteq Owes(i)
  BY <1>2, <1>3, <1>5 DEF Owes, Remembers, Recalls, tagged
<1>10. PICK k \in JobType : job' = [job EXCEPT ![a] = k] /\ Remembers(k, db') /\ Owes(i) \subseteq Owes(k)
  BY <1>4, <1>5, <1>8, Proceeds
<1>11. KeepsDefault
  BY <1>6, SameLists
<1>12. Owes(job[a]) \ {p} \subseteq Owes(k)
  BY <1>9, <1>10
<1>13. behind' = behind \ {p} /\ UNCHANGED file
  BY <1>1
<1> QED BY <1>6, <1>10, <1>11, <1>12, <1>13, SyncingStep

LEMMA AttachesToList ==
    ASSUME RosterInv, NEW a \in Actors, attachToList(a)
    PROVE  Safely
<1>1. job[a].at = "attach" /\ job[a].list \in Lists /\ job[a].done \subseteq Ids /\ End(a) /\ Calm
  BY Knows DEF attachToList, At, Remembers, Recalls, Lists, Ids
<1>2. db' = insertMemberships(db, job[a].list, job[a].done) \/ db' = db
  BY DEF attachToList, addPlayerIdsToLiveList
<1>3. Evolves(db, db') /\ Intact(db, db', {}) /\ KeepsDefault
  <2>1. CASE db' = insertMemberships(db, job[a].list, job[a].done)
    BY <1>1, <2>1, MembershipsStand
  <2>2. CASE db' = db
    BY <2>2, Knows, Unchanged DEF KeepsDefault
  <2> QED BY <1>2, <2>1, <2>2
<1> QED BY <1>1, <1>3, Ends DEF EntrySteps, RefreshSteps

LEMMA AddStepSafe ==
    ASSUME RosterInv, NEW a \in Actors, AddStep(a)
    PROVE  Safely
BY AddsPlayer, AddsBatch, FindsEntry, Reactivates, InsertsPlayer, DerivesAdded, AttachesToList DEF AddStep

(***************************************************************************)
(* Refreshing.                                                             *)
(***************************************************************************)
LEMMA ChoosesRefresh ==
    ASSUME RosterInv, NEW a \in Actors, refreshPlayerCommand(a)
    PROVE  Safely
<1>1. PICK ref \in PlayerRef : \E p \in Resolved(ref) :
        Begin(a, [Job("prime") EXCEPT !.kind = "refresh", !.row = p]) /\ Calm /\ UNCHANGED db
  BY DEF refreshPlayerCommand
<1>2. PICK p \in Resolved(ref) : Begin(a, [Job("prime") EXCEPT !.kind = "refresh", !.row = p]) /\ Calm /\ UNCHANGED db
  BY <1>1
<1> DEFINE b == Job("prime")
           j == [b EXCEPT !.kind = "refresh", !.row = p]
<1>3. p \in DOMAIN db.players /\ p \in Nat /\ p # 0
  <2>1. p \in DOMAIN db.players
    BY DEF Resolved, Ids
  <2> QED BY <2>1, Knows
<1>4. b \in JobType /\ b.at = "prime" /\ b.list = 0 /\ b.done = {} /\ b.sweep = <<>>
  <2>1. "prime" \in Steps
    BY DEF Steps
  <2> QED BY <2>1, JobIs
<1> HIDE DEF b
<1>5. j \in JobType /\ j.at = "prime" /\ j.kind = "refresh" /\ j.row = p /\ j.list = 0 /\ j.done = {} /\ j.sweep = <<>>
  BY <1>3, <1>4 DEF JobType
<1> HIDE DEF j
<1>6. Remembers(j, db)
  BY <1>3, <1>5 DEF Remembers, Recalls, RowSteps, ListSteps, EntrySteps, RefreshSteps
<1> QED BY <1>2, <1>5, <1>6, Begins DEF j, b

\* After a backfill that wrote nothing, an MLB add still owes the tags.
LEMMA UnrefreshedIs ==
    ASSUME NEW d, NEW j \in JobType, Recalls(j, d), j.at \in {"prime", "write"}, NEW failed \in BOOLEAN
    PROVE  LET i == Unrefreshed(j, failed) IN i \in JobType /\ Recalls(i, d) /\ Owes(j) \subseteq Owes(i)
<1> DEFINE i == Unrefreshed(j, failed)
<1>1. PICK at \in {"derive", "attach"}, list \in {0, j.list} :
        i = [j EXCEPT !.at = at, !.list = list] /\ (at = "derive" <=> j.kind = "mlb")
  <2>1. j = [j EXCEPT !.list = j.list] /\ [j EXCEPT !.at = "attach"] = [j EXCEPT !.at = "attach", !.list = j.list]
    BY DEF JobType
  <2>2. CASE j.kind = "mlb"
    BY <2>1, <2>2 DEF Unrefreshed
  <2>3. CASE j.kind = "hl"
    BY <2>1, <2>3 DEF Unrefreshed
  <2>4. CASE j.kind # "mlb" /\ j.kind # "hl"
    BY <2>1, <2>4 DEF Unrefreshed
  <2> QED BY <2>2, <2>3, <2>4
<1>2. at \in Steps /\ list \in Nat
  BY DEF Steps, JobType
<1> HIDE DEF i
<1>3. /\ i \in JobType /\ i.at = at /\ i.kind = j.kind /\ i.row = j.row /\ i.list = list /\ i.done = j.done
      /\ i.sweep = j.sweep /\ i.tagged = j.tagged
  BY <1>1, <1>2 DEF JobType
<1>4. Recalls(i, d)
  BY <1>1, <1>3 DEF Recalls, RowSteps, ListSteps, EntrySteps, RefreshSteps
<1>5. j.kind = "refresh" => j.done = {}
  BY DEF Recalls, RefreshSteps
<1>6. Owes(j) \subseteq Owes(i)
  BY <1>1, <1>3, <1>5 DEF Owes, Recalls, RefreshSteps
<1> QED BY <1>3, <1>4, <1>6 DEF i

\* A backfill that writes nothing.
LEMMA LeavesUnrefreshed ==
    ASSUME RosterInv, NEW a \in Actors, job[a].at \in {"prime", "write"}, NEW failed \in BOOLEAN,
           Proceed(a, Unrefreshed(job[a], failed)), Calm, UNCHANGED db
    PROVE  Safely
<1> DEFINE j == job[a]
           i == Unrefreshed(j, failed)
<1>1. j \in JobType /\ Recalls(j, db)
  BY Knows
<1>2. i \in JobType /\ Recalls(i, db) /\ Owes(j) \subseteq Owes(i)
  <2> HIDE DEF j
  <2> QED BY <1>1, UnrefreshedIs DEF j
<1>3. PICK k \in JobType : job' = [job EXCEPT ![a] = k] /\ Remembers(k, db) /\ Owes(i) \subseteq Owes(k)
  <2> HIDE DEF i
  <2>1. Proceed(a, i)
    BY DEF i
  <2> QED BY <1>2, <2>1, Proceeds
<1> QED BY <1>2, <1>3, ReadingStep

LEMMA ReadsForRefresh ==
    ASSUME RosterInv, NEW a \in Actors, runRefreshForPlayer(a)
    PROVE  Safely
<1> DEFINE j == job[a]
           r == db.players[j.row]
<1>1. j \in JobType /\ Remembers(j, db) /\ j.at = "prime" /\ Calm /\ UNCHANGED db
  BY Knows DEF runRefreshForPlayer, At
<1>2. r \in PlayerRow
  <2>1. j.row \in DOMAIN db.players
    BY <1>1 DEF Remembers, Recalls, RowSteps
  <2>2. Consistent(db)
    BY Knows
  <2> QED BY <2>1, <2>2, Columns
<1>3. CASE Proceed(a, Unrefreshed(job[a], FALSE)) \/ Proceed(a, Unrefreshed(job[a], TRUE))
  BY <1>1, <1>3, LeavesUnrefreshed
<1>4. CASE Refreshable(r) /\ Continue(a, [job[a] EXCEPT !.at = "write", !.snap = r])
  <2> DEFINE i == [j EXCEPT !.at = "write", !.snap = r]
  <2>1. job' = [job EXCEPT ![a] = i]
    BY <1>4 DEF Continue
  <2> HIDE DEF r
  <2>2. /\ i \in JobType /\ i.at = "write" /\ i.kind = j.kind /\ i.row = j.row /\ i.list = j.list /\ i.done = j.done
        /\ i.sweep = j.sweep /\ i.tagged = j.tagged /\ i.snap = r
    <3>1. "write" \in Steps
      BY DEF Steps
    <3> QED BY <1>1, <1>2, <3>1 DEF JobType
  <2> HIDE DEF i
  <2>3. Remembers(i, db)
    BY <1>1, <1>2, <1>4, <2>2 DEF Remembers, Recalls, RowSteps, ListSteps, EntrySteps, RefreshSteps
  <2>4. Owes(j) \subseteq Owes(i)
    BY <1>1, <2>2 DEF Owes
  <2> QED BY <1>1, <2>1, <2>2, <2>3, <2>4, ReadingStep
<1> QED BY <1>3, <1>4 DEF runRefreshForPlayer

LEMMA WritesBackfill ==
    ASSUME RosterInv, NEW a \in Actors, writeBackfill(a)
    PROVE  Safely
<1> DEFINE j == job[a]
<1>1. j \in JobType /\ Remembers(j, db) /\ j.at = "write" /\ Calm /\ Sound(db) /\ Usable(db)
  BY Knows DEF writeBackfill, At
<1>2. j.row \in DOMAIN db.players /\ j.snap \in PlayerRow /\ Refreshable(j.snap)
  BY <1>1 DEF Remembers, Recalls, RowSteps
<1>3. CASE db' \in Written(db, j.row, j.snap) /\ Continue(a, [job[a] EXCEPT !.at = "sync"])
  <2> DEFINE i == [j EXCEPT !.at = "sync"]
  <2>1. Evolves(db, db') /\ Intact(db, db', {j.row}) /\ db'.lists = db.lists
    BY <1>1, <1>2, <1>3, Refreshed
  <2>2. job' = [job EXCEPT ![a] = i]
    BY <1>3 DEF Continue
  <2>3. /\ i \in JobType /\ i.at = "sync" /\ i.kind = j.kind /\ i.row = j.row /\ i.list = j.list /\ i.done = j.done
        /\ i.sweep = j.sweep /\ i.tagged = j.tagged
    <3>1. "sync" \in Steps
      BY DEF Steps
    <3> QED BY <1>1, <3>1 DEF JobType
  <2> HIDE DEF i
  <2>4. Remembers(j, db')
    BY <1>1, <2>1, RemembersLater DEF Evolves
  <2>5. Remembers(i, db')
    BY <1>1, <2>3, <2>4 DEF Remembers, Recalls, RowSteps, ListSteps, EntrySteps, RefreshSteps
  <2>6. {j.row} \cup Owes(j) \subseteq Owes(i)
    BY <1>1, <2>3 DEF Owes
  <2>7. KeepsDefault
    BY <2>1, SameLists
  <2> QED BY <1>1, <2>1, <2>2, <2>3, <2>5, <2>6, <2>7, WritingStep
<1>4. CASE Proceed(a, Unrefreshed(job[a], FALSE)) /\ UNCHANGED db
  BY <1>1, <1>4, LeavesUnrefreshed
<1>5. CASE Proceed(a, Unrefreshed(job[a], TRUE)) /\ UNCHANGED db
  BY <1>1, <1>5, LeavesUnrefreshed
<1> QED BY <1>3, <1>4, <1>5 DEF writeBackfill

\* The tags of one row, written or given up; what the command still owes goes on in j.
LEMMA SyncsRow ==
    ASSUME RosterInv, NEW a \in Actors, job[a].row \in DOMAIN db.players, SyncRow(a), UNCHANGED file,
           NEW j \in JobType, job' = [job EXCEPT ![a] = j], Remembers(j, db),
           Owes(job[a]) \ {job[a].row} \subseteq Owes(j)
    PROVE  Safely
<1> DEFINE p == job[a].row
<1>1. Sound(db) /\ Usable(db)
  BY Knows
<1>2. CASE db' = Synced(db, {p}) /\ behind' = behind \ {p}
  <2>1. /\ Evolves(db, db') /\ Intact(db, db', {}) /\ db'.lists = db.lists
        /\ \A q \in {p} : q \in DOMAIN db'.players => Right(db', q)
    <3>1. /\ Evolves(db, db') /\ Intact(db, db', {}) /\ db'.lists = db.lists /\ db'.players = db.players
          /\ \A q \in DOMAIN db.players : q \in {p} => Right(db', q)
      BY <1>1, <1>2, TagsWritten
    <3> QED BY <3>1
  <2>2. KeepsDefault
    BY <2>1, SameLists
  <2>3. Remembers(j, db')
    BY <2>1, RemembersLater DEF Evolves
  <2> QED BY <1>2, <2>1, <2>2, <2>3, SyncingStep
<1>3. CASE behind' = behind \cup {p} /\ UNCHANGED db
  <2>1. Evolves(db, db') /\ KeepsDefault /\ Remembers(j, db')
    BY <1>1, <1>3, Unchanged DEF KeepsDefault
  <2>2. behind' \subseteq DOMAIN db'.players
    BY <1>3 DEF RosterInv, DiskInv, Ids
  <2>3. file' # Null => WellFormed(file')
    BY DEF RosterInv, DiskInv
  <2>4. \A q \in DOMAIN db'.players :
          \/ Right(db', q) \/ q \in behind' \/ q \in Owes(j)
          \/ q \in DOMAIN db.players /\ ~ Right(db, q) /\ q \notin behind /\ q \notin Owes(job[a])
    BY <1>3
  <2> QED BY <2>1, <2>2, <2>3, <2>4, Step
<1> QED BY <1>2, <1>3 DEF SyncRow

LEMMA SyncsBackfill ==
    ASSUME RosterInv, NEW a \in Actors, syncBackfill(a)
    PROVE  Safely
<1> DEFINE j == job[a]
           i == [j EXCEPT !.at = "attach"]
<1>1. j \in JobType /\ Remembers(j, db) /\ j.at = "sync" /\ SyncRow(a) /\ Proceed(a, i) /\ UNCHANGED file
  BY Knows DEF syncBackfill, At
<1>2. /\ i \in JobType /\ i.at = "attach" /\ i.kind = j.kind /\ i.row = j.row /\ i.list = j.list /\ i.done = j.done
      /\ i.sweep = j.sweep
  <2>1. "attach" \in Steps
    BY DEF Steps
  <2> QED BY <1>1, <2>1 DEF JobType
<1> HIDE DEF i
<1>3. Recalls(i, db)
  BY <1>1, <1>2 DEF Remembers, Recalls, RowSteps, ListSteps, EntrySteps, RefreshSteps
<1>4. PICK k \in JobType : job' = [job EXCEPT ![a] = k] /\ Remembers(k, db) /\ Owes(i) \subseteq Owes(k)
  BY <1>1, <1>2, <1>3, Proceeds
<1>5. j.row \in DOMAIN db.players /\ Owes(j) \ {j.row} \subseteq Owes(k)
  BY <1>1 DEF Remembers, Recalls, RowSteps, RefreshSteps, Owes
<1> QED BY <1>1, <1>4, <1>5, SyncsRow

\* The sweep.
Swept == [row : Nat, snap : PlayerRow]

LEMMA SweepJob ==
    ASSUME NEW b \in JobType, NEW s \in Seq(Swept)
    PROVE  LET j == [b EXCEPT !.kind = "sweep", !.sweep = s] IN
           /\ j \in JobType /\ j.at = b.at /\ j.row = b.row /\ j.list = b.list /\ j.done = b.done /\ j.sweep = s
BY DEF JobType, Swept

LEMMA Sweeps ==
    ASSUME RosterInv, NEW a \in Actors, runRefresh(a)
    PROVE  Safely
<1> DEFINE selected == SetToSeq(Active)
           sweep == [i \in DOMAIN selected |-> [row |-> selected[i], snap |-> db.players[selected[i]]]]
           b == Job("sweep")
           j == [b EXCEPT !.kind = "sweep", !.sweep = sweep]
<1>1. selected # <<>> /\ Begin(a, j) /\ Calm /\ UNCHANGED db
  BY DEF runRefresh
<1>2. selected \in Seq(DOMAIN db.players)
  <2>1. Active \subseteq 1 .. Len(db.players) /\ Len(db.players) \in Nat /\ DOMAIN db.players = 1 .. Len(db.players)
    BY Knows DEF Active, Ids
  <2>2. IsFiniteSet(Active)
    <3>1. IsFiniteSet(1 .. Len(db.players))
      BY <2>1, FS_Interval
    <3> QED BY <2>1, <3>1, FS_Subset
  <2>3. SetToSeq(Active) \in Seq(Active)
    BY <2>2, SetToSeqEnumerates
  <2> HIDE DEF selected
  <2>4. selected \in Seq(Active)
    BY <2>3 DEF selected
  <2>5. selected \in [1 .. Len(selected) -> Active] /\ Len(selected) \in Nat
    BY <2>4
  <2>6. selected \in [1 .. Len(selected) -> DOMAIN db.players]
    BY <2>1, <2>5
  <2> QED BY <2>5, <2>6
<1> HIDE DEF selected
<1>3. sweep \in Seq(Swept) /\ sweep # <<>> /\ \A i \in 1 .. Len(sweep) : sweep[i].row \in DOMAIN db.players
  <2>1. DOMAIN selected = 1 .. Len(selected) /\ Len(selected) \in Nat
        /\ \A i \in DOMAIN selected : selected[i] \in DOMAIN db.players
    BY <1>2
  <2>2. \A i \in DOMAIN selected : selected[i] \in Nat /\ db.players[selected[i]] \in PlayerRow
    <3>1. DOMAIN db.players = 1 .. Len(db.players) /\ Len(db.players) \in Nat
          /\ \A p \in DOMAIN db.players : db.players[p] \in PlayerRow
      BY Knows, Columns
    <3> QED BY <2>1, <3>1
  <2>3. sweep \in [1 .. Len(selected) -> Swept]
    BY <2>1, <2>2 DEF Swept
  <2>4. sweep \in Seq(Swept) /\ Len(sweep) = Len(selected)
    BY <2>1, <2>3
  <2>5. Len(selected) # 0
    BY <1>1, <1>2
  <2> QED BY <2>1, <2>4, <2>5
<1>4. b \in JobType /\ b.at = "sweep" /\ b.row = 0 /\ b.list = 0 /\ b.done = {}
  <2>1. "sweep" \in Steps
    BY DEF Steps
  <2> QED BY <2>1, JobIs
<1> HIDE DEF b, sweep
<1>5. j \in JobType /\ j.at = "sweep" /\ j.row = 0 /\ j.list = 0 /\ j.done = {} /\ j.sweep = sweep
  BY <1>3, <1>4 DEF JobType, Swept
<1> HIDE DEF j
<1>6. Remembers(j, db)
  BY <1>3, <1>5 DEF Remembers, Recalls, RowSteps, ListSteps, EntrySteps, RefreshSteps
<1> QED BY <1>1, <1>5, <1>6, Begins

\* The player a sweep comes to, and what is left of it after him.
LEMMA SweptIs ==
    ASSUME NEW a \in Actors, job[a] \in JobType, NEW d, Remembers(job[a], d), job[a].at \in {"sweep", "sweepSync"}
    PROVE  /\ Head(job[a].sweep).row \in DOMAIN d.players /\ Head(job[a].sweep).row \in Nat
           /\ Head(job[a].sweep).snap \in PlayerRow
           /\ NextSwept(a) \in JobType /\ Remembers(NextSwept(a), d)
<1> DEFINE sweep == job[a].sweep
           rest == Tail(sweep)
           b == Job("sweep")
           j == [b EXCEPT !.kind = "sweep", !.sweep = rest]
<1>1. sweep \in Seq(Swept) /\ sweep # <<>> /\ \A i \in 1 .. Len(sweep) : sweep[i].row \in DOMAIN d.players
  BY DEF JobType, Swept, Remembers, Recalls
<1> HIDE DEF sweep
<1>2. 1 \in 1 .. Len(sweep) /\ Head(sweep) = sweep[1] /\ sweep[1] \in Swept
  BY <1>1
<1>3. rest \in Seq(Swept) /\ \A i \in 1 .. Len(rest) : i + 1 \in 1 .. Len(sweep) /\ rest[i] = sweep[i + 1]
  BY <1>1
<1>4. NextSwept(a) = IF rest = <<>> THEN Ended(a) ELSE j
  BY DEF NextSwept, sweep
<1> HIDE DEF rest
<1>5. b \in JobType /\ b.at = "sweep" /\ b.row = 0 /\ b.list = 0 /\ b.done = {}
  <2>1. "sweep" \in Steps
    BY DEF Steps
  <2> QED BY <2>1, JobIs
<1> HIDE DEF b
<1>6. j \in JobType /\ j.at = "sweep" /\ j.row = 0 /\ j.list = 0 /\ j.done = {} /\ j.sweep = rest
  <2>1. rest \in Seq(Swept)
    BY <1>3
  <2> QED BY <1>5, <2>1, SweepJob
<1> HIDE DEF j
<1>7. rest # <<>> => Remembers(j, d)
  BY <1>1, <1>3, <1>6 DEF Remembers, Recalls, RowSteps, ListSteps, EntrySteps, RefreshSteps
<1>8. NextSwept(a) \in JobType /\ Remembers(NextSwept(a), d)
  BY <1>4, <1>6, <1>7, EndedRemembers
<1> QED BY <1>1, <1>2, <1>8 DEF Swept, sweep

LEMMA SweepsPlayer ==
    ASSUME RosterInv, NEW a \in Actors, sweepPlayer(a)
    PROVE  Safely
<1> DEFINE j == job[a]
           next == Head(j.sweep)
<1>1. j \in JobType /\ Remembers(j, db) /\ j.at = "sweep" /\ Calm /\ Sound(db) /\ Usable(db)
  BY Knows DEF sweepPlayer, At
<1>2. /\ next.row \in DOMAIN db.players /\ next.row \in Nat /\ next.snap \in PlayerRow
      /\ NextSwept(a) \in JobType /\ Remembers(NextSwept(a), db)
  BY <1>1, SweptIs
<1>3. Owes(j) = {}
  BY <1>1, IdleOwesNothing DEF EntrySteps, RefreshSteps
<1>4. CASE /\ Fetchable(next.snap) /\ db' \in Written(db, next.row, next.snap)
           /\ Continue(a, [job[a] EXCEPT !.at = "sweepSync", !.row = next.row])
  <2> DEFINE row == next.row
             i == [j EXCEPT !.at = "sweepSync", !.row = row]
  <2>1. Refreshable(next.snap)
    BY <1>4 DEF Fetchable
  <2>2. Evolves(db, db') /\ Intact(db, db', {row}) /\ db'.lists = db.lists
    BY <1>1, <1>2, <1>4, <2>1, Refreshed
  <2>3. job' = [job EXCEPT ![a] = i]
    BY <1>4 DEF Continue
  <2>4. row \in DOMAIN db.players /\ row \in Nat /\ row # 0
    BY <1>2, Knows
  <2> HIDE DEF row
  <2>5. /\ i \in JobType /\ i.at = "sweepSync" /\ i.row = row /\ i.list = j.list /\ i.done = j.done
        /\ i.sweep = j.sweep
    <3>1. "sweepSync" \in Steps
      BY DEF Steps
    <3> QED BY <1>1, <2>4, <3>1 DEF JobType
  <2> HIDE DEF i
  <2>6. Remembers(j, db') /\ row \in DOMAIN db'.players
    BY <1>1, <2>2, <2>4, RemembersLater DEF Evolves, Later
  <2>7. Remembers(i, db')
    BY <1>1, <2>4, <2>5, <2>6 DEF Remembers, Recalls, RowSteps, ListSteps, EntrySteps, RefreshSteps
  <2>8. {row} \cup Owes(j) \subseteq Owes(i)
    BY <1>3, <2>5 DEF Owes
  <2>9. KeepsDefault
    BY <2>2, SameLists
  <2> QED BY <1>1, <2>2, <2>3, <2>5, <2>7, <2>8, <2>9, WritingStep
<1>5. CASE Continue(a, NextSwept(a)) /\ UNCHANGED db
  <2>1. job' = [job EXCEPT ![a] = NextSwept(a)] /\ Owes(j) \subseteq Owes(NextSwept(a))
    BY <1>3, <1>5 DEF Continue
  <2> QED BY <1>1, <1>2, <1>5, <2>1, ReadingStep
<1> QED BY <1>4, <1>5 DEF sweepPlayer

LEMMA SyncsSwept ==
    ASSUME RosterInv, NEW a \in Actors, sweepSync(a)
    PROVE  Safely
<1> DEFINE j == job[a]
<1>1. j \in JobType /\ Remembers(j, db) /\ j.at = "sweepSync" /\ SyncRow(a) /\ UNCHANGED file
      /\ job' = [job EXCEPT ![a] = NextSwept(a)]
  BY Knows DEF sweepSync, At, Continue
<1>2. NextSwept(a) \in JobType /\ Remembers(NextSwept(a), db)
  BY <1>1, SweptIs
<1>3. j.row \in DOMAIN db.players /\ Owes(j) \ {j.row} \subseteq Owes(NextSwept(a))
  BY <1>1 DEF Remembers, Recalls, RowSteps, EntrySteps, RefreshSteps, Owes
<1> QED BY <1>1, <1>2, <1>3, SyncsRow

LEMMA RefreshStepSafe ==
    ASSUME RosterInv, NEW a \in Actors, RefreshStep(a)
    PROVE  Safely
BY ChoosesRefresh, ReadsForRefresh, WritesBackfill, SyncsBackfill, Sweeps, SweepsPlayer, SyncsSwept DEF RefreshStep

(***************************************************************************)
(* Identities and tags.                                                    *)
(***************************************************************************)
\* A command that has found its row, of those that act on it in the next step.
LEMMA ChoosesRow ==
    ASSUME RosterInv, NEW a \in Actors, NEW at \in {"bind", "deactivate"}, NEW p \in Ids, NEW ref \in {Null} \cup PlayerRef,
           at = "bind" => ref \in HlIds, NEW j, j = [Job(at) EXCEPT !.row = p, !.ref = ref],
           Begin(a, j), Calm, UNCHANGED db
    PROVE  Safely
<1> DEFINE b == Job(at)
<1>1. p \in DOMAIN db.players /\ p \in Nat /\ p # 0
  BY Knows DEF Ids
<1>2. b \in JobType /\ b.at = at /\ b.list = 0 /\ b.done = {} /\ b.sweep = <<>>
  <2>1. at \in Steps
    BY DEF Steps
  <2> QED BY <2>1, JobIs
<1> HIDE DEF b
<1>3. j = [b EXCEPT !.row = p, !.ref = ref]
  BY DEF b
<1>4. j \in JobType /\ j.at = at /\ j.row = p /\ j.list = 0 /\ j.done = {} /\ j.sweep = <<>> /\ j.ref = ref
  BY <1>1, <1>2, <1>3 DEF JobType
<1>5. Remembers(j, db)
  BY <1>1, <1>4 DEF Remembers, Recalls, RowSteps, ListSteps, EntrySteps, RefreshSteps
<1> QED BY <1>4, <1>5, Begins

LEMMA ChoosesLegacy ==
    ASSUME RosterInv, NEW a \in Actors, attachHighlightlyNcaaPlayer(a)
    PROVE  Safely
<1>1. PICK s \in Seqs, h \in HlIds : \E p \in BySeq(s) :
        Begin(a, [Job("bind") EXCEPT !.row = p, !.ref = h]) /\ Calm /\ UNCHANGED db
  BY DEF attachHighlightlyNcaaPlayer
<1>2. PICK p \in BySeq(s) : Begin(a, [Job("bind") EXCEPT !.row = p, !.ref = h]) /\ Calm /\ UNCHANGED db
  BY <1>1
<1> DEFINE j == [Job("bind") EXCEPT !.row = p, !.ref = h]
<1>3. p \in Ids /\ h \in {Null} \cup PlayerRef /\ Begin(a, j) /\ Calm /\ UNCHANGED db
  BY <1>2 DEF BySeq, PlayerRef
<1>4. \A i : i = [Job("bind") EXCEPT !.row = p, !.ref = h] /\ Begin(a, i) => Safely
  BY <1>3, ChoosesRow
<1> QED BY <1>3, <1>4

LEMMA ChoosesForDeactivation ==
    ASSUME RosterInv, NEW a \in Actors, deactivatePlayer(a)
    PROVE  Safely
<1>1. PICK ref \in PlayerRef : \E p \in Resolved(ref) :
        Begin(a, [Job("deactivate") EXCEPT !.row = p]) /\ Calm /\ UNCHANGED db
  BY DEF deactivatePlayer
<1>2. PICK p \in Resolved(ref) : Begin(a, [Job("deactivate") EXCEPT !.row = p]) /\ Calm /\ UNCHANGED db
  BY <1>1
<1>3. p \in Ids
  BY DEF Resolved
<1>4. [Job("deactivate") EXCEPT !.row = p] = [Job("deactivate") EXCEPT !.row = p, !.ref = Null]
  <2> DEFINE b == Job("deactivate")
  <2>1. b \in JobType /\ b.ref = Null
    <3>1. "deactivate" \in Steps
      BY DEF Steps
    <3> QED BY <3>1, JobIs
  <2> HIDE DEF b
  <2>2. [b EXCEPT !.row = p] = [b EXCEPT !.row = p, !.ref = Null]
    BY <2>1 DEF JobType
  <2> QED BY <2>2 DEF b
<1>5. \A i : i = [Job("deactivate") EXCEPT !.row = p, !.ref = Null] /\ Begin(a, i) => Safely
  BY <1>2, <1>3, ChoosesRow
<1> QED BY <1>2, <1>4, <1>5

LEMMA Binds ==
    ASSUME RosterInv, NEW a \in Actors, bindHighlightly(a)
    PROVE  Safely
<1> DEFINE p == job[a].row
           h == job[a].ref
           bound == WithRow(db, p, [db.players[p] EXCEPT !.hl = h, !.src = "highlightly_pending"])
<1>1. p \in DOMAIN db.players /\ h \in HlIds /\ job[a].at = "bind" /\ End(a) /\ Calm /\ Sound(db) /\ Usable(db)
  BY Knows DEF bindHighlightly, At, Recalls, RowSteps
<1>2. db' = IF PlayersAccepted(bound.players) THEN bound ELSE db
  BY DEF bindHighlightly
<1>3. PlayersAccepted(bound.players) => Evolves(db, bound) /\ Intact(db, bound, {}) /\ bound.lists = db.lists
  <2> HIDE DEF p, h
  <2> QED BY <1>1, Bound
<1> HIDE DEF bound
<1>4. Evolves(db, db') /\ Intact(db, db', {}) /\ db'.lists = db.lists
  BY <1>1, <1>2, <1>3, Unchanged
<1> QED BY <1>1, <1>4, SameLists, Ends DEF EntrySteps, RefreshSteps

LEMMA Promotes ==
    ASSUME RosterInv, NEW a \in Actors, promoteHighlightlyNcaaPlayer(a)
    PROVE  Safely
<1>1. PICK h \in HlIds, e \in Persons, place \in Locations : \E p \in Resolved(h) :
        /\ db.players[p].level = "ncaa" /\ Resolved(e) = {} /\ Transact(a) /\ UNCHANGED file
        /\ db' = Synced(WithRow(db, p, ProRow(e, place)), {p}) /\ behind' = behind \ {p}
  BY DEF promoteHighlightlyNcaaPlayer
<1>2. PICK p \in Resolved(h) :
        /\ db.players[p].level = "ncaa" /\ Resolved(e) = {} /\ Transact(a) /\ UNCHANGED file
        /\ db' = Synced(WithRow(db, p, ProRow(e, place)), {p}) /\ behind' = behind \ {p}
  BY <1>1
<1>3. p \in DOMAIN db.players /\ Sound(db) /\ Usable(db)
  BY Knows DEF Resolved, Ids
<1>4. \A q \in DOMAIN db.players : db.players[q].ext # e
  BY <1>2 DEF Resolved, RefersTo, Ids
<1>5. Evolves(db, db') /\ Intact(db, db', {}) /\ Right(db', p) /\ db'.lists = db.lists
  BY <1>2, <1>3, <1>4, Promoted
<1>6. job' = [job EXCEPT ![a] = Ended(a)] /\ Owes(job[a]) = {}
  BY <1>2, IdleOwesNothing DEF Transact, Idle, EntrySteps, RefreshSteps
<1>7. Ended(a) \in JobType /\ Remembers(Ended(a), db')
  BY EndedRemembers
<1>8. KeepsDefault /\ (\A q \in {p} : q \in DOMAIN db'.players => Right(db', q))
      /\ Owes(job[a]) \ {p} \subseteq Owes(Ended(a))
  BY <1>5, <1>6, SameLists
<1> QED BY <1>2, <1>5, <1>6, <1>7, <1>8, SyncingStep

LEMMA Deactivates ==
    ASSUME RosterInv, NEW a \in Actors, deactivateRow(a)
    PROVE  Safely
<1> DEFINE p == job[a].row
<1>1. /\ p \in DOMAIN db.players /\ job[a].at = "deactivate" /\ End(a) /\ Calm /\ Sound(db) /\ Usable(db)
      /\ db' = [db EXCEPT !.players[p].active = FALSE]
  BY Knows DEF deactivateRow, At, Recalls, RowSteps
<1>2. Evolves(db, db') /\ Intact(db, db', {}) /\ db'.lists = db.lists
  <2> HIDE DEF p
  <2> QED BY <1>1, ActiveWritten
<1> QED BY <1>1, <1>2, SameLists, Ends DEF EntrySteps, RefreshSteps

LEMMA TagsPlayer ==
    ASSUME RosterInv, NEW a \in Actors, tagPlayer(a)
    PROVE  Safely
<1>1. PICK ref \in PlayerRef, tagged \in BOOLEAN : \E p \in Resolved(ref) :
        /\ Transact(a) /\ Calm
        /\ db' = [db EXCEPT !.rostered = IF tagged THEN @ \cup {p} ELSE @ \ {p}]
  BY DEF tagPlayer
<1>2. PICK p \in Resolved(ref) :
        /\ Transact(a) /\ Calm
        /\ db' = [db EXCEPT !.rostered = IF tagged THEN @ \cup {p} ELSE @ \ {p}]
  BY <1>1
<1> DEFINE R == IF tagged THEN db.rostered \cup {p} ELSE db.rostered \ {p}
<1>3. Sound(db) /\ Usable(db) /\ R \subseteq DOMAIN db.players
  BY Knows DEF Resolved, Ids, Consistent
<1>4. db' = [db EXCEPT !.rostered = R]
  BY <1>2
<1> HIDE DEF R
<1>5. Evolves(db, db') /\ Intact(db, db', {}) /\ db'.lists = db.lists
  BY <1>3, <1>4, RosteredWritten
<1> QED BY <1>2, <1>5, SameLists, Transacts

LEMMA RebuildsTags ==
    ASSUME RosterInv, NEW a \in Actors, syncAllDerivedTags(a)
    PROVE  Safely
<1>1. Transact(a) /\ db' = Synced(db, Ids) /\ behind' = {} /\ UNCHANGED file
  BY DEF syncAllDerivedTags
<1>2. /\ Evolves(db, db') /\ Intact(db, db', {}) /\ db'.lists = db.lists /\ db'.players = db.players
      /\ \A p \in DOMAIN db.players : p \in Ids => Right(db', p)
  BY <1>1, Knows, TagsWritten
<1>3. job' = [job EXCEPT ![a] = Ended(a)] /\ Owes(job[a]) = {}
  BY <1>1, IdleOwesNothing DEF Transact, Idle, EntrySteps, RefreshSteps
<1>4. Ended(a) \in JobType /\ Remembers(Ended(a), db')
  BY EndedRemembers
<1>5. behind' = behind \ Ids /\ KeepsDefault /\ Owes(job[a]) \ Ids \subseteq Owes(Ended(a))
  BY <1>1, <1>2, <1>3, SameLists DEF RosterInv, DiskInv
<1> QED BY <1>1, <1>2, <1>3, <1>4, <1>5, SyncingStep

LEMMA IdentityStepSafe ==
    ASSUME RosterInv, NEW a \in Actors, IdentityStep(a)
    PROVE  Safely
BY ChoosesLegacy, Binds, Promotes, ChoosesForDeactivation, Deactivates, TagsPlayer, RebuildsTags DEF IdentityStep

(***************************************************************************)
(* Backups.  Each part of a document comes from a read of its own, so what *)
(* its parts are is said of each alone.                                    *)
(***************************************************************************)
LEMMA PartsOfBackup ==
    ASSUME NEW d, Sound(d)
    PROVE  /\ ListsOf(d) \in SUBSET Lane /\ IsFiniteSet(ListsOf(d)) /\ MembersOf(d) \in SUBSET Member
           /\ \A l, k \in ListsOf(d) : l.name = k.name => l = k
<1>1. WellFormed(Export(d))
  BY ExportParses
<1>2. Export(d).lists = ListsOf(d) /\ Export(d).members = MembersOf(d)
  BY DEF Export, Backup
<1> QED BY <1>1, <1>2 DEF WellFormed, Document

LEMMA RowsOfBackup ==
    ASSUME NEW ps \in Seq(PlayerRow), NEW R
    PROVE  PlayersOf(ps, R) \in SUBSET Entry /\ IsFiniteSet(PlayersOf(ps, R))
<1>1. Len(ps) \in Nat /\ DOMAIN ps = 1 .. Len(ps) /\ \A p \in 1 .. Len(ps) : ps[p] \in PlayerRow
  OBVIOUS
<1>2. ASSUME NEW r \in PlayerRow, NEW b \in BOOLEAN PROVE PlayerEntry(r, b) \in Entry
  BY DEF PlayerEntry, PlayerRow, Entry
<1>3. \A p \in 1 .. Len(ps) : PlayerEntry(ps[p], p \in R) \in Entry
  <2> TAKE p \in 1 .. Len(ps)
  <2> DEFINE b == p \in R
  <2>1. b \in BOOLEAN
    OBVIOUS
  <2> HIDE DEF b
  <2>2. PlayerEntry(ps[p], b) \in Entry
    BY <1>1, <1>2, <2>1
  <2> QED BY <2>2 DEF b
<1> DEFINE f == [p \in 1 .. Len(ps) |-> PlayerEntry(ps[p], p \in R)]
<1>4. f \in [1 .. Len(ps) -> Entry]
  BY <1>3
<1>5. PlayersOf(ps, R) = {f[p] : p \in 1 .. Len(ps)}
  BY <1>1 DEF PlayersOf
<1> HIDE DEF f
<1>6. PlayersOf(ps, R) \in SUBSET {f[p] : p \in 1 .. Len(ps)}
  BY <1>5
<1>7. IsFiniteSet(PlayersOf(ps, R))
  BY <1>1, <1>4, <1>6, ImageOfPlaces
<1> QED BY <1>1, <1>4, <1>5, <1>7

LEMMA BacksUp ==
    ASSUME RosterInv, NEW a \in Actors, createPlayerListBackup(a)
    PROVE  Safely
<1> DEFINE b == Job("exportLists")
           j == [b EXCEPT !.rows = db.players]
<1>1. Begin(a, j) /\ Calm /\ UNCHANGED db
  BY DEF createPlayerListBackup
<1>2. b \in JobType /\ b.at = "exportLists" /\ b.row = 0 /\ b.list = 0 /\ b.done = {} /\ b.sweep = <<>>
  <2>1. "exportLists" \in Steps
    BY DEF Steps
  <2> QED BY <2>1, JobIs
<1>3. db.players \in Seq(PlayerRow)
  BY Knows, Columns
<1> HIDE DEF b
<1>4. j \in JobType /\ j.at = "exportLists" /\ j.row = 0 /\ j.list = 0 /\ j.done = {} /\ j.sweep = <<>>
  BY <1>2, <1>3 DEF JobType
<1> HIDE DEF j
<1>5. Remembers(j, db)
  BY <1>4 DEF Remembers, Recalls, RowSteps, ListSteps, EntrySteps, RefreshSteps
<1> QED BY <1>1, <1>4, <1>5, Begins

\* A read of the tables into the document of the command.
LEMMA ReadsForBackup ==
    ASSUME RosterInv, NEW a \in Actors, NEW at \in {"exportMembers", "writeFile"}, NEW doc, WellFormed(doc),
           job[a].at \in {"exportLists", "exportMembers"}, Calm, UNCHANGED db,
           Continue(a, [job[a] EXCEPT !.at = at, !.doc = doc])
    PROVE  Safely
<1> DEFINE j == job[a]
           i == [j EXCEPT !.at = at, !.doc = doc]
<1>1. j \in JobType /\ Remembers(j, db) /\ at \in Steps /\ doc \in Document
  BY Knows DEF Steps, WellFormed
<1>2. job' = [job EXCEPT ![a] = i]
  BY DEF Continue
<1>3. /\ i \in JobType /\ i.at = at /\ i.row = j.row /\ i.list = j.list /\ i.done = j.done /\ i.sweep = j.sweep
      /\ i.doc = doc
  BY <1>1 DEF JobType
<1> HIDE DEF i
<1>4. Remembers(i, db)
  BY <1>1, <1>3 DEF Remembers, Recalls, RowSteps, ListSteps, EntrySteps, RefreshSteps
<1>5. Owes(j) = {}
  BY IdleOwesNothing DEF EntrySteps, RefreshSteps
<1> QED BY <1>2, <1>3, <1>4, <1>5, ReadingStep

LEMMA ExportsLists ==
    ASSUME RosterInv, NEW a \in Actors, exportLists(a)
    PROVE  Safely
<1> DEFINE lists == ListsOf(db)
           doc == Backup({}, lists, {})
<1>1. /\ lists \in SUBSET Lane /\ IsFiniteSet(lists) /\ \A l, k \in lists : l.name = k.name => l = k
  BY Knows, PartsOfBackup
<1>2. /\ doc.players = {} /\ doc.lists = lists /\ doc.listed = TRUE /\ IsFiniteSet({})
      /\ doc = [version |-> 5, players |-> {}, listed |-> TRUE, lists |-> lists, members |-> {}]
  BY FS_EmptySet DEF Backup, PLAYER_BACKUP_VERSION
<1> HIDE DEF lists
<1>3. doc \in Document
  <2>1. {} \in SUBSET Entry /\ {} \in SUBSET Member /\ lists \in SUBSET Lane /\ 5 \in 1 .. PLAYER_BACKUP_VERSION
    BY <1>1 DEF PLAYER_BACKUP_VERSION
  <2>2. [version |-> 5, players |-> {}, listed |-> TRUE, lists |-> lists, members |-> {}] \in Document
    BY <2>1 DEF Document
  <2> QED BY <1>2, <2>2
<1>4. WellFormed(doc)
  BY <1>1, <1>2, <1>3 DEF WellFormed
<1>5. job[a].at = "exportLists" /\ Calm /\ UNCHANGED db /\ Continue(a, [job[a] EXCEPT !.at = "exportMembers", !.doc = doc])
  BY DEF exportLists, At, lists
<1> HIDE DEF doc
<1> QED BY <1>4, <1>5, ReadsForBackup

LEMMA ExportsMembers ==
    ASSUME RosterInv, NEW a \in Actors, exportMembers(a)
    PROVE  Safely
<1> DEFINE members == MembersOf(db)
           old == job[a].doc
           doc == [old EXCEPT !.members = members]
<1>1. members \in SUBSET Member
  BY Knows, PartsOfBackup
<1>2. WellFormed(old)
  BY Knows DEF exportMembers, At, Recalls
<1>3. job[a].at = "exportMembers" /\ Calm /\ UNCHANGED db /\ Continue(a, [job[a] EXCEPT !.at = "writeFile", !.doc = doc])
  BY DEF exportMembers, At
<1> HIDE DEF members, old
<1>4. doc \in Document /\ doc.players = old.players /\ doc.lists = old.lists /\ doc.listed = old.listed
  BY <1>1, <1>2 DEF WellFormed, Document
<1> HIDE DEF doc
<1>5. WellFormed(doc)
  BY <1>2, <1>4 DEF WellFormed
<1> QED BY <1>3, <1>5, ReadsForBackup

LEMMA WritesFile ==
    ASSUME RosterInv, NEW a \in Actors, writePlayerListBackupFile(a)
    PROVE  Safely
<1> DEFINE old == job[a].doc
           rows == job[a].rows
           players == PlayersOf(rows, db.rostered)
           doc == [old EXCEPT !.players = players]
<1>1. WellFormed(old) /\ rows \in Seq(PlayerRow)
  BY Knows DEF writePlayerListBackupFile, At, Recalls, JobType
<1>2. job[a].at = "writeFile" /\ End(a) /\ UNCHANGED <<db, behind>> /\ file' = doc
  BY DEF writePlayerListBackupFile, At
<1>3. players \in SUBSET Entry /\ IsFiniteSet(players)
  <2> HIDE DEF rows
  <2> QED BY <1>1, RowsOfBackup
<1> HIDE DEF players, old
<1>4. doc \in Document /\ doc.players = players /\ doc.lists = old.lists /\ doc.listed = old.listed
  BY <1>1, <1>3 DEF WellFormed, Document
<1> HIDE DEF doc
<1>5. WellFormed(file')
  BY <1>1, <1>2, <1>3, <1>4 DEF WellFormed
<1>6. job' = [job EXCEPT ![a] = Ended(a)] /\ Owes(job[a]) = {}
  BY <1>2, IdleOwesNothing DEF End, Continue, EntrySteps, RefreshSteps
<1>7. Ended(a) \in JobType /\ Remembers(Ended(a), db')
  BY EndedRemembers
<1>8. Evolves(db, db') /\ KeepsDefault
  BY <1>2, Knows, Unchanged DEF KeepsDefault
<1>9. behind' \subseteq DOMAIN db'.players
  BY <1>2 DEF RosterInv, DiskInv, Ids
<1>10. \A p \in DOMAIN db'.players :
         \/ Right(db', p) \/ p \in behind' \/ p \in Owes(Ended(a))
         \/ p \in DOMAIN db.players /\ ~ Right(db, p) /\ p \notin behind /\ p \notin Owes(job[a])
  BY <1>2, <1>6
<1> QED BY <1>5, <1>6, <1>7, <1>8, <1>9, <1>10, Step

LEMMA DocumentsAreWellFormed ==
    ASSUME RosterInv, NEW doc \in Documents
    PROVE  WellFormed(doc)
BY FilesAssumption DEF Documents, RosterInv, DiskInv

LEMMA Restores ==
    ASSUME RosterInv, NEW a \in Actors, restorePlayerListBackup(a)
    PROVE  Safely
<1>1. PICK doc \in Documents : parsePlayerListBackup(doc) /\ Transact(a) /\ db' = Restored(db, doc) /\ Calm
  BY DEF restorePlayerListBackup
<1>2. /\ Evolves(db, db') /\ Intact(db, db', {})
      /\ Defaulted(db) => Defaulted(db') \/ \A l \in doc.lists : ~ l.isDefault
  BY <1>1, Knows, DocumentsAreWellFormed, RestoreStands
<1>3. KeepsDefault
  BY <1>1, <1>2 DEF KeepsDefault, Forsworn
<1> QED BY <1>1, <1>2, <1>3, Transacts

LEMMA BackupStepSafe ==
    ASSUME RosterInv, NEW a \in Actors, BackupStep(a)
    PROVE  Safely
BY BacksUp, ExportsLists, ExportsMembers, WritesFile, Restores DEF BackupStep

(***************************************************************************)
(* Startups and crashes, and the invariant.                                *)
(***************************************************************************)
LEMMA StartsUp ==
    ASSUME RosterInv, NEW a \in Actors, syncUntaggedDerivedTags(a)
    PROVE  Safely
<1>1. /\ job[a].at = "down" /\ db' = Synced(db, Untagged) /\ behind' = behind \ Untagged /\ UNCHANGED file
      /\ job' = [job EXCEPT ![a] = Job("idle")]
  BY DEF syncUntaggedDerivedTags, At, Continue
<1>2. /\ Evolves(db, db') /\ Intact(db, db', {}) /\ db'.lists = db.lists /\ db'.players = db.players
      /\ \A p \in DOMAIN db.players : p \in Untagged => Right(db', p)
  BY <1>1, Knows, TagsWritten
<1>3. Job("idle") \in JobType /\ Remembers(Job("idle"), db')
  BY JobRemembers
<1>4. Owes(job[a]) = {} /\ KeepsDefault
  BY <1>1, <1>2, IdleOwesNothing, SameLists DEF EntrySteps, RefreshSteps
<1>5. /\ \A p \in Untagged : p \in DOMAIN db'.players => Right(db', p)
      /\ Owes(job[a]) \ Untagged \subseteq Owes(Job("idle"))
  BY <1>2, <1>4
<1> QED BY <1>1, <1>2, <1>3, <1>4, <1>5, SyncingStep

\* Those a command owes their tags are among those a crash leaves behind.
LEMMA OwesAreOwed ==
    ASSUME RosterInv, NEW a \in Actors
    PROVE  Owes(job[a]) \subseteq Owed(a) /\ Owed(a) \subseteq Ids
<1>1. Recalls(job[a], db)
  BY Knows
<1>2. job[a].done \subseteq Ids /\ (job[a].at \in {"sync", "sweepSync"} => job[a].row \in Ids)
  BY <1>1 DEF Recalls, RowSteps, Ids
<1> QED BY <1>2 DEF Owes, Owed

LEMMA Crashes ==
    ASSUME RosterInv, NEW a \in Actors, Crash(a)
    PROVE  Safely
<1>1. behind' = behind \cup Owed(a) /\ job' = [job EXCEPT ![a] = Job("down")] /\ UNCHANGED <<db, file>>
  BY DEF Crash, Continue
<1>2. Job("down") \in JobType /\ Remembers(Job("down"), db')
  BY JobRemembers
<1>3. Evolves(db, db') /\ KeepsDefault
  BY <1>1, Knows, Unchanged DEF KeepsDefault
<1>4. behind' \subseteq DOMAIN db'.players
  BY <1>1, OwesAreOwed DEF RosterInv, DiskInv, Ids
<1>5. file' # Null => WellFormed(file')
  BY <1>1 DEF RosterInv, DiskInv
<1>6. \A p \in DOMAIN db'.players :
        \/ Right(db', p) \/ p \in behind' \/ p \in Owes(Job("down"))
        \/ p \in DOMAIN db.players /\ ~ Right(db, p) /\ p \notin behind /\ p \notin Owes(job[a])
  BY <1>1, OwesAreOwed
<1> QED BY <1>1, <1>2, <1>3, <1>4, <1>5, <1>6, Step

LEMMA StepSafe ==
    ASSUME RosterInv, Next
    PROVE  Safely
<1>1. PICK a \in Actors : \/ ListStep(a) \/ AddStep(a) \/ RefreshStep(a) \/ IdentityStep(a) \/ BackupStep(a)
                          \/ syncUntaggedDerivedTags(a) \/ Crash(a)
  BY DEF Next
<1> QED BY <1>1, ListStepSafe, AddStepSafe, RefreshStepSafe, IdentityStepSafe, BackupStepSafe, StartsUp, Crashes

LEMMA RosterInvInit == Init => RosterInv
<1> SUFFICES ASSUME Init PROVE RosterInv
  OBVIOUS
<1>1. TablesInv
  BY DEF Init, TablesInv, Usable, Lists
<1>2. JobsInv
  BY EndedRemembers DEF Init, JobsInv
<1>3. DiskInv
  BY DEF Init, DiskInv
<1>4. TagsInv
  BY DEF Init, TagsInv, Right
<1> QED BY <1>1, <1>2, <1>3, <1>4 DEF RosterInv

LEMMA RosterInvStep == RosterInv /\ [Next]_vars => RosterInv'
<1>1. CASE Next
  BY <1>1, StepSafe DEF Safely
<1>2. CASE UNCHANGED vars
  BY <1>2 DEF vars, RosterInv, TablesInv, JobsInv, DiskInv, TagsInv, Ids
<1> QED BY <1>1, <1>2

(* The inductive invariant: the tables stand, every command has what its   *)
(* next step needs, and every player whose tags are not his row's is       *)
(* behind or owed them by a command under way.                             *)
THEOREM RosterInvariant == Spec => []RosterInv
BY RosterInvInit, RosterInvStep, PTL DEF Spec

(* Rows and lists a command has read are there when it comes back to them, *)
(* and memberships and manual tags are of rows that exist.                 *)
THEOREM RosterTypeCorrect == Spec => []TypeOK
<1>1. RosterInv => TypeOK
  <2> SUFFICES ASSUME RosterInv PROVE TypeOK
    OBVIOUS
  <2>1. Consistent(db) /\ behind \subseteq Ids
    BY DEF RosterInv, TablesInv, DiskInv, Sound
  <2>2. \A a \in Actors : /\ job[a].row \in Ids \cup {0} /\ job[a].list \in Lists \cup {0}
                          /\ job[a].done \subseteq Ids
    BY Knows DEF Recalls, Ids, Lists
  <2> QED BY <2>1, <2>2 DEF TypeOK
<1> QED BY <1>1, RosterInvariant, PTL

(* One human identity is one row, one live name one list, one live list    *)
(* the default at most, whatever the interleaving: the promotion, the      *)
(* moving of the default and the restore never run into the constraints.   *)
THEOREM SchemaAlwaysHolds == Spec => []SchemaHolds
<1>1. RosterInv => SchemaHolds
  BY DEF RosterInv, TablesInv, Sound, SchemaHolds
<1> QED BY <1>1, RosterInvariant, PTL

(* Derived tags follow the row and its latest line, but where a command    *)
(* owes them or one died or failed before it wrote them.                   *)
THEOREM TagsAlwaysFollow == Spec => []TagsFollowRows
<1>1. RosterInv => TagsFollowRows
  <2> SUFFICES ASSUME RosterInv, NEW p \in Ids, p \notin behind, \A a \in Actors : p \notin Owed(a)
               PROVE  Right(db, p)
    BY DEF TagsFollowRows, Right
  <2> QED BY OwesAreOwed DEF RosterInv, TagsInv
<1> QED BY <1>1, RosterInvariant, PTL

(* A backup of any tables that can be reached parses, rebuilds the roster  *)
(* in an empty database, and changes nothing it describes where it was     *)
(* taken.                                                                  *)
THEOREM BackupsReturn == Spec => []RoundTrip
<1>1. RosterInv => RoundTrip
  BY Returns DEF RosterInv, TablesInv, Usable, RoundTrip
<1> QED BY <1>1, RosterInvariant, PTL

(* A restore leaves what its document says and keeps what it does not      *)
(* speak of, or it leaves everything alone.                                *)
THEOREM RestoresAreFaithful == Spec => RestoreIsFaithful
<1>1. RosterInv =>
        \A doc \in Documents :
          db' # db /\ parsePlayerListBackup(doc) /\ db' = Restored(db, doc) => Faithful(db, doc, db')
  <2> SUFFICES ASSUME RosterInv, NEW doc \in Documents, db' # db, parsePlayerListBackup(doc),
                      db' = Restored(db, doc)
               PROVE  Faithful(db, doc, db')
    OBVIOUS
  <2>1. Sound(db) /\ WellFormed(doc)
    BY DocumentsAreWellFormed DEF RosterInv, TablesInv
  <2>2. MembersResolve(Restored(db, doc), doc) /\ Restoration(db, doc, Restored(db, doc))
    BY <2>1, RestoredIs
  <2> QED BY <2>1, <2>2, RestorationIsFaithful
<1>2. RosterInv /\ [Next]_vars =>
        [\A a \in Actors : Given(a, "restore") /\ budget' # budget /\ db' # db =>
           \A doc \in Documents :
             parsePlayerListBackup(doc) /\ db' = Restored(db, doc) => Faithful(db, doc, db')]_vars
  BY <1>1
<1> QED BY <1>2, RosterInvariant, PTL DEF Spec, RestoreIsFaithful

(* The default list is never lost but to a restore of a document whose     *)
(* lists name none.                                                        *)
THEOREM DefaultKept == Spec => DefaultIsKept
<1>1. RosterInv /\ [Next]_vars =>
        [HasDefault => HasDefault' \/ \E doc \in Documents :
           db' = Restored(db, doc) /\ \A l \in doc.lists : ~ l.isDefault]_vars
  <2> SUFFICES ASSUME RosterInv, Next, HasDefault
               PROVE  HasDefault' \/ \E doc \in Documents : db' = Restored(db, doc) /\ \A l \in doc.lists : ~ l.isDefault
    OBVIOUS
  <2>1. KeepsDefault
    BY StepSafe DEF Safely
  <2> QED BY <2>1 DEF KeepsDefault, Forsworn, Defaulted, HasDefault, LiveLists, Lists
<1> QED BY <1>1, RosterInvariant, PTL DEF Spec, DefaultIsKept

(* Once professional, a player keeps his person id and his professional    *)
(* history: no late NCAA backfill, attachment or restore undoes it.        *)
THEOREM PromotionIsForGood == Spec => PromotedForGood
<1>1. RosterInv /\ [Next]_vars =>
        [\A p \in Ids : db.players[p].ext # Null =>
           /\ db'.players[p].ext = db.players[p].ext
           /\ db'.line[p] \in {db.line[p], "pro", "dsl"}]_vars
  <2> SUFFICES ASSUME RosterInv, Next, NEW p \in Ids, db.players[p].ext # Null
               PROVE  db'.players[p].ext = db.players[p].ext /\ db'.line[p] \in {db.line[p], "pro", "dsl"}
    OBVIOUS
  <2>1. Later(db, db')
    BY StepSafe DEF Safely
  <2> QED BY <2>1 DEF Later, Ids
<1> QED BY <1>1, RosterInvariant, PTL DEF Spec, PromotedForGood
=============================================================================
