----------------------------- MODULE BackupProofs -----------------------------
(***************************************************************************)
(* Proofs about the Player List Backup: what parsing, writing and          *)
(* restoring a document do to the tables, for tables and documents of any  *)
(* size.                                                                   *)
(***************************************************************************)
EXTENDS RosterSpec, TLAPS, FiniteSetTheorems, SequenceTheorems

(***************************************************************************)
(* Finite sets.                                                            *)
(***************************************************************************)
\* SetToSeq enumerates a finite set, each element once.
LEMMA SetToSeqEnumerates ==
    ASSUME NEW S, IsFiniteSet(S)
    PROVE  /\ SetToSeq(S) \in Seq(S)
           /\ \A x \in S : \E i \in 1 .. Len(SetToSeq(S)) : SetToSeq(S)[i] = x
           /\ \A i, j \in 1 .. Len(SetToSeq(S)) : SetToSeq(S)[i] = SetToSeq(S)[j] => i = j
<1> DEFINE n == Cardinality(S)
           s == SetToSeq(S)
<1>1. n \in Nat /\ ExistsBijection(1 .. n, S)
  BY FS_CardinalityType
<1>2. PICK f \in Bijection(1 .. n, S) : TRUE
  BY <1>1 DEF ExistsBijection
<1>3. f \in [1 .. n -> S] /\ IsInjective(f)
  BY <1>2 DEF Bijection, Injection
<1>4. s \in [1 .. n -> S] /\ IsInjective(s)
  BY <1>3 DEF SetToSeq
<1>5. s \in Injection(1 .. n, S)
  BY <1>4 DEF Injection
<1>6. IsFiniteSet(1 .. n) /\ Cardinality(1 .. n) = n
  BY <1>1, FS_Interval
<1>7. s \in Surjection(1 .. n, S)
  BY <1>5, <1>6, FS_Injection
<1>8. s \in Seq(S) /\ Len(s) = n
  BY <1>1, <1>4
<1> QED BY <1>4, <1>7, <1>8 DEF Surjection, IsInjective

\* Two of a set of at most one are the same.
LEMMA AtMostOne ==
    ASSUME NEW S, IsFiniteSet(S), Cardinality(S) <= 1, NEW x \in S, NEW y \in S
    PROVE  x = y
<1>1. Cardinality(S) = 0 \/ Cardinality(S) = 1
  BY FS_CardinalityType
<1>2. Cardinality(S) # 0
  BY FS_EmptySet
<1>3. \E z : S = {z}
  BY <1>1, <1>2, FS_Singleton
<1> QED BY <1>3

\* A set of which any two are the same is of at most one.
LEMMA NoTwo ==
    ASSUME NEW S, \A x, y \in S : x = y
    PROVE  IsFiniteSet(S) /\ Cardinality(S) \in Nat /\ Cardinality(S) <= 1
<1>1. CASE S = {}
  BY <1>1, FS_EmptySet
<1>2. ASSUME NEW x \in S PROVE IsFiniteSet(S) /\ Cardinality(S) = 1
  <2>1. S = {x}
    OBVIOUS
  <2> QED BY <2>1, FS_Singleton
<1> QED BY <1>1, <1>2

\* The image of the places of a sequence is finite.
LEMMA ImageOfPlaces ==
    ASSUME NEW n \in Nat, NEW T, NEW f \in [1 .. n -> T], NEW R \in SUBSET {f[i] : i \in 1 .. n}
    PROVE  IsFiniteSet(R)
<1> DEFINE I == {f[i] : i \in 1 .. n}
<1>1. f \in Surjection(1 .. n, I)
  BY DEF Surjection
<1>2. IsFiniteSet(I)
  BY <1>1, FS_Surjection, FS_Interval
<1> QED BY <1>2, FS_Subset

\* A sequence with another after it.
LEMMA Padded ==
    ASSUME NEW T, NEW s \in Seq(T), NEW more \in Seq(T)
    PROVE  /\ s \o more \in Seq(T) /\ Len(s \o more) = Len(s) + Len(more)
           /\ Len(s) \in Nat /\ Len(more) \in Nat /\ DOMAIN (s \o more) = 1 .. (Len(s) + Len(more))
           /\ \A p \in 1 .. Len(s) : (s \o more)[p] = s[p]
           /\ \A p \in (Len(s) + 1) .. (Len(s) + Len(more)) : (s \o more)[p] = more[p - Len(s)]
<1>1. /\ s \o more \in Seq(T) /\ Len(s \o more) = Len(s) + Len(more)
      /\ \A i \in 1 .. Len(s) + Len(more) :
           (s \o more)[i] = IF i <= Len(s) THEN s[i] ELSE more[i - Len(s)]
  BY ConcatProperties
<1>2. Len(s) \in Nat /\ Len(more) \in Nat
  BY LenProperties
<1>3. DOMAIN (s \o more) = 1 .. (Len(s) + Len(more))
  BY <1>1, LenProperties
<1>4. \A p \in 1 .. Len(s) : (s \o more)[p] = s[p]
  BY <1>1, <1>2
<1>5. \A p \in (Len(s) + 1) .. (Len(s) + Len(more)) : (s \o more)[p] = more[p - Len(s)]
  BY <1>1, <1>2
<1> QED BY <1>1, <1>2, <1>3, <1>4, <1>5

(***************************************************************************)
(* Tables with some columns rewritten.                                     *)
(***************************************************************************)
LEMMA PutPlayers ==
    ASSUME NEW d \in Tables, NEW ps \in Seq(PlayerRow)
    PROVE  LET e == [d EXCEPT !.players = ps] IN
           /\ e \in Tables /\ e.players = ps /\ e.lists = d.lists /\ e.members = d.members
           /\ e.derived = d.derived /\ e.rostered = d.rostered /\ e.line = d.line
BY DEF Tables

LEMMA PutLists ==
    ASSUME NEW d \in Tables, NEW ls \in Seq(ListRow)
    PROVE  LET e == [d EXCEPT !.lists = ls] IN
           /\ e \in Tables /\ e.players = d.players /\ e.lists = ls /\ e.members = d.members
           /\ e.derived = d.derived /\ e.rostered = d.rostered /\ e.line = d.line
BY DEF Tables

LEMMA PutMembers ==
    ASSUME NEW d \in Tables, NEW ms \in SUBSET (Nat \X Nat)
    PROVE  LET e == [d EXCEPT !.members = ms] IN
           /\ e \in Tables /\ e.players = d.players /\ e.lists = d.lists /\ e.members = ms
           /\ e.derived = d.derived /\ e.rostered = d.rostered /\ e.line = d.line
BY DEF Tables

LEMMA PutDerived ==
    ASSUME NEW d \in Tables, NEW tags \in Seq(SUBSET Tags)
    PROVE  LET e == [d EXCEPT !.derived = tags] IN
           /\ e \in Tables /\ e.players = d.players /\ e.lists = d.lists /\ e.members = d.members
           /\ e.derived = tags /\ e.rostered = d.rostered /\ e.line = d.line
BY DEF Tables

LEMMA PutRostered ==
    ASSUME NEW d \in Tables, NEW R \in SUBSET Nat
    PROVE  LET e == [d EXCEPT !.rostered = R] IN
           /\ e \in Tables /\ e.players = d.players /\ e.lists = d.lists /\ e.members = d.members
           /\ e.derived = d.derived /\ e.rostered = R /\ e.line = d.line
BY DEF Tables

\* What the tables' types say of each column.
LEMMA Columns ==
    ASSUME NEW d, Consistent(d)
    PROVE  /\ d \in Tables
           /\ d.players \in Seq(PlayerRow) /\ DOMAIN d.players = 1 .. Len(d.players) /\ Len(d.players) \in Nat
           /\ d.lists \in Seq(ListRow) /\ DOMAIN d.lists = 1 .. Len(d.lists) /\ Len(d.lists) \in Nat
           /\ d.derived \in Seq(SUBSET Tags) /\ DOMAIN d.derived = DOMAIN d.players
           /\ d.line \in Seq(LineKinds) /\ DOMAIN d.line = DOMAIN d.players
           /\ Len(d.derived) = Len(d.players) /\ Len(d.line) = Len(d.players)
           /\ \A p \in DOMAIN d.players :
                d.players[p] \in PlayerRow /\ d.derived[p] \in SUBSET Tags /\ d.line[p] \in LineKinds
           /\ \A l \in DOMAIN d.lists : d.lists[l] \in ListRow
           /\ d.members \in SUBSET (Nat \X Nat) /\ d.rostered \in SUBSET Nat
           /\ d.members \subseteq (DOMAIN d.lists) \X (DOMAIN d.players) /\ d.rostered \subseteq DOMAIN d.players
<1>1. /\ d \in Tables
      /\ d.players \in Seq(PlayerRow) /\ d.lists \in Seq(ListRow)
      /\ d.derived \in Seq(SUBSET Tags) /\ d.line \in Seq(LineKinds)
      /\ Len(d.derived) = Len(d.players) /\ Len(d.line) = Len(d.players)
      /\ d.members \in SUBSET (Nat \X Nat) /\ d.rostered \in SUBSET Nat
      /\ d.members \subseteq (DOMAIN d.lists) \X (DOMAIN d.players) /\ d.rostered \subseteq DOMAIN d.players
  BY DEF Consistent, Tables
<1>2. /\ Len(d.players) \in Nat /\ DOMAIN d.players = 1 .. Len(d.players)
      /\ Len(d.lists) \in Nat /\ DOMAIN d.lists = 1 .. Len(d.lists)
      /\ DOMAIN d.derived = 1 .. Len(d.players) /\ DOMAIN d.line = 1 .. Len(d.players)
  BY <1>1, LenProperties
<1>3. \A p \in DOMAIN d.players :
         d.players[p] \in PlayerRow /\ d.derived[p] \in SUBSET Tags /\ d.line[p] \in LineKinds
  BY <1>1, <1>2, ElementOfSeq
<1>4. \A l \in DOMAIN d.lists : d.lists[l] \in ListRow
  BY <1>1, <1>2, ElementOfSeq
<1> QED BY <1>1, <1>2, <1>3, <1>4

\* Deriving tags anew changes the derived tags of those it is done for, and nothing else.
LEMMA SyncedIs ==
    ASSUME NEW d, Consistent(d), NEW S
    PROVE  LET e == Synced(d, S) IN
           /\ Consistent(e) /\ e.players = d.players /\ e.lists = d.lists /\ e.members = d.members
           /\ e.rostered = d.rostered /\ e.line = d.line
           /\ \A p \in DOMAIN d.players :
                e.derived[p] = IF p \in S THEN deriveTags(d.players[p], d.line[p]) ELSE d.derived[p]
<1> DEFINE tags == [p \in DOMAIN d.players |->
                      IF p \in S THEN deriveTags(d.players[p], d.line[p]) ELSE d.derived[p]]
<1>1. \A p \in DOMAIN d.players : deriveTags(d.players[p], d.line[p]) \in SUBSET Tags
  BY Columns DEF deriveTags, prospectRule, dslRule, levelRule, Tags, PlayerRow, Levels
<1>2. tags \in Seq(SUBSET Tags) /\ Len(tags) = Len(d.players)
  BY <1>1, Columns
<1>3. Synced(d, S) = [d EXCEPT !.derived = tags]
  BY DEF Synced
<1>4. \A p \in DOMAIN d.players :
         tags[p] = IF p \in S THEN deriveTags(d.players[p], d.line[p]) ELSE d.derived[p]
  OBVIOUS
<1> HIDE DEF tags
<1>5. /\ Synced(d, S) \in Tables /\ Synced(d, S).players = d.players /\ Synced(d, S).lists = d.lists
      /\ Synced(d, S).members = d.members /\ Synced(d, S).rostered = d.rostered
      /\ Synced(d, S).derived = tags /\ Synced(d, S).line = d.line
  BY <1>2, <1>3, PutDerived DEF Consistent
<1>6. Consistent(Synced(d, S))
  BY <1>2, <1>5, Columns DEF Consistent
<1> QED BY <1>4, <1>5, <1>6

(***************************************************************************)
(* Entries and the rows they become.                                       *)
(***************************************************************************)
\* Whoever an entry, a member or a row is found by.
LEMMA CarriedIs ==
    ASSUME NEW r
    PROVE  Carried(r) = {i \in {"ext", "seq", "hl"} : \/ i = "ext" /\ r.ext # Null
                                                      \/ i = "seq" /\ r.seq # Null
                                                      \/ i = "hl" /\ r.hl # Null}
BY DEF Carried, Identity

LEMMA TargetsAre ==
    ASSUME NEW d, NEW e
    PROVE  Targets(d, e) = {p \in DOMAIN d.players : \/ e.ext # Null /\ d.players[p].ext = e.ext
                                                     \/ e.seq # Null /\ d.players[p].seq = e.seq
                                                     \/ e.hl # Null /\ d.players[p].hl = e.hl}
<1>1. \A p : (\E i \in Carried(e) : d.players[p][i] = e[i])
               <=> \/ e.ext # Null /\ d.players[p].ext = e.ext
                   \/ e.seq # Null /\ d.players[p].seq = e.seq
                   \/ e.hl # Null /\ d.players[p].hl = e.hl
  BY CarriedIs
<1> QED BY <1>1 DEF Targets

\* The row of an accepted entry is one the constraints of its table accept, and carries no
\* identity but the entry's.
LEMMA RowIsAccepted ==
    ASSUME NEW doc \in Document, NEW e \in Entry, EntryAccepted(doc.version, e)
    PROVE  /\ RowOf(doc, e) \in PlayerRow
           /\ identityStateCheck(RowOf(doc, e)) /\ activeIdentityCheck(RowOf(doc, e))
           /\ RowOf(doc, e).ext = e.ext
           /\ RowOf(doc, e).seq \in {e.seq, Null}
           /\ RowOf(doc, e).hl \in {e.hl, Null}
<1> DEFINE src == IF e.level # "ncaa" THEN Null
                  ELSE IF e.src = Null /\ doc.version < 3 THEN "legacy_html" ELSE e.src
           seq == IF e.level # "ncaa" THEN Null ELSE e.seq
           hl == IF e.level # "ncaa" THEN Null ELSE e.hl
<1>0. e.level \in Levels /\ e.src \in SourceStates \cup {Null} /\ e.ext \in Persons \cup {Null}
      /\ e.seq \in Seqs \cup {Null} /\ e.hl \in HlIds \cup {Null} /\ e.milb \in {"Rookie", Null}
      /\ e.active \in BOOLEAN /\ doc.version \in 1 .. 5
  BY DEF Entry, Document, PLAYER_BACKUP_VERSION
<1>1. RowOf(doc, e) = [ext |-> e.ext, level |-> e.level, milb |-> e.milb, active |-> e.active,
                       seq |-> seq, hl |-> hl, src |-> src]
  BY DEF RowOf
<1>2. src \in SourceStates \cup {Null} /\ seq \in {e.seq, Null} /\ hl \in {e.hl, Null}
      /\ (e.level # "ncaa" => src = Null /\ seq = Null /\ hl = Null)
      /\ (e.level = "ncaa" => /\ seq = e.seq /\ hl = e.hl
                              /\ src = "highlightly_active" => e.src = src
                              /\ src # Null)
  <2>1. CASE e.level # "ncaa"
    BY <2>1
  <2>2. CASE e.level = "ncaa" /\ e.src = Null /\ doc.version < 3
    BY <2>2, RosterAssumption DEF SourceStates
  <2>3. CASE e.level = "ncaa" /\ ~ (e.src = Null /\ doc.version < 3)
    <3>1. e.src # Null
      BY <2>3, <1>0 DEF EntryAccepted
    <3> QED BY <2>3, <3>1, <1>0
  <2> QED BY <2>1, <2>2, <2>3
<1> HIDE DEF src, seq, hl
<1>3. RowOf(doc, e) \in PlayerRow
  BY <1>0, <1>1, <1>2 DEF PlayerRow
<1>4. /\ RowOf(doc, e).ext = e.ext /\ RowOf(doc, e).seq = seq /\ RowOf(doc, e).hl = hl
      /\ RowOf(doc, e).src = src /\ RowOf(doc, e).level = e.level
  BY <1>1
<1>5. CASE e.level = "ncaa"
  <2>1. e.ext = Null /\ (e.seq # Null \/ e.hl # Null) /\ (e.src = "highlightly_active" => e.hl # Null)
    BY <1>5 DEF EntryAccepted
  <2> QED BY <1>2, <1>3, <1>4, <1>5, <2>1 DEF identityStateCheck, activeIdentityCheck
<1>6. CASE e.level # "ncaa"
  <2>1. e.ext # Null /\ e.level \in {"mlb", "milb"}
    BY <1>0, <1>6 DEF EntryAccepted, Levels
  <2>2. src # "highlightly_active"
    BY <1>2, <1>6, RosterAssumption
  <2> QED BY <1>2, <1>3, <1>4, <1>6, <2>1, <2>2 DEF identityStateCheck, activeIdentityCheck
<1> QED BY <1>5, <1>6

\* What a restore's second phase leaves in the rows w: the rows S are filled from entries of
\* their own, `of` says which, and every entry fills one; the other rows are as they were.
Landed(d, doc, w, S, of) ==
  /\ S \subseteq DOMAIN w.players /\ of \in [S -> doc.players]
  /\ \A p, q \in S : of[p] = of[q] => p = q
  /\ \A e \in doc.players : \E p \in S : of[p] = e
  /\ DOMAIN d.players \subseteq DOMAIN w.players
  /\ \A p \in DOMAIN w.players \ DOMAIN d.players :
       p \in S /\ Targets(d, of[p]) = {} /\ w.line[p] = "none"
  /\ \A p \in DOMAIN d.players :
       /\ w.line[p] = d.line[p]
       /\ p \in S => Targets(d, of[p]) = {p}
       /\ p \notin S => w.players[p] = d.players[p] /\ w.derived[p] = d.derived[p]
       /\ p \notin S => (p \in w.rostered <=> p \in d.rostered)
  /\ \A p \in S :
       /\ w.players[p] = RowOf(doc, of[p])
       /\ w.derived[p] = deriveTags(w.players[p], w.line[p])
       /\ of[p].rostered = Null => (p \in w.rostered <=> p \in d.rostered)
       /\ of[p].rostered # Null => (p \in w.rostered <=> of[p].rostered)

LEMMA EntriesLand ==
    ASSUME NEW d, Consistent(d), NEW doc, WellFormed(doc), EntriesResolve(d, doc),
           \A e \in doc.players : EntryAccepted(doc.version, e)
    PROVE  /\ Consistent(WithEntries(d, doc))
           /\ WithEntries(d, doc).lists = d.lists /\ WithEntries(d, doc).members = d.members
           /\ \E S, of : Landed(d, doc, WithEntries(d, doc), S, of)
<1> DEFINE found == {e \in doc.players : Targets(d, e) # {}}
           fresh == SetToSeq(doc.players \ found)
           old == Len(d.players)
           n == Len(fresh)
           EntryAt(p) == IF p > old THEN fresh[p - old] ELSE CHOOSE e \in found : p \in Targets(d, e)
           touched == (UNION {Targets(d, e) : e \in found}) \cup ((old + 1) .. (old + n))
           all == 1 .. (old + n)
           ps == [p \in all |-> IF p \in touched THEN RowOf(doc, EntryAt(p)) ELSE d.players[p]]
           tags == d.derived \o [i \in DOMAIN fresh |-> {}]
           lines == d.line \o [i \in DOMAIN fresh |-> "none"]
           R == {p \in all : IF p \in touched /\ EntryAt(p).rostered # Null
                               THEN EntryAt(p).rostered ELSE p \in d.rostered}
           written == [d EXCEPT !.players = ps, !.derived = tags, !.line = lines, !.rostered = R]
<1>1. WithEntries(d, doc) = Synced(written, touched)
  BY DEF WithEntries
<1>2. doc \in Document /\ doc.players \in SUBSET Entry /\ IsFiniteSet(doc.players)
  BY DEF WellFormed, Document
<1>3. /\ fresh \in Seq(doc.players \ found) /\ n \in Nat /\ DOMAIN fresh = 1 .. n
      /\ \A e \in doc.players \ found : \E i \in 1 .. n : fresh[i] = e
      /\ \A i, j \in 1 .. n : fresh[i] = fresh[j] => i = j
      /\ \A i \in 1 .. n : fresh[i] \in doc.players \ found
  <2>1. IsFiniteSet(doc.players \ found)
    BY <1>2, FS_Subset
  <2> HIDE DEF found
  <2>2. /\ fresh \in Seq(doc.players \ found)
        /\ \A e \in doc.players \ found : \E i \in 1 .. n : fresh[i] = e
        /\ \A i, j \in 1 .. n : fresh[i] = fresh[j] => i = j
    BY <2>1, SetToSeqEnumerates
  <2> HIDE DEF fresh
  <2> QED BY <2>2, LenProperties, ElementOfSeq
<1>4. old \in Nat /\ DOMAIN d.players = 1 .. old
  BY Columns
<1>5. \A e \in found : \A p \in Targets(d, e) :
         p \in 1 .. old /\ Targets(d, e) = {p} /\ EntryAt(p) = e
  <2> SUFFICES ASSUME NEW e \in found, NEW p \in Targets(d, e)
               PROVE  p \in 1 .. old /\ Targets(d, e) = {p} /\ EntryAt(p) = e
    OBVIOUS
  <2>1. p \in 1 .. old
    BY <1>4 DEF Targets
  <2>2. \A f \in found : p \in Targets(d, f) => f = e
    BY DEF EntriesResolve
  <2>3. EntryAt(p) = e
    BY <2>1, <2>2, <1>4
  <2>4. IsFiniteSet(Targets(d, e))
    <3>1. Targets(d, e) \in SUBSET (1 .. old)
      BY <1>4 DEF Targets
    <3>2. IsFiniteSet(1 .. old)
      BY <1>4, FS_Interval
    <3> HIDE DEF old
    <3> QED BY <3>1, <3>2, FS_Subset
  <2>5. Cardinality(Targets(d, e)) <= 1
    BY DEF EntriesResolve
  <2>6. \A q \in Targets(d, e) : q = p
    BY <2>4, <2>5, AtMostOne
  <2> QED BY <2>1, <2>3, <2>6
<1>6. \A p \in touched : /\ p \in all /\ EntryAt(p) \in doc.players
                         /\ p \in 1 .. old => Targets(d, EntryAt(p)) = {p}
                         /\ p \notin 1 .. old => Targets(d, EntryAt(p)) = {} /\ p - old \in 1 .. n /\ p > old
  <2> SUFFICES ASSUME NEW p \in touched
               PROVE  /\ p \in all /\ EntryAt(p) \in doc.players
                      /\ p \in 1 .. old => Targets(d, EntryAt(p)) = {p}
                      /\ p \notin 1 .. old => Targets(d, EntryAt(p)) = {} /\ p - old \in 1 .. n /\ p > old
    OBVIOUS
  <2>1. ASSUME NEW e \in found, p \in Targets(d, e)
        PROVE  p \in 1 .. old /\ EntryAt(p) \in doc.players /\ Targets(d, EntryAt(p)) = {p} /\ p \in all
    <3>1. p \in 1 .. old /\ Targets(d, e) = {p} /\ EntryAt(p) = e
      BY <2>1, <1>5
    <3>2. e \in doc.players
      OBVIOUS
    <3>3. p \in all
      BY <3>1, <1>3, <1>4
    <3> HIDE DEF EntryAt
    <3> QED BY <3>1, <3>2, <3>3
  <2>2. CASE p \in (old + 1) .. (old + n)
    <3>1. p - old \in 1 .. n /\ p > old /\ p \in all
      BY <2>2, <1>3, <1>4
    <3>2. EntryAt(p) = fresh[p - old]
      BY <3>1
    <3> HIDE DEF EntryAt, fresh
    <3> QED BY <3>1, <3>2, <1>3, <1>4
  <2> QED BY <2>1, <2>2
<1>7. \A e \in doc.players : \E p \in touched : EntryAt(p) = e
  <2> SUFFICES ASSUME NEW e \in doc.players PROVE \E p \in touched : EntryAt(p) = e
    OBVIOUS
  <2>1. CASE e \in found
    BY <2>1, <1>5
  <2>2. CASE e \notin found
    <3>1. PICK i \in 1 .. n : fresh[i] = e
      BY <2>2, <1>3
    <3>2. old + i > old /\ (old + i) - old = i /\ old + i \in (old + 1) .. (old + n)
      BY <1>3, <1>4, <3>1
    <3> QED BY <3>1, <3>2
  <2> QED BY <2>1, <2>2
<1>8. \A p, q \in touched : EntryAt(p) = EntryAt(q) => p = q
  <2> SUFFICES ASSUME NEW p \in touched, NEW q \in touched, EntryAt(p) = EntryAt(q) PROVE p = q
    OBVIOUS
  <2>1. CASE p \in 1 .. old \/ q \in 1 .. old
    <3> HIDE DEF EntryAt
    <3> QED BY <2>1, <1>6
  <2>2. CASE p \notin 1 .. old /\ q \notin 1 .. old
    <3>1. /\ p > old /\ q > old /\ p - old \in 1 .. n /\ q - old \in 1 .. n /\ p \in Int /\ q \in Int
      <4> HIDE DEF EntryAt, touched, fresh, found
      <4> QED BY <2>2, <1>6, <1>3, <1>4
    <3>2. fresh[p - old] = fresh[q - old]
      BY <3>1
    <3>3. p - old = q - old
      BY <3>1, <3>2, <1>3
    <3> QED BY <3>1, <3>3, <1>4
  <2> QED BY <2>1, <2>2
<1> HIDE DEF EntryAt, touched, fresh, found
<1>9. ps \in Seq(PlayerRow) /\ Len(ps) = old + n
  <2>1. \A p \in all : (IF p \in touched THEN RowOf(doc, EntryAt(p)) ELSE d.players[p]) \in PlayerRow
    <3> SUFFICES ASSUME NEW p \in all
                 PROVE  (IF p \in touched THEN RowOf(doc, EntryAt(p)) ELSE d.players[p]) \in PlayerRow
      OBVIOUS
    <3>1. CASE p \in touched
      BY <3>1, <1>2, <1>6, RowIsAccepted
    <3>2. CASE p \notin touched
      <4>1. p \in 1 .. old
        BY <3>2, <1>3, <1>4 DEF touched
      <4> QED BY <3>2, <4>1, <1>4, Columns
    <3> QED BY <3>1, <3>2
  <2> QED BY <2>1, <1>3, <1>4
<1>10. /\ tags \in Seq(SUBSET Tags) /\ Len(tags) = old + n
       /\ \A p \in 1 .. old : tags[p] = d.derived[p]
  <2> DEFINE more == [i \in DOMAIN fresh |-> {}]
  <2>1. more \in Seq(SUBSET Tags) /\ Len(more) = n
    BY <1>3
  <2>2. d.derived \in Seq(SUBSET Tags) /\ Len(d.derived) = old
    BY Columns
  <2>3. tags = d.derived \o more
    OBVIOUS
  <2> HIDE DEF more, tags, old, n
  <2>4. /\ d.derived \o more \in Seq(SUBSET Tags) /\ Len(d.derived \o more) = Len(d.derived) + Len(more)
        /\ \A p \in 1 .. Len(d.derived) : (d.derived \o more)[p] = d.derived[p]
    <3>1. more \in Seq(SUBSET Tags)
      BY <2>1
    <3>2. d.derived \in Seq(SUBSET Tags)
      BY <2>2
    <3>3. d.derived \o more \in Seq(SUBSET Tags)
      BY <3>1, <3>2, Padded
    <3>4. Len(d.derived \o more) = Len(d.derived) + Len(more)
      BY <3>1, <3>2, Padded
    <3>5. \A p \in 1 .. Len(d.derived) : (d.derived \o more)[p] = d.derived[p]
      BY <3>1, <3>2, Padded
    <3> QED BY <3>3, <3>4, <3>5
  <2> QED BY <2>1, <2>2, <2>3, <2>4
<1>11. /\ lines \in Seq(LineKinds) /\ Len(lines) = old + n
       /\ \A p \in 1 .. old : lines[p] = d.line[p]
       /\ \A p \in (old + 1) .. (old + n) : lines[p] = "none"
  <2> DEFINE more == [i \in DOMAIN fresh |-> "none"]
  <2>1. more \in Seq(LineKinds) /\ Len(more) = n /\ \A i \in 1 .. n : more[i] = "none"
    BY <1>3 DEF LineKinds
  <2>2. d.line \in Seq(LineKinds) /\ Len(d.line) = old
    BY Columns
  <2>3. lines = d.line \o more
    OBVIOUS
  <2> HIDE DEF more, lines, old, n
  <2>4. /\ d.line \o more \in Seq(LineKinds) /\ Len(d.line \o more) = Len(d.line) + Len(more)
        /\ \A p \in 1 .. Len(d.line) : (d.line \o more)[p] = d.line[p]
        /\ \A p \in (Len(d.line) + 1) .. (Len(d.line) + Len(more)) :
             (d.line \o more)[p] = more[p - Len(d.line)]
    <3>1. more \in Seq(LineKinds)
      BY <2>1
    <3>2. d.line \in Seq(LineKinds)
      BY <2>2
    <3>3. d.line \o more \in Seq(LineKinds) /\ Len(d.line \o more) = Len(d.line) + Len(more)
      BY <3>1, <3>2, Padded
    <3>4. \A p \in 1 .. Len(d.line) : (d.line \o more)[p] = d.line[p]
      BY <3>1, <3>2, Padded
    <3>5. \A p \in (Len(d.line) + 1) .. (Len(d.line) + Len(more)) :
             (d.line \o more)[p] = more[p - Len(d.line)]
      BY <3>1, <3>2, Padded
    <3> QED BY <3>3, <3>4, <3>5
  <2>5. /\ lines \in Seq(LineKinds) /\ Len(lines) = old + n
        /\ \A p \in 1 .. old : lines[p] = d.line[p]
        /\ \A p \in (old + 1) .. (old + n) : lines[p] = more[p - old]
    BY <2>1, <2>2, <2>3, <2>4
  <2>6. \A p \in (old + 1) .. (old + n) : p - old \in 1 .. n
    BY <1>3, <1>4
  <2> QED BY <2>1, <2>5, <2>6
<1>12. R \in SUBSET Nat /\ R \subseteq all
  BY <1>3, <1>4
<1>13. /\ written \in Tables /\ written.players = ps /\ written.lists = d.lists
       /\ written.members = d.members /\ written.derived = tags /\ written.rostered = R
       /\ written.line = lines
  <2> HIDE DEF ps, tags, lines, R
  <2>1. /\ d \in Tables /\ ps \in Seq(PlayerRow) /\ tags \in Seq(SUBSET Tags)
        /\ lines \in Seq(LineKinds) /\ R \in SUBSET Nat
    BY <1>9, <1>10, <1>11, <1>12 DEF Consistent
  <2> QED BY <2>1 DEF Tables
<1>14. DOMAIN ps = all
  OBVIOUS
<1> HIDE DEF written
<1>15. Consistent(written)
  <2> HIDE DEF ps, tags, lines, R
  <2>1. DOMAIN d.players \subseteq all
    BY <1>3, <1>4
  <2>2. d.members \subseteq (DOMAIN d.lists) \X all
    BY <2>1, Columns
  <2> QED BY <2>2, <1>9, <1>10, <1>11, <1>12, <1>13, <1>14 DEF Consistent
<1> DEFINE w == WithEntries(d, doc)
<1>16. /\ Consistent(w) /\ w.players = ps /\ w.lists = d.lists /\ w.members = d.members
       /\ w.rostered = R /\ w.line = lines
       /\ \A p \in all : w.derived[p] = IF p \in touched THEN deriveTags(ps[p], lines[p]) ELSE tags[p]
  <2> HIDE DEF ps, tags, lines, R
  <2> QED BY <1>1, <1>13, <1>14, <1>15, SyncedIs
<1> HIDE DEF w
<1>17. Landed(d, doc, w, touched, [p \in touched |-> EntryAt(p)])
  <2> DEFINE of == [p \in touched |-> EntryAt(p)]
  <2>1. touched \subseteq DOMAIN w.players /\ of \in [touched -> doc.players]
    BY <1>6, <1>14, <1>16
  <2>2. (\A p, q \in touched : of[p] = of[q] => p = q) /\ (\A e \in doc.players : \E p \in touched : of[p] = e)
    BY <1>7, <1>8
  <2>3. DOMAIN d.players \subseteq DOMAIN w.players
    BY <1>3, <1>4, <1>14, <1>16
  <2>4. \A p \in DOMAIN w.players \ DOMAIN d.players :
          p \in touched /\ Targets(d, of[p]) = {} /\ w.line[p] = "none"
    <3> SUFFICES ASSUME NEW p \in all, p \notin 1 .. old
                 PROVE  p \in touched /\ Targets(d, of[p]) = {} /\ w.line[p] = "none"
      BY <1>4, <1>14, <1>16
    <3>1. p \in (old + 1) .. (old + n)
      BY <1>3, <1>4
    <3>2. p \in touched
      BY <3>1 DEF touched
    <3>3. Targets(d, EntryAt(p)) = {}
      BY <3>2, <1>6
    <3>4. w.line[p] = "none"
      BY <3>1, <1>11, <1>16
    <3> QED BY <3>2, <3>3, <3>4
  <2>5. \A p \in DOMAIN d.players :
          /\ w.line[p] = d.line[p]
          /\ p \in touched => Targets(d, of[p]) = {p}
          /\ p \notin touched => w.players[p] = d.players[p] /\ w.derived[p] = d.derived[p]
          /\ p \notin touched => (p \in w.rostered <=> p \in d.rostered)
    <3> SUFFICES ASSUME NEW p \in 1 .. old
                 PROVE  /\ w.line[p] = d.line[p]
                        /\ p \in touched => Targets(d, of[p]) = {p}
                        /\ p \notin touched => w.players[p] = d.players[p] /\ w.derived[p] = d.derived[p]
                        /\ p \notin touched => (p \in w.rostered <=> p \in d.rostered)
      BY <1>4
    <3>1. p \in all
      BY <1>3, <1>4
    <3>2. w.line[p] = d.line[p]
      BY <1>11, <1>16
    <3>3. p \in touched => Targets(d, of[p]) = {p}
      BY <1>6
    <3>4. p \notin touched => w.players[p] = d.players[p] /\ w.derived[p] = d.derived[p]
      BY <3>1, <1>10, <1>16
    <3>5. p \notin touched => (p \in w.rostered <=> p \in d.rostered)
      BY <3>1, <1>16
    <3> QED BY <3>2, <3>3, <3>4, <3>5
  <2>6. \A p \in touched :
          /\ w.players[p] = RowOf(doc, of[p])
          /\ w.derived[p] = deriveTags(w.players[p], w.line[p])
          /\ of[p].rostered = Null => (p \in w.rostered <=> p \in d.rostered)
          /\ of[p].rostered # Null => (p \in w.rostered <=> of[p].rostered)
    <3> SUFFICES ASSUME NEW p \in touched
                 PROVE  /\ w.players[p] = RowOf(doc, of[p])
                        /\ w.derived[p] = deriveTags(w.players[p], w.line[p])
                        /\ of[p].rostered = Null => (p \in w.rostered <=> p \in d.rostered)
                        /\ of[p].rostered # Null => (p \in w.rostered <=> of[p].rostered)
      OBVIOUS
    <3>1. p \in all /\ of[p] = EntryAt(p)
      BY <1>6
    <3>2. w.players[p] = RowOf(doc, of[p]) /\ w.derived[p] = deriveTags(w.players[p], w.line[p])
      BY <3>1, <1>16
    <3>3. p \in R <=> IF of[p].rostered # Null THEN of[p].rostered ELSE p \in d.rostered
      BY <3>1
    <3> QED BY <3>2, <3>3, <1>16
  <2> HIDE DEF of
  <2>7. Landed(d, doc, w, touched, of)
    BY <2>1, <2>2, <2>3, <2>4, <2>5, <2>6, Zenon DEF Landed
  <2> QED BY <2>7 DEF of
<1> QED BY <1>16, <1>17 DEF w

\* Two entries of a document that parses share no identity.
LEMMA EntriesApart ==
    ASSUME NEW doc, parsePlayerListBackup(doc), NEW e \in doc.players, NEW f \in doc.players, e # f
    PROVE  /\ e.ext # Null => e.ext # f.ext
           /\ e.seq # Null => e.seq # f.seq
           /\ e.hl # Null => e.hl # f.hl
<1>1. \A i \in Carried(e) : e[i] # f[i]
  BY DEF parsePlayerListBackup
<1>2. "ext" \in Carried(e) => e.ext # f.ext
  BY <1>1
<1>3. "seq" \in Carried(e) => e.seq # f.seq
  BY <1>1
<1>4. "hl" \in Carried(e) => e.hl # f.hl
  BY <1>1
<1>5. /\ e.ext # Null => "ext" \in Carried(e)
      /\ e.seq # Null => "seq" \in Carried(e)
      /\ e.hl # Null => "hl" \in Carried(e)
  BY CarriedIs
<1> QED BY <1>2, <1>3, <1>4, <1>5

\* The rows a restore leaves are ones their table accepts.
LEMMA EntriesAccepted ==
    ASSUME NEW d, Sound(d), NEW doc, WellFormed(doc), parsePlayerListBackup(doc),
           NEW w, Consistent(w), NEW S, NEW of, Landed(d, doc, w, S, of)
    PROVE  PlayersAccepted(w.players)
<1>1. doc \in Document /\ doc.players \in SUBSET Entry
  BY DEF WellFormed, Document
<1>2. \A p \in S : /\ p \in DOMAIN w.players /\ of[p] \in doc.players
                   /\ w.players[p] = RowOf(doc, of[p])
  BY DEF Landed
<1>3. \A p \in DOMAIN w.players \ S : p \in DOMAIN d.players /\ w.players[p] = d.players[p]
  BY DEF Landed
<1>4. \A p \in S : /\ identityStateCheck(w.players[p]) /\ activeIdentityCheck(w.players[p])
                   /\ w.players[p].ext \in {of[p].ext, Null}
                   /\ w.players[p].seq \in {of[p].seq, Null}
                   /\ w.players[p].hl \in {of[p].hl, Null}
  <2> SUFFICES ASSUME NEW p \in S
               PROVE  /\ identityStateCheck(w.players[p]) /\ activeIdentityCheck(w.players[p])
                      /\ w.players[p].ext \in {of[p].ext, Null}
                      /\ w.players[p].seq \in {of[p].seq, Null}
                      /\ w.players[p].hl \in {of[p].hl, Null}
    OBVIOUS
  <2>1. of[p] \in Entry /\ EntryAccepted(doc.version, of[p])
    BY <1>1, <1>2 DEF parsePlayerListBackup
  <2> QED BY <1>1, <1>2, <2>1, RowIsAccepted
<1>5. \A p \in DOMAIN w.players : identityStateCheck(w.players[p]) /\ activeIdentityCheck(w.players[p])
  BY <1>3, <1>4 DEF Sound, PlayersAccepted
<1> DEFINE Apart(r, q) == /\ r.ext # Null => r.ext # q.ext
                          /\ r.seq # Null => r.seq # q.seq
                          /\ r.hl # Null => r.hl # q.hl
<1>6. \A i \in S, j \in S : i # j => Apart(w.players[i], w.players[j])
  <2> SUFFICES ASSUME NEW i \in S, NEW j \in S, i # j PROVE Apart(w.players[i], w.players[j])
    OBVIOUS
  <2>1. of[i] # of[j] /\ of[i] \in doc.players /\ of[j] \in doc.players
    BY DEF Landed
  <2>2. Apart(of[i], of[j])
    BY <2>1, EntriesApart
  <2> QED BY <2>2, <1>4
<1>7. \A i \in S, j \in DOMAIN w.players \ S : Apart(w.players[i], w.players[j])
  <2> SUFFICES ASSUME NEW i \in S, NEW j \in DOMAIN w.players \ S PROVE Apart(w.players[i], w.players[j])
    OBVIOUS
  <2>1. j \in DOMAIN d.players /\ w.players[j] = d.players[j]
    BY <1>3
  <2>2. Targets(d, of[i]) \subseteq {i}
    BY <1>2 DEF Landed
  <2>3. j \notin Targets(d, of[i])
    BY <2>2
  <2>4. /\ of[i].ext # Null => d.players[j].ext # of[i].ext
        /\ of[i].seq # Null => d.players[j].seq # of[i].seq
        /\ of[i].hl # Null => d.players[j].hl # of[i].hl
    BY <2>1, <2>3, TargetsAre
  <2> QED BY <2>1, <2>4, <1>4
<1>8. \A i \in DOMAIN w.players \ S, j \in DOMAIN w.players \ S : i # j => Apart(w.players[i], w.players[j])
  BY <1>3 DEF Sound, PlayersAccepted, UniqueIds
<1>9. UniqueIds(w.players)
  BY <1>6, <1>7, <1>8 DEF UniqueIds
<1> QED BY <1>5, <1>9 DEF PlayersAccepted

(***************************************************************************)
(* Lists.                                                                  *)
(***************************************************************************)
\* What a restore's third phase leaves in the lists ls: every entry of the document is one
\* live list; a live list that no entry names keeps its own, and is not the default.
Listed(old, doc, ls) ==
  /\ ls \in Seq(ListRow) /\ DOMAIN old \subseteq DOMAIN ls /\ Len(old) <= Len(ls)
  /\ \A e \in doc.lists : \E k \in DOMAIN ls : ls[k] = ListOf(e)
  /\ \A k \in DOMAIN ls :
       \/ \E e \in doc.lists : /\ ls[k] = ListOf(e)
                               /\ k \in DOMAIN old => old[k].live /\ old[k].name = e.name
                               /\ k \notin DOMAIN old => ListNamed(old, e.name) = {}
       \/ /\ k \in DOMAIN old /\ ls[k] = old[k] /\ ~ ls[k].live
       \/ /\ k \in DOMAIN old /\ old[k].live
          /\ ls[k] = [old[k] EXCEPT !.isDefault = FALSE]
          /\ \A e \in doc.lists : e.name # old[k].name
  /\ \A k, l \in DOMAIN ls \ DOMAIN old : ls[k].name = ls[l].name => k = l

LEMMA ListsLand ==
    ASSUME NEW d, Consistent(d), LiveNamesUnique(d.lists), NEW doc, WellFormed(doc), doc.listed
    PROVE  /\ Consistent(WithLists(d, doc)) /\ WithLists(d, doc).players = d.players
           /\ WithLists(d, doc).members = d.members /\ WithLists(d, doc).derived = d.derived
           /\ WithLists(d, doc).rostered = d.rostered /\ WithLists(d, doc).line = d.line
           /\ Listed(d.lists, doc, WithLists(d, doc).lists)
<1> DEFINE absent == {e \in doc.lists : ListNamed(d.lists, e.name) = {}}
           fresh == SetToSeq(absent)
           Of(l) == {e \in doc.lists : l.live /\ e.name = l.name}
           Merged(l) == IF Of(l) # {} THEN ListOf(CHOOSE e \in Of(l) : TRUE)
                        ELSE IF l.live THEN [l EXCEPT !.isDefault = FALSE] ELSE l
           merged == [k \in DOMAIN d.lists |-> Merged(d.lists[k])]
           more == [i \in DOMAIN fresh |-> ListOf(fresh[i])]
           ls == merged \o more
<1>1. WithLists(d, doc) = [d EXCEPT !.lists = ls]
  BY DEF WithLists
<1>2. doc.lists \in SUBSET Lane /\ IsFiniteSet(doc.lists)
  BY DEF WellFormed, Document
<1>3. \A e \in doc.lists : /\ ListOf(e) \in ListRow /\ ListOf(e).live /\ ListOf(e).name = e.name
                           /\ ListOf(e).isDefault = e.isDefault
  BY <1>2 DEF ListOf, Lane, ListRow, writableDigestTo, Recipients
<1>4. DOMAIN d.lists = 1 .. Len(d.lists) /\ Len(d.lists) \in Nat /\ d.lists \in Seq(ListRow)
  BY Columns
<1>5. \A k \in DOMAIN d.lists : /\ Merged(d.lists[k]) \in ListRow
                                /\ \/ /\ d.lists[k].live
                                      /\ \E e \in doc.lists : e.name = d.lists[k].name /\ Merged(d.lists[k]) = ListOf(e)
                                   \/ Merged(d.lists[k]) = d.lists[k] /\ ~ d.lists[k].live
                                   \/ /\ d.lists[k].live
                                      /\ Merged(d.lists[k]) = [d.lists[k] EXCEPT !.isDefault = FALSE]
                                      /\ \A e \in doc.lists : e.name # d.lists[k].name
  <2> SUFFICES ASSUME NEW k \in DOMAIN d.lists
               PROVE  /\ Merged(d.lists[k]) \in ListRow
                      /\ \/ /\ d.lists[k].live
                            /\ \E e \in doc.lists : e.name = d.lists[k].name /\ Merged(d.lists[k]) = ListOf(e)
                         \/ Merged(d.lists[k]) = d.lists[k] /\ ~ d.lists[k].live
                         \/ /\ d.lists[k].live
                            /\ Merged(d.lists[k]) = [d.lists[k] EXCEPT !.isDefault = FALSE]
                            /\ \A e \in doc.lists : e.name # d.lists[k].name
    OBVIOUS
  <2>0. d.lists[k] \in ListRow
    BY Columns
  <2>1. CASE Of(d.lists[k]) # {}
    <3> DEFINE e == CHOOSE e \in Of(d.lists[k]) : TRUE
    <3>1. e \in Of(d.lists[k]) /\ Merged(d.lists[k]) = ListOf(e)
      BY <2>1
    <3> HIDE DEF e, Merged
    <3> QED BY <3>1, <1>3
  <2>2. CASE Of(d.lists[k]) = {} /\ d.lists[k].live
    <3>1. Merged(d.lists[k]) = [d.lists[k] EXCEPT !.isDefault = FALSE]
      BY <2>2
    <3>2. [d.lists[k] EXCEPT !.isDefault = FALSE] \in ListRow
      BY <2>0 DEF ListRow
    <3>3. \A e \in doc.lists : e.name # d.lists[k].name
      BY <2>2
    <3> HIDE DEF Merged
    <3> QED BY <3>1, <3>2, <3>3, <2>2
  <2>3. CASE Of(d.lists[k]) = {} /\ ~ d.lists[k].live
    <3>1. Merged(d.lists[k]) = d.lists[k]
      BY <2>3
    <3> HIDE DEF Merged
    <3> QED BY <3>1, <2>0, <2>3
  <2> QED BY <2>1, <2>2, <2>3
<1> HIDE DEF Merged
<1>6. merged \in Seq(ListRow) /\ Len(merged) = Len(d.lists) /\ DOMAIN merged = DOMAIN d.lists
      /\ \A k \in DOMAIN d.lists : merged[k] = Merged(d.lists[k])
  <2>1. DOMAIN merged = 1 .. Len(d.lists) /\ \A k \in DOMAIN d.lists : merged[k] = Merged(d.lists[k])
    BY <1>4
  <2>2. merged = [k \in 1 .. Len(d.lists) |-> merged[k]]
    BY <2>1
  <2> HIDE DEF merged
  <2>3. \A k \in 1 .. Len(d.lists) : merged[k] \in ListRow
    BY <2>1, <1>4, <1>5
  <2>4. merged \in [1 .. Len(d.lists) -> ListRow]
    BY <2>1, <2>2, <2>3
  <2> QED BY <2>1, <2>4, <1>4
<1>7. /\ fresh \in Seq(absent) /\ DOMAIN fresh = 1 .. Len(fresh) /\ Len(fresh) \in Nat
      /\ \A e \in absent : \E i \in 1 .. Len(fresh) : fresh[i] = e
      /\ \A i, j \in 1 .. Len(fresh) : fresh[i] = fresh[j] => i = j
      /\ \A i \in 1 .. Len(fresh) : fresh[i] \in absent
  <2>1. IsFiniteSet(absent)
    BY <1>2, FS_Subset
  <2> HIDE DEF absent
  <2>2. /\ fresh \in Seq(absent)
        /\ \A e \in absent : \E i \in 1 .. Len(fresh) : fresh[i] = e
        /\ \A i, j \in 1 .. Len(fresh) : fresh[i] = fresh[j] => i = j
    BY <2>1, SetToSeqEnumerates
  <2> HIDE DEF fresh
  <2> QED BY <2>2, LenProperties, ElementOfSeq
<1> HIDE DEF fresh
<1>8. more \in Seq(ListRow) /\ Len(more) = Len(fresh) /\ \A i \in 1 .. Len(fresh) : more[i] = ListOf(fresh[i])
  BY <1>3, <1>7
<1> HIDE DEF merged, more
<1>9. /\ ls \in Seq(ListRow) /\ Len(ls) = Len(d.lists) + Len(fresh)
      /\ DOMAIN ls = 1 .. (Len(d.lists) + Len(fresh))
      /\ \A k \in DOMAIN d.lists : ls[k] = Merged(d.lists[k])
      /\ \A i \in 1 .. Len(fresh) : ls[Len(d.lists) + i] = ListOf(fresh[i])
  <2>1. merged \in Seq(ListRow) /\ more \in Seq(ListRow)
    BY <1>6, <1>8
  <2>2. ls \in Seq(ListRow) /\ Len(ls) = Len(merged) + Len(more)
    BY <2>1, Padded
  <2>3. DOMAIN ls = 1 .. (Len(merged) + Len(more))
    BY <2>1, Padded
  <2>4. \A k \in 1 .. Len(merged) : ls[k] = merged[k]
    BY <2>1, Padded
  <2>5. \A k \in (Len(merged) + 1) .. (Len(merged) + Len(more)) : ls[k] = more[k - Len(merged)]
    BY <2>1, Padded
  <2> HIDE DEF ls
  <2>6. \A k \in DOMAIN d.lists : ls[k] = Merged(d.lists[k])
    BY <2>4, <1>4, <1>6
  <2>7. \A i \in 1 .. Len(fresh) : ls[Len(d.lists) + i] = ListOf(fresh[i])
    <3> SUFFICES ASSUME NEW i \in 1 .. Len(fresh) PROVE ls[Len(d.lists) + i] = ListOf(fresh[i])
      OBVIOUS
    <3>1. Len(d.lists) + i \in (Len(merged) + 1) .. (Len(merged) + Len(more))
          /\ (Len(d.lists) + i) - Len(merged) = i
      BY <1>4, <1>6, <1>7, <1>8
    <3> QED BY <3>1, <2>5, <1>8
  <2> QED BY <2>2, <2>3, <2>6, <2>7, <1>6, <1>8
<1> HIDE DEF ls
<1>10. /\ WithLists(d, doc) \in Tables /\ WithLists(d, doc).players = d.players
       /\ WithLists(d, doc).lists = ls /\ WithLists(d, doc).members = d.members
       /\ WithLists(d, doc).derived = d.derived
       /\ WithLists(d, doc).rostered = d.rostered /\ WithLists(d, doc).line = d.line
  BY <1>1, <1>9, PutLists DEF Consistent
<1>11. DOMAIN d.lists \subseteq DOMAIN ls /\ Len(d.lists) <= Len(ls)
  BY <1>4, <1>7, <1>9
<1>12. Consistent(WithLists(d, doc))
  <2>1. d.members \subseteq (DOMAIN ls) \X (DOMAIN d.players)
    BY <1>11 DEF Consistent
  <2> QED BY <2>1, <1>10 DEF Consistent
<1>13. \A k \in DOMAIN ls \ DOMAIN d.lists : \E i \in 1 .. Len(fresh) : k = Len(d.lists) + i /\ ls[k] = ListOf(fresh[i])
  <2> SUFFICES ASSUME NEW k \in DOMAIN ls \ DOMAIN d.lists
               PROVE  \E i \in 1 .. Len(fresh) : k = Len(d.lists) + i /\ ls[k] = ListOf(fresh[i])
    OBVIOUS
  <2>1. k - Len(d.lists) \in 1 .. Len(fresh) /\ k = Len(d.lists) + (k - Len(d.lists))
    BY <1>4, <1>7, <1>9
  <2> QED BY <2>1, <1>9
<1>14. \A e \in doc.lists : \E k \in DOMAIN ls : ls[k] = ListOf(e)
  <2> SUFFICES ASSUME NEW e \in doc.lists PROVE \E k \in DOMAIN ls : ls[k] = ListOf(e)
    OBVIOUS
  <2>1. CASE e \in absent
    <3>1. PICK i \in 1 .. Len(fresh) : fresh[i] = e
      BY <2>1, <1>7
    <3>2. Len(d.lists) + i \in DOMAIN ls
      BY <1>4, <1>7, <1>9
    <3> QED BY <3>1, <3>2, <1>9
  <2>2. CASE e \notin absent
    <3>1. PICK k \in DOMAIN d.lists : d.lists[k].live /\ d.lists[k].name = e.name
      BY <2>2 DEF ListNamed
    <3>2. PICK f \in doc.lists : f.name = e.name /\ Merged(d.lists[k]) = ListOf(f)
      BY <3>1, <1>5
    <3>3. f = e
      BY <3>2 DEF WellFormed
    <3> QED BY <3>2, <3>3, <1>9, <1>11
  <2> QED BY <2>1, <2>2
<1>15. \A k \in DOMAIN ls :
         \/ \E e \in doc.lists : /\ ls[k] = ListOf(e)
                                 /\ k \in DOMAIN d.lists => d.lists[k].live /\ d.lists[k].name = e.name
                                 /\ k \notin DOMAIN d.lists => ListNamed(d.lists, e.name) = {}
         \/ /\ k \in DOMAIN d.lists /\ ls[k] = d.lists[k] /\ ~ ls[k].live
         \/ /\ k \in DOMAIN d.lists /\ d.lists[k].live
            /\ ls[k] = [d.lists[k] EXCEPT !.isDefault = FALSE]
            /\ \A e \in doc.lists : e.name # d.lists[k].name
  <2> SUFFICES ASSUME NEW k \in DOMAIN ls
               PROVE \/ \E e \in doc.lists : /\ ls[k] = ListOf(e)
                                             /\ k \in DOMAIN d.lists => d.lists[k].live /\ d.lists[k].name = e.name
                                             /\ k \notin DOMAIN d.lists => ListNamed(d.lists, e.name) = {}
                     \/ /\ k \in DOMAIN d.lists /\ ls[k] = d.lists[k] /\ ~ ls[k].live
                     \/ /\ k \in DOMAIN d.lists /\ d.lists[k].live
                        /\ ls[k] = [d.lists[k] EXCEPT !.isDefault = FALSE]
                        /\ \A e \in doc.lists : e.name # d.lists[k].name
    OBVIOUS
  <2>1. CASE k \in DOMAIN d.lists
    <3>1. ls[k] = Merged(d.lists[k])
      BY <2>1, <1>9
    <3> QED BY <2>1, <3>1, <1>5
  <2>2. CASE k \notin DOMAIN d.lists
    <3>1. PICK i \in 1 .. Len(fresh) : ls[k] = ListOf(fresh[i])
      BY <2>2, <1>13
    <3>2. fresh[i] \in doc.lists /\ ListNamed(d.lists, fresh[i].name) = {}
      BY <3>1, <1>7
    <3> QED BY <2>2, <3>1, <3>2
  <2> QED BY <2>1, <2>2
<1>16. \A k, l \in DOMAIN ls \ DOMAIN d.lists : ls[k].name = ls[l].name => k = l
  <2> SUFFICES ASSUME NEW k \in DOMAIN ls \ DOMAIN d.lists, NEW l \in DOMAIN ls \ DOMAIN d.lists,
                      ls[k].name = ls[l].name
               PROVE  k = l
    OBVIOUS
  <2>1. PICK i \in 1 .. Len(fresh) : k = Len(d.lists) + i /\ ls[k] = ListOf(fresh[i])
    BY <1>13
  <2>2. PICK j \in 1 .. Len(fresh) : l = Len(d.lists) + j /\ ls[l] = ListOf(fresh[j])
    BY <1>13
  <2>3. fresh[i] \in doc.lists /\ fresh[j] \in doc.lists
    BY <2>1, <2>2, <1>7
  <2>4. fresh[i] = fresh[j]
    BY <2>1, <2>2, <2>3, <1>3 DEF WellFormed
  <2> QED BY <2>1, <2>2, <2>4, <1>7
<1>17. Listed(d.lists, doc, ls)
  BY <1>9, <1>11, <1>14, <1>15, <1>16 DEF Listed
<1> QED BY <1>10, <1>12, <1>17

\* Such lists are ones their table accepts, every recipient among them is usable if those
\* before were, and the document's default is theirs and no other.
LEMMA ListsStand ==
    ASSUME NEW d, Consistent(d), ListsAccepted(d.lists),
           NEW doc, WellFormed(doc), parsePlayerListBackup(doc), NEW ls, Listed(d.lists, doc, ls)
    PROVE  /\ ListsAccepted(ls)
           /\ (\A k \in DOMAIN d.lists : usableRecipient(d.lists[k].digestTo))
                => \A k \in DOMAIN ls : usableRecipient(ls[k].digestTo)
           /\ \A k \in DOMAIN ls : ls[k].live /\ ls[k].isDefault =>
                \E e \in doc.lists : e.isDefault /\ ls[k].name = e.name
           /\ \A e \in doc.lists : e.isDefault =>
                \E k \in DOMAIN ls : ls[k].live /\ ls[k].isDefault /\ ls[k].name = e.name
<1>1. doc.lists \in SUBSET Lane /\ IsFiniteSet(doc.lists)
  BY DEF WellFormed, Document
<1>2. \A e \in doc.lists : /\ ListOf(e).live /\ ListOf(e).name = e.name /\ ListOf(e).isDefault = e.isDefault
                           /\ usableRecipient(ListOf(e).digestTo)
  BY <1>1, RosterAssumption DEF ListOf, writableDigestTo, usableRecipient
<1>3. \A k \in DOMAIN d.lists : /\ [d.lists[k] EXCEPT !.isDefault = FALSE].isDefault = FALSE
                                /\ [d.lists[k] EXCEPT !.isDefault = FALSE].live = d.lists[k].live
                                /\ [d.lists[k] EXCEPT !.isDefault = FALSE].name = d.lists[k].name
                                /\ [d.lists[k] EXCEPT !.isDefault = FALSE].digestTo = d.lists[k].digestTo
  BY Columns DEF ListRow
<1>0. \A k \in DOMAIN ls :
         \/ \E e \in doc.lists : /\ ls[k] = ListOf(e)
                                 /\ k \in DOMAIN d.lists => d.lists[k].live /\ d.lists[k].name = e.name
                                 /\ k \notin DOMAIN d.lists => ListNamed(d.lists, e.name) = {}
         \/ k \in DOMAIN d.lists /\ ls[k] = d.lists[k] /\ ~ ls[k].live
         \/ /\ k \in DOMAIN d.lists /\ d.lists[k].live
            /\ ls[k] = [d.lists[k] EXCEPT !.isDefault = FALSE]
  BY Zenon DEF Listed
<1>4. \A k \in DOMAIN ls : ls[k].live =>
        /\ k \in DOMAIN d.lists => d.lists[k].live /\ ls[k].name = d.lists[k].name
        /\ k \notin DOMAIN d.lists => ListNamed(d.lists, ls[k].name) = {}
  <2> SUFFICES ASSUME NEW k \in DOMAIN ls, ls[k].live
               PROVE  /\ k \in DOMAIN d.lists => d.lists[k].live /\ ls[k].name = d.lists[k].name
                      /\ k \notin DOMAIN d.lists => ListNamed(d.lists, ls[k].name) = {}
    OBVIOUS
  <2>1. CASE \E e \in doc.lists : /\ ls[k] = ListOf(e)
                                  /\ k \in DOMAIN d.lists => d.lists[k].live /\ d.lists[k].name = e.name
                                  /\ k \notin DOMAIN d.lists => ListNamed(d.lists, e.name) = {}
    <3>1. PICK e \in doc.lists : /\ ls[k] = ListOf(e)
                                 /\ k \in DOMAIN d.lists => d.lists[k].live /\ d.lists[k].name = e.name
                                 /\ k \notin DOMAIN d.lists => ListNamed(d.lists, e.name) = {}
      BY <2>1
    <3>2. ls[k].name = e.name
      BY <3>1, <1>2
    <3> QED BY <3>1, <3>2
  <2>2. CASE k \in DOMAIN d.lists /\ ls[k] = d.lists[k]
    BY <2>2
  <2>3. CASE k \in DOMAIN d.lists /\ d.lists[k].live /\ ls[k] = [d.lists[k] EXCEPT !.isDefault = FALSE]
    BY <2>3, <1>3
  <2> QED BY <2>1, <2>2, <2>3, <1>0, Zenon
<1>5. LiveNamesUnique(ls)
  <2> SUFFICES ASSUME NEW i \in DOMAIN ls, NEW j \in DOMAIN ls, i # j, ls[i].live, ls[j].live,
                      ls[i].name = ls[j].name
               PROVE  FALSE
    BY DEF LiveNamesUnique
  <2>1. CASE i \in DOMAIN d.lists /\ j \in DOMAIN d.lists
    BY <2>1, <1>4 DEF ListsAccepted, LiveNamesUnique
  <2>2. CASE i \in DOMAIN d.lists /\ j \notin DOMAIN d.lists
    BY <2>2, <1>4 DEF ListNamed
  <2>3. CASE i \notin DOMAIN d.lists /\ j \in DOMAIN d.lists
    BY <2>3, <1>4 DEF ListNamed
  <2>4. CASE i \notin DOMAIN d.lists /\ j \notin DOMAIN d.lists
    BY <2>4 DEF Listed
  <2> QED BY <2>1, <2>2, <2>3, <2>4
<1>6. \A k \in DOMAIN ls : ls[k].live /\ ls[k].isDefault =>
        \E e \in doc.lists : e.isDefault /\ ls[k].name = e.name
  <2> SUFFICES ASSUME NEW k \in DOMAIN ls, ls[k].live, ls[k].isDefault
               PROVE  \E e \in doc.lists : e.isDefault /\ ls[k].name = e.name
    OBVIOUS
  <2>1. ~ (k \in DOMAIN d.lists /\ ls[k] = [d.lists[k] EXCEPT !.isDefault = FALSE])
    BY <1>3
  <2>2. PICK e \in doc.lists : ls[k] = ListOf(e)
    BY <2>1, <1>0, Zenon
  <2> QED BY <2>2, <1>2
<1>7. \A e, f \in doc.lists : e.isDefault /\ f.isDefault => e = f
  <2> DEFINE D == {l \in doc.lists : l.isDefault}
  <2>1. IsFiniteSet(D)
    BY <1>1, FS_Subset
  <2>2. Cardinality(D) <= 1
    BY DEF parsePlayerListBackup
  <2>3. \A e, f \in D : e = f
    <3> HIDE DEF D
    <3> QED BY <2>1, <2>2, AtMostOne
  <2> QED BY <2>3
<1>8. OneLiveDefault(ls)
  <2> SUFFICES ASSUME NEW i \in DOMAIN ls, NEW j \in DOMAIN ls, ls[i].live, ls[j].live,
                      ls[i].isDefault, ls[j].isDefault
               PROVE  i = j
    BY DEF OneLiveDefault
  <2>1. ls[i].name = ls[j].name
    BY <1>6, <1>7
  <2> QED BY <2>1, <1>5 DEF LiveNamesUnique
<1>9. \A e \in doc.lists : e.isDefault =>
        \E k \in DOMAIN ls : ls[k].live /\ ls[k].isDefault /\ ls[k].name = e.name
  BY <1>2 DEF Listed
<1>10. (\A k \in DOMAIN d.lists : usableRecipient(d.lists[k].digestTo))
         => \A k \in DOMAIN ls : usableRecipient(ls[k].digestTo)
  BY <1>2, <1>3 DEF Listed
<1> QED BY <1>5, <1>6, <1>8, <1>9, <1>10 DEF ListsAccepted

(***************************************************************************)
(* A restore.                                                              *)
(***************************************************************************)
Remade(d, doc) == WithLists(WithEntries(d, doc), doc)

\* What a restore of doc over d leaves when it does not abort.
Restoration(d, doc, e) ==
  /\ Sound(e)
  /\ \E S, of : Landed(d, doc, e, S, of)
  /\ IF doc.listed THEN Listed(d.lists, doc, e.lists) ELSE e.lists = d.lists
  /\ e.members = d.members \cup UNION {ListNamed(e.lists, m.list) \X Targets(e, m) : m \in doc.members}

\* Targets and Landed look at the rows only.
LEMMA SameRows ==
    ASSUME NEW d, NEW w, NEW e, e.players = w.players,
           e.derived = w.derived, e.rostered = w.rostered, e.line = w.line
    PROVE  /\ \A m : Targets(e, m) = Targets(w, m)
           /\ \A doc, S, of : Landed(d, doc, w, S, of) => Landed(d, doc, e, S, of)
<1>1. \A m : Targets(e, m) = Targets(w, m)
  BY DEF Targets
<1>2. ASSUME NEW doc, NEW S, NEW of, Landed(d, doc, w, S, of) PROVE Landed(d, doc, e, S, of)
  BY <1>2, Zenon DEF Landed
<1> QED BY <1>1, <1>2

\* The tables between the second and the third phase, and after it.
LEMMA Remaking ==
    ASSUME NEW d, Sound(d), NEW doc, WellFormed(doc), parsePlayerListBackup(doc), EntriesResolve(d, doc)
    PROVE  /\ Sound(Remade(d, doc)) /\ Remade(d, doc).members = d.members
           /\ \E S, of : Landed(d, doc, Remade(d, doc), S, of)
           /\ IF doc.listed THEN Listed(d.lists, doc, Remade(d, doc).lists) ELSE Remade(d, doc).lists = d.lists
<1> DEFINE w == WithEntries(d, doc)
           e == Remade(d, doc)
<1>1. Consistent(d) /\ PlayersAccepted(d.players) /\ ListsAccepted(d.lists)
  BY DEF Sound
<1>2. \A x \in doc.players : EntryAccepted(doc.version, x)
  BY DEF parsePlayerListBackup
<1>3. Consistent(w) /\ w.lists = d.lists /\ w.members = d.members
  BY <1>1, <1>2, EntriesLand
<1>4. PICK S, of : Landed(d, doc, w, S, of)
  BY <1>1, <1>2, EntriesLand
<1>5. PlayersAccepted(w.players)
  BY <1>3, <1>4, EntriesAccepted
<1>6. e = WithLists(w, doc)
  BY DEF Remade
<1> HIDE DEF w, e
<1>7. CASE ~ doc.listed
  <2>1. e = w
    BY <1>6, <1>7 DEF WithLists
  <2>2. Sound(e) /\ e.members = d.members /\ e.lists = d.lists
    BY <2>1, <1>1, <1>3, <1>5 DEF Sound
  <2> QED BY <2>1, <2>2, <1>4, <1>7 DEF e
<1>8. CASE doc.listed
  <2>1. LiveNamesUnique(w.lists)
    BY <1>1, <1>3 DEF ListsAccepted
  <2>2. /\ Consistent(e) /\ e.players = w.players /\ e.members = w.members
        /\ e.derived = w.derived /\ e.rostered = w.rostered /\ e.line = w.line
    BY <2>1, <1>3, <1>6, <1>8, ListsLand
  <2>3. Listed(w.lists, doc, e.lists)
    BY <2>1, <1>3, <1>6, <1>8, ListsLand
  <2>4. Listed(d.lists, doc, e.lists)
    BY <2>3, <1>3
  <2>5. ListsAccepted(e.lists)
    BY <2>4, <1>1, ListsStand
  <2>6. Sound(e) /\ e.members = d.members
    BY <2>2, <2>5, <1>3, <1>5 DEF Sound
  <2>7. Landed(d, doc, e, S, of)
    BY <2>2, <1>4, SameRows
  <2> QED BY <2>4, <2>6, <2>7, <1>8 DEF e
<1> QED BY <1>7, <1>8

\* A restore aborts or does all that it should.
LEMMA RestoredIs ==
    ASSUME NEW d, Sound(d), NEW doc, WellFormed(doc), parsePlayerListBackup(doc)
    PROVE  \/ Restored(d, doc) = d /\ ~ (EntriesResolve(d, doc) /\ MembersResolve(Remade(d, doc), doc))
           \/ /\ MembersResolve(Restored(d, doc), doc)
              /\ Restoration(d, doc, Restored(d, doc))
<1> DEFINE w == Remade(d, doc)
           added == UNION {ListNamed(w.lists, m.list) \X Targets(w, m) : m \in doc.members}
           e == Restored(d, doc)
<1>1. CASE ~ (EntriesResolve(d, doc) /\ MembersResolve(w, doc))
  BY <1>1 DEF Restored, Remade
<1>2. CASE EntriesResolve(d, doc) /\ MembersResolve(w, doc)
  <2>1. e = WithMembers(w, doc)
    BY <1>2 DEF Restored, Remade
  <2>2. e = [w EXCEPT !.members = w.members \cup added]
    BY <2>1 DEF WithMembers
  <2>3. Sound(w) /\ w.members = d.members
    BY <1>2, Remaking
  <2>4. PICK S, of : Landed(d, doc, w, S, of)
    BY <1>2, Remaking
  <2>5. IF doc.listed THEN Listed(d.lists, doc, w.lists) ELSE w.lists = d.lists
    BY <1>2, Remaking
  <2> HIDE DEF w, e
  <2>6. added \subseteq (DOMAIN w.lists) \X (DOMAIN w.players)
    BY DEF ListNamed, Targets
  <2> HIDE DEF added
  <2>7. w \in Tables /\ DOMAIN w.lists \subseteq Nat /\ DOMAIN w.players \subseteq Nat
    BY <2>3, Columns DEF Sound
  <2>8. w.members \subseteq (DOMAIN w.lists) \X (DOMAIN w.players)
    BY <2>3, Columns DEF Sound
  <2>9. w.members \cup added \in SUBSET (Nat \X Nat)
    BY <2>6, <2>7, <2>8
  <2>10. /\ e \in Tables /\ e.players = w.players /\ e.lists = w.lists /\ e.members = w.members \cup added
         /\ e.derived = w.derived /\ e.rostered = w.rostered /\ e.line = w.line
    BY <2>2, <2>7, <2>9, PutMembers
  <2>11. Sound(e)
    BY <2>3, <2>6, <2>8, <2>10 DEF Sound, Consistent
  <2>12. Landed(d, doc, e, S, of)
    BY <2>4, <2>10, SameRows
  <2>13. IF doc.listed THEN Listed(d.lists, doc, e.lists) ELSE e.lists = d.lists
    BY <2>5, <2>10
  <2>14. e.members = d.members \cup UNION {ListNamed(e.lists, m.list) \X Targets(e, m) : m \in doc.members}
    BY <2>3, <2>10, SameRows DEF added
  <2>15. MembersResolve(e, doc)
    BY <1>2, <2>10, SameRows DEF MembersResolve
  <2>16. Restoration(d, doc, e)
    BY <2>11, <2>12, <2>13, <2>14 DEF Restoration
  <2> QED BY <2>15, <2>16 DEF e
<1> QED BY <1>1, <1>2

\* A member of a document that parses carries one identity: whoever has it, has all of it.
LEMMA MemberIsOne ==
    ASSUME NEW doc, parsePlayerListBackup(doc), NEW m \in doc.members
    PROVE  \E i \in Carried(m) : Carried(m) = {i}
<1>1. Cardinality(Carried(m)) = 1
  BY DEF parsePlayerListBackup, MemberAccepted
<1>2. IsFiniteSet(Carried(m))
  <2>1. IsFiniteSet({"ext", "seq", "hl"})
    <3>1. IsFiniteSet({"ext"})
      BY FS_Singleton
    <3>2. IsFiniteSet({"ext"} \cup {"seq"})
      BY <3>1, FS_AddElement
    <3>3. IsFiniteSet(({"ext"} \cup {"seq"}) \cup {"hl"})
      BY <3>2, FS_AddElement
    <3>4. {"ext", "seq", "hl"} = ({"ext"} \cup {"seq"}) \cup {"hl"}
      OBVIOUS
    <3> QED BY <3>3, <3>4
  <2>2. Carried(m) \in SUBSET {"ext", "seq", "hl"}
    BY DEF Carried, Identity
  <2> QED BY <2>1, <2>2, FS_Subset
<1>3. \E i : Carried(m) = {i}
  BY <1>1, <1>2, FS_Singleton
<1> QED BY <1>3

LEMMA TargetsHaveIt ==
    ASSUME NEW doc, parsePlayerListBackup(doc), NEW m \in doc.members, NEW d, NEW p \in Targets(d, m)
    PROVE  p \in DOMAIN d.players /\ \A i \in Carried(m) : d.players[p][i] = m[i]
<1>1. PICK i \in Carried(m) : Carried(m) = {i}
  BY MemberIsOne
<1>2. p \in DOMAIN d.players /\ \E k \in Carried(m) : d.players[p][k] = m[k]
  BY DEF Targets
<1> QED BY <1>1, <1>2

LEMMA RestorationIsFaithful ==
    ASSUME NEW d, Sound(d), NEW doc, WellFormed(doc), parsePlayerListBackup(doc),
           NEW e, Restoration(d, doc, e), MembersResolve(e, doc)
    PROVE  Faithful(d, doc, e)
<1>1. PICK S, of : Landed(d, doc, e, S, of)
  BY DEF Restoration
<1>2. Consistent(d) /\ ListsAccepted(d.lists) /\ Sound(e)
  BY DEF Sound, Restoration
<1>3. PlayersAccepted(e.players) /\ ListsAccepted(e.lists)
  BY <1>2 DEF Sound
<1>4. \A x \in doc.players : \E p \in DOMAIN e.players :
        /\ e.players[p] = RowOf(doc, x)
        /\ x.rostered # Null => (p \in e.rostered <=> x.rostered)
        /\ p \in DOMAIN d.players => d.line[p] = e.line[p]
        /\ e.derived[p] = deriveTags(e.players[p], e.line[p])
  <2> SUFFICES ASSUME NEW x \in doc.players
               PROVE  \E p \in DOMAIN e.players :
                        /\ e.players[p] = RowOf(doc, x)
                        /\ x.rostered # Null => (p \in e.rostered <=> x.rostered)
                        /\ p \in DOMAIN d.players => d.line[p] = e.line[p]
                        /\ e.derived[p] = deriveTags(e.players[p], e.line[p])
    OBVIOUS
  <2>1. PICK p \in S : of[p] = x
    BY <1>1 DEF Landed
  <2>2. p \in DOMAIN e.players /\ e.players[p] = RowOf(doc, x)
        /\ e.derived[p] = deriveTags(e.players[p], e.line[p])
    BY <1>1, <2>1 DEF Landed
  <2>3. x.rostered # Null => (p \in e.rostered <=> x.rostered)
    BY <1>1, <2>1 DEF Landed
  <2>4. p \in DOMAIN d.players => d.line[p] = e.line[p]
    BY <1>1 DEF Landed
  <2> QED BY <2>2, <2>3, <2>4
<1>5. \A m \in doc.members : \E l \in ListNamed(e.lists, m.list), p \in DOMAIN e.players :
        <<l, p>> \in e.members /\ \A i \in Carried(m) : e.players[p][i] = m[i]
  <2> SUFFICES ASSUME NEW m \in doc.members
               PROVE  \E l \in ListNamed(e.lists, m.list), p \in DOMAIN e.players :
                        <<l, p>> \in e.members /\ \A i \in Carried(m) : e.players[p][i] = m[i]
    OBVIOUS
  <2>1. PICK l \in ListNamed(e.lists, m.list), p \in Targets(e, m) : TRUE
    BY DEF MembersResolve
  <2>2. <<l, p>> \in e.members
    <3>1. <<l, p>> \in ListNamed(e.lists, m.list) \X Targets(e, m)
      BY <2>1
    <3> QED BY <3>1 DEF Restoration
  <2> QED BY <2>1, <2>2, TargetsHaveIt
<1>6. d.members \subseteq e.members
  BY DEF Restoration
<1>7. \A p \in DOMAIN d.players :
        \/ e.players[p] = d.players[p] /\ (p \in e.rostered <=> p \in d.rostered)
        \/ \E x \in doc.players : p \in Targets(d, x)
  <2> SUFFICES ASSUME NEW p \in DOMAIN d.players
               PROVE  \/ e.players[p] = d.players[p] /\ (p \in e.rostered <=> p \in d.rostered)
                      \/ \E x \in doc.players : p \in Targets(d, x)
    OBVIOUS
  <2>1. CASE p \in S
    <3>1. of[p] \in doc.players /\ Targets(d, of[p]) = {p}
      BY <1>1, <2>1 DEF Landed
    <3> QED BY <3>1
  <2>2. CASE p \notin S
    BY <1>1, <2>2 DEF Landed
  <2> QED BY <2>1, <2>2
<1>8. \A k \in ListsOf(e) : \E l \in DOMAIN e.lists : e.lists[l].live /\ k = ListEntry(e.lists[l])
  BY DEF ListsOf
<1>9. \A l \in DOMAIN e.lists : e.lists[l].live => ListEntry(e.lists[l]) \in ListsOf(e)
  BY DEF ListsOf
<1>10. {l.name : l \in {k \in ListsOf(e) : k.isDefault}}
         = {l.name : l \in {k \in IF doc.listed THEN doc.lists ELSE ListsOf(d) : k.isDefault}}
  <2>1. CASE ~ doc.listed
    <3>1. e.lists = d.lists
      BY <2>1 DEF Restoration
    <3>2. ListsOf(e) = ListsOf(d)
      BY <3>1 DEF ListsOf
    <3> QED BY <2>1, <3>2
  <2>2. CASE doc.listed
    <3>1. Listed(d.lists, doc, e.lists)
      BY <2>2 DEF Restoration
    <3>2. /\ \A k \in DOMAIN e.lists : e.lists[k].live /\ e.lists[k].isDefault =>
                \E x \in doc.lists : x.isDefault /\ e.lists[k].name = x.name
          /\ \A x \in doc.lists : x.isDefault =>
                \E k \in DOMAIN e.lists : e.lists[k].live /\ e.lists[k].isDefault /\ e.lists[k].name = x.name
      BY <3>1, <1>2, ListsStand
    <3>3. \A l \in DOMAIN e.lists : /\ ListEntry(e.lists[l]).name = e.lists[l].name
                                    /\ ListEntry(e.lists[l]).isDefault = e.lists[l].isDefault
      BY DEF ListEntry
    <3>4. ASSUME NEW k \in ListsOf(e), k.isDefault
          PROVE  \E x \in doc.lists : x.isDefault /\ k.name = x.name
      BY <1>8, <3>2, <3>3, <3>4
    <3>5. ASSUME NEW x \in doc.lists, x.isDefault
          PROVE  \E k \in ListsOf(e) : k.isDefault /\ k.name = x.name
      <4>1. PICK l \in DOMAIN e.lists : e.lists[l].live /\ e.lists[l].isDefault /\ e.lists[l].name = x.name
        BY <3>2, <3>5
      <4> QED BY <4>1, <3>3, <1>9
    <3> QED BY <2>2, <3>4, <3>5
  <2> QED BY <2>1, <2>2
<1> QED BY <1>3, <1>4, <1>5, <1>6, <1>7, <1>10 DEF Faithful

(***************************************************************************)
(* A backup of the tables and its restore.                                 *)
(***************************************************************************)
\* What a row's entry says of it, and that it becomes the row again.
LEMMA EntryIsTheRow ==
    ASSUME NEW r \in PlayerRow, identityStateCheck(r), activeIdentityCheck(r), NEW b \in BOOLEAN
    PROVE  /\ PlayerEntry(r, b) \in Entry /\ EntryAccepted(PLAYER_BACKUP_VERSION, PlayerEntry(r, b))
           /\ PlayerEntry(r, b).rostered = b
           /\ PlayerEntry(r, b).ext = r.ext /\ PlayerEntry(r, b).seq = r.seq /\ PlayerEntry(r, b).hl = r.hl
           /\ \A doc : RowOf(doc, PlayerEntry(r, b)) = r
<1> DEFINE e == PlayerEntry(r, b)
<1>1. /\ r.ext \in Persons \cup {Null} /\ r.seq \in Seqs \cup {Null} /\ r.hl \in HlIds \cup {Null}
      /\ r.src \in SourceStates \cup {Null} /\ r.level \in Levels /\ r.milb \in {"Rookie", Null}
      /\ r.active \in BOOLEAN
      /\ r = [ext |-> r.ext, seq |-> r.seq, hl |-> r.hl, src |-> r.src, level |-> r.level,
              milb |-> r.milb, active |-> r.active]
  BY DEF PlayerRow
<1>2. /\ e.ext = r.ext /\ e.seq = r.seq /\ e.hl = r.hl /\ e.src = r.src /\ e.level = r.level
      /\ e.milb = r.milb /\ e.active = r.active /\ e.rostered = b
  BY DEF PlayerEntry
<1>3. e \in Entry
  BY <1>1 DEF PlayerEntry, Entry
<1>4. r.level = "ncaa" => r.src # Null
  BY RosterAssumption DEF identityStateCheck, SourceStates
<1>5. EntryAccepted(PLAYER_BACKUP_VERSION, e)
  <2> HIDE DEF e
  <2>1. CASE r.level = "ncaa"
    BY <2>1, <1>2, <1>4 DEF identityStateCheck, activeIdentityCheck, EntryAccepted, PLAYER_BACKUP_VERSION
  <2>2. CASE r.level # "ncaa"
    BY <2>2, <1>2 DEF identityStateCheck, EntryAccepted, PLAYER_BACKUP_VERSION
  <2> QED BY <2>1, <2>2
<1>6. ASSUME NEW doc PROVE RowOf(doc, e) = r
  <2> HIDE DEF e
  <2>1. CASE r.level = "ncaa"
    <3>1. RowOf(doc, e) = [ext |-> r.ext, level |-> r.level, milb |-> r.milb, active |-> r.active,
                           seq |-> r.seq, hl |-> r.hl, src |-> r.src]
      BY <2>1, <1>2, <1>4 DEF RowOf
    <3> QED BY <3>1, <1>1
  <2>2. CASE r.level # "ncaa"
    <3>1. r.seq = Null /\ r.hl = Null /\ r.src = Null
      BY <2>2 DEF identityStateCheck
    <3>2. RowOf(doc, e) = [ext |-> r.ext, level |-> r.level, milb |-> r.milb, active |-> r.active,
                           seq |-> Null, hl |-> Null, src |-> Null]
      BY <2>2, <1>2 DEF RowOf
    <3> QED BY <3>1, <3>2, <1>1
  <2> QED BY <2>1, <2>2
<1> QED BY <1>2, <1>3, <1>5, <1>6

LEMMA EntryOfRow ==
    ASSUME NEW r \in PlayerRow, identityStateCheck(r), activeIdentityCheck(r), NEW p, NEW R
    PROVE  /\ PlayerEntry(r, p \in R) \in Entry
           /\ EntryAccepted(PLAYER_BACKUP_VERSION, PlayerEntry(r, p \in R))
           /\ PlayerEntry(r, p \in R).rostered # Null
           /\ PlayerEntry(r, p \in R).rostered <=> p \in R
           /\ PlayerEntry(r, p \in R).ext = r.ext
           /\ PlayerEntry(r, p \in R).seq = r.seq
           /\ PlayerEntry(r, p \in R).hl = r.hl
           /\ \A doc : RowOf(doc, PlayerEntry(r, p \in R)) = r
<1> DEFINE b == p \in R
<1>1. b \in BOOLEAN
  OBVIOUS
<1> HIDE DEF b
<1>2. /\ PlayerEntry(r, b) \in Entry /\ EntryAccepted(PLAYER_BACKUP_VERSION, PlayerEntry(r, b))
      /\ PlayerEntry(r, b).rostered = b
      /\ PlayerEntry(r, b).ext = r.ext /\ PlayerEntry(r, b).seq = r.seq /\ PlayerEntry(r, b).hl = r.hl
      /\ \A doc : RowOf(doc, PlayerEntry(r, b)) = r
  BY <1>1, EntryIsTheRow
<1>3. PlayerEntry(r, b).rostered # Null /\ (PlayerEntry(r, b).rostered <=> b)
  BY <1>1, <1>2, RosterAssumption
<1> QED BY <1>2, <1>3 DEF b

\* A member's entry is found by the one identity of its player.
LEMMA MemberIsTheRow ==
    ASSUME NEW r \in PlayerRow, identityStateCheck(r), NEW l
    PROVE  /\ MemberEntry(l, r).list = l.name
           /\ MemberEntry(l, r).ext = r.ext
           /\ MemberEntry(l, r).seq = IF r.ext = Null THEN r.seq ELSE Null
           /\ MemberEntry(l, r).hl = IF r.ext = Null /\ r.seq = Null THEN r.hl ELSE Null
           /\ MemberEntry(l, r).ext # Null \/ MemberEntry(l, r).seq # Null \/ MemberEntry(l, r).hl # Null
           /\ MemberAccepted(PLAYER_BACKUP_VERSION, MemberEntry(l, r))
           /\ l.name \in Names => MemberEntry(l, r) \in Member
<1> DEFINE m == MemberEntry(l, r)
<1>1. /\ m.list = l.name /\ m.ext = r.ext /\ m.seq = IF r.ext = Null THEN r.seq ELSE Null
      /\ m.hl = IF r.ext = Null /\ r.seq = Null THEN r.hl ELSE Null
  BY DEF MemberEntry
<1>2. l.name \in Names => m \in Member
  BY DEF MemberEntry, Member, PlayerRow
<1> HIDE DEF m
<1>3. m.ext # Null \/ m.seq # Null \/ m.hl # Null
  BY <1>1 DEF identityStateCheck
<1>4. \E i : Carried(m) = {i}
  <2>1. CASE m.ext # Null
    <3>1. Carried(m) = {"ext"}
      BY <2>1, <1>1, CarriedIs
    <3> QED BY <3>1
  <2>2. CASE m.ext = Null /\ m.seq # Null
    <3>1. Carried(m) = {"seq"}
      BY <2>2, <1>1, CarriedIs
    <3> QED BY <3>1
  <2>3. CASE m.ext = Null /\ m.seq = Null
    <3>1. Carried(m) = {"hl"}
      BY <2>3, <1>1, <1>3, CarriedIs
    <3> QED BY <3>1
  <2> QED BY <2>1, <2>2, <2>3
<1>5. Cardinality(Carried(m)) = 1
  BY <1>4, FS_Singleton
<1>6. MemberAccepted(PLAYER_BACKUP_VERSION, m)
  BY <1>5 DEF MemberAccepted, PLAYER_BACKUP_VERSION
<1> QED BY <1>1, <1>2, <1>3, <1>6 DEF m

\* A backup of any tables within their constraints is a document, and parses.
LEMMA ExportParses ==
    ASSUME NEW d, Sound(d)
    PROVE  WellFormed(Export(d)) /\ parsePlayerListBackup(Export(d))
<1> DEFINE doc == Export(d)
           n == Len(d.players)
           k == Len(d.lists)
<1>1. Consistent(d) /\ PlayersAccepted(d.players) /\ ListsAccepted(d.lists)
  BY DEF Sound
<1>2. /\ doc.version = 5 /\ doc.listed = TRUE /\ doc.players = PlayersOf(d.players, d.rostered)
      /\ doc.lists = ListsOf(d) /\ doc.members = MembersOf(d)
      /\ doc = [version |-> 5, players |-> doc.players, listed |-> TRUE, lists |-> doc.lists,
                members |-> doc.members]
  BY DEF Export, Backup, PLAYER_BACKUP_VERSION
<1>3. /\ n \in Nat /\ DOMAIN d.players = 1 .. n /\ k \in Nat /\ DOMAIN d.lists = 1 .. k
      /\ \A p \in 1 .. n : d.players[p] \in PlayerRow
      /\ \A l \in 1 .. k : d.lists[l] \in ListRow
      /\ d.members \subseteq (1 .. k) \X (1 .. n)
  BY <1>1, Columns
<1> HIDE DEF doc, n, k
<1>4. \A p \in 1 .. n : /\ d.players[p] \in PlayerRow
                        /\ identityStateCheck(d.players[p]) /\ activeIdentityCheck(d.players[p])
  BY <1>1, <1>3 DEF PlayersAccepted
<1>5. \A e \in doc.players : \E p \in 1 .. n : e = PlayerEntry(d.players[p], p \in d.rostered)
  BY <1>2, <1>3 DEF PlayersOf
<1>6. \A e \in doc.lists : \E l \in 1 .. k : d.lists[l].live /\ e = ListEntry(d.lists[l])
  BY <1>2, <1>3 DEF ListsOf
<1>7. \A m \in doc.members : \E l \in 1 .. k, p \in 1 .. n :
         d.lists[l].live /\ <<l, p>> \in d.members /\ m = MemberEntry(d.lists[l], d.players[p])
  <2> SUFFICES ASSUME NEW m \in doc.members
               PROVE  \E l \in 1 .. k, p \in 1 .. n :
                        d.lists[l].live /\ <<l, p>> \in d.members /\ m = MemberEntry(d.lists[l], d.players[p])
    OBVIOUS
  <2>1. PICK x \in d.members : d.lists[x[1]].live /\ m = MemberEntry(d.lists[x[1]], d.players[x[2]])
    BY <1>2 DEF MembersOf
  <2>2. x[1] \in 1 .. k /\ x[2] \in 1 .. n /\ x = <<x[1], x[2]>>
    BY <1>3
  <2> QED BY <2>1, <2>2
<1>8. doc.players \in SUBSET Entry /\ \A e \in doc.players : EntryAccepted(5, e)
  <2> SUFFICES ASSUME NEW e \in doc.players PROVE e \in Entry /\ EntryAccepted(5, e)
    OBVIOUS
  <2>1. PICK p \in 1 .. n : e = PlayerEntry(d.players[p], p \in d.rostered)
    BY <1>5
  <2> QED BY <2>1, <1>4, EntryOfRow DEF PLAYER_BACKUP_VERSION
<1>9. doc.lists \in SUBSET Lane
  BY <1>3, <1>6 DEF ListEntry, ListRow, Lane
<1>10. doc.members \in SUBSET Member /\ \A m \in doc.members : MemberAccepted(5, m)
  <2> SUFFICES ASSUME NEW m \in doc.members PROVE m \in Member /\ MemberAccepted(5, m)
    OBVIOUS
  <2>1. PICK l \in 1 .. k, p \in 1 .. n : m = MemberEntry(d.lists[l], d.players[p])
    BY <1>7
  <2>2. d.lists[l].name \in Names
    BY <1>3 DEF ListRow
  <2> QED BY <2>1, <2>2, <1>4, MemberIsTheRow DEF PLAYER_BACKUP_VERSION
<1>11. doc \in Document
  <2>1. /\ doc.players \in SUBSET Entry /\ doc.lists \in SUBSET Lane
        /\ doc.members \in SUBSET Member /\ 5 \in 1 .. PLAYER_BACKUP_VERSION
    BY <1>8, <1>9, <1>10 DEF PLAYER_BACKUP_VERSION
  <2>2. [version |-> 5, players |-> doc.players, listed |-> TRUE, lists |-> doc.lists,
         members |-> doc.members] \in Document
    BY <2>1 DEF Document
  <2> QED BY <2>2, <1>2
<1>12. IsFiniteSet(doc.players)
  <2> DEFINE f == [p \in 1 .. n |-> PlayerEntry(d.players[p], p \in d.rostered)]
  <2>1. f \in [1 .. n -> Entry]
    <3> SUFFICES ASSUME NEW p \in 1 .. n PROVE PlayerEntry(d.players[p], p \in d.rostered) \in Entry
      OBVIOUS
    <3> QED BY <1>4, EntryOfRow
  <2>2. doc.players \in SUBSET {f[p] : p \in 1 .. n}
    BY <1>5
  <2> HIDE DEF f
  <2> QED BY <2>1, <2>2, <1>3, ImageOfPlaces
<1>13. IsFiniteSet(doc.lists)
  <2> DEFINE f == [l \in 1 .. k |-> ListEntry(d.lists[l])]
  <2>1. f \in [1 .. k -> Lane]
    BY <1>3 DEF ListEntry, ListRow, Lane
  <2>2. doc.lists \in SUBSET {f[l] : l \in 1 .. k}
    BY <1>6
  <2> HIDE DEF f
  <2> QED BY <2>1, <2>2, <1>3, ImageOfPlaces
<1>14. \A e, f \in doc.lists : e.name = f.name \/ (e.isDefault /\ f.isDefault) => e = f
  <2> SUFFICES ASSUME NEW e \in doc.lists, NEW f \in doc.lists,
                      e.name = f.name \/ (e.isDefault /\ f.isDefault)
               PROVE  e = f
    OBVIOUS
  <2>1. PICK i \in 1 .. k : d.lists[i].live /\ e = ListEntry(d.lists[i])
    BY <1>6
  <2>2. PICK j \in 1 .. k : d.lists[j].live /\ f = ListEntry(d.lists[j])
    BY <1>6
  <2>3. /\ e.name = d.lists[i].name /\ e.isDefault = d.lists[i].isDefault
        /\ f.name = d.lists[j].name /\ f.isDefault = d.lists[j].isDefault
    BY <2>1, <2>2 DEF ListEntry
  <2>4. i = j
    BY <2>1, <2>2, <2>3, <1>1, <1>3 DEF ListsAccepted, LiveNamesUnique, OneLiveDefault
  <2> QED BY <2>1, <2>2, <2>4
<1>15. WellFormed(doc)
  BY <1>2, <1>11, <1>12, <1>13, <1>14 DEF WellFormed
<1>16. Cardinality({l \in doc.lists : l.isDefault}) <= 1
  <2> DEFINE D == {l \in doc.lists : l.isDefault}
  <2>1. \A x, y \in D : x = y
    BY <1>14
  <2> HIDE DEF D
  <2>2. Cardinality(D) <= 1
    BY <2>1, NoTwo
  <2> QED BY <2>2 DEF D
<1>17. \A e, f \in doc.players : e # f => \A i \in Carried(e) : e[i] # f[i]
  <2> SUFFICES ASSUME NEW e \in doc.players, NEW f \in doc.players, e # f, NEW i \in Carried(e)
               PROVE  e[i] # f[i]
    OBVIOUS
  <2>1. PICK p \in 1 .. n : e = PlayerEntry(d.players[p], p \in d.rostered)
    BY <1>5
  <2>2. PICK q \in 1 .. n : f = PlayerEntry(d.players[q], q \in d.rostered)
    BY <1>5
  <2>3. p # q
    BY <2>1, <2>2
  <2>4. /\ e.ext = d.players[p].ext /\ e.seq = d.players[p].seq /\ e.hl = d.players[p].hl
        /\ f.ext = d.players[q].ext /\ f.seq = d.players[q].seq /\ f.hl = d.players[q].hl
    BY <2>1, <2>2 DEF PlayerEntry
  <2>5. /\ e.ext # Null => e.ext # f.ext
        /\ e.seq # Null => e.seq # f.seq
        /\ e.hl # Null => e.hl # f.hl
    BY <2>3, <2>4, <1>1, <1>3 DEF PlayersAccepted, UniqueIds
  <2>6. \/ i = "ext" /\ e.ext # Null
        \/ i = "seq" /\ e.seq # Null
        \/ i = "hl" /\ e.hl # Null
    BY CarriedIs
  <2> QED BY <2>5, <2>6
<1>18. \A l \in doc.lists : LaneAccepted(doc.version, l)
  BY <1>2 DEF LaneAccepted
<1>19. parsePlayerListBackup(doc)
  BY <1>2, <1>8, <1>10, <1>16, <1>17, <1>18 DEF parsePlayerListBackup
<1> QED BY <1>15, <1>19 DEF doc

\* What is in a backup.
LEMMA ExportIs ==
    ASSUME NEW s
    PROVE  /\ Export(s).version = 5 /\ Export(s).listed = TRUE
           /\ Export(s).players = {PlayerEntry(s.players[p], p \in s.rostered) : p \in DOMAIN s.players}
           /\ Export(s).lists = {ListEntry(s.lists[l]) : l \in {k \in DOMAIN s.lists : s.lists[k].live}}
           /\ Export(s).members = {MemberEntry(s.lists[m[1]], s.players[m[2]]) :
                                     m \in {n \in s.members : s.lists[n[1]].live}}
           /\ \A doc : /\ doc.players = Export(s).players /\ doc.lists = Export(s).lists
                       /\ doc.members = Export(s).members
                       /\ doc = [version |-> 5, players |-> doc.players, listed |-> TRUE,
                                 lists |-> doc.lists, members |-> doc.members]
                       => Export(s) = doc
BY DEF Export, Backup, PlayersOf, ListsOf, MembersOf, PLAYER_BACKUP_VERSION

\* A backup restored into an empty database, or where it was taken, finds every list and
\* player it names, and a backup of the outcome is the backup again.
LEMMA BackAgain ==
    ASSUME NEW s, Sound(s), \A l \in DOMAIN s.lists : usableRecipient(s.lists[l].digestTo),
           NEW d, Sound(d), d = s \/ (DOMAIN d.players = {} /\ DOMAIN d.lists = {} /\ d.members = {})
    PROVE  Export(Restored(d, Export(s))) = Export(s)
<1> DEFINE doc == Export(s)
           w == Remade(d, doc)
           e == Restored(d, doc)
<1>1. WellFormed(doc) /\ parsePlayerListBackup(doc)
  BY ExportParses
<1>2. /\ doc.version = 5 /\ doc.listed
      /\ doc.players = {PlayerEntry(s.players[p], p \in s.rostered) : p \in DOMAIN s.players}
      /\ doc.lists = {ListEntry(s.lists[l]) : l \in {k \in DOMAIN s.lists : s.lists[k].live}}
      /\ doc.members = {MemberEntry(s.lists[m[1]], s.players[m[2]]) :
                          m \in {n \in s.members : s.lists[n[1]].live}}
  BY ExportIs
<1>3. doc = [version |-> 5, players |-> doc.players, listed |-> TRUE, lists |-> doc.lists,
             members |-> doc.members]
  BY DEF Export, Backup, PLAYER_BACKUP_VERSION
<1> HIDE DEF doc, w, e
<1>4. Consistent(s) /\ PlayersAccepted(s.players) /\ ListsAccepted(s.lists)
      /\ Consistent(d) /\ PlayersAccepted(d.players) /\ ListsAccepted(d.lists)
  BY DEF Sound
<1>5. \A p \in DOMAIN s.players : /\ s.players[p] \in PlayerRow
                                  /\ identityStateCheck(s.players[p]) /\ activeIdentityCheck(s.players[p])
  BY <1>4, Columns DEF PlayersAccepted
<1> DEFINE E(p) == PlayerEntry(s.players[p], p \in s.rostered)
<1>6. \A p \in DOMAIN s.players :
        /\ E(p) \in doc.players
        /\ E(p).ext = s.players[p].ext /\ E(p).seq = s.players[p].seq /\ E(p).hl = s.players[p].hl
        /\ E(p).rostered # Null /\ (E(p).rostered <=> p \in s.rostered)
        /\ RowOf(doc, E(p)) = s.players[p]
  <2> SUFFICES ASSUME NEW p \in DOMAIN s.players
               PROVE  /\ E(p) \in doc.players
                      /\ E(p).ext = s.players[p].ext /\ E(p).seq = s.players[p].seq /\ E(p).hl = s.players[p].hl
                      /\ E(p).rostered # Null /\ (E(p).rostered <=> p \in s.rostered)
                      /\ RowOf(doc, E(p)) = s.players[p]
    OBVIOUS
  <2>1. E(p) \in doc.players
    BY <1>2
  <2>2. E(p).ext = s.players[p].ext /\ E(p).seq = s.players[p].seq /\ E(p).hl = s.players[p].hl
    BY DEF PlayerEntry
  <2>3. E(p).rostered # Null /\ (E(p).rostered <=> p \in s.rostered)
    BY <1>5, EntryOfRow
  <2>4. RowOf(doc, E(p)) = s.players[p]
    <3> DEFINE b == p \in s.rostered
    <3>1. E(p) = PlayerEntry(s.players[p], b) /\ b \in BOOLEAN
      OBVIOUS
    <3> HIDE DEF b, E
    <3>2. RowOf(doc, PlayerEntry(s.players[p], b)) = s.players[p]
      BY <3>1, <1>5, EntryIsTheRow
    <3> QED BY <3>1, <3>2
  <2> QED BY <2>1, <2>2, <2>3, <2>4
<1>7. \A x \in doc.players : \E p \in DOMAIN s.players : x = E(p)
  BY <1>2
<1> HIDE DEF E
\* No two rows of s share an identity, and every one has one.
<1>8. \A p, q \in DOMAIN s.players :
        \/ s.players[p].ext # Null /\ s.players[p].ext = s.players[q].ext
        \/ s.players[p].seq # Null /\ s.players[p].seq = s.players[q].seq
        \/ s.players[p].hl # Null /\ s.players[p].hl = s.players[q].hl
        => p = q
  BY <1>4 DEF PlayersAccepted, UniqueIds
<1>9. \A p \in DOMAIN s.players : s.players[p].ext # Null \/ s.players[p].seq # Null \/ s.players[p].hl # Null
  BY <1>5 DEF identityStateCheck
<1>10. ASSUME d = s, NEW p \in DOMAIN s.players PROVE Targets(d, E(p)) = {p}
  BY <1>6, <1>8, <1>9, <1>10, TargetsAre
<1>11. ASSUME DOMAIN d.players = {}, NEW x PROVE Targets(d, x) = {}
  BY <1>11 DEF Targets
<1>12. EntriesResolve(d, doc)
  <2>1. CASE d = s
    <3>1. \A x \in doc.players : Cardinality(Targets(d, x)) <= 1
      <4> SUFFICES ASSUME NEW x \in doc.players PROVE Cardinality(Targets(d, x)) <= 1
        OBVIOUS
      <4>1. PICK p \in DOMAIN s.players : Targets(d, x) = {p}
        BY <2>1, <1>7, <1>10
      <4>2. \A y, z \in Targets(d, x) : y = z
        BY <4>1
      <4> QED BY <4>2, NoTwo
    <3>2. \A x, y \in doc.players : x # y => Targets(d, x) \cap Targets(d, y) = {}
      <4> SUFFICES ASSUME NEW x \in doc.players, NEW y \in doc.players, x # y
                   PROVE  Targets(d, x) \cap Targets(d, y) = {}
        OBVIOUS
      <4>1. PICK p \in DOMAIN s.players : x = E(p) /\ Targets(d, x) = {p}
        BY <2>1, <1>7, <1>10
      <4>2. PICK q \in DOMAIN s.players : y = E(q) /\ Targets(d, y) = {q}
        BY <2>1, <1>7, <1>10
      <4>3. p # q
        BY <4>1, <4>2
      <4> QED BY <4>1, <4>2, <4>3
    <3> QED BY <3>1, <3>2 DEF EntriesResolve
  <2>2. CASE DOMAIN d.players = {}
    <3>1. \A x : Targets(d, x) = {}
      BY <2>2, <1>11
    <3>2. Cardinality({}) <= 1
      BY FS_EmptySet
    <3> QED BY <3>1, <3>2 DEF EntriesResolve
  <2> QED BY <2>1, <2>2
<1>13. Sound(w) /\ w.members = d.members /\ Listed(d.lists, doc, w.lists)
  BY <1>1, <1>2, <1>12, Remaking DEF w
<1>14. PICK S, of : Landed(d, doc, w, S, of)
  BY <1>1, <1>12, Remaking DEF w
<1>15. S = DOMAIN w.players
  <2>1. S \subseteq DOMAIN w.players
    BY <1>14 DEF Landed
  <2>2. ASSUME NEW p \in DOMAIN w.players, p \notin S PROVE FALSE
    <3>1. p \in DOMAIN d.players
      BY <2>2, <1>14 DEF Landed
    <3>2. d = s
      BY <3>1
    <3>3. PICK q \in S : of[q] = E(p)
      BY <3>1, <3>2, <1>6, <1>14 DEF Landed
    <3>4. Targets(d, of[q]) = {p}
      BY <3>1, <3>2, <3>3, <1>10
    <3>5. Targets(d, of[q]) \subseteq {q}
      BY <1>14 DEF Landed
    <3> QED BY <2>2, <3>4, <3>5
  <2> QED BY <2>1, <2>2
\* The rows are those of s, under other ids perhaps.
<1>16. \A p \in DOMAIN w.players : \E q \in DOMAIN s.players :
         of[p] = E(q) /\ w.players[p] = s.players[q] /\ (p \in w.rostered <=> q \in s.rostered)
  <2> SUFFICES ASSUME NEW p \in DOMAIN w.players
               PROVE  \E q \in DOMAIN s.players :
                        of[p] = E(q) /\ w.players[p] = s.players[q] /\ (p \in w.rostered <=> q \in s.rostered)
    OBVIOUS
  <2>1. p \in S /\ of[p] \in doc.players /\ w.players[p] = RowOf(doc, of[p])
        /\ (of[p].rostered # Null => (p \in w.rostered <=> of[p].rostered))
    BY <1>14, <1>15 DEF Landed
  <2>2. PICK q \in DOMAIN s.players : of[p] = E(q)
    BY <2>1, <1>7
  <2>3. (of[p].rostered <=> q \in s.rostered) /\ of[p].rostered # Null
    BY <2>2, <1>6
  <2> QED BY <2>1, <2>2, <2>3, <1>6
<1>17. \A q \in DOMAIN s.players : \E p \in DOMAIN w.players :
         w.players[p] = s.players[q] /\ (p \in w.rostered <=> q \in s.rostered)
  <2> SUFFICES ASSUME NEW q \in DOMAIN s.players
               PROVE  \E p \in DOMAIN w.players :
                        w.players[p] = s.players[q] /\ (p \in w.rostered <=> q \in s.rostered)
    OBVIOUS
  <2>1. PICK p \in S : of[p] = E(q)
    BY <1>6, <1>14 DEF Landed
  <2>2. w.players[p] = RowOf(doc, E(q)) /\ (E(q).rostered # Null => (p \in w.rostered <=> E(q).rostered))
    BY <2>1, <1>14 DEF Landed
  <2>3. (E(q).rostered <=> q \in s.rostered) /\ E(q).rostered # Null
    BY <1>6
  <2> QED BY <2>2, <2>3, <1>6, <1>15
<1>18. d = s => \A p \in DOMAIN s.players : p \in DOMAIN w.players /\ w.players[p] = s.players[p]
  <2> SUFFICES ASSUME d = s, NEW p \in DOMAIN s.players PROVE p \in DOMAIN w.players /\ w.players[p] = s.players[p]
    OBVIOUS
  <2>1. p \in DOMAIN w.players /\ Targets(d, of[p]) = {p}
    BY <1>14, <1>15 DEF Landed
  <2>2. PICK q \in DOMAIN s.players : of[p] = E(q) /\ w.players[p] = s.players[q]
    BY <2>1, <1>16
  <2>3. q = p
    BY <2>1, <2>2, <1>10
  <2> QED BY <2>1, <2>2, <2>3
\* The lists are those of s that are live.
<1>19. \A l \in DOMAIN s.lists : /\ s.lists[l] \in ListRow
                                 /\ ListEntry(s.lists[l]).name = s.lists[l].name
                                 /\ s.lists[l].live => ListEntry(s.lists[l]) \in doc.lists
                                 /\ ListEntry(ListOf(ListEntry(s.lists[l]))) = ListEntry(s.lists[l])
  <2> SUFFICES ASSUME NEW l \in DOMAIN s.lists
               PROVE  /\ s.lists[l] \in ListRow
                      /\ ListEntry(s.lists[l]).name = s.lists[l].name
                      /\ s.lists[l].live => ListEntry(s.lists[l]) \in doc.lists
                      /\ ListEntry(ListOf(ListEntry(s.lists[l]))) = ListEntry(s.lists[l])
    OBVIOUS
  <2>1. s.lists[l] \in ListRow
    BY <1>4, Columns
  <2>2. ListEntry(s.lists[l]).name = s.lists[l].name
    BY DEF ListEntry
  <2>3. s.lists[l].live => ListEntry(s.lists[l]) \in doc.lists
    BY <1>2
  <2>4. s.lists[l].digestTo # "-"
    BY DEF usableRecipient
  <2>5. ListEntry(ListOf(ListEntry(s.lists[l]))) = ListEntry(s.lists[l])
    BY <2>4 DEF ListEntry, ListOf, writableDigestTo
  <2> QED BY <2>1, <2>2, <2>3, <2>5
<1>20. \A x \in doc.lists : /\ \E l \in DOMAIN s.lists : s.lists[l].live /\ x = ListEntry(s.lists[l])
                            /\ ListEntry(ListOf(x)) = x /\ ListOf(x).live /\ ListOf(x).name = x.name
  <2> SUFFICES ASSUME NEW x \in doc.lists
               PROVE  /\ \E l \in DOMAIN s.lists : s.lists[l].live /\ x = ListEntry(s.lists[l])
                      /\ ListEntry(ListOf(x)) = x /\ ListOf(x).live /\ ListOf(x).name = x.name
    OBVIOUS
  <2>1. PICK l \in DOMAIN s.lists : s.lists[l].live /\ x = ListEntry(s.lists[l])
    BY <1>2
  <2>2. ListOf(x).live /\ ListOf(x).name = x.name
    BY DEF ListOf
  <2> QED BY <2>1, <2>2, <1>19
<1>21. \A k \in DOMAIN w.lists : w.lists[k].live => \E x \in doc.lists : w.lists[k] = ListOf(x)
  <2> SUFFICES ASSUME NEW k \in DOMAIN w.lists, w.lists[k].live
               PROVE  \E x \in doc.lists : w.lists[k] = ListOf(x)
    OBVIOUS
  <2>1. \/ \E x \in doc.lists : w.lists[k] = ListOf(x)
        \/ k \in DOMAIN d.lists /\ d.lists[k].live /\ \A x \in doc.lists : x.name # d.lists[k].name
    BY <1>13, Zenon DEF Listed
  <2>2. k \in DOMAIN d.lists /\ d.lists[k].live => \E x \in doc.lists : x.name = d.lists[k].name
    BY <1>19
  <2> QED BY <2>1, <2>2
<1>22. \A x \in doc.lists : \E k \in DOMAIN w.lists : w.lists[k] = ListOf(x)
  BY <1>13 DEF Listed
<1>23. \A l \in DOMAIN s.lists : s.lists[l].live =>
         \E k \in DOMAIN w.lists : w.lists[k].live /\ w.lists[k].name = s.lists[l].name
  <2> SUFFICES ASSUME NEW l \in DOMAIN s.lists, s.lists[l].live
               PROVE  \E k \in DOMAIN w.lists : w.lists[k].live /\ w.lists[k].name = s.lists[l].name
    OBVIOUS
  <2>1. ListEntry(s.lists[l]) \in doc.lists /\ ListEntry(s.lists[l]).name = s.lists[l].name
    BY <1>19
  <2> QED BY <2>1, <1>20, <1>22
\* A member's row is the one row with its identity.
<1>24. ASSUME NEW q \in DOMAIN s.players, NEW l, NEW p \in DOMAIN w.players,
              p \in Targets(w, MemberEntry(l, s.players[q]))
       PROVE  w.players[p] = s.players[q]
  <2> DEFINE m == MemberEntry(l, s.players[q])
  <2>1. PICK x \in DOMAIN s.players : w.players[p] = s.players[x]
    BY <1>16
  <2>2. /\ m.ext = s.players[q].ext /\ m.seq \in {s.players[q].seq, Null}
        /\ m.hl \in {s.players[q].hl, Null}
    BY <1>5, MemberIsTheRow
  <2> HIDE DEF m
  <2>3. p \in Targets(w, m)
    BY <1>24 DEF m
  <2>4. \/ m.ext # Null /\ s.players[x].ext = m.ext
        \/ m.seq # Null /\ s.players[x].seq = m.seq
        \/ m.hl # Null /\ s.players[x].hl = m.hl
    BY <2>1, <2>3, TargetsAre
  <2>5. x = q
    BY <2>2, <2>4, <1>8
  <2> QED BY <2>1, <2>5
<1>25. ASSUME NEW q \in DOMAIN s.players, NEW l, NEW p \in DOMAIN w.players,
              w.players[p] = s.players[q]
       PROVE  p \in Targets(w, MemberEntry(l, s.players[q]))
  <2> DEFINE m == MemberEntry(l, s.players[q])
  <2>1. /\ m.ext = s.players[q].ext /\ m.seq \in {s.players[q].seq, Null}
        /\ m.hl \in {s.players[q].hl, Null}
        /\ m.ext # Null \/ m.seq # Null \/ m.hl # Null
    BY <1>5, MemberIsTheRow
  <2> HIDE DEF m
  <2>2. p \in Targets(w, m)
    BY <1>25, <2>1, TargetsAre
  <2> QED BY <2>2 DEF m
<1>26. \A x \in s.members : x[1] \in DOMAIN s.lists /\ x[2] \in DOMAIN s.players /\ x = <<x[1], x[2]>>
  BY <1>4, Columns
<1>27. \A m \in doc.members : \E x \in s.members :
         s.lists[x[1]].live /\ m = MemberEntry(s.lists[x[1]], s.players[x[2]])
         /\ m.list = s.lists[x[1]].name
  <2> SUFFICES ASSUME NEW m \in doc.members
               PROVE  \E x \in s.members :
                        s.lists[x[1]].live /\ m = MemberEntry(s.lists[x[1]], s.players[x[2]])
                        /\ m.list = s.lists[x[1]].name
    OBVIOUS
  <2>1. PICK x \in s.members : s.lists[x[1]].live /\ m = MemberEntry(s.lists[x[1]], s.players[x[2]])
    BY <1>2
  <2>2. m.list = s.lists[x[1]].name
    BY <2>1 DEF MemberEntry
  <2> QED BY <2>1, <2>2
<1>28. MembersResolve(w, doc)
  <2> SUFFICES ASSUME NEW m \in doc.members
               PROVE  ListNamed(w.lists, m.list) # {} /\ Targets(w, m) # {}
    BY DEF MembersResolve
  <2>1. PICK x \in s.members : s.lists[x[1]].live /\ m = MemberEntry(s.lists[x[1]], s.players[x[2]])
                               /\ m.list = s.lists[x[1]].name
    BY <1>27
  <2>2. ListNamed(w.lists, m.list) # {}
    BY <2>1, <1>23, <1>26 DEF ListNamed
  <2>3. PICK p \in DOMAIN w.players : w.players[p] = s.players[x[2]]
    BY <2>1, <1>17, <1>26
  <2>4. p \in Targets(w, m)
    BY <2>1, <2>3, <1>25, <1>26
  <2> QED BY <2>2, <2>4
<1>29. e = WithMembers(w, doc)
  BY <1>12, <1>28 DEF e, w, Restored, Remade
<1> DEFINE added == UNION {ListNamed(w.lists, m.list) \X Targets(w, m) : m \in doc.members}
<1>30. e.players = w.players /\ e.lists = w.lists /\ e.rostered = w.rostered /\ e.members = w.members \cup added
  <2>1. e = [w EXCEPT !.members = w.members \cup added]
    BY <1>29 DEF WithMembers
  <2> HIDE DEF added
  <2>2. w \in Tables
    BY <1>13 DEF Sound, Consistent
  <2> QED BY <2>1, <2>2 DEF Tables
\* A row of s's entry, written from any of the two tables.
<1>31. Export(e).players = doc.players
  <2>1. \A p \in DOMAIN w.players : PlayerEntry(w.players[p], p \in w.rostered) \in doc.players
    <3> SUFFICES ASSUME NEW p \in DOMAIN w.players
                 PROVE  PlayerEntry(w.players[p], p \in w.rostered) \in doc.players
      OBVIOUS
    <3>1. PICK q \in DOMAIN s.players : w.players[p] = s.players[q] /\ (p \in w.rostered <=> q \in s.rostered)
      BY <1>16
    <3>2. PlayerEntry(w.players[p], p \in w.rostered) = E(q)
      BY <3>1 DEF E
    <3> QED BY <3>2, <1>6
  <2>2. \A x \in doc.players : \E p \in DOMAIN w.players : x = PlayerEntry(w.players[p], p \in w.rostered)
    <3> SUFFICES ASSUME NEW x \in doc.players
                 PROVE  \E p \in DOMAIN w.players : x = PlayerEntry(w.players[p], p \in w.rostered)
      OBVIOUS
    <3>1. PICK q \in DOMAIN s.players : x = E(q)
      BY <1>7
    <3>2. PICK p \in DOMAIN w.players : w.players[p] = s.players[q] /\ (p \in w.rostered <=> q \in s.rostered)
      BY <1>17
    <3>3. PlayerEntry(w.players[p], p \in w.rostered) = E(q)
      BY <3>2 DEF E
    <3> QED BY <3>1, <3>3
  <2>3. Export(e).players = PlayersOf(w.players, w.rostered)
    BY <1>30 DEF Export, Backup
  <2> QED BY <2>1, <2>2, <2>3 DEF PlayersOf
<1>32. Export(e).lists = doc.lists
  <2>1. \A k \in DOMAIN e.lists : e.lists[k].live => ListEntry(e.lists[k]) \in doc.lists
    BY <1>20, <1>21, <1>30
  <2>2. \A x \in doc.lists : \E k \in DOMAIN e.lists : e.lists[k].live /\ x = ListEntry(e.lists[k])
    BY <1>20, <1>22, <1>30
  <2>3. Export(e).lists = ListsOf(e)
    BY DEF Export, Backup
  <2> QED BY <2>1, <2>2, <2>3 DEF ListsOf
<1>33. \A m \in doc.members : \A l \in ListNamed(w.lists, m.list), p \in Targets(w, m) :
         MemberEntry(w.lists[l], w.players[p]) = m
  <2> SUFFICES ASSUME NEW m \in doc.members, NEW l \in ListNamed(w.lists, m.list), NEW p \in Targets(w, m)
               PROVE  MemberEntry(w.lists[l], w.players[p]) = m
    OBVIOUS
  <2>1. PICK x \in s.members : s.lists[x[1]].live /\ m = MemberEntry(s.lists[x[1]], s.players[x[2]])
                               /\ m.list = s.lists[x[1]].name
    BY <1>27
  <2>2. p \in DOMAIN w.players
    BY DEF Targets
  <2>3. w.players[p] = s.players[x[2]]
    BY <2>1, <2>2, <1>24, <1>26
  <2>4. w.lists[l].name = s.lists[x[1]].name
    BY <2>1 DEF ListNamed
  <2> QED BY <2>1, <2>3, <2>4 DEF MemberEntry
<1>34. \A x \in w.members : w.lists[x[1]].live => MemberEntry(w.lists[x[1]], w.players[x[2]]) \in doc.members
  <2> SUFFICES ASSUME NEW x \in w.members, w.lists[x[1]].live
               PROVE  MemberEntry(w.lists[x[1]], w.players[x[2]]) \in doc.members
    OBVIOUS
  <2>1. d = s /\ x \in s.members
    BY <1>13
  <2>2. x[1] \in DOMAIN s.lists /\ x[2] \in DOMAIN s.players
    BY <2>1, <1>26
  <2>3. w.players[x[2]] = s.players[x[2]]
    BY <2>1, <2>2, <1>18
  <2>4. x[1] \in DOMAIN w.lists
    BY <2>1, <2>2, <1>13 DEF Listed
  <2>5. PICK y \in doc.lists : /\ w.lists[x[1]] = ListOf(y)
                               /\ s.lists[x[1]].live /\ s.lists[x[1]].name = y.name
    <3>1. \/ \E y \in doc.lists : /\ w.lists[x[1]] = ListOf(y)
                                  /\ x[1] \in DOMAIN s.lists => s.lists[x[1]].live /\ s.lists[x[1]].name = y.name
          \/ s.lists[x[1]].live /\ \A y \in doc.lists : y.name # s.lists[x[1]].name
      BY <2>1, <2>4, <1>13, Zenon DEF Listed
    <3>2. s.lists[x[1]].live => \E y \in doc.lists : y.name = s.lists[x[1]].name
      BY <2>2, <1>19
    <3> QED BY <2>2, <3>1, <3>2
  <2>6. w.lists[x[1]].name = s.lists[x[1]].name
    BY <2>5, <1>20
  <2>7. MemberEntry(w.lists[x[1]], w.players[x[2]]) = MemberEntry(s.lists[x[1]], s.players[x[2]])
    BY <2>3, <2>6 DEF MemberEntry
  <2>8. MemberEntry(s.lists[x[1]], s.players[x[2]]) \in doc.members
    BY <2>1, <2>5, <1>2
  <2> QED BY <2>7, <2>8
<1>35. Export(e).members = doc.members
  <2>1. Export(e).members = MembersOf(e)
    BY DEF Export, Backup
  <2>2. ASSUME NEW x \in added, w.lists[x[1]].live
        PROVE  MemberEntry(w.lists[x[1]], w.players[x[2]]) \in doc.members
    <3>1. PICK m \in doc.members : x \in ListNamed(w.lists, m.list) \X Targets(w, m)
      OBVIOUS
    <3>2. x[1] \in ListNamed(w.lists, m.list) /\ x[2] \in Targets(w, m)
      BY <3>1
    <3> QED BY <3>2, <1>33
  <2>3. ASSUME NEW m \in doc.members
        PROVE  \E x \in added : w.lists[x[1]].live /\ MemberEntry(w.lists[x[1]], w.players[x[2]]) = m
    <3>1. PICK l \in ListNamed(w.lists, m.list), p \in Targets(w, m) : TRUE
      BY <1>28 DEF MembersResolve
    <3>2. <<l, p>> \in added /\ <<l, p>>[1] = l /\ <<l, p>>[2] = p
      BY <3>1
    <3>3. w.lists[l].live
      BY <3>1 DEF ListNamed
    <3>4. MemberEntry(w.lists[l], w.players[p]) = m
      BY <1>33
    <3> HIDE DEF added
    <3> QED BY <3>2, <3>3, <3>4
  <2> HIDE DEF added
  <2>4. \A x \in w.members \cup added : w.lists[x[1]].live =>
          MemberEntry(w.lists[x[1]], w.players[x[2]]) \in doc.members
    BY <1>34, <2>2
  <2>5. MembersOf(e) \subseteq doc.members
    BY <2>4, <1>30 DEF MembersOf
  <2>6. doc.members \subseteq MembersOf(e)
    BY <2>3, <1>30 DEF MembersOf
  <2> QED BY <2>1, <2>5, <2>6
<1>36. Export(e) = doc
  BY <1>3, <1>31, <1>32, <1>35 DEF Export, Backup, PLAYER_BACKUP_VERSION
<1> QED BY <1>36 DEF e, doc

LEMMA EmptyIsSound ==
    Sound(EmptyDb) /\ DOMAIN EmptyDb.players = {} /\ DOMAIN EmptyDb.lists = {} /\ EmptyDb.members = {}
BY DEF Sound, Consistent, EmptyDb, Tables, PlayersAccepted, UniqueIds, ListsAccepted, LiveNamesUnique,
       OneLiveDefault

\* Backups of sound tables with usable recipients lose nothing on the way.
LEMMA Returns ==
    ASSUME NEW s, Sound(s), \A l \in DOMAIN s.lists : usableRecipient(s.lists[l].digestTo)
    PROVE  /\ parsePlayerListBackup(Export(s))
           /\ Export(Restored(EmptyDb, Export(s))) = Export(s)
           /\ Export(Restored(s, Export(s))) = Export(s)
<1>1. Export(Restored(EmptyDb, Export(s))) = Export(s)
  BY EmptyIsSound, BackAgain
<1>2. Export(Restored(s, Export(s))) = Export(s)
  BY BackAgain
<1> QED BY <1>1, <1>2, ExportParses
=============================================================================
