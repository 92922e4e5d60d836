----------------------------- MODULE ReportProofs -----------------------------
(***************************************************************************)
(* Proofs about the reports, for any players, lines, calendars and         *)
(* requests and any number of changes.                                     *)
(***************************************************************************)
EXTENDS ReportSpec, TLAPS, FiniteSetTheorems, WellFoundedInduction

(***************************************************************************)
(* Finite sets and numbers.                                                *)
(***************************************************************************)
LEMMA Least ==
    ASSUME NEW S, S \subseteq Nat, S # {}
    PROVE  \E n \in S : \A m \in S : n <= m
<1> DEFINE R == {ss \in Nat \X Nat : ss[1] < ss[2]}
<1>1. IsWellFoundedOn(R, Nat)
  BY NatLessThanWellFounded DEF OpToRel
<1>2. PICK n \in S : \A m \in S : ~ (<<m, n>> \in R)
  <2> HIDE DEF R
  <2> QED BY <1>1, WFMin
<1>3. ASSUME NEW m \in S PROVE n <= m
  <2>1. n \in Nat /\ m \in Nat
    OBVIOUS
  <2>2. ~ (<<m, n>> \in R)
    BY <1>2
  <2> QED BY <2>1, <2>2
<1> QED BY <1>3

\* Induction on a finite set: what holds of the empty one and is kept by every further element.
LEMMA SetInduction ==
    ASSUME NEW S, IsFiniteSet(S), NEW T, {} \in T,
           \A U \in SUBSET S, x \in S : U \in T /\ x \notin U => U \cup {x} \in T
    PROVE  S \in T
<1> DEFINE N == {n \in Nat : \E U \in SUBSET S : Cardinality(U) = n /\ U \notin T}
<1>1. SUFFICES ASSUME S \notin T PROVE FALSE
  OBVIOUS
<1>2. Cardinality(S) \in N
  BY <1>1, FS_CardinalityType
<1>3. PICK n \in N : \A m \in N : n <= m
  BY <1>2, Least
<1>4. PICK U \in SUBSET S : Cardinality(U) = n /\ U \notin T
  OBVIOUS
<1>5. PICK x \in U : TRUE
  BY <1>4
<1>6. IsFiniteSet(U)
  BY FS_Subset
<1>7. n \in Nat /\ Cardinality(U \ {x}) = n - 1 /\ Cardinality(U \ {x}) \in Nat
  <2>1. IsFiniteSet(U \ {x}) /\ Cardinality(U \ {x}) = Cardinality(U) - 1
    BY <1>6, FS_RemoveElement
  <2> QED BY <2>1, <1>4, FS_CardinalityType
<1>8. (U \ {x}) \in T
  <2>1. CASE (U \ {x}) \notin T
    <3>1. n - 1 \in N
      BY <2>1, <1>7
    <3> QED BY <3>1, <1>3, <1>7
  <2> QED BY <2>1
<1>9. (U \ {x}) \cup {x} \in T
  BY <1>8
<1>10. (U \ {x}) \cup {x} = U
  OBVIOUS
<1> QED BY <1>9, <1>10, <1>4

LEMMA Greatest ==
    ASSUME NEW S, S \subseteq Nat, S # {}, IsFiniteSet(S)
    PROVE  \E n \in S : \A m \in S : m <= n
<1> DEFINE T == {U \in SUBSET S : U = {} \/ \E n \in U : \A m \in U : m <= n}
<1>1. {} \in T
  OBVIOUS
<1>2. ASSUME NEW U \in SUBSET S, NEW x \in S, U \in T PROVE U \cup {x} \in T
  <2>1. CASE U = {}
    BY <2>1
  <2>2. ASSUME NEW n \in U, \A m \in U : m <= n PROVE U \cup {x} \in T
    <3>1. CASE x <= n
      BY <2>2, <3>1
    <3>2. CASE n <= x
      <4>1. \A m \in U \cup {x} : m <= x
        BY <2>2, <3>2
      <4> QED BY <4>1
    <3> QED BY <3>1, <3>2
  <2> QED BY <1>2, <2>1, <2>2
<1>3. S \in T
  <2> HIDE DEF T
  <2> QED BY <1>1, <1>2, SetInduction
<1> QED BY <1>3

LEMMA EarliestIs ==
    ASSUME NEW S, S \subseteq Nat, S # {}
    PROVE  Earliest(S) \in S /\ \A e \in S : Earliest(S) <= e
BY Least DEF Earliest

LEMMA LatestIs ==
    ASSUME NEW S, S \subseteq Nat, S # {}, IsFiniteSet(S)
    PROVE  Latest(S) \in S /\ \A e \in S : e <= Latest(S)
<1>1. \E n \in S : \A m \in S : m <= n
  BY Greatest
<1>2. \E n \in S : \A m \in S : n >= m
  BY <1>1
<1>3. Latest(S) \in S /\ \A m \in S : Latest(S) >= m
  BY <1>2 DEF Latest
<1> QED BY <1>3

LEMMA FiniteImage ==
    ASSUME NEW S, IsFiniteSet(S), NEW T, NEW f \in [S -> T]
    PROVE  IsFiniteSet({f[x] : x \in S})
<1>1. f \in Surjection(S, {f[x] : x \in S})
  BY DEF Surjection
<1> QED BY <1>1, FS_Surjection

(***************************************************************************)
(* Sleep.                                                                  *)
(***************************************************************************)
LEMMA CalendarsAre ==
    ASSUME NEW d \in Databases
    PROVE  /\ d.calendars \subseteq Calendars /\ IsFiniteSet(d.calendars)
           /\ d.lines \subseteq Pool /\ IsFiniteSet(d.lines)
           /\ d.active \subseteq Player /\ d.members \subseteq Player
           /\ d.sport \in [Player -> Sports \cup {Null}] /\ OneOfEach(d)
BY DEF Databases

LEMMA SameYear ==
    ASSUME NEW a \in Nat, NEW b \in Nat, NEW c \in Nat, a <= b, b <= c, Year(a) = Year(c)
    PROVE  Year(b) = Year(c)
BY SpansAssumption DEF Year

LEMMA Sleepless == db \in Databases /\ today \in Nat => NeverSleepsInSeason
<1> SUFFICES ASSUME db \in Databases, today \in Nat PROVE NeverSleepsInSeason
  OBVIOUS
<1> DEFINE watched == {db.sport[p] : p \in db.active}
           ofYear == {cal \in db.calendars : cal.season = Year(today)}
           ours == {cal \in ofYear : cal.sport \in watched \ {Null}}
           openings == {cal.start : cal \in ours} \ {Null}
           series == {cal.post : cal \in {c \in ofYear : c.sport = 1}} \ {Null}
           ends == {LastDay(cal) : cal \in ours} \ {Null}
           finals == IF series # {} THEN series ELSE ends
<1>1. SUFFICES ASSUME NEW sport \in watched, isInSeason(sport, db.calendars, today),
                      \A c, d \in ofYear : c.sport = 1 /\ c.post # Null => LastDay(d) <= c.post,
                      openings # {}, finals # {}
               PROVE  ~ (today < Earliest(openings)) /\ ~ (today > Latest(finals))
  BY DEF NeverSleepsInSeason, sleepWindow
<1>2. /\ \A cal \in db.calendars : cal.start \in Nat /\ cal.post \in Nat /\ cal.end \in Nat /\ LastDay(cal) \in Nat
      /\ IsFiniteSet(db.calendars) /\ IsFiniteSet(ofYear)
  BY CalendarsAre, CalendarAssumption, FS_Subset DEF LastDay
<1>3. PICK cal \in db.calendars : /\ sport # Null /\ cal.sport = sport
                                  /\ cal.start # Null /\ LastDay(cal) # Null
                                  /\ cal.start <= today /\ today <= LastDay(cal)
  BY <1>1, <1>2 DEF isInSeason, calendarHasUsableDates
<1>4. cal.season = Year(today)
  <2>1. Year(cal.start) = cal.season /\ Year(LastDay(cal)) = cal.season
    BY <1>3, CalendarsAre, CalendarAssumption
  <2>2. cal.start \in Nat /\ LastDay(cal) \in Nat /\ cal.start <= today /\ today <= LastDay(cal)
    BY <1>2, <1>3
  <2> QED BY <2>1, <2>2, SameYear
<1>5. cal \in ours
  BY <1>1, <1>3, <1>4
<1>6. openings \subseteq Nat /\ cal.start \in openings
  BY <1>2, <1>3, <1>5
<1>7. Earliest(openings) \in Nat /\ Earliest(openings) <= today
  <2> HIDE DEF openings
  <2>1. Earliest(openings) \in openings /\ Earliest(openings) <= cal.start
    BY <1>6, EarliestIs
  <2>2. Earliest(openings) \in Nat /\ cal.start \in Nat /\ cal.start <= today
    BY <2>1, <1>2, <1>3, <1>6
  <2> QED BY <2>1, <2>2
<1>8. IsFiniteSet(series) /\ series \subseteq Nat
  <2> DEFINE posts == [c \in ofYear |-> c.post]
  <2>1. posts \in [ofYear -> Nat]
    BY <1>2
  <2>2. IsFiniteSet({posts[c] : c \in ofYear})
    <3> HIDE DEF posts, ofYear
    <3> QED BY <1>2, <2>1, FiniteImage
  <2>3. series \subseteq {posts[c] : c \in ofYear}
    OBVIOUS
  <2> QED BY <1>2, <2>2, <2>3, FS_Subset
<1>9. IsFiniteSet(ends) /\ ends \subseteq Nat /\ LastDay(cal) \in ends
  <2> DEFINE lasts == [c \in ofYear |-> LastDay(c)]
  <2>1. lasts \in [ofYear -> Nat]
    BY <1>2
  <2>2. IsFiniteSet({lasts[c] : c \in ofYear})
    <3> HIDE DEF lasts, ofYear
    <3> QED BY <1>2, <2>1, FiniteImage
  <2>3. ends \subseteq {lasts[c] : c \in ofYear}
    OBVIOUS
  <2> QED BY <1>2, <1>3, <1>5, <2>2, <2>3, FS_Subset
<1>10. CASE series # {}
  <2>1. PICK c \in ofYear : c.sport = 1 /\ c.post # Null /\ c.post \in series
    BY <1>10
  <2>2. LastDay(cal) <= c.post
    BY <1>1, <1>5, <2>1
  <2>3. Latest(series) \in Nat /\ c.post <= Latest(series)
    <3> HIDE DEF series
    <3> QED BY <1>8, <1>10, <2>1, LatestIs
  <2>4. LastDay(cal) \in Nat /\ c.post \in Nat /\ today <= LastDay(cal)
    BY <1>2, <1>3, <2>1
  <2>5. today <= Latest(series)
    BY <2>2, <2>3, <2>4
  <2>6. finals = series
    BY <1>10
  <2> HIDE DEF openings, series, finals
  <2> QED BY <1>7, <2>3, <2>5, <2>6
<1>11. CASE series = {}
  <2>1. Latest(ends) \in Nat /\ LastDay(cal) <= Latest(ends)
    <3> HIDE DEF ends
    <3> QED BY <1>9, LatestIs
  <2>2. LastDay(cal) \in Nat /\ today <= LastDay(cal)
    BY <1>2, <1>3
  <2>3. today <= Latest(ends)
    BY <2>1, <2>2
  <2>4. finals = ends
    BY <1>11
  <2> HIDE DEF openings, ends, finals
  <2> QED BY <1>7, <2>1, <2>3, <2>4
<1> QED BY <1>10, <1>11

(***************************************************************************)
(* Sums over finite sets.                                                  *)
(***************************************************************************)
PickOf(s) == CHOOSE x \in s : TRUE

\* What the library's sum goes by: a value for every part of S.
IsSumOf(f, S, h) == h = [s \in SUBSET S |-> IF s = {} THEN 0 ELSE f[PickOf(s)] + h[s \ {PickOf(s)}]]

LEMMA Smaller ==
    ASSUME NEW S, IsFiniteSet(S), NEW s \in SUBSET S, NEW x \in s
    PROVE  /\ Cardinality(s) \in Nat /\ Cardinality(s \ {x}) \in Nat
           /\ Cardinality(s) = Cardinality(s \ {x}) + 1
<1>1. IsFiniteSet(s)
  BY FS_Subset
<1>2. IsFiniteSet(s \ {x}) /\ Cardinality(s \ {x}) = Cardinality(s) - 1
  BY <1>1, FS_RemoveElement
<1> QED BY <1>1, <1>2, FS_CardinalityType

LEMMA SumExists ==
    ASSUME NEW S, IsFiniteSet(S), NEW f \in [S -> Int]
    PROVE  \E h \in [SUBSET S -> Int] : IsSumOf(f, S, h)
<1> DEFINE Upto(n, h) == \A s \in SUBSET S : Cardinality(s) <= n =>
                            h[s] = IF s = {} THEN 0 ELSE f[PickOf(s)] + h[s \ {PickOf(s)}]
           N == {n \in Nat : ~ \E h \in [SUBSET S -> Int] : Upto(n, h)}
<1>0. \A s \in SUBSET S : IsFiniteSet(s) /\ Cardinality(s) \in Nat
  BY FS_Subset, FS_CardinalityType
<1>p. \A s \in SUBSET S : s # {} => /\ PickOf(s) \in s /\ f[PickOf(s)] \in Int
                                    /\ s \ {PickOf(s)} \in SUBSET S
                                    /\ Cardinality(s) = Cardinality(s \ {PickOf(s)}) + 1
  <2> TAKE s \in SUBSET S
  <2> HAVE s # {}
  <2>1. PickOf(s) \in s
    BY DEF PickOf
  <2> QED BY <2>1, Smaller
<1>1. ASSUME N # {} PROVE FALSE
  <2>1. PICK n \in N : \A m \in N : n <= m
    BY <1>1, Least
  <2>2. CASE n = 0
    <3> DEFINE h == [s \in SUBSET S |-> 0]
    <3>1. h \in [SUBSET S -> Int]
      OBVIOUS
    <3>2. \A s \in SUBSET S : Cardinality(s) <= 0 => s = {}
      BY <1>0, FS_EmptySet
    <3>3. Upto(0, h)
      BY <3>2
    <3> QED BY <2>2, <3>1, <3>3
  <2>3. CASE n # 0
    <3>1. n - 1 \in Nat /\ n - 1 \notin N
      <4>1. n \in Nat /\ n - 1 \in Nat /\ ~ (n <= n - 1)
        BY <2>3
      <4> HIDE DEF N
      <4> QED BY <2>1, <4>1
    <3>2. PICK g \in [SUBSET S -> Int] : Upto(n - 1, g)
      BY <3>1
    <3> DEFINE h == [s \in SUBSET S |-> IF s = {} THEN 0 ELSE f[PickOf(s)] + g[s \ {PickOf(s)}]]
    <3>3. h \in [SUBSET S -> Int]
      BY <1>p
    <3>4. \A s \in SUBSET S : Cardinality(s) <= n - 1 => h[s] = g[s]
      BY <3>2
    <3>5. Upto(n, h)
      <4> SUFFICES ASSUME NEW s \in SUBSET S, Cardinality(s) <= n, s # {}
                   PROVE  h[s] = f[PickOf(s)] + h[s \ {PickOf(s)}]
        OBVIOUS
      <4> DEFINE r == s \ {PickOf(s)}
      <4>1. r \in SUBSET S /\ Cardinality(r) <= n - 1
        BY <1>0, <1>p, <3>1
      <4>2. h[r] = g[r]
        BY <3>4, <4>1
      <4>3. h[s] = f[PickOf(s)] + g[r]
        OBVIOUS
      <4> QED BY <4>2, <4>3
    <3> QED BY <3>3, <3>5
  <2> QED BY <2>2, <2>3
<1>2. PICK h \in [SUBSET S -> Int] : Upto(Cardinality(S), h)
  BY <1>0, <1>1
<1>3. \A s \in SUBSET S : Cardinality(s) <= Cardinality(S)
  BY FS_Subset
<1>4. h = [s \in SUBSET S |-> IF s = {} THEN 0 ELSE f[PickOf(s)] + h[s \ {PickOf(s)}]]
  BY <1>2, <1>3
<1> QED BY <1>4 DEF IsSumOf

LEMMA SumIsOne ==
    ASSUME NEW S, IsFiniteSet(S), NEW f, NEW g, NEW h, IsSumOf(f, S, g), IsSumOf(f, S, h)
    PROVE  g = h
<1> DEFINE N == {n \in Nat : \E s \in SUBSET S : Cardinality(s) = n /\ g[s] # h[s]}
<1>1. ASSUME N # {} PROVE FALSE
  <2>1. PICK n \in N : \A m \in N : n <= m
    BY <1>1, Least
  <2>2. PICK s \in SUBSET S : Cardinality(s) = n /\ g[s] # h[s]
    BY <2>1
  <2>3. s # {}
    BY <2>2 DEF IsSumOf
  <2> DEFINE r == s \ {PickOf(s)}
  <2>4. PickOf(s) \in s
    BY <2>3 DEF PickOf
  <2>5. r \in SUBSET S /\ Cardinality(r) \in Nat /\ Cardinality(r) < n
    BY <2>2, <2>4, Smaller
  <2>6. g[r] = h[r]
    BY <2>1, <2>5
  <2>7. g[s] = f[PickOf(s)] + g[r] /\ h[s] = f[PickOf(s)] + h[r]
    BY <2>3 DEF IsSumOf
  <2> QED BY <2>2, <2>6, <2>7
<1>2. \A s \in SUBSET S : Cardinality(s) \in Nat
  BY FS_Subset, FS_CardinalityType
<1>3. \A s \in SUBSET S : g[s] = h[s]
  BY <1>1, <1>2
<1> QED BY <1>3 DEF IsSumOf

\* A sum, as a value for every part of S, is empty for none, and any element may be taken out.
IsTotal(f, S, h) ==
  /\ h \in [SUBSET S -> Int] /\ h[{}] = 0 /\ h[S] = SumFunctionOnSet(f, S)
  /\ \A s \in SUBSET S : \A x \in s : h[s] = f[x] + h[s \ {x}]

LEMMA SumIsTotal ==
    ASSUME NEW S, IsFiniteSet(S), NEW f \in [S -> Int]
    PROVE  \E h : IsTotal(f, S, h)
<1>1. PICK h \in [SUBSET S -> Int] : IsSumOf(f, S, h)
  BY SumExists
<1>2. h[S] = SumFunctionOnSet(f, S)
  <2>1. SumFunctionOnSet(f, S) = (CHOOSE g : IsSumOf(f, S, g))[S]
    BY DEF SumFunctionOnSet, FoldFunctionOnSet, MapThenFoldSet, IsSumOf, PickOf
  <2>2. \A g : IsSumOf(f, S, g) => g = h
    BY <1>1, SumIsOne
  <2>3. (CHOOSE g : IsSumOf(f, S, g)) = h
    BY <1>1, <2>2
  <2> QED BY <2>1, <2>3
<1>3. h[{}] = 0
  BY <1>1 DEF IsSumOf
<1>4. \A s \in SUBSET S : s # {} => PickOf(s) \in s /\ h[s] = f[PickOf(s)] + h[s \ {PickOf(s)}]
  BY <1>1 DEF IsSumOf, PickOf
<1> DEFINE N == {n \in Nat : \E s \in SUBSET S : Cardinality(s) = n /\ \E x \in s : h[s] # f[x] + h[s \ {x}]}
<1>5. ASSUME N # {} PROVE FALSE
  <2>1. PICK n \in N : \A m \in N : n <= m
    BY <1>5, Least
  <2>2. PICK s \in SUBSET S : Cardinality(s) = n /\ \E x \in s : h[s] # f[x] + h[s \ {x}]
    BY <2>1
  <2>3. PICK x \in s : h[s] # f[x] + h[s \ {x}]
    BY <2>2
  <2> DEFINE y == PickOf(s)
  <2>4. y \in s /\ h[s] = f[y] + h[s \ {y}]
    BY <1>4, <2>3
  <2>5. y # x
    BY <2>3, <2>4
  <2> HIDE DEF y
  <2>6. \A z \in s : \A w \in s \ {z} : h[s \ {z}] = f[w] + h[(s \ {z}) \ {w}]
    <3> TAKE z \in s
    <3>1. s \ {z} \in SUBSET S /\ Cardinality(s \ {z}) \in Nat /\ Cardinality(s \ {z}) < n
      BY <2>2, Smaller
    <3>2. Cardinality(s \ {z}) \notin N
      <4>1. n \in Nat
        OBVIOUS
      <4> HIDE DEF N
      <4> QED BY <2>1, <3>1, <4>1
    <3> QED BY <3>1, <3>2
  <2>7. h[s \ {x}] = f[y] + h[(s \ {x}) \ {y}] /\ h[s \ {y}] = f[x] + h[(s \ {y}) \ {x}]
    BY <2>4, <2>5, <2>6
  <2>8. (s \ {x}) \ {y} = (s \ {y}) \ {x}
    OBVIOUS
  <2>9. f[x] \in Int /\ f[y] \in Int /\ h[(s \ {y}) \ {x}] \in Int
    <3>1. x \in S /\ y \in S /\ (s \ {y}) \ {x} \in SUBSET S
      BY <2>4
    <3> QED BY <1>1, <3>1
  <2> DEFINE r == h[(s \ {y}) \ {x}]
  <2>10. h[s] = f[y] + (f[x] + r) /\ f[x] + h[s \ {x}] = f[x] + (f[y] + r) /\ r \in Int
    BY <2>4, <2>7, <2>8, <2>9
  <2> HIDE DEF r
  <2> QED BY <2>3, <2>9, <2>10
<1>6. \A s \in SUBSET S : Cardinality(s) \in Nat
  BY FS_Subset, FS_CardinalityType
<1>7. \A s \in SUBSET S : \A x \in s : h[s] = f[x] + h[s \ {x}]
  BY <1>5, <1>6
<1> QED BY <1>1, <1>2, <1>3, <1>7 DEF IsTotal

\* Sums that agree along a bijection are equal.
LEMMA SumAlong ==
    ASSUME NEW S, IsFiniteSet(S), NEW T, IsFiniteSet(T), NEW f \in [S -> Int], NEW g \in [T -> Int],
           NEW b \in [S -> T], \A x, y \in S : b[x] = b[y] => x = y, \A t \in T : \E x \in S : b[x] = t,
           \A x \in S : f[x] = g[b[x]]
    PROVE  SumFunctionOnSet(f, S) = SumFunctionOnSet(g, T)
<1>1. PICK hf : IsTotal(f, S, hf)
  BY SumIsTotal
<1>2. PICK hg : IsTotal(g, T, hg)
  BY SumIsTotal
<1> DEFINE Image(U) == {b[x] : x \in U}
           Z == {U \in SUBSET S : hf[U] = hg[Image(U)]}
<1>3. {} \in Z
  <2>1. hf[{}] = 0 /\ hg[{}] = 0 /\ Image({}) = {}
    BY <1>1, <1>2 DEF IsTotal
  <2> QED BY <2>1
<1>4. ASSUME NEW U \in SUBSET S, NEW x \in S, U \in Z, x \notin U PROVE U \cup {x} \in Z
  <2>1. hf[U \cup {x}] = f[x] + hf[(U \cup {x}) \ {x}]
    BY <1>1 DEF IsTotal
  <2>2. (U \cup {x}) \ {x} = U
    BY <1>4
  <2>3. Image(U \cup {x}) \in SUBSET T /\ b[x] \in Image(U \cup {x}) /\ Image(U \cup {x}) \ {b[x]} = Image(U)
    BY <1>4
  <2>4. hg[Image(U \cup {x})] = g[b[x]] + hg[Image(U)]
    <3>1. hg[Image(U \cup {x})] = g[b[x]] + hg[Image(U \cup {x}) \ {b[x]}]
      BY <1>2, <2>3 DEF IsTotal
    <3> QED BY <2>3, <3>1
  <2> QED BY <1>4, <2>1, <2>2, <2>4
<1>5. S \in Z
  <2> HIDE DEF Z
  <2> QED BY <1>3, <1>4, SetInduction
<1>6. Image(S) = T
  OBVIOUS
<1> QED BY <1>1, <1>2, <1>5, <1>6 DEF IsTotal

LEMMA SumOfNone == ASSUME NEW f \in [{} -> Int] PROVE SumFunctionOnSet(f, {}) = 0
<1>1. PICK h : IsTotal(f, {}, h)
  BY SumIsTotal, FS_EmptySet
<1> QED BY <1>1 DEF IsTotal

LEMMA SumOfOne == ASSUME NEW x, NEW f \in [{x} -> Int] PROVE SumFunctionOnSet(f, {x}) = f[x]
<1>1. PICK h : IsTotal(f, {x}, h)
  BY SumIsTotal, FS_Singleton
<1>2. h[{x}] = f[x] + h[{x} \ {x}] /\ {x} \ {x} = {} /\ f[x] \in Int
  BY <1>1 DEF IsTotal
<1> QED BY <1>1, <1>2 DEF IsTotal

(***************************************************************************)
(* A digest under way.                                                     *)
(***************************************************************************)
IsReport(j) ==
  j = [pc |-> j.pc, request |-> j.request, active |-> j.active, sport |-> j.sport,
       calendars |-> j.calendars, window |-> j.window, lines |-> j.lines, idle |-> j.idle,
       report |-> j.report, touched |-> j.touched, moved |-> j.moved]

Typed ==
  /\ db \in Databases /\ today \in 0 .. FinalDay /\ left \in Nat
  /\ IsReport(job)
  /\ job.request.spec \in DOMAIN SpanDays \cup {"ytd", "games"}
  /\ job.request.list \in BOOLEAN /\ job.request.asOf \in Nat
  /\ job.pc \in {"idle", "members", "tags", "window", "lines", "leagues", "done"}
  /\ job.request.spec = "games" => job.pc \in {"idle", "done"}
  /\ job.pc = "members" => job.request.list
  /\ job.lines \subseteq Pool /\ IsFiniteSet(job.lines)
  /\ \A a, b \in job.lines : a.id = b.id => a = b
  /\ job.touched \subseteq Player /\ job.moved \in BOOLEAN

OwnLines(lines, p) == {line \in lines : line.player = p}

\* What the statements so far have read of a player nobody touched is still so.
PlayersRead(p) ==
  /\ At("members") => (p \in job.active <=> p \in db.active)
  /\ At("tags") => (p \in job.active <=> p \in db.active /\ (job.request.list => p \in db.members))
  /\ job.pc \in {"window", "lines"} => (p \in job.active <=> InScope(p))
  /\ job.sport[p] = db.sport[p]

LinesRead(p) ==
  /\ OwnLines(job.lines, p) = {line \in OwnLines(db.lines, p) : inWindow(line, job.window) /\ InScope(p)}
  /\ p \in job.idle <=> /\ InScope(p) /\ OwnLines(job.lines, p) = {}
                        /\ isInSeason(db.sport[p], job.calendars, job.window.to)

\* The window is that of the calendars and the date, while these have not moved.  A season to
\* date begins with that of a set of sports that has those of every untouched player.
LastOf(request, day) == (IF request.asOf = Null THEN day ELSE request.asOf) - 1

WindowRead ==
  /\ job.window.byGame = (job.request.spec = "1d")
  /\ job.request.spec # "ytd" => job.window.from = job.window.to - (SpanDays[job.request.spec] - 1)
  /\ ~ job.moved => job.calendars = db.calendars /\ job.window.to = LastOf(job.request, today)

SeasonRead ==
  ~ job.moved /\ job.request.spec = "ytd" =>
    \E sports :
      /\ \A p \in Player \ job.touched : InScope(p) => db.sport[p] \in sports
      /\ job.window.from = resolveWindow("ytd", today, seasonStartFor(db.calendars, sports, today),
                                         job.request.asOf).from

RowsMade ==
  \E leagues : job.report = Rows(job.lines, job.window, job.idle, job.sport, leagues)

DigestInv ==
  job.request.spec # "games" =>
    /\ job.pc # "idle" => \A p \in Player \ job.touched : PlayersRead(p)
    /\ job.pc \in {"lines", "leagues", "done"} => WindowRead /\ SeasonRead
    /\ job.pc \in {"leagues", "done"} => \A p \in Player \ job.touched : LinesRead(p)
    /\ job.pc = "done" => RowsMade

(***************************************************************************)
(* What others do.                                                         *)
(***************************************************************************)
\* Two databases have the same of a player.
AlikeFor(d, e, p) ==
  /\ p \in d.active <=> p \in e.active
  /\ p \in d.members <=> p \in e.members
  /\ d.tags[p] = e.tags[p] /\ d.sport[p] = e.sport[p]
  /\ OwnLines(d.lines, p) = OwnLines(e.lines, p)

\* The report is left as it is, but for its history.
Disturbs(players, moving) ==
  job' = [job EXCEPT !.touched = @ \cup players, !.moved = @ \/ moving]

Elsewhere(players, moving) ==
  /\ db' \in Databases /\ today' \in 0 .. FinalDay /\ left' \in Nat
  /\ players \subseteq Player /\ moving \in BOOLEAN /\ Disturbs(players, moving)
  /\ \A p \in Player \ players : AlikeFor(db, db', p)
  /\ ~ moving => db'.calendars = db.calendars /\ today' = today

LEMMA HistoryOnly ==
    ASSUME Typed, NEW players, NEW moving \in BOOLEAN, Disturbs(players, moving)
    PROVE  /\ IsReport(job') /\ job'.touched = job.touched \cup players /\ job'.moved = (job.moved \/ moving)
           /\ job'.pc = job.pc /\ job'.request = job.request /\ job'.active = job.active
           /\ job'.sport = job.sport /\ job'.calendars = job.calendars /\ job'.window = job.window
           /\ job'.lines = job.lines /\ job'.idle = job.idle /\ job'.report = job.report
BY DEF Typed, IsReport, Disturbs

LEMMA ScopeAlike ==
    ASSUME NEW d, NEW e, NEW request, NEW p, AlikeFor(d, e, p)
    PROVE  scopeCondition(d, request, p) <=> scopeCondition(e, request, p)
BY DEF AlikeFor, scopeCondition, tagScopeCondition

LEMMA TypedElsewhere ==
    ASSUME Typed, NEW players, NEW moving, Elsewhere(players, moving)
    PROVE  Typed'
<1>1. moving \in BOOLEAN /\ Disturbs(players, moving) /\ players \subseteq Player
  BY DEF Elsewhere
<1>2. /\ IsReport(job') /\ job'.touched = job.touched \cup players /\ job'.moved = (job.moved \/ moving)
      /\ job'.pc = job.pc /\ job'.request = job.request /\ job'.lines = job.lines
  BY <1>1, HistoryOnly
<1> QED BY <1>1, <1>2 DEF Typed, Elsewhere

LEMMA DigestElsewhere ==
    ASSUME Typed, DigestInv, NEW players, NEW moving, Elsewhere(players, moving)
    PROVE  DigestInv'
<1>1. moving \in BOOLEAN /\ Disturbs(players, moving) /\ players \subseteq Player
  BY DEF Elsewhere
<1>2. /\ job'.touched = job.touched \cup players /\ job'.moved = (job.moved \/ moving)
      /\ job'.pc = job.pc /\ job'.request = job.request /\ job'.active = job.active
      /\ job'.sport = job.sport /\ job'.calendars = job.calendars /\ job'.window = job.window
      /\ job'.lines = job.lines /\ job'.idle = job.idle /\ job'.report = job.report
  BY <1>1, HistoryOnly
<1>3. ASSUME NEW p \in Player \ job'.touched
      PROVE  /\ p \in Player \ job.touched /\ AlikeFor(db, db', p) /\ (InScope(p)' <=> InScope(p))
  <2>1. p \in Player \ job.touched /\ AlikeFor(db, db', p)
    BY <1>2 DEF Elsewhere
  <2>2. scopeCondition(db, job.request, p) <=> scopeCondition(db', job.request, p)
    BY <2>1, ScopeAlike
  <2> QED BY <1>2, <2>1, <2>2 DEF InScope
<1>4. SUFFICES ASSUME job.request.spec # "games" PROVE DigestInv'
  BY <1>2 DEF DigestInv
<1>5. ASSUME job'.pc # "idle", NEW p \in Player \ job'.touched PROVE PlayersRead(p)'
  <2>1. PlayersRead(p)
    BY <1>2, <1>3, <1>4, <1>5 DEF DigestInv
  <2> QED BY <2>1, <1>2, <1>3 DEF PlayersRead, At, AlikeFor
<1>6. ASSUME job'.pc \in {"lines", "leagues", "done"} PROVE WindowRead' /\ SeasonRead'
  <2>1. WindowRead /\ SeasonRead
    BY <1>2, <1>4, <1>6 DEF DigestInv
  <2>2. WindowRead'
    BY <2>1, <1>2 DEF WindowRead, Elsewhere
  <2>3. SeasonRead'
    <3>1. SUFFICES ASSUME ~ job'.moved, job'.request.spec = "ytd" PROVE SeasonRead'
      BY DEF SeasonRead
    <3>2. ~ job.moved /\ ~ moving /\ db'.calendars = db.calendars /\ today' = today
      BY <1>1, <1>2, <3>1 DEF Elsewhere
    <3>3. PICK sports :
             /\ \A p \in Player \ job.touched : InScope(p) => db.sport[p] \in sports
             /\ job.window.from = resolveWindow("ytd", today, seasonStartFor(db.calendars, sports, today),
                                                job.request.asOf).from
      BY <2>1, <1>2, <3>1, <3>2 DEF SeasonRead
    <3>4. \A p \in Player \ job'.touched : InScope(p)' => db'.sport[p] \in sports
      BY <1>3, <3>3 DEF AlikeFor
    <3>5. job'.window.from = resolveWindow("ytd", today', seasonStartFor(db'.calendars, sports, today'),
                                           job'.request.asOf).from
      BY <1>2, <3>2, <3>3
    <3> QED BY <3>4, <3>5 DEF SeasonRead
  <2> QED BY <2>2, <2>3
<1>7. ASSUME job'.pc \in {"leagues", "done"}, NEW p \in Player \ job'.touched PROVE LinesRead(p)'
  <2>1. LinesRead(p)
    BY <1>2, <1>3, <1>4, <1>7 DEF DigestInv
  <2>2. OwnLines(db'.lines, p) = OwnLines(db.lines, p) /\ db'.sport[p] = db.sport[p]
    BY <1>3 DEF AlikeFor
  <2> QED BY <2>1, <2>2, <1>2, <1>3 DEF LinesRead
<1>8. ASSUME job'.pc = "done" PROVE RowsMade'
  BY <1>2, <1>4, <1>8 DEF DigestInv, RowsMade
<1> QED BY <1>2, <1>4, <1>5, <1>6, <1>7, <1>8 DEF DigestInv

LEMMA DatabaseIs ==
    ASSUME NEW d \in Databases
    PROVE  d = [active |-> d.active, members |-> d.members, tags |-> d.tags, sport |-> d.sport,
                calendars |-> d.calendars, lines |-> d.lines]
BY DEF Databases

LEMMA ToggleIn == ASSUME NEW S, NEW T \in SUBSET S, NEW x \in S PROVE Toggle(T, x) \in SUBSET S
BY DEF Toggle

LEMMA ToggleOther == ASSUME NEW T, NEW x, NEW y, y # x PROVE y \in Toggle(T, x) <=> y \in T
BY DEF Toggle

\* A change of the data of some players is one elsewhere, of theirs.
LEMMA ChangeElsewhere ==
    ASSUME Typed, NEW d \in Databases, NEW players, players \subseteq Player, Change(d, players),
           d.calendars = db.calendars, \A p \in Player \ players : AlikeFor(db, d, p)
    PROVE  Elsewhere(players, FALSE)
<1>1. Disturbs(players, FALSE)
  <2>1. job' = [job EXCEPT !.touched = @ \cup players] /\ IsReport(job) /\ job.moved \in BOOLEAN
    BY DEF Change, Typed
  <2> QED BY <2>1 DEF Disturbs, IsReport
<1>2. db' = d /\ today' = today /\ left' \in Nat
  BY DEF Change, Typed
<1> QED BY <1>1, <1>2 DEF Elsewhere, Typed

LEMMA ActivateElsewhere == ASSUME Typed, NEW p \in Player, activate(p) PROVE Elsewhere({p}, FALSE)
<1> DEFINE d == [db EXCEPT !.active = Toggle(@, p)]
<1>1. db \in Databases
  BY DEF Typed
<1>2. /\ d.active = Toggle(db.active, p) /\ d.members = db.members /\ d.tags = db.tags
      /\ d.sport = db.sport /\ d.calendars = db.calendars /\ d.lines = db.lines
  BY <1>1, DatabaseIs
<1>3. d.active \in SUBSET Player
  BY <1>1, <1>2, CalendarsAre, ToggleIn
<1>4. d \in Databases
  BY <1>1, <1>2, <1>3 DEF Databases, OneOfEach
<1>5. \A q \in Player \ {p} : AlikeFor(db, d, q)
  BY <1>2, ToggleOther DEF AlikeFor
<1>6. Change(d, {p})
  BY DEF activate
<1> HIDE DEF d
<1> QED BY <1>2, <1>4, <1>5, <1>6, ChangeElsewhere

LEMMA EnrollElsewhere == ASSUME Typed, NEW p \in Player, enroll(p) PROVE Elsewhere({p}, FALSE)
<1> DEFINE d == [db EXCEPT !.members = Toggle(@, p)]
<1>1. db \in Databases
  BY DEF Typed
<1>2. /\ d.active = db.active /\ d.members = Toggle(db.members, p) /\ d.tags = db.tags
      /\ d.sport = db.sport /\ d.calendars = db.calendars /\ d.lines = db.lines
  BY <1>1, DatabaseIs
<1>3. d.members \in SUBSET Player
  BY <1>1, <1>2, CalendarsAre, ToggleIn
<1>4. d \in Databases
  BY <1>1, <1>2, <1>3 DEF Databases, OneOfEach
<1>5. \A q \in Player \ {p} : AlikeFor(db, d, q)
  BY <1>2, ToggleOther DEF AlikeFor
<1>6. Change(d, {p})
  BY DEF enroll
<1> HIDE DEF d
<1> QED BY <1>2, <1>4, <1>5, <1>6, ChangeElsewhere

LEMMA TagElsewhere == ASSUME Typed, NEW p \in Player, tagPlayer(p) PROVE Elsewhere({p}, FALSE)
<1>0. PICK tag \in Tag : Change([db EXCEPT !.tags[p] = Toggle(@, tag)], {p})
  BY DEF tagPlayer
<1> DEFINE d == [db EXCEPT !.tags[p] = Toggle(@, tag)]
<1>1. db \in Databases /\ db.tags \in [Player -> SUBSET Tag]
  BY DEF Typed, Databases
<1>2. /\ d.active = db.active /\ d.members = db.members
      /\ d.tags = [db.tags EXCEPT ![p] = Toggle(db.tags[p], tag)]
      /\ d.sport = db.sport /\ d.calendars = db.calendars /\ d.lines = db.lines
  BY <1>1, DatabaseIs
<1>3. Toggle(db.tags[p], tag) \in SUBSET Tag
  BY <1>1, ToggleIn
<1>4. d.tags \in [Player -> SUBSET Tag] /\ \A q \in Player \ {p} : d.tags[q] = db.tags[q]
  BY <1>1, <1>2, <1>3
<1>5. d \in Databases
  BY <1>1, <1>2, <1>4 DEF Databases, OneOfEach
<1>6. \A q \in Player \ {p} : AlikeFor(db, d, q)
  BY <1>2, <1>4 DEF AlikeFor
<1> HIDE DEF d
<1>7. Change(d, {p})
  BY <1>0 DEF d
<1> QED BY <1>2, <1>5, <1>6, <1>7, ChangeElsewhere

LEMMA MoveElsewhere == ASSUME Typed, NEW p \in Player, move(p) PROVE Elsewhere({p}, FALSE)
<1>0. PICK sport \in Sports : Change([db EXCEPT !.sport[p] = sport], {p})
  BY DEF move
<1> DEFINE d == [db EXCEPT !.sport[p] = sport]
<1>1. db \in Databases /\ db.sport \in [Player -> Sports \cup {Null}]
  BY DEF Typed, Databases
<1>2. /\ d.active = db.active /\ d.members = db.members /\ d.tags = db.tags
      /\ d.sport = [db.sport EXCEPT ![p] = sport] /\ d.calendars = db.calendars /\ d.lines = db.lines
  BY <1>1, DatabaseIs
<1>3. d.sport \in [Player -> Sports \cup {Null}] /\ \A q \in Player \ {p} : d.sport[q] = db.sport[q]
  BY <1>1, <1>2
<1>4. d \in Databases
  BY <1>1, <1>2, <1>3 DEF Databases, OneOfEach
<1>5. \A q \in Player \ {p} : AlikeFor(db, d, q)
  BY <1>2, <1>3 DEF AlikeFor
<1> HIDE DEF d
<1>6. Change(d, {p})
  BY <1>0 DEF d
<1> QED BY <1>2, <1>4, <1>5, <1>6, ChangeElsewhere

LEMMA StoreElsewhere ==
    ASSUME Typed, storeLine
    PROVE  \E players \in SUBSET Player : Elsewhere(players, FALSE)
<1>0. PICK line \in Pool \ db.lines :
         Change([db EXCEPT !.lines = {l \in @ : l.id # line.id} \cup {line}], {line.player})
  BY DEF storeLine
<1> DEFINE d == [db EXCEPT !.lines = {l \in @ : l.id # line.id} \cup {line}]
           rest == {l \in db.lines : l.id # line.id}
<1>1. db \in Databases /\ line.player \in Player
  BY PoolAssumption DEF Typed, IsLine
<1>2. /\ d.active = db.active /\ d.members = db.members /\ d.tags = db.tags
      /\ d.sport = db.sport /\ d.calendars = db.calendars /\ d.lines = rest \cup {line}
  BY <1>1, DatabaseIs
<1>3. d.lines \in SUBSET Pool /\ IsFiniteSet(d.lines)
  <2>1. IsFiniteSet(rest) /\ rest \subseteq Pool
    BY <1>1, CalendarsAre, FS_Subset
  <2> QED BY <1>2, <2>1, FS_AddElement
<1>4. d \in Databases
  BY <1>1, <1>2, <1>3 DEF Databases, OneOfEach
<1>5. \A l \in db.lines : l.id = line.id => l.player = line.player
  BY <1>1, CalendarsAre, PoolAssumption
<1>6. \A q \in Player \ {line.player} : AlikeFor(db, d, q)
  BY <1>2, <1>5 DEF AlikeFor, OwnLines
<1> HIDE DEF d
<1>7. Change(d, {line.player})
  BY <1>0 DEF d
<1> QED BY <1>1, <1>2, <1>4, <1>6, <1>7, ChangeElsewhere

LEMMA MovesElsewhere ==
    ASSUME Typed, storeCalendar \/ Midnight
    PROVE  Elsewhere({}, TRUE)
<1>1. Disturbs({}, TRUE)
  <2>1. job' = [job EXCEPT !.moved = TRUE] /\ IsReport(job)
    BY DEF storeCalendar, Midnight, Typed
  <2> QED BY <2>1 DEF Disturbs, IsReport
<1>2. CASE storeCalendar
  <2>0. PICK cal \in Calendars \ db.calendars :
           /\ left' = left - 1 /\ left > 0 /\ today' = today
           /\ db' = [db EXCEPT !.calendars = {c \in @ : <<c.sport, c.season>> # <<cal.sport, cal.season>>} \cup {cal}]
    BY <1>2 DEF storeCalendar
  <2> DEFINE rest == {c \in db.calendars : <<c.sport, c.season>> # <<cal.sport, cal.season>>}
  <2>1. db \in Databases
    BY DEF Typed
  <2>2. /\ db'.active = db.active /\ db'.members = db.members /\ db'.tags = db.tags
        /\ db'.sport = db.sport /\ db'.lines = db.lines /\ db'.calendars = rest \cup {cal}
        /\ db' = [active |-> db'.active, members |-> db'.members, tags |-> db'.tags, sport |-> db'.sport,
                  calendars |-> db'.calendars, lines |-> db'.lines]
    BY <2>0, <2>1, DatabaseIs
  <2>3. db'.calendars \in SUBSET Calendars /\ IsFiniteSet(db'.calendars)
    <3>1. IsFiniteSet(rest) /\ rest \subseteq Calendars
      BY <2>1, CalendarsAre, FS_Subset
    <3> QED BY <2>2, <3>1, FS_AddElement
  <2>4. OneOfEach(db')
    BY <2>1, <2>2, CalendarsAre DEF OneOfEach
  <2>5. db' \in Databases
    BY <2>1, <2>2, <2>3, <2>4 DEF Databases
  <2>6. \A q \in Player : AlikeFor(db, db', q)
    BY <2>2 DEF AlikeFor
  <2>7. today' \in 0 .. FinalDay /\ left' \in Nat
    BY <2>0 DEF Typed
  <2> QED BY <1>1, <2>5, <2>6, <2>7 DEF Elsewhere
<1>3. CASE Midnight
  <2>1. db' = db /\ today' \in 0 .. FinalDay /\ left' \in Nat
    BY <1>3, WorldsAssumption DEF Midnight, Typed
  <2> QED BY <1>1, <2>1 DEF Elsewhere, Typed, AlikeFor
<1> QED BY <1>2, <1>3

\* Whatever others do is elsewhere.
LEMMA OthersElsewhere ==
    ASSUME Typed,
           \/ \E p \in Player : activate(p) \/ enroll(p) \/ tagPlayer(p) \/ move(p)
           \/ storeLine \/ storeCalendar \/ Midnight
    PROVE  \E players, moving : Elsewhere(players, moving)
BY ActivateElsewhere, EnrollElsewhere, TagElsewhere, MoveElsewhere, StoreElsewhere, MovesElsewhere

(***************************************************************************)
(* The statements of a digest.                                             *)
(***************************************************************************)
LEMMA SpecIsDated ==
    ASSUME Typed, Asked(Dated)
    PROVE  job.request.spec # "games" /\ job.pc \in {"idle", "done"}
BY SpansAssumption DEF Asked, Dated

LEMMA SpecIsGames == ASSUME Typed, Asked({"games"}) PROVE job.request.spec = "games"
BY DEF Asked

LEMMA BegunIs ==
    ASSUME Typed, assembleDigest
    PROVE  /\ IsReport(job') /\ job'.request = job.request
           /\ job'.pc = (IF job.request.list THEN "members" ELSE "tags")
           /\ job'.active = db.active /\ job'.sport = db.sport /\ job'.lines = {}
           /\ job'.touched = {} /\ job'.moved = FALSE
           /\ UNCHANGED <<db, today, left>>
BY DEF assembleDigest, Idle, IsReport, Calm

LEMMA DigestBegins ==
    ASSUME Typed, assembleDigest
    PROVE  Typed' /\ DigestInv'
<1>1. /\ IsReport(job') /\ job'.request = job.request
      /\ job'.pc = (IF job.request.list THEN "members" ELSE "tags")
      /\ job'.active = db.active /\ job'.sport = db.sport /\ job'.lines = {}
      /\ job'.touched = {} /\ job'.moved = FALSE /\ db' = db /\ today' = today /\ left' = left
  BY BegunIs
<1>2. job.request.spec # "games"
  BY SpecIsDated DEF assembleDigest
<1>3. Typed'
  BY <1>1, <1>2, FS_EmptySet DEF Typed
<1>4. \A p \in Player : PlayersRead(p)'
  BY <1>1 DEF PlayersRead, At, Typed
<1> QED BY <1>1, <1>3, <1>4 DEF DigestInv

\* A step of the digest that reads and leaves its history alone.
Reads(pc) ==
  /\ IsReport(job') /\ job'.pc = pc /\ job'.request = job.request /\ job'.sport = job.sport
  /\ job'.touched = job.touched /\ job'.moved = job.moved
  /\ UNCHANGED <<db, today, left>>

LEMMA ReadTypes ==
    ASSUME Typed, NEW pc \in {"tags", "window", "lines", "leagues", "done"}, Reads(pc),
           job.pc \notin {"idle", "done"},
           job'.lines \subseteq db.lines \/ job'.lines = job.lines
    PROVE  Typed'
<1>1. job'.lines \subseteq Pool /\ IsFiniteSet(job'.lines) /\ \A a, b \in job'.lines : a.id = b.id => a = b
  <2>1. CASE job'.lines \subseteq db.lines
    <3>1. db \in Databases
      BY DEF Typed
    <3> QED BY <2>1, <3>1, CalendarsAre, FS_Subset DEF OneOfEach
  <2>2. CASE job'.lines = job.lines
    BY <2>2 DEF Typed
  <2> QED BY <2>1, <2>2
<1> QED BY <1>1 DEF Typed, Reads

LEMMA MembersStep ==
    ASSUME Typed, DigestInv, readMembers
    PROVE  Typed' /\ DigestInv'
<1>1. Reads("tags") /\ job'.active = job.active \cap listMemberIds(db) /\ job'.lines = job.lines /\ job.pc = "members"
  BY DEF readMembers, Typed, IsReport, Reads, Calm, At
<1>2. Typed'
  BY <1>1, ReadTypes
<1>3. ASSUME job.request.spec # "games", NEW p \in Player \ job.touched PROVE PlayersRead(p)'
  <2>1. PlayersRead(p)
    BY <1>1, <1>3 DEF DigestInv
  <2> QED BY <1>1, <2>1 DEF PlayersRead, Reads, At, listMemberIds, Typed
<1> QED BY <1>1, <1>2, <1>3 DEF DigestInv, Reads

LEMMA TagsStep ==
    ASSUME Typed, DigestInv, readTags
    PROVE  Typed' /\ DigestInv'
<1>1. /\ Reads("window") /\ job'.lines = job.lines /\ job.pc = "tags"
      /\ job'.active = job.active \cap playerIdsMatchingTags(db, job.request.tokens)
  BY DEF readTags, Typed, IsReport, Reads, Calm, At
<1>2. Typed'
  BY <1>1, ReadTypes
<1>3. ASSUME job.request.spec # "games", NEW p \in Player \ job.touched PROVE PlayersRead(p)'
  <2>1. PlayersRead(p)
    BY <1>1, <1>3 DEF DigestInv
  <2>2. p \in job'.active <=> p \in job.active /\ tagScopeCondition(db, job.request.tokens, p)
    BY <1>1 DEF playerIdsMatchingTags
  <2>3. p \in job'.active <=> scopeCondition(db, job.request, p)
    BY <1>1, <2>1, <2>2 DEF PlayersRead, At, scopeCondition
  <2> QED BY <1>1, <2>1, <2>3 DEF PlayersRead, Reads, At, InScope
<1> QED BY <1>1, <1>2, <1>3 DEF DigestInv, Reads

LEMMA CalendarsStep ==
    ASSUME Typed, DigestInv, readCalendars
    PROVE  Typed' /\ DigestInv'
<1> DEFINE sports == {job.sport[p] : p \in job.active}
           start == seasonStartFor(db.calendars, sports, today)
           window == resolveWindow(job.request.spec, today, start, job.request.asOf)
<1>1. /\ Reads("lines") /\ job'.lines = job.lines /\ job.pc = "window" /\ job'.active = job.active
      /\ job'.calendars = db.calendars /\ job'.window = window
  BY DEF readCalendars, Typed, IsReport, Reads, Calm, At
<1>2. Typed'
  BY <1>1, ReadTypes
<1>3. /\ job'.request = job.request /\ job'.touched = job.touched /\ job'.sport = job.sport /\ job'.pc = "lines"
      /\ db' = db /\ today' = today /\ job'.moved = job.moved
  BY <1>1 DEF Reads
<1>4. job.request.spec \in DOMAIN SpanDays \cup {"ytd", "games"}
  BY DEF Typed
<1>5. ASSUME job.request.spec # "games" PROVE DigestInv'
  <2>1. ASSUME NEW p \in Player \ job.touched
        PROVE  PlayersRead(p)' /\ (InScope(p) => db.sport[p] \in sports)
    <3>1. PlayersRead(p)
      BY <1>1, <1>5, <2>1 DEF DigestInv
    <3>2. PlayersRead(p)'
      BY <1>1, <1>3, <3>1 DEF PlayersRead, At, InScope
    <3>3. InScope(p) => p \in job.active /\ job.sport[p] = db.sport[p]
      BY <1>1, <3>1 DEF PlayersRead
    <3> QED BY <3>2, <3>3
  <2>2. /\ window.to = LastOf(job.request, today) /\ window.byGame = (job.request.spec = "1d")
        /\ job.request.spec # "ytd" => window.from = window.to - (SpanDays[job.request.spec] - 1)
    BY DEF resolveWindow, LastOf, lastCompletedHostDate
  <2>3. WindowRead'
    <3> HIDE DEF window
    <3> QED BY <1>1, <1>3, <2>2 DEF WindowRead
  <2>4. SeasonRead'
    <3>1. SUFFICES ASSUME job.request.spec = "ytd" PROVE SeasonRead'
      BY <1>3 DEF SeasonRead
    <3>2. \A p \in Player \ job'.touched : InScope(p)' => db'.sport[p] \in sports
      BY <1>3, <2>1 DEF InScope
    <3>3. job'.window.from = resolveWindow("ytd", today', seasonStartFor(db'.calendars, sports, today'),
                                           job'.request.asOf).from
      BY <1>1, <1>3, <3>1
    <3> HIDE DEF sports
    <3> QED BY <3>2, <3>3 DEF SeasonRead
  <2> QED BY <1>3, <2>1, <2>3, <2>4 DEF DigestInv
<1>6. job.request.spec = "games" => DigestInv'
  BY <1>3 DEF DigestInv
<1> QED BY <1>2, <1>5, <1>6

LEMMA LinesStep ==
    ASSUME Typed, DigestInv, readLines
    PROVE  Typed' /\ DigestInv'
<1> DEFINE lines == {line \in db.lines : inWindow(line, job.window) /\ scopeCondition(db, job.request, line.player)}
           idle == {p \in job.active : /\ \A line \in lines : line.player # p
                                       /\ isInSeason(job.sport[p], job.calendars, job.window.to)}
<1>1. /\ Reads("leagues") /\ job'.lines = lines /\ job'.idle = idle /\ job.pc = "lines"
      /\ job'.window = job.window /\ job'.calendars = job.calendars
  BY DEF readLines, Typed, IsReport, Reads, Calm, At
<1>2. Typed'
  <2>1. lines \subseteq db.lines
    OBVIOUS
  <2> HIDE DEF lines
  <2> QED BY <1>1, <2>1, ReadTypes
<1>3. /\ job'.request = job.request /\ job'.touched = job.touched /\ job'.sport = job.sport /\ job'.pc = "leagues"
      /\ db' = db /\ today' = today /\ job'.moved = job.moved
  BY <1>1 DEF Reads
<1>4. ASSUME job.request.spec # "games" PROVE DigestInv'
  <2>1. WindowRead' /\ SeasonRead'
    <3>1. WindowRead /\ SeasonRead
      BY <1>1, <1>4 DEF DigestInv
    <3> QED BY <1>1, <1>3, <3>1 DEF WindowRead, SeasonRead, InScope
  <2>2. ASSUME NEW p \in Player \ job.touched PROVE PlayersRead(p)' /\ LinesRead(p)'
    <3>1. PlayersRead(p)
      BY <1>1, <1>4, <2>2 DEF DigestInv
    <3>2. PlayersRead(p)'
      BY <1>1, <1>3, <3>1 DEF PlayersRead, At
    <3>3. (p \in job.active <=> InScope(p)) /\ job.sport[p] = db.sport[p]
      BY <1>1, <3>1 DEF PlayersRead
    <3>4. OwnLines(lines, p) = {line \in OwnLines(db.lines, p) : inWindow(line, job.window) /\ InScope(p)}
      BY DEF OwnLines, InScope
    <3>5. p \in idle <=> /\ InScope(p) /\ OwnLines(lines, p) = {}
                         /\ isInSeason(db.sport[p], job.calendars, job.window.to)
      BY <3>3 DEF OwnLines
    <3>6. InScope(p)' <=> InScope(p)
      BY <1>3 DEF InScope
    <3> HIDE DEF lines, idle
    <3>7. LinesRead(p)'
      BY <1>1, <1>3, <3>4, <3>5, <3>6 DEF LinesRead
    <3> QED BY <3>2, <3>7
  <2> QED BY <1>3, <2>1, <2>2 DEF DigestInv
<1>5. job.request.spec = "games" => DigestInv'
  BY <1>3 DEF DigestInv
<1> QED BY <1>2, <1>4, <1>5

LEMMA LeaguesStep ==
    ASSUME Typed, DigestInv, readLeagues
    PROVE  Typed' /\ DigestInv'
<1> DEFINE leagues == [p \in Player |-> lastKnownLeagues(db, p)]
<1>1. /\ Reads("done") /\ job'.lines = job.lines /\ job'.idle = job.idle /\ job.pc = "leagues"
      /\ job'.window = job.window /\ job'.calendars = job.calendars
      /\ job'.report = Rows(job.lines, job.window, job.idle, job.sport, leagues)
  BY DEF readLeagues, Typed, IsReport, Reads, Calm, At
<1>2. Typed'
  BY <1>1, ReadTypes
<1>3. /\ job'.request = job.request /\ job'.touched = job.touched /\ job'.sport = job.sport /\ job'.pc = "done"
      /\ db' = db /\ today' = today /\ job'.moved = job.moved
  BY <1>1 DEF Reads
<1>4. ASSUME job.request.spec # "games" PROVE DigestInv'
  <2>1. WindowRead' /\ SeasonRead'
    <3>1. WindowRead /\ SeasonRead
      BY <1>1, <1>4 DEF DigestInv
    <3> QED BY <1>1, <1>3, <3>1 DEF WindowRead, SeasonRead, InScope
  <2>2. ASSUME NEW p \in Player \ job.touched PROVE PlayersRead(p)' /\ LinesRead(p)'
    <3>1. PlayersRead(p) /\ LinesRead(p)
      BY <1>1, <1>4, <2>2 DEF DigestInv
    <3>2. InScope(p)' <=> InScope(p)
      BY <1>3 DEF InScope
    <3>3. PlayersRead(p)'
      BY <1>1, <1>3, <3>1 DEF PlayersRead, At
    <3>4. LinesRead(p)'
      BY <1>1, <1>3, <3>1, <3>2 DEF LinesRead
    <3> QED BY <3>3, <3>4
  <2>3. RowsMade'
    <3> HIDE DEF leagues
    <3> QED BY <1>1, <1>3 DEF RowsMade
  <2> QED BY <1>3, <2>1, <2>2, <2>3 DEF DigestInv
<1>5. job.request.spec = "games" => DigestInv'
  BY <1>3 DEF DigestInv
<1> QED BY <1>2, <1>4, <1>5

(***************************************************************************)
(* The last games.                                                         *)
(***************************************************************************)
\* Lines as one table may have them.
Stored(lines) ==
  lines \subseteq Pool /\ IsFiniteSet(lines) /\ \A a, b \in lines : a.id = b.id => a = b

LEMMA StoredPart == ASSUME NEW lines, Stored(lines), NEW S, S \subseteq lines PROVE Stored(S)
BY FS_Subset DEF Stored

LEMMA DatabaseStored == ASSUME NEW d \in Databases PROVE Stored(d.lines)
BY CalendarsAre DEF Stored, OneOfEach

LEMMA LaterIsAnOrder ==
    ASSUME NEW a \in Pool, NEW b \in Pool, NEW c \in Pool
    PROVE  /\ ~ LaterLine(a, a)
           /\ LaterLine(a, b) => ~ LaterLine(b, a)
           /\ LaterLine(a, b) /\ LaterLine(b, c) => LaterLine(a, c)
           /\ LaterLine(a, b) /\ ~ LaterLine(c, b) => LaterLine(a, c)
           /\ a.id # b.id => LaterLine(a, b) \/ LaterLine(b, a)
<1>1. \A l \in {a, b, c} : l.date \in Nat /\ l.number \in Nat /\ l.id \in Nat
  BY PoolAssumption DEF IsLine
<1> QED BY <1>1 DEF LaterLine

LEMMA LastLine ==
    ASSUME NEW S, S \subseteq Pool, IsFiniteSet(S), S # {}
    PROVE  \E a \in S : \A b \in S : ~ LaterLine(b, a)
<1> DEFINE T == {U \in SUBSET S : U = {} \/ \E a \in U : \A b \in U : ~ LaterLine(b, a)}
<1>1. {} \in T
  OBVIOUS
<1>2. ASSUME NEW U \in SUBSET S, NEW x \in S, U \in T PROVE U \cup {x} \in T
  <2>1. CASE U = {}
    BY <2>1, LaterIsAnOrder
  <2>2. ASSUME NEW a \in U, \A b \in U : ~ LaterLine(b, a) PROVE U \cup {x} \in T
    <3>1. CASE ~ LaterLine(x, a)
      <4>1. \A b \in U \cup {x} : ~ LaterLine(b, a)
        BY <2>2, <3>1
      <4> QED BY <4>1
    <3>2. CASE LaterLine(x, a)
      <4>1. ASSUME NEW b \in U \cup {x} PROVE ~ LaterLine(b, x)
        <5>1. CASE b = x
          BY <5>1, LaterIsAnOrder
        <5>2. CASE b \in U
          <6>1. ~ LaterLine(b, a) /\ a \in Pool /\ b \in Pool /\ x \in Pool
            BY <2>2, <5>2
          <6> QED BY <3>2, <6>1, LaterIsAnOrder
        <5> QED BY <5>1, <5>2
      <4> QED BY <4>1
    <3> QED BY <3>1, <3>2
  <2> QED BY <1>2, <2>1, <2>2
<1>3. S \in T
  <2> HIDE DEF T
  <2> QED BY <1>1, <1>2, SetInduction
<1> QED BY <1>3

\* A game's representative is its last line, and no other is.
IsLast(lines, g, a) == a \in lines /\ gameOf(a) = g /\ \A b \in lines : gameOf(b) = g => ~ LaterLine(b, a)

GamesOf(lines) == {gameOf(line) : line \in lines}

LEMMA RepresentativeIsLast ==
    ASSUME NEW lines, Stored(lines), NEW g \in GamesOf(lines)
    PROVE  /\ IsLast(lines, g, Representative(lines, g))
           /\ \A a : IsLast(lines, g, a) => a = Representative(lines, g)
<1> DEFINE S == {a \in lines : gameOf(a) = g}
<1>1. S \subseteq Pool /\ IsFiniteSet(S) /\ S # {}
  BY FS_Subset DEF Stored, GamesOf
<1>2. PICK a \in S : \A b \in S : ~ LaterLine(b, a)
  <2> HIDE DEF S
  <2> QED BY <1>1, LastLine
<1>3. \E x \in lines : gameOf(x) = g /\ \A b \in lines : gameOf(b) = g => ~ LaterLine(b, x)
  BY <1>2
<1>4. IsLast(lines, g, Representative(lines, g))
  BY <1>3 DEF IsLast, Representative
<1>5. ASSUME NEW x, IsLast(lines, g, x) PROVE x = Representative(lines, g)
  <2> DEFINE r == Representative(lines, g)
  <2>1. IsLast(lines, g, r)
    BY <1>4
  <2> HIDE DEF r
  <2>2. x \in lines /\ r \in lines /\ ~ LaterLine(x, r) /\ ~ LaterLine(r, x)
    BY <1>5, <2>1 DEF IsLast
  <2>3. x.id = r.id
    BY <2>2, LaterIsAnOrder DEF Stored
  <2>4. x = r
    BY <2>2, <2>3 DEF Stored
  <2> QED BY <2>4 DEF r
<1> QED BY <1>4, <1>5

LEMMA RepresentativeOfOwn ==
    ASSUME NEW lines, Stored(lines), NEW p, NEW g \in GamesOf(OwnLines(lines, p))
    PROVE  Representative(lines, g) = Representative(OwnLines(lines, p), g)
<1>1. g \in GamesOf(lines) /\ g[1] = p
  BY DEF GamesOf, OwnLines, gameOf
<1>2. Stored(OwnLines(lines, p))
  BY StoredPart DEF OwnLines
<1> DEFINE r == Representative(lines, g)
<1>3. IsLast(lines, g, r)
  BY <1>1, RepresentativeIsLast
<1> HIDE DEF r
<1>4. r \in OwnLines(lines, p)
  BY <1>1, <1>3 DEF IsLast, OwnLines, gameOf
<1>5. IsLast(OwnLines(lines, p), g, r)
  BY <1>3, <1>4 DEF IsLast, OwnLines
<1>6. r = Representative(OwnLines(lines, p), g)
  BY <1>2, <1>5, RepresentativeIsLast
<1> QED BY <1>6 DEF r

\* The games of the player of g that come before it, from the last.
Outranking(lines, g) ==
  {h \in GamesOf(lines) : h[1] = g[1] /\ LaterLine(Representative(lines, h), Representative(lines, g))}

LEMMA RankedAre ==
    ASSUME NEW lines
    PROVE  rankedGames(lines) = {g \in GamesOf(lines) : Cardinality(Outranking(lines, g)) + 1 <= GameLimit}
BY DEF rankedGames, GamesOf, Outranking

\* Whoever else is in the report, a player's last games are those of his own lines.
LEMMA RankedIsOwn ==
    ASSUME NEW lines, Stored(lines), NEW p, NEW g, g[1] = p
    PROVE  g \in rankedGames(lines) <=> g \in rankedGames(OwnLines(lines, p))
<1> DEFINE own == OwnLines(lines, p)
<1>1. \A h : h[1] = p => (h \in GamesOf(lines) <=> h \in GamesOf(own))
  BY DEF GamesOf, OwnLines, gameOf
<1>2. ASSUME g \in GamesOf(own) PROVE Outranking(lines, g) = Outranking(own, g)
  <2>1. ASSUME NEW h, h[1] = p, h \in GamesOf(own)
        PROVE  Representative(lines, h) = Representative(own, h)
    BY <2>1, RepresentativeOfOwn
  <2>2. Representative(lines, g) = Representative(own, g)
    BY <1>2, <2>1
  <2> HIDE DEF own
  <2> QED BY <1>1, <2>1, <2>2 DEF Outranking
<1> HIDE DEF own
<1>3. g \in rankedGames(lines) <=> g \in GamesOf(lines) /\ Cardinality(Outranking(lines, g)) + 1 <= GameLimit
  BY RankedAre
<1>4. g \in rankedGames(own) <=> g \in GamesOf(own) /\ Cardinality(Outranking(own, g)) + 1 <= GameLimit
  BY RankedAre
<1> QED BY <1>1, <1>2, <1>3, <1>4 DEF own

\* A player's lines of his last games, of those played by a day.
Past(lines, last) == {line \in lines : line.regular /\ line.date <= last}
LastLines(own, last) == {line \in own : gameOf(line) \in rankedGames(Past(own, last))}

GamesMade ==
  job.report = ReportOf(job.lines, buildGameCountRows(battingOf(job.lines), "batting"),
                                   buildGameCountRows(pitchingOf(job.lines), "pitching"))

GamesInv ==
  job.request.spec = "games" /\ job.pc = "done" =>
    /\ GamesMade
    /\ ~ job.moved => \A p \in Player \ job.touched :
         InScope(p) => OwnLines(job.lines, p) = LastLines(OwnLines(db.lines, p), today - 1)

LEMMA GamesElsewhere ==
    ASSUME Typed, GamesInv, NEW players, NEW moving, Elsewhere(players, moving)
    PROVE  GamesInv'
<1>1. moving \in BOOLEAN /\ Disturbs(players, moving)
  BY DEF Elsewhere
<1>2. /\ job'.touched = job.touched \cup players /\ job'.moved = (job.moved \/ moving)
      /\ job'.pc = job.pc /\ job'.request = job.request /\ job'.lines = job.lines /\ job'.report = job.report
  BY <1>1, HistoryOnly
<1>3. SUFFICES ASSUME job.request.spec = "games", job.pc = "done" PROVE GamesInv'
  BY <1>2 DEF GamesInv
<1>4. GamesMade'
  BY <1>2, <1>3 DEF GamesInv, GamesMade
<1>5. ASSUME ~ job'.moved, NEW p \in Player \ job'.touched, InScope(p)'
      PROVE  OwnLines(job'.lines, p) = LastLines(OwnLines(db'.lines, p), today' - 1)
  <2>1. p \in Player \ job.touched /\ AlikeFor(db, db', p) /\ ~ job.moved /\ today' = today
    BY <1>1, <1>2, <1>5 DEF Elsewhere
  <2>2. scopeCondition(db, job.request, p) <=> scopeCondition(db', job.request, p)
    BY <2>1, ScopeAlike
  <2>3. InScope(p)
    BY <1>2, <1>5, <2>2 DEF InScope
  <2>4. OwnLines(job.lines, p) = LastLines(OwnLines(db.lines, p), today - 1)
    BY <1>3, <2>1, <2>3 DEF GamesInv
  <2> QED BY <1>2, <2>1, <2>4 DEF AlikeFor
<1> QED BY <1>2, <1>4, <1>5 DEF GamesInv

LEMMA GamesStep ==
    ASSUME Typed, assembleGameWindow
    PROVE  Typed' /\ GamesInv'
<1> DEFINE last == lastCompletedHostDate(today)
           lines == rankedGameLinesQuery(db, job.request, last)
<1>1. /\ IsReport(job') /\ job'.request = job.request /\ job'.pc = "done" /\ job'.lines = lines
      /\ job'.touched = {} /\ job'.moved = FALSE /\ db' = db /\ today' = today /\ left' = left
      /\ job'.report = ReportOf(lines, buildGameCountRows(battingOf(lines), "batting"),
                                buildGameCountRows(pitchingOf(lines), "pitching"))
  BY DEF assembleGameWindow, Idle, IsReport, Calm
<1>2. Stored(db.lines)
  BY DatabaseStored DEF Typed
<1> DEFINE scoped == {line \in db.lines : /\ line.regular /\ line.date <= last
                                          /\ scopeCondition(db, job.request, line.player)}
<1>3. lines = {line \in db.lines : gameOf(line) \in rankedGames(scoped)}
  BY DEF rankedGameLinesQuery
<1>4. Stored(lines) /\ Stored(scoped)
  <2> HIDE DEF lines
  <2> QED BY <1>2, <1>3, StoredPart
<1>5. Typed'
  <2> HIDE DEF lines
  <2> QED BY <1>1, <1>4 DEF Typed, Stored
<1>6. ASSUME NEW p \in Player, InScope(p)
      PROVE  OwnLines(lines, p) = LastLines(OwnLines(db.lines, p), last)
  <2>1. OwnLines(scoped, p) = Past(OwnLines(db.lines, p), last)
    BY <1>6 DEF OwnLines, Past, InScope
  <2> HIDE DEF scoped, lines
  <2>2. ASSUME NEW line \in OwnLines(db.lines, p)
        PROVE  gameOf(line) \in rankedGames(scoped) <=> gameOf(line) \in rankedGames(OwnLines(scoped, p))
    <3>1. gameOf(line)[1] = p
      BY DEF OwnLines, gameOf
    <3> QED BY <1>4, <3>1, RankedIsOwn
  <2>3. OwnLines(lines, p) = {line \in OwnLines(db.lines, p) : gameOf(line) \in rankedGames(scoped)}
    BY <1>3 DEF OwnLines
  <2> QED BY <2>1, <2>2, <2>3 DEF LastLines
<1>7. last = today - 1
  BY DEF lastCompletedHostDate
<1>8. GamesMade'
  <2> HIDE DEF lines
  <2> QED BY <1>1 DEF GamesMade
<1>9. \A p \in Player : InScope(p)' => OwnLines(job'.lines, p) = LastLines(OwnLines(db'.lines, p), today' - 1)
  <2> HIDE DEF lines, last
  <2> QED BY <1>1, <1>6, <1>7 DEF InScope
<1> QED BY <1>1, <1>5, <1>8, <1>9 DEF GamesInv

(***************************************************************************)
(* The rows of a digest.                                                   *)
(***************************************************************************)
\* The lines that become batting lines, and the stats with which they do.
Stands(lines, f) == ~ \E other \in lines : other.type # "fielding" /\ sameGame(other, f)
Origins(lines) ==
  {line \in lines : /\ isBatter(line.player)
                    /\ line.type = "batting" \/ (line \in fieldedIn(lines) /\ Stands(lines, line))}
Merged(lines, line) == IF line.type = "batting" THEN charged(line, errorsIn(lines, line)) ELSE standIn(line)
Final(lines, line) ==
  [Merged(lines, line) EXCEPT !.stats = withPlateAppearances(Merged(lines, line).stats)]

\* Two lines that differ in their stats at most.
SameLine(a, b) ==
  /\ a.id = b.id /\ a.player = b.player /\ a.source = b.source /\ a.game = b.game /\ a.type = b.type
  /\ a.date = b.date /\ a.number = b.number /\ a.sport = b.sport /\ a.league = b.league

LEMMA FinalIs ==
    ASSUME NEW lines, NEW line \in Pool
    PROVE  /\ SameLine(Merged(lines, line), line) /\ SameLine(Final(lines, line), line)
           /\ Final(lines, line).stats = withPlateAppearances(Merged(lines, line).stats)
<1>1. IsLine(line)
  BY PoolAssumption
<1>2. /\ SameLine(Merged(lines, line), line)
      /\ Merged(lines, line) = [Merged(lines, line) EXCEPT !.stats = Merged(lines, line).stats]
      /\ DOMAIN Merged(lines, line) = DOMAIN line
  <2> DEFINE e == put(line.stats, "errors", Latest(errorsIn(lines, line)))
             z == [key \in {"errors"} |-> numberOr0(line.stats, key)]
  <2>1. Merged(lines, line) \in {line, [line EXCEPT !.stats = e], [line EXCEPT !.stats = z]}
    BY DEF Merged, charged, standIn
  <2> HIDE DEF e, z
  <2> QED BY <1>1, <2>1 DEF IsLine, SameLine
<1> DEFINE m == Merged(lines, line)
           s == withPlateAppearances(m.stats)
<1>3. DOMAIN m = {"id", "player", "source", "game", "type", "date", "number", "sport", "league", "regular", "stats"}
  BY <1>1, <1>2 DEF IsLine
<1>4. Final(lines, line) = [m EXCEPT !.stats = s]
  BY DEF Final
<1> HIDE DEF m, s
<1>5. SameLine([m EXCEPT !.stats = s], m) /\ [m EXCEPT !.stats = s].stats = s
  BY <1>3 DEF SameLine
<1>6. SameLine(m, line)
  BY <1>2 DEF m
<1> QED BY <1>4, <1>5, <1>6 DEF SameLine, m, s

LEMMA BattingIs ==
    ASSUME NEW lines, lines \subseteq Pool
    PROVE  battingOf(lines) = {Final(lines, line) : line \in Origins(lines)}
<1> DEFINE batting == {l \in lines : l.type = "batting"}
           fielding == {g \in fieldedIn(lines) : Stands(lines, g)}
           merged == mergeFieldingIntoBatting(lines)
           played == {l \in lines : l.type = "batting" \/ (l \in fieldedIn(lines) /\ Stands(lines, l))}
<1>1. merged = {charged(l, errorsIn(lines, l)) : l \in batting} \cup {standIn(f) : f \in fielding}
  BY DEF mergeFieldingIntoBatting, Stands
<1>2. merged = {Merged(lines, l) : l \in played}
  <2>1. \A l \in batting : l \in played /\ Merged(lines, l) = charged(l, errorsIn(lines, l))
    BY DEF Merged
  <2>2. \A f \in fielding : f \in played /\ Merged(lines, f) = standIn(f)
    BY DEF Merged, fieldedIn
  <2>3. \A l \in played : \/ l \in batting /\ Merged(lines, l) = charged(l, errorsIn(lines, l))
                          \/ l \in fielding /\ Merged(lines, l) = standIn(l)
    BY DEF Merged, fieldedIn
  <2> HIDE DEF batting, fielding, merged, played
  <2> QED BY <1>1, <2>1, <2>2, <2>3
<1>3. \A l \in played : Merged(lines, l).player = l.player
  BY FinalIs DEF SameLine
<1>4. battingOf(lines) = {[m EXCEPT !.stats = withPlateAppearances(m.stats)] : m \in {n \in merged : isBatter(n.player)}}
  BY DEF battingOf
<1>5. Origins(lines) = {l \in played : isBatter(l.player)}
  BY DEF Origins
<1> HIDE DEF merged, played
<1> QED BY <1>2, <1>3, <1>4, <1>5 DEF Final

\* What rows are made of: lines with a player each, finitely many.
LEMMA BattingFinite ==
    ASSUME NEW lines, Stored(lines)
    PROVE  IsFiniteSet(battingOf(lines)) /\ IsFiniteSet(pitchingOf(lines))
<1>1. lines \subseteq Pool /\ IsFiniteSet(lines)
  BY DEF Stored
<1> DEFINE f == [l \in Origins(lines) |-> Final(lines, l)]
           T == {Final(lines, l) : l \in Origins(lines)}
<1>2. IsFiniteSet(Origins(lines))
  BY <1>1, FS_Subset DEF Origins
<1>3. battingOf(lines) = {f[l] : l \in Origins(lines)}
  BY <1>1, BattingIs
<1>4. f \in [Origins(lines) -> T]
  OBVIOUS
<1> HIDE DEF f, T
<1>5. IsFiniteSet(battingOf(lines))
  BY <1>2, <1>3, <1>4, FiniteImage
<1>6. IsFiniteSet(pitchingOf(lines))
  BY <1>1, FS_Subset DEF pitchingOf
<1> QED BY <1>5, <1>6

KeyOf(window, line) == IF window.byGame THEN <<line.player, line.game>> ELSE <<line.player, line.sport>>
BucketOf(lines, window, line) == {m \in lines : KeyOf(window, m) = KeyOf(window, line)}

Twice(lines, window, bucket) ==
  window.byGame /\ Cardinality({l.game : l \in {m \in lines : m.player = (CHOOSE x \in bucket : TRUE).player}}) > 1

\* A row is of a line and all those that go with it, or of an idle player.
LEMMA RowsAre ==
    ASSUME NEW lines, NEW window, NEW type, NEW idle, NEW sport, NEW leagues, NEW row
    PROVE  row \in buildRows(lines, window, type, idle, sport, leagues) <=>
             \/ \E line \in lines : row = StatRow(type, BucketOf(lines, window, line),
                                                 Twice(lines, window, BucketOf(lines, window, line)))
             \/ \E p \in idle : row = ZeroRow(type, p, sport[p], leagues[p])
<1> DEFINE buckets == {BucketOf(lines, window, line) : line \in lines}
<1>1. buildRows(lines, window, type, idle, sport, leagues) =
        {StatRow(type, bucket, Twice(lines, window, bucket)) : bucket \in buckets}
          \cup {ZeroRow(type, p, sport[p], leagues[p]) : p \in idle}
  BY Zenon DEF buildRows, Buckets, KeyOf, BucketOf, Twice
<1> QED BY <1>1

LEMMA BucketIs ==
    ASSUME NEW lines, IsFiniteSet(lines), NEW window, NEW line \in lines
    PROVE  LET b == BucketOf(lines, window, line) IN
           /\ line \in b /\ b \subseteq lines /\ IsFiniteSet(b)
           /\ \A m \in b : m.player = line.player
           /\ (CHOOSE m \in b : TRUE) \in b
           /\ Cardinality(b) \in Nat /\ Cardinality(b) > 0
<1> DEFINE b == BucketOf(lines, window, line)
<1>1. line \in b /\ b \subseteq lines
  BY DEF BucketOf
<1>2. \A m \in b : m.player = line.player
  BY DEF BucketOf, KeyOf
<1> HIDE DEF b
<1>3. IsFiniteSet(b)
  BY <1>1, FS_Subset
<1>4. Cardinality(b) \in Nat /\ Cardinality(b) # 0
  BY <1>1, <1>3, FS_CardinalityType, FS_EmptySet
<1> QED BY <1>1, <1>2, <1>3, <1>4 DEF b

LEMMA StatRowIs ==
    ASSUME NEW lines, IsFiniteSet(lines), NEW window, NEW line \in lines, NEW type, NEW twice
    PROVE  LET row == StatRow(type, BucketOf(lines, window, line), twice) IN
           row.core.player = line.player /\ row.core.agg.games = Cardinality(BucketOf(lines, window, line))
<1> DEFINE b == BucketOf(lines, window, line)
<1>1. (CHOOSE m \in b : TRUE).player = line.player
  BY BucketIs
<1> HIDE DEF b
<1>2. /\ StatRow(type, b, twice).core.player = (CHOOSE m \in b : TRUE).player
      /\ StatRow(type, b, twice).core.agg.games = Cardinality(b)
  BY DEF StatRow, buildStatRowCore, aggregate
<1> QED BY <1>1, <1>2 DEF b

LEMMA ZeroRowIs ==
    ASSUME NEW type, NEW p, NEW sport, NEW leagues
    PROVE  ZeroRow(type, p, sport, leagues).core.player = p /\ ZeroRow(type, p, sport, leagues).core.agg.games = 0
<1>1. Cardinality({}) = 0
  BY FS_EmptySet
<1> QED BY <1>1 DEF ZeroRow, aggregate

\* A player's batting lines depend on his own lines alone.
LEMMA BattingIsOwn ==
    ASSUME NEW lines, lines \subseteq Pool, NEW p \in Player
    PROVE  OwnLines(battingOf(lines), p) = battingOf(OwnLines(lines, p))
<1> DEFINE own == OwnLines(lines, p)
<1>1. own \subseteq lines /\ \A l \in lines : l \in own <=> l.player = p
  BY DEF OwnLines
<1>2. ASSUME NEW l \in own PROVE /\ errorsIn(lines, l) = errorsIn(own, l)
                                 /\ l \in Origins(lines) <=> l \in Origins(own)
  <2>1. l \in fieldedIn(lines) <=> l \in fieldedIn(own)
    BY <1>1 DEF fieldedIn
  <2>2. {g \in fieldedIn(lines) : sameGame(g, l)} = {g \in fieldedIn(own) : sameGame(g, l)}
    BY <1>1 DEF fieldedIn, sameGame
  <2>3. Stands(lines, l) <=> Stands(own, l)
    BY <1>1 DEF Stands, sameGame
  <2> HIDE DEF own
  <2> QED BY <1>1, <2>1, <2>2, <2>3 DEF errorsIn, Origins
<1>3. \A l \in own : Final(lines, l) = Final(own, l)
  BY <1>2 DEF Final, Merged
<1>4. battingOf(lines) = {Final(lines, l) : l \in Origins(lines)}
  BY BattingIs
<1>5. battingOf(own) = {Final(own, l) : l \in Origins(own)}
  BY <1>1, BattingIs
<1>6. \A l \in lines : Final(lines, l).player = l.player
  BY FinalIs DEF SameLine
<1>7. Origins(lines) \subseteq lines /\ Origins(own) \subseteq own
  BY DEF Origins
<1>8. OwnLines(battingOf(lines), p) = {m \in battingOf(lines) : m.player = p}
  BY DEF OwnLines
<1> HIDE DEF own
<1>9. {m \in battingOf(lines) : m.player = p} = battingOf(own)
  <2>1. ASSUME NEW m \in battingOf(lines), m.player = p PROVE m \in battingOf(own)
    <3>1. PICK l \in Origins(lines) : m = Final(lines, l)
      BY <1>4
    <3>2. l \in own
      BY <1>1, <1>6, <1>7, <2>1, <3>1
    <3> QED BY <1>2, <1>3, <1>5, <3>1, <3>2
  <2>2. ASSUME NEW m \in battingOf(own) PROVE m \in battingOf(lines) /\ m.player = p
    <3>1. PICK l \in Origins(own) : m = Final(own, l)
      BY <1>5
    <3>2. l \in own /\ l \in lines
      BY <1>1, <1>7, <3>1
    <3> QED BY <1>1, <1>2, <1>3, <1>4, <1>6, <3>1, <3>2
  <2> QED BY <2>1, <2>2
<1> QED BY <1>8, <1>9 DEF own

LEMMA PitchingIsOwn ==
    ASSUME NEW lines, NEW p \in Player
    PROVE  OwnLines(pitchingOf(lines), p) = pitchingOf(OwnLines(lines, p))
BY DEF pitchingOf, OwnLines

(***************************************************************************)
(* Lines and games.  A row is made of lines, the truth is told of games: a *)
(* game that counts for a player is that of exactly one line made of his.  *)
(***************************************************************************)
\* The lines of a player that are counted, and what they are counted as.
Sources(p, own) == IF isBatter(p) THEN Origins(own) ELSE pitchingOf(own)
MadeFrom(p, own, o) == IF isBatter(p) THEN Final(own, o) ELSE o
Made(p, lines) == IF isBatter(p) THEN battingOf(lines) ELSE pitchingOf(lines)

\* The game of a line.
GameIn(own, line) == {m \in own : gameOf(m) = gameOf(line)}

\* All of p's, as one table may have them.
StoredOf(p, own) == p \in Player /\ Stored(own) /\ \A line \in own : line.player = p

LEMMA OneOfType ==
    ASSUME NEW lines, Stored(lines), NEW a \in lines
    PROVE  OfType(GameIn(lines, a), a.type) = {a}
<1>1. ASSUME NEW b \in lines, gameOf(b) = gameOf(a), b.type = a.type PROVE b = a
  <2>1. a \in Pool /\ b \in Pool /\ b.player = a.player /\ b.source = a.source /\ b.game = a.game
    BY <1>1 DEF Stored, gameOf
  <2>2. b.id = a.id
    BY <1>1, <2>1, PoolAssumption
  <2> QED BY <2>2 DEF Stored
<1> QED BY <1>1 DEF OfType, GameIn

LEMMA SameGameIs ==
    ASSUME NEW lines, Stored(lines), NEW a \in lines, NEW b \in lines
    PROVE  sameGame(a, b) <=> gameOf(a) = gameOf(b)
<1>1. a.game = b.game => a.source = b.source
  BY PoolAssumption DEF Stored
<1> QED BY <1>1 DEF sameGame, gameOf

\* A source's game is one of the player's, and the source is the line it is counted by.
LEMMA SourceIsMain ==
    ASSUME NEW p, NEW own, StoredOf(p, own), NEW o \in Sources(p, own)
    PROVE  /\ o \in own /\ o \in Pool
           /\ GameIn(own, o) \in OwnGames(p, own)
           /\ Main(p, GameIn(own, o)) = o
           /\ o.type = Side(p) \/ (isBatter(p) /\ o.type = "fielding" /\ GameIn(own, o) = {o})
<1> DEFINE g == GameIn(own, o)
<1>1. o \in own /\ o \in Pool /\ Stored(own)
  BY DEF Sources, Origins, pitchingOf, StoredOf, Stored
<1>2. g \in Games(own) /\ OfType(g, o.type) = {o}
  BY <1>1, OneOfType DEF Games, GameIn
<1>3. The({o}) = o
  BY DEF The
<1>4. CASE o.type = Side(p)
  <2>1. OwnGame(p, g)
    BY <1>2, <1>4 DEF OwnGame, Side
  <2>2. Main(p, g) = o
    BY <1>2, <1>3, <1>4 DEF Main
  <2> QED BY <1>1, <1>2, <1>4, <2>1, <2>2 DEF OwnGames
<1>5. CASE o.type # Side(p)
  <2>1. isBatter(p) /\ o \in fieldedIn(own) /\ Stands(own, o)
    BY <1>5 DEF Sources, Origins, pitchingOf, Side
  <2>2. o.type = "fielding" /\ \A m \in own : gameOf(m) = gameOf(o) => m.type = "fielding"
    BY <1>1, <2>1, SameGameIs DEF fieldedIn, Stands
  <2>3. g = {o}
    BY <1>1, <1>2, <2>2 DEF OfType, GameIn
  <2>4. OfType(g, "batting") = {} /\ OfType(g, "pitching") = {}
    BY <2>2, <2>3 DEF OfType
  <2>5. Main(p, g) = o /\ OwnGame(p, g)
    BY <1>3, <2>1, <2>3, <2>4 DEF Main, OwnGame, Side
  <2> QED BY <1>1, <1>2, <2>1, <2>2, <2>3, <2>5 DEF OwnGames
<1> QED BY <1>4, <1>5

\* Every game of the player's has a source.
LEMMA GameHasSource ==
    ASSUME NEW p, NEW own, StoredOf(p, own), NEW game \in OwnGames(p, own)
    PROVE  \E o \in Sources(p, own) : game = GameIn(own, o)
<1>1. PICK line \in own : game = GameIn(own, line)
  BY DEF OwnGames, Games, GameIn
<1>2. Stored(own) /\ (\A m \in own : m.player = p /\ IsLine(m)) /\ line \in game
  BY <1>1, PoolAssumption DEF StoredOf, Stored, GameIn
<1>3. ASSUME NEW o \in game PROVE o \in own /\ GameIn(own, o) = game
  BY <1>1 DEF GameIn
<1>4. CASE ~ isBatter(p)
  <2>1. PICK o \in game : o.type = "pitching"
    BY <1>4 DEF OwnGames, OwnGame, OfType
  <2>2. o \in Sources(p, own)
    BY <1>2, <1>3, <1>4, <2>1 DEF Sources, pitchingOf
  <2> QED BY <1>3, <2>2
<1>5. CASE isBatter(p)
  <2>1. CASE OfType(game, "batting") # {}
    <3>1. PICK o \in game : o.type = "batting"
      BY <2>1 DEF OfType
    <3>2. o \in Sources(p, own)
      BY <1>2, <1>3, <1>5, <3>1 DEF Sources, Origins
    <3> QED BY <1>3, <3>2
  <2>2. CASE OfType(game, "batting") = {}
    <3>1. OfType(game, "pitching") = {}
      BY <1>5, <2>2 DEF OwnGames, OwnGame
    <3>2. \A m \in game : m.type = "fielding"
      BY <1>2, <1>3, <2>2, <3>1 DEF OfType, IsLine
    <3>3. line \in fieldedIn(own)
      BY <1>2, <3>2 DEF fieldedIn, IsLine
    <3>4. Stands(own, line)
      BY <1>1, <1>2, <3>2, SameGameIs DEF Stands, GameIn
    <3>5. line \in Sources(p, own)
      BY <1>2, <1>5, <3>3, <3>4 DEF Sources, Origins
    <3> QED BY <1>1, <3>5
  <2> QED BY <2>1, <2>2
<1> QED BY <1>4, <1>5

LEMMA MadeIs ==
    ASSUME NEW p, NEW own, StoredOf(p, own)
    PROVE  /\ Made(p, own) = {MadeFrom(p, own, o) : o \in Sources(p, own)}
           /\ \A o \in Sources(p, own) : SameLine(MadeFrom(p, own, o), o)
           /\ IsFiniteSet(Made(p, own))
<1>1. own \subseteq Pool /\ Stored(own)
  BY DEF StoredOf, Stored
<1>2. \A o \in Sources(p, own) : o \in Pool
  BY SourceIsMain
<1>3. \A o \in Sources(p, own) : SameLine(MadeFrom(p, own, o), o)
  BY <1>2, FinalIs DEF MadeFrom, SameLine
<1>4. Made(p, own) = {MadeFrom(p, own, o) : o \in Sources(p, own)}
  BY <1>1, BattingIs DEF Made, MadeFrom, Sources
<1> QED BY <1>1, <1>3, <1>4, BattingFinite DEF Made

\* Lines made and games of a player's are one to one, and alike in where and when.
LEMMA MadeIsGame ==
    ASSUME NEW p, NEW own, StoredOf(p, own), NEW m \in Made(p, own)
    PROVE  /\ GameIn(own, m) \in OwnGames(p, own)
           /\ SameLine(m, Main(p, GameIn(own, m))) /\ m.player = p
           /\ \A n \in Made(p, own) : GameIn(own, n) = GameIn(own, m) => n = m
           /\ \A n \in Made(p, own) : n.game = m.game => n = m
<1>1. ASSUME NEW o \in Sources(p, own)
      PROVE  LET n == MadeFrom(p, own, o) IN
             GameIn(own, n) = GameIn(own, o) /\ SameLine(n, o) /\ gameOf(n) = gameOf(o)
  BY MadeIs DEF SameLine, GameIn, gameOf
<1>2. PICK o \in Sources(p, own) : m = MadeFrom(p, own, o)
  BY MadeIs
<1>3. /\ GameIn(own, m) \in OwnGames(p, own)
      /\ SameLine(m, Main(p, GameIn(own, m))) /\ m.player = p
  BY <1>1, <1>2, SourceIsMain DEF StoredOf, SameLine
<1>4. ASSUME NEW n \in Made(p, own), GameIn(own, n) = GameIn(own, m) PROVE n = m
  <2>1. PICK u \in Sources(p, own) : n = MadeFrom(p, own, u)
    BY MadeIs
  <2>2. GameIn(own, u) = GameIn(own, o)
    BY <1>1, <1>2, <1>4, <2>1
  <2>3. u = o
    BY <2>2, SourceIsMain
  <2> QED BY <1>2, <2>1, <2>3
<1>5. ASSUME NEW n \in Made(p, own), n.game = m.game PROVE n = m
  <2>1. PICK u \in Sources(p, own) : n = MadeFrom(p, own, u)
    BY MadeIs
  <2>2. u.game = o.game /\ u \in own /\ o \in own /\ Stored(own)
    BY <1>1, <1>2, <1>5, <2>1, SourceIsMain DEF SameLine, StoredOf
  <2>3. sameGame(u, o)
    BY <2>2 DEF sameGame, StoredOf
  <2>4. GameIn(own, n) = GameIn(own, m)
    BY <1>1, <1>2, <2>1, <2>2, <2>3, SameGameIs DEF GameIn
  <2> QED BY <1>4, <2>4
<1> QED BY <1>3, <1>4, <1>5

LEMMA GameIsMade ==
    ASSUME NEW p, NEW own, StoredOf(p, own), NEW game \in OwnGames(p, own)
    PROVE  \E m \in Made(p, own) : game = GameIn(own, m)
<1>1. PICK o \in Sources(p, own) : game = GameIn(own, o)
  BY GameHasSource
<1>2. MadeFrom(p, own, o) \in Made(p, own) /\ SameLine(MadeFrom(p, own, o), o)
  BY MadeIs
<1>3. GameIn(own, MadeFrom(p, own, o)) = GameIn(own, o)
  BY <1>2 DEF GameIn, SameLine, gameOf
<1> QED BY <1>1, <1>2, <1>3

(***************************************************************************)
(* What a line counts is what its game does.                               *)
(***************************************************************************)
LEMMA Keys ==
  /\ KeysOfClass("batting", "counter")
       = {"atBats", "hits", "baseOnBalls", "hitByPitch", "plateAppearances", "errors"}
  /\ KeysOfClass("pitching", "counter") = {"earnedRuns", "wins", "losses", "gamesStarted", "hits"}
  /\ "errors" \in KeysOfClass("fielding", "counter")
<1>1. TABLES["batting"] = BATTING /\ TABLES["pitching"] = PITCHING /\ TABLES["fielding"] = FIELDING
  BY DEF TABLES
<1>2. KeysOfClass("batting", "counter")
       = {"atBats", "hits", "baseOnBalls", "hitByPitch", "plateAppearances", "errors"}
  BY <1>1 DEF KeysOfClass, BATTING
<1>3. KeysOfClass("pitching", "counter") = {"earnedRuns", "wins", "losses", "gamesStarted", "hits"}
  BY <1>1 DEF KeysOfClass, PITCHING
<1>4. "errors" \in KeysOfClass("fielding", "counter")
  BY <1>1 DEF KeysOfClass, FIELDING
<1> QED BY <1>2, <1>3, <1>4

LEMMA Put ==
    ASSUME NEW stats, NEW k, NEW v, NEW key
    PROVE  numberOr0(put(stats, k, v), key) = IF key = k THEN v ELSE numberOr0(stats, key)
BY DEF numberOr0, put

LEMMA Appearances ==
    ASSUME NEW s, NEW key, \A k \in {"atBats", "baseOnBalls", "hitByPitch", "plateAppearances"} : numberOr0(s, k) \in Nat
    PROVE  numberOr0(withPlateAppearances(s), key) =
             IF key = "plateAppearances" /\ numberOr0(s, key) = 0
             THEN numberOr0(s, "atBats") + numberOr0(s, "baseOnBalls") + numberOr0(s, "hitByPitch")
             ELSE numberOr0(s, key)
<1> DEFINE derived == numberOr0(s, "atBats") + numberOr0(s, "baseOnBalls") + numberOr0(s, "hitByPitch")
<1>1. withPlateAppearances(s) = IF numberOr0(s, "plateAppearances") > 0 \/ derived = 0 THEN s
                                ELSE put(s, "plateAppearances", derived)
  BY DEF withPlateAppearances
<1>2. numberOr0(put(s, "plateAppearances", derived), key) = IF key = "plateAppearances" THEN derived ELSE numberOr0(s, key)
  BY Put
<1>3. derived \in Nat /\ numberOr0(s, "plateAppearances") \in Nat
  OBVIOUS
<1> HIDE DEF derived
<1>4. CASE numberOr0(s, "plateAppearances") > 0 \/ derived = 0
  BY <1>1, <1>3, <1>4 DEF derived
<1>5. CASE ~ (numberOr0(s, "plateAppearances") > 0 \/ derived = 0)
  BY <1>1, <1>2, <1>3, <1>5 DEF derived
<1> QED BY <1>4, <1>5

LEMMA CounterIsNat ==
    ASSUME NEW line \in Pool, NEW key \in KeysOfClass(line.type, "counter")
    PROVE  numberOr0(line.stats, key) \in Nat
BY PoolAssumption DEF IsLine, numberOr0

\* The errors a game's fielding line lends.
LEMMA ErrorsOfGame ==
    ASSUME NEW own, Stored(own), NEW o \in own
    PROVE  LET field == OfType(GameIn(own, o), "fielding") IN
           /\ errorsIn(own, o) = {numberOr0(f.stats, "errors") : f \in field}
           /\ field # {} => /\ field = {The(field)} /\ numberOr0(The(field).stats, "errors") \in Nat
                            /\ Latest(errorsIn(own, o)) = numberOr0(The(field).stats, "errors")
<1> DEFINE field == OfType(GameIn(own, o), "fielding")
<1>1. field = {g \in fieldedIn(own) : sameGame(g, o)}
  <2>1. fieldedIn(own) = {l \in own : l.type = "fielding"}
    BY PoolAssumption DEF fieldedIn, IsLine, Stored
  <2> QED BY <2>1, SameGameIs DEF OfType, GameIn
<1>2. errorsIn(own, o) = {numberOr0(f.stats, "errors") : f \in field}
  BY <1>1 DEF errorsIn
<1>3. ASSUME NEW f \in field
      PROVE  /\ field = {f} /\ The(field) = f /\ numberOr0(f.stats, "errors") \in Nat
             /\ Latest(errorsIn(own, o)) = numberOr0(f.stats, "errors")
  <2>1. f \in own /\ f.type = "fielding" /\ GameIn(own, f) = GameIn(own, o) /\ f \in Pool
    BY DEF OfType, GameIn, Stored
  <2>2. field = {f}
    BY <2>1, OneOfType
  <2>3. The(field) = f
    BY <2>2 DEF The
  <2>4. numberOr0(f.stats, "errors") \in Nat
    BY <2>1, CounterIsNat, Keys
  <2> DEFINE e == numberOr0(f.stats, "errors")
  <2>5. errorsIn(own, o) = {e}
    BY <1>2, <2>2
  <2> HIDE DEF e, field
  <2>6. Latest({e}) = e
    BY <2>4 DEF Latest, e
  <2> QED BY <2>2, <2>3, <2>4, <2>5, <2>6 DEF e
<1> QED BY <1>2, <1>3

LEMMA CountedIs ==
    ASSUME NEW p, NEW own, StoredOf(p, own), NEW o \in Sources(p, own), NEW key \in KeysOfClass(Side(p), "counter")
    PROVE  /\ numberOr0(MadeFrom(p, own, o).stats, key) = Counted(p, GameIn(own, o), key)
           /\ Counted(p, GameIn(own, o), key) \in Nat
<1> DEFINE g == GameIn(own, o)
           main == OfType(g, Side(p))
           field == OfType(g, "fielding")
           has(k) == IF main = {} THEN 0 ELSE numberOr0(The(main).stats, k)
           errors == numberOr0(The(field).stats, "errors")
<1>1. o \in own /\ o \in Pool /\ Stored(own)
  BY SourceIsMain DEF StoredOf
<1>2. Counted(p, g, key) =
        CASE key = "errors" /\ isBatter(p) /\ field # {} -> errors
          [] key = "plateAppearances" /\ has(key) = 0 -> has("atBats") + has("baseOnBalls") + has("hitByPitch")
          [] OTHER -> has(key)
  BY DEF Counted
<1>3. ASSUME o.type = Side(p) PROVE \A k : has(k) = numberOr0(o.stats, k)
  <2>1. main = {o} /\ The({o}) = o
    BY <1>1, <1>3, OneOfType DEF The
  <2> QED BY <2>1
<1>4. ASSUME o.type = Side(p) PROVE \A k \in KeysOfClass(Side(p), "counter") : has(k) \in Nat
  <2>1. \A k \in KeysOfClass(Side(p), "counter") : numberOr0(o.stats, k) \in Nat
    BY <1>1, <1>4, CounterIsNat
  <2> QED BY <1>3, <1>4, <2>1
<1>5. field # {} => errors \in Nat /\ Latest(errorsIn(own, o)) = errors
  BY <1>1, ErrorsOfGame
<1>6. errorsIn(own, o) = {} <=> field = {}
  <2>1. errorsIn(own, o) = {numberOr0(f.stats, "errors") : f \in field}
    BY <1>1, ErrorsOfGame
  <2> HIDE DEF field
  <2> QED BY <2>1
<1>7. CASE ~ isBatter(p)
  <2>1. o.type = Side(p) /\ MadeFrom(p, own, o) = o /\ key # "errors" /\ key # "plateAppearances"
    BY <1>7, SourceIsMain, Keys DEF MadeFrom, Side
  <2> HIDE DEF has, errors, field, main
  <2> QED BY <1>2, <1>3, <1>4, <1>7, <2>1
<1>8. CASE isBatter(p)
  <2> DEFINE s == Merged(own, o).stats
  <2>1. MadeFrom(p, own, o).stats = withPlateAppearances(s)
    BY <1>1, <1>8, FinalIs DEF MadeFrom
  <2>2. KeysOfClass(Side(p), "counter") = {"atBats", "hits", "baseOnBalls", "hitByPitch", "plateAppearances", "errors"}
    BY <1>8, Keys DEF Side
  <2>3. \A k \in KeysOfClass(Side(p), "counter") :
          numberOr0(s, k) = (IF k = "errors" /\ field # {} THEN errors ELSE has(k)) /\ has(k) \in Nat
    <3>1. CASE o.type = "batting"
      <4>1. o.type = Side(p)
        BY <1>8, <3>1 DEF Side
      <4>2. CASE field = {}
        <5>1. s = o.stats
          BY <1>6, <3>1, <4>2 DEF Merged, charged
        <5> HIDE DEF s, has, errors
        <5> QED BY <1>3, <1>4, <4>1, <4>2, <5>1
      <4>3. CASE field # {}
        <5>1. s = put(o.stats, "errors", errors)
          <6>1. IsLine(o)
            BY <1>1, PoolAssumption
          <6>2. Merged(own, o) = [o EXCEPT !.stats = put(o.stats, "errors", errors)]
            BY <1>5, <1>6, <3>1, <4>3 DEF Merged, charged
          <6> HIDE DEF errors
          <6> QED BY <6>1, <6>2 DEF IsLine
        <5>2. \A k : numberOr0(s, k) = IF k = "errors" THEN errors ELSE numberOr0(o.stats, k)
          BY <5>1, Put
        <5> HIDE DEF s, has, errors, field
        <5> QED BY <1>3, <1>4, <4>1, <4>3, <5>2
      <4> QED BY <4>2, <4>3
    <3>2. CASE o.type # "batting"
      <4>1. o.type = "fielding" /\ g = {o}
        BY <1>8, <3>2, SourceIsMain DEF Side
      <4>2. main = {} /\ field = {o}
        BY <1>8, <4>1 DEF OfType, Side
      <4>3. errors = numberOr0(o.stats, "errors") /\ \A k : has(k) = 0
        BY <4>2 DEF The
      <4>4. s = [k \in {"errors"} |-> numberOr0(o.stats, k)]
        <5>1. IsLine(o)
          BY <1>1, PoolAssumption
        <5> DEFINE z == [k \in {"errors"} |-> numberOr0(o.stats, k)]
        <5>2. Merged(own, o) = [o EXCEPT !.stats = z]
          BY <4>1 DEF Merged, standIn
        <5> HIDE DEF z
        <5> QED BY <5>1, <5>2 DEF IsLine, z
      <4>5. \A k : numberOr0(s, k) = IF k = "errors" THEN errors ELSE 0
        BY <4>3, <4>4 DEF numberOr0
      <4> HIDE DEF s, has, errors, field
      <4> QED BY <4>2, <4>3, <4>5
    <3> QED BY <3>1, <3>2
  <2> HIDE DEF s, has, errors, field, main, g
  <2>4. \A k \in KeysOfClass(Side(p), "counter") : numberOr0(s, k) \in Nat
    BY <1>5, <2>3
  <2>5. numberOr0(withPlateAppearances(s), key) =
             IF key = "plateAppearances" /\ numberOr0(s, key) = 0
             THEN numberOr0(s, "atBats") + numberOr0(s, "baseOnBalls") + numberOr0(s, "hitByPitch")
             ELSE numberOr0(s, key)
    <3>1. \A k \in {"atBats", "baseOnBalls", "hitByPitch", "plateAppearances"} : numberOr0(s, k) \in Nat
      BY <2>2, <2>4
    <3> QED BY <3>1, Appearances
  <2>6. /\ numberOr0(s, "atBats") = has("atBats") /\ numberOr0(s, "baseOnBalls") = has("baseOnBalls")
        /\ numberOr0(s, "hitByPitch") = has("hitByPitch")
        /\ has("atBats") \in Nat /\ has("baseOnBalls") \in Nat /\ has("hitByPitch") \in Nat
    BY <2>2, <2>3
  <2>7. numberOr0(withPlateAppearances(s), key) = Counted(p, g, key) /\ Counted(p, g, key) \in Nat
    <3>1. CASE key = "errors"
      BY <1>2, <1>5, <1>8, <2>3, <2>5, <3>1
    <3>2. CASE key = "plateAppearances"
      BY <1>2, <2>3, <2>5, <2>6, <3>2
    <3>3. CASE key # "errors" /\ key # "plateAppearances"
      BY <1>2, <2>3, <2>5, <3>3
    <3> QED BY <3>1, <3>2, <3>3
  <2> QED BY <2>1, <2>7 DEF g
<1> QED BY <1>7, <1>8

LEMMA TwoOfSeq == ASSUME NEW s \in Seq(Nat), Len(s) = 2 PROVE s[1] \in Nat /\ s[2] \in Nat
OBVIOUS

LEMMA Outs ==
    ASSUME NEW p, NEW own, StoredOf(p, own), NEW o \in Sources(p, own), ~ isBatter(p)
    PROVE  LET g == GameIn(own, o) IN
           /\ OfType(g, "pitching") = {o}
           /\ OutsOf(o.stats, "inningsPitched") = Thirds(g) /\ Thirds(g) \in Nat
           /\ "inningsPitched" \in DOMAIN o.stats /\ ipToOuts(o.stats["inningsPitched"]) # NoOuts
                => Thirds(g) = ipToOuts(o.stats["inningsPitched"])
           /\ ~ ("inningsPitched" \in DOMAIN o.stats /\ ipToOuts(o.stats["inningsPitched"]) # NoOuts) => Thirds(g) = 0
<1> DEFINE g == GameIn(own, o)
           ip == {l.stats["inningsPitched"] : l \in {m \in OfType(g, "pitching") : "inningsPitched" \in DOMAIN m.stats}}
           thirds == {3 * x[1] + x[2] : x \in {y \in ip : Len(y) = 2 /\ y[2] < 3}}
           x == o.stats["inningsPitched"]
<1>1. o.type = "pitching" /\ o \in own /\ o \in Pool /\ Stored(own)
  BY SourceIsMain DEF StoredOf, Side
<1>2. OfType(g, "pitching") = {o}
  BY <1>1, OneOfType
<1>3. Thirds(g) = IF thirds = {} THEN 0 ELSE The(thirds)
  BY DEF Thirds
<1>4. CASE "inningsPitched" \notin DOMAIN o.stats
  <2>1. ip = {}
    BY <1>2, <1>4
  <2>2. OutsOf(o.stats, "inningsPitched") = 0
    BY <1>4 DEF OutsOf
  <2> HIDE DEF ip
  <2> QED BY <1>2, <1>3, <1>4, <2>1, <2>2
<1>5. CASE "inningsPitched" \in DOMAIN o.stats
  <2>1. ip = {x}
    BY <1>2, <1>5
  <2>2. x \in Seq(Nat)
    BY <1>1, <1>5, PoolAssumption DEF IsLine
  <2> HIDE DEF x, ip
  <2>3. CASE Len(x) = 2 /\ x[2] < 3
    <3>1. x[1] \in Nat /\ x[2] \in Nat
      BY <2>2, <2>3
    <3>2. thirds = {3 * x[1] + x[2]}
      BY <2>1, <2>3
    <3>3. Thirds(g) = 3 * x[1] + x[2]
      BY <1>3, <3>2 DEF The
    <3>4. ipToOuts(x) = 3 * x[1] + x[2] /\ ipToOuts(x) \in Nat /\ ipToOuts(x) # NoOuts
      BY <2>3, <3>1 DEF ipToOuts, NoOuts
    <3>5. OutsOf(o.stats, "inningsPitched") = ipToOuts(x)
      BY <1>5, <3>4 DEF OutsOf, x
    <3> QED BY <1>2, <1>5, <3>3, <3>4, <3>5 DEF x
  <2>4. CASE ~ (Len(x) = 2 /\ x[2] < 3)
    <3>1. thirds = {}
      BY <2>1, <2>4
    <3>2. ASSUME Len(x) = 2 PROVE x[2] \in Nat
      BY <2>2, <3>2, TwoOfSeq
    <3>3. ipToOuts(x) = NoOuts
      BY <2>4, <3>2 DEF ipToOuts
    <3>4. OutsOf(o.stats, "inningsPitched") = 0
      BY <3>3 DEF OutsOf, x
    <3> QED BY <1>2, <1>3, <3>1, <3>3, <3>4 DEF x
  <2> QED BY <2>3, <2>4
<1> QED BY <1>4, <1>5

LEMMA Decisions ==
    ASSUME NEW p, NEW own, StoredOf(p, own), NEW o \in Sources(p, own), ~ isBatter(p)
    PROVE  LET g == GameIn(own, o) IN
           /\ IsQuality(p, g) <=> /\ "inningsPitched" \in DOMAIN o.stats
                                  /\ qualityStart(ipToOuts(o.stats["inningsPitched"]), numberOr0(o.stats, "earnedRuns"))
           /\ \A key \in {"wins", "losses"} :
                InRelief(p, g, key) <=> numberOr0(o.stats, key) = 1 /\ isReliefAppearance(o.stats)
<1> DEFINE g == GameIn(own, o)
<1>1. \A key \in {"earnedRuns", "wins", "losses"} : numberOr0(o.stats, key) = Counted(p, g, key) /\ Counted(p, g, key) \in Nat
  <2>1. {"earnedRuns", "wins", "losses"} \subseteq KeysOfClass(Side(p), "counter") /\ MadeFrom(p, own, o) = o
    BY Keys DEF Side, MadeFrom
  <2> QED BY <2>1, CountedIs
<1>2. /\ OfType(g, "pitching") = {o} /\ Thirds(g) \in Nat
      /\ "inningsPitched" \in DOMAIN o.stats /\ ipToOuts(o.stats["inningsPitched"]) # NoOuts
           => Thirds(g) = ipToOuts(o.stats["inningsPitched"])
      /\ ~ ("inningsPitched" \in DOMAIN o.stats /\ ipToOuts(o.stats["inningsPitched"]) # NoOuts) => Thirds(g) = 0
  BY Outs
<1> HIDE DEF g
<1>3. IsQuality(p, g) <=> /\ "inningsPitched" \in DOMAIN o.stats
                          /\ qualityStart(ipToOuts(o.stats["inningsPitched"]), numberOr0(o.stats, "earnedRuns"))
  BY <1>1, <1>2 DEF IsQuality, qualityStart
<1>4. \A key \in {"wins", "losses"} :
        InRelief(p, g, key) <=> numberOr0(o.stats, key) = 1 /\ isReliefAppearance(o.stats)
  BY <1>1, <1>2 DEF InRelief, isReliefAppearance
<1> QED BY <1>3, <1>4 DEF g

LEMMA SameCount ==
    ASSUME NEW S, IsFiniteSet(S), NEW T, NEW b \in [S -> T],
           \A x, y \in S : b[x] = b[y] => x = y, \A t \in T : \E x \in S : b[x] = t
    PROVE  IsFiniteSet(T) /\ Cardinality(S) = Cardinality(T)
<1>1. b \in Bijection(S, T)
  BY DEF Bijection, Injection, IsInjective, Surjection
<1>2. ExistsBijection(S, T)
  BY <1>1 DEF ExistsBijection
<1> QED BY <1>2, FS_Bijection

\* As many of S are in U as of T in V, if they correspond.
LEMMA SameCountOf ==
    ASSUME NEW S, IsFiniteSet(S), NEW T, NEW b \in [S -> T],
           \A x, y \in S : b[x] = b[y] => x = y, \A t \in T : \E x \in S : b[x] = t,
           NEW U \in SUBSET S, NEW V \in SUBSET T, \A x \in S : x \in U <=> b[x] \in V
    PROVE  Cardinality(U) = Cardinality(V)
<1> DEFINE c == [x \in U |-> b[x]]
<1>1. c \in [U -> V] /\ IsFiniteSet(U)
  BY FS_Subset
<1>2. \A x, y \in U : c[x] = c[y] => x = y
  OBVIOUS
<1>3. \A t \in V : \E x \in U : c[x] = t
  OBVIOUS
<1> HIDE DEF c
<1> QED BY <1>1, <1>2, <1>3, SameCount

(***************************************************************************)
(* Rows and sets of games.                                                 *)
(***************************************************************************)
GamesIn(own, made) == {GameIn(own, m) : m \in made}

LEMMA MadeCounts ==
    ASSUME NEW p, NEW own, StoredOf(p, own), NEW m \in Made(p, own)
    PROVE  LET g == GameIn(own, m) IN
           /\ \A key \in KeysOfClass(Side(p), "counter") :
                numberOr0(m.stats, key) = Counted(p, g, key) /\ Counted(p, g, key) \in Nat
           /\ ~ isBatter(p) =>
                /\ OutsOf(m.stats, "inningsPitched") = Thirds(g) /\ Thirds(g) \in Nat
                /\ IsQuality(p, g) <=> /\ "inningsPitched" \in DOMAIN m.stats
                                       /\ qualityStart(ipToOuts(m.stats["inningsPitched"]), numberOr0(m.stats, "earnedRuns"))
                /\ \A key \in {"wins", "losses"} :
                     InRelief(p, g, key) <=> numberOr0(m.stats, key) = 1 /\ isReliefAppearance(m.stats)
<1> DEFINE g == GameIn(own, m)
<1>1. PICK o \in Sources(p, own) : m = MadeFrom(p, own, o)
  BY MadeIs
<1>2. g = GameIn(own, o)
  <2>1. gameOf(m) = gameOf(o)
    BY <1>1, MadeIs DEF SameLine, gameOf
  <2> QED BY <2>1 DEF GameIn
<1>3. \A key \in KeysOfClass(Side(p), "counter") :
        numberOr0(m.stats, key) = Counted(p, g, key) /\ Counted(p, g, key) \in Nat
  BY <1>1, <1>2, CountedIs
<1> HIDE DEF g
<1>4. ASSUME ~ isBatter(p)
      PROVE  /\ OutsOf(m.stats, "inningsPitched") = Thirds(g) /\ Thirds(g) \in Nat
             /\ IsQuality(p, g) <=> /\ "inningsPitched" \in DOMAIN m.stats
                                    /\ qualityStart(ipToOuts(m.stats["inningsPitched"]), numberOr0(m.stats, "earnedRuns"))
             /\ \A key \in {"wins", "losses"} :
                  InRelief(p, g, key) <=> numberOr0(m.stats, key) = 1 /\ isReliefAppearance(m.stats)
  <2>1. m = o
    BY <1>1, <1>4 DEF MadeFrom
  <2>2. OutsOf(m.stats, "inningsPitched") = Thirds(g) /\ Thirds(g) \in Nat
    BY <1>2, <1>4, <2>1, Outs
  <2> QED BY <1>2, <1>4, <2>1, <2>2, Decisions
<1> QED BY <1>3, <1>4 DEF g

\* Lines made are as many as their games.
LEMMA MadeToGames ==
    ASSUME NEW p, NEW own, StoredOf(p, own), NEW B, B \subseteq Made(p, own)
    PROVE  LET b == [m \in B |-> GameIn(own, m)] IN
           /\ IsFiniteSet(B) /\ IsFiniteSet(GamesIn(own, B)) /\ Cardinality(B) = Cardinality(GamesIn(own, B))
           /\ b \in [B -> GamesIn(own, B)]
           /\ \A x, y \in B : b[x] = b[y] => x = y
           /\ \A t \in GamesIn(own, B) : \E x \in B : b[x] = t
<1> DEFINE b == [m \in B |-> GameIn(own, m)]
           G == GamesIn(own, B)
<1>1. IsFiniteSet(B)
  BY MadeIs, FS_Subset
<1>2. b \in [B -> G] /\ \A t \in G : \E x \in B : b[x] = t
  BY DEF GamesIn
<1>3. \A x, y \in B : b[x] = b[y] => x = y
  BY MadeIsGame
<1> HIDE DEF b, G
<1>4. IsFiniteSet(G) /\ Cardinality(B) = Cardinality(G)
  BY <1>1, <1>2, <1>3, SameCount
<1> QED BY <1>1, <1>2, <1>3, <1>4 DEF b, G

CountOf(lines, key) == SumFunction([line \in lines |-> numberOr0(line.stats, key)])
CountIn(p, games, key) == SumFunction([g \in games |-> Counted(p, g, key)])
OutsFrom(lines) == SumFunction([line \in lines |-> OutsOf(line.stats, "inningsPitched")])
ThirdsIn(games) == SumFunction([g \in games |-> Thirds(g)])

LEMMA SumsAgree ==
    ASSUME NEW p, NEW own, StoredOf(p, own), NEW B, B \subseteq Made(p, own)
    PROVE  /\ \A key \in KeysOfClass(Side(p), "counter") : CountOf(B, key) = CountIn(p, GamesIn(own, B), key)
           /\ ~ isBatter(p) => OutsFrom(B) = ThirdsIn(GamesIn(own, B))
<1> DEFINE b == [m \in B |-> GameIn(own, m)]
           G == GamesIn(own, B)
<1>1. /\ IsFiniteSet(B) /\ IsFiniteSet(G) /\ b \in [B -> G]
      /\ \A x, y \in B : b[x] = b[y] => x = y
      /\ \A t \in G : \E x \in B : b[x] = t
  BY MadeToGames
<1>2. \A t \in G : \E x \in B : t = GameIn(own, x) /\ x \in Made(p, own)
  BY DEF GamesIn
<1>3. \A x \in B : b[x] = GameIn(own, x) /\ x \in Made(p, own)
  OBVIOUS
<1> HIDE DEF b, G
<1>4. ASSUME NEW key \in KeysOfClass(Side(p), "counter") PROVE CountOf(B, key) = CountIn(p, G, key)
  <2> DEFINE f == [line \in B |-> numberOr0(line.stats, key)]
             h == [g \in G |-> Counted(p, g, key)]
  <2>1. f \in [B -> Int] /\ h \in [G -> Int]
    BY <1>2, <1>3, MadeCounts
  <2>2. \A x \in B : f[x] = h[b[x]]
    BY <1>1, <1>3, MadeCounts
  <2>3. DOMAIN f = B /\ DOMAIN h = G
    OBVIOUS
  <2>4. CountOf(B, key) = SumFunctionOnSet(f, DOMAIN f) /\ CountIn(p, G, key) = SumFunctionOnSet(h, DOMAIN h)
    BY DEF CountOf, CountIn, SumFunction
  <2> HIDE DEF f, h
  <2>5. SumFunctionOnSet(f, B) = SumFunctionOnSet(h, G)
    BY <1>1, <2>1, <2>2, SumAlong
  <2> QED BY <2>3, <2>4, <2>5
<1>5. ASSUME ~ isBatter(p) PROVE OutsFrom(B) = ThirdsIn(G)
  <2> DEFINE f == [line \in B |-> OutsOf(line.stats, "inningsPitched")]
             h == [g \in G |-> Thirds(g)]
  <2>1. f \in [B -> Int] /\ h \in [G -> Int]
    BY <1>2, <1>3, <1>5, MadeCounts
  <2>2. \A x \in B : f[x] = h[b[x]]
    BY <1>1, <1>3, <1>5, MadeCounts
  <2>3. DOMAIN f = B /\ DOMAIN h = G
    OBVIOUS
  <2>4. OutsFrom(B) = SumFunctionOnSet(f, DOMAIN f) /\ ThirdsIn(G) = SumFunctionOnSet(h, DOMAIN h)
    BY DEF OutsFrom, ThirdsIn, SumFunction
  <2> HIDE DEF f, h
  <2>5. SumFunctionOnSet(f, B) = SumFunctionOnSet(h, G)
    BY <1>1, <2>1, <2>2, SumAlong
  <2> QED BY <2>3, <2>4, <2>5
<1> QED BY <1>4, <1>5 DEF G

LEMMA DecisionsAgree ==
    ASSUME NEW p, NEW own, StoredOf(p, own), NEW B, B \subseteq Made(p, own), ~ isBatter(p)
    PROVE  LET G == GamesIn(own, B) IN
           /\ countQualityStarts(B) = Cardinality({g \in G : IsQuality(p, g)})
           /\ countReliefWins(B) = Cardinality({g \in G : InRelief(p, g, "wins")})
           /\ countReliefLosses(B) = Cardinality({g \in G : InRelief(p, g, "losses")})
<1> DEFINE b == [m \in B |-> GameIn(own, m)]
           G == GamesIn(own, B)
<1>1. /\ IsFiniteSet(B) /\ b \in [B -> G]
      /\ \A x, y \in B : b[x] = b[y] => x = y
      /\ \A t \in G : \E x \in B : b[x] = t
  BY MadeToGames
<1>2. \A x \in B : b[x] = GameIn(own, x) /\ x \in Made(p, own)
  OBVIOUS
<1> HIDE DEF b, G
<1>3. countQualityStarts(B) = Cardinality({g \in G : IsQuality(p, g)})
  <2> DEFINE U == {line \in B : /\ "inningsPitched" \in DOMAIN line.stats
                                /\ qualityStart(ipToOuts(line.stats["inningsPitched"]), numberOr0(line.stats, "earnedRuns"))}
             V == {g \in G : IsQuality(p, g)}
  <2>1. U \in SUBSET B /\ V \in SUBSET G
    OBVIOUS
  <2>2. \A x \in B : x \in U <=> b[x] \in V
    BY <1>1, <1>2, MadeCounts
  <2>3. countQualityStarts(B) = Cardinality(U)
    BY DEF countQualityStarts
  <2> HIDE DEF U, V
  <2>4. Cardinality(U) = Cardinality(V)
    BY <1>1, <2>1, <2>2, SameCountOf
  <2> QED BY <2>3, <2>4 DEF V
<1>4. countReliefWins(B) = Cardinality({g \in G : InRelief(p, g, "wins")})
  <2> DEFINE U == {line \in B : numberOr0(line.stats, "wins") = 1 /\ isReliefAppearance(line.stats)}
             V == {g \in G : InRelief(p, g, "wins")}
  <2>1. U \in SUBSET B /\ V \in SUBSET G
    OBVIOUS
  <2>2. \A x \in B : x \in U <=> b[x] \in V
    BY <1>1, <1>2, MadeCounts
  <2>3. countReliefWins(B) = Cardinality(U)
    BY DEF countReliefWins
  <2> HIDE DEF U, V
  <2>4. Cardinality(U) = Cardinality(V)
    BY <1>1, <2>1, <2>2, SameCountOf
  <2> QED BY <2>3, <2>4 DEF V
<1>5. countReliefLosses(B) = Cardinality({g \in G : InRelief(p, g, "losses")})
  <2> DEFINE U == {line \in B : numberOr0(line.stats, "losses") = 1 /\ isReliefAppearance(line.stats)}
             V == {g \in G : InRelief(p, g, "losses")}
  <2>1. U \in SUBSET B /\ V \in SUBSET G
    OBVIOUS
  <2>2. \A x \in B : x \in U <=> b[x] \in V
    BY <1>1, <1>2, MadeCounts
  <2>3. countReliefLosses(B) = Cardinality(U)
    BY DEF countReliefLosses
  <2> HIDE DEF U, V
  <2>4. Cardinality(U) = Cardinality(V)
    BY <1>1, <2>1, <2>2, SameCountOf
  <2> QED BY <2>3, <2>4 DEF V
<1> QED BY <1>3, <1>4, <1>5 DEF G

LabelsOf(p, games) == {levelAbbrev(Main(p, g).sport, Main(p, g).league) : g \in games}

\* A row made of some lines has the figures, and the labels, of their games.
LEMMA CoreIsTrue ==
    ASSUME NEW p, NEW own, StoredOf(p, own), NEW B, B \subseteq Made(p, own)
    PROVE  LET core == buildStatRowCore(Side(p), B) IN
           /\ Figures(core) = TrueFigures(p, GamesIn(own, B))
           /\ core.labels = LabelsOf(p, GamesIn(own, B))
           /\ core.agg.games = Cardinality(GamesIn(own, B)) /\ core.agg.games = Cardinality(B)
<1> DEFINE G == GamesIn(own, B)
           K == KeysOfClass(Side(p), "counter")
           core == buildStatRowCore(Side(p), B)
           Q == Cardinality({g \in G : IsQuality(p, g)})
           W == Cardinality({g \in G : InRelief(p, g, "wins")})
           L == Cardinality({g \in G : InRelief(p, g, "losses")})
<1>1. Cardinality(B) = Cardinality(G)
  BY MadeToGames
<1>2. \A key \in K : CountOf(B, key) = CountIn(p, G, key)
  BY SumsAgree
<1>3. Side(p) = "pitching" <=> ~ isBatter(p)
  BY DEF Side
<1>4. ~ isBatter(p) => OutsFrom(B) = ThirdsIn(G) /\ countQualityStarts(B) = Q /\ countReliefWins(B) = W /\ countReliefLosses(B) = L
  BY SumsAgree, DecisionsAgree
<1>5. isBatter(p) => Q = 0 /\ W = 0 /\ L = 0
  <2> SUFFICES ASSUME isBatter(p) PROVE Q = 0 /\ W = 0 /\ L = 0
    OBVIOUS
  <2>1. {g \in G : IsQuality(p, g)} = {}
    BY DEF IsQuality
  <2>2. {g \in G : InRelief(p, g, "wins")} = {} /\ {g \in G : InRelief(p, g, "losses")} = {}
    BY DEF InRelief
  <2> HIDE DEF G
  <2> QED BY <2>1, <2>2, FS_EmptySet
<1>6. /\ core.agg = aggregate(Side(p), B)
      /\ core.labels = {levelAbbrev(line.sport, line.league) : line \in B}
      /\ core.qualityStarts = IF Side(p) = "pitching" THEN countQualityStarts(B) ELSE 0
      /\ core.reliefWins = IF Side(p) = "pitching" THEN countReliefWins(B) ELSE 0
      /\ core.reliefLosses = IF Side(p) = "pitching" THEN countReliefLosses(B) ELSE 0
  BY DEF buildStatRowCore
<1>7. aggregate(Side(p), B) =
        [games |-> Cardinality(B), counters |-> [key \in K |-> CountOf(B, key)],
         outs |-> IF Side(p) = "pitching" THEN OutsFrom(B) ELSE NoOuts]
  BY DEF aggregate, CountOf, OutsFrom
<1>8. TrueFigures(p, G) =
        [games |-> Cardinality(G), counters |-> [key \in K |-> CountIn(p, G, key)],
         outs |-> IF isBatter(p) THEN NoOuts ELSE ThirdsIn(G), decisions |-> <<Q, W, L>>]
  BY DEF TrueFigures, CountIn, ThirdsIn
<1>9. Figures(core) = [games |-> core.agg.games, counters |-> core.agg.counters, outs |-> core.agg.outs,
                       decisions |-> <<core.qualityStarts, core.reliefWins, core.reliefLosses>>]
  BY DEF Figures
<1>10. \A m \in B : Main(p, GameIn(own, m)).sport = m.sport /\ Main(p, GameIn(own, m)).league = m.league
  BY MadeIsGame DEF SameLine
<1>11. core.labels = LabelsOf(p, G)
  <2>1. \A m \in B : GameIn(own, m) \in G
    BY DEF GamesIn
  <2>2. \A g \in G : \E m \in B : g = GameIn(own, m)
    BY DEF GamesIn
  <2> HIDE DEF core, G
  <2> QED BY <1>6, <1>10, <2>1, <2>2 DEF LabelsOf
<1>12. [key \in K |-> CountOf(B, key)] = [key \in K |-> CountIn(p, G, key)]
  <2> HIDE DEF K, G
  <2> QED BY <1>2
<1> DEFINE c == [key \in K |-> CountOf(B, key)]
           d == [key \in K |-> CountIn(p, G, key)]
<1> HIDE DEF G, K, core, Q, W, L, c, d
<1>13. core.agg.games = Cardinality(B) /\ core.agg.counters = c /\ core.agg.outs = IF Side(p) = "pitching" THEN OutsFrom(B) ELSE NoOuts
  BY <1>6, <1>7 DEF c
<1>14. Figures(core) = TrueFigures(p, G)
  <2>1. c = d /\ TrueFigures(p, G) =
        [games |-> Cardinality(G), counters |-> d,
         outs |-> IF isBatter(p) THEN NoOuts ELSE ThirdsIn(G), decisions |-> <<Q, W, L>>]
    BY <1>8, <1>12 DEF c, d
  <2>2. core.agg.outs = IF isBatter(p) THEN NoOuts ELSE ThirdsIn(G)
    BY <1>3, <1>4, <1>13
  <2>3. core.qualityStarts = Q /\ core.reliefWins = W /\ core.reliefLosses = L
    BY <1>3, <1>4, <1>5, <1>6
  <2> QED BY <1>1, <1>9, <1>13, <2>1, <2>2, <2>3
<1> QED BY <1>1, <1>11, <1>13, <1>14 DEF G, core

(***************************************************************************)
(* Everyone is listed.                                                     *)
(***************************************************************************)
\* The row of one of a player's lines.
RowOf(p, own, window, m) ==
  StatRow(Side(p), BucketOf(own, window, m), window.byGame /\ Cardinality({l.game : l \in own}) > 1)

RowsFrom(p, own, window) == {RowOf(p, own, window, m) : m \in own}
RowsFor(p, rows) == {row \in rows : row.core.player = p}

LEMMA RowsOfOwn ==
    ASSUME NEW lines, IsFiniteSet(lines), NEW window, NEW p, NEW idle, NEW sport, NEW leagues, NEW type,
           type = Side(p)
    PROVE  RowsFor(p, buildRows(lines, window, type, idle, sport, leagues)) =
             RowsFrom(p, OwnLines(lines, p), window)
               \cup (IF p \in idle THEN {ZeroRow(type, p, sport[p], leagues[p])} ELSE {})
<1> DEFINE own == OwnLines(lines, p)
           rows == buildRows(lines, window, type, idle, sport, leagues)
           twice(line) == Twice(lines, window, BucketOf(lines, window, line))
<1>1. ASSUME NEW line \in lines
      PROVE  /\ StatRow(type, BucketOf(lines, window, line), twice(line)) \in rows
             /\ StatRow(type, BucketOf(lines, window, line), twice(line)).core.player = line.player
  <2>2. StatRow(type, BucketOf(lines, window, line), twice(line)) \in rows
    BY RowsAre
  <2> HIDE DEF rows, twice
  <2> QED BY <2>2, StatRowIs
<1>2. ASSUME NEW q \in idle
      PROVE  ZeroRow(type, q, sport[q], leagues[q]) \in rows /\ ZeroRow(type, q, sport[q], leagues[q]).core.player = q
  <2>1. ZeroRow(type, q, sport[q], leagues[q]) \in rows
    BY RowsAre
  <2> HIDE DEF rows
  <2> QED BY <2>1, ZeroRowIs
<1>3. ASSUME NEW row \in rows
      PROVE  \/ \E line \in lines : row = StatRow(type, BucketOf(lines, window, line), twice(line))
             \/ \E q \in idle : row = ZeroRow(type, q, sport[q], leagues[q])
  BY RowsAre
<1>4. ASSUME NEW line \in own
      PROVE  StatRow(type, BucketOf(lines, window, line), twice(line)) = RowOf(p, own, window, line)
  <2>1. line \in lines /\ line.player = p
    BY DEF OwnLines
  <2>2. BucketOf(lines, window, line) = BucketOf(own, window, line)
    BY <2>1 DEF BucketOf, KeyOf, OwnLines
  <2>3. (CHOOSE x \in BucketOf(lines, window, line) : TRUE).player = p
    BY <2>1, BucketIs
  <2>4. {m \in lines : m.player = p} = own
    BY DEF OwnLines
  <2>5. twice(line) = (window.byGame /\ Cardinality({l.game : l \in own}) > 1)
    BY <2>3, <2>4 DEF Twice
  <2> HIDE DEF own, twice
  <2> QED BY <2>2, <2>5 DEF RowOf
<1>5. \A line \in lines : line \in own <=> line.player = p
  BY DEF OwnLines
<1>6. own \subseteq lines
  BY DEF OwnLines
<1> HIDE DEF own, rows, twice
<1> DEFINE idleRows == IF p \in idle THEN {ZeroRow(type, p, sport[p], leagues[p])} ELSE {}
<1>7. ASSUME NEW row \in rows, row.core.player = p PROVE row \in RowsFrom(p, own, window) \cup idleRows
  <2>1. CASE \E line \in lines : row = StatRow(type, BucketOf(lines, window, line), twice(line))
    BY <1>1, <1>4, <1>5, <1>7, <2>1 DEF RowsFrom
  <2>2. CASE \E q \in idle : row = ZeroRow(type, q, sport[q], leagues[q])
    BY <1>2, <1>7, <2>2
  <2> QED BY <1>3, <2>1, <2>2
<1>8. ASSUME NEW m \in own PROVE RowOf(p, own, window, m) \in rows /\ RowOf(p, own, window, m).core.player = p
  BY <1>1, <1>4, <1>5, <1>6
<1>9. ASSUME NEW z \in idleRows PROVE z \in rows /\ z.core.player = p
  BY <1>2
<1> HIDE DEF idleRows
<1>10. RowsFor(p, rows) = RowsFrom(p, own, window) \cup idleRows
  BY <1>7, <1>8, <1>9 DEF RowsFor, RowsFrom
<1> QED BY <1>10 DEF own, rows, idleRows

\* The players of what is made are of its side.
LEMMA MadeOfSide ==
    ASSUME NEW lines, Stored(lines), NEW p \in Player
    PROVE  /\ OwnLines(Made(p, lines), p) = Made(p, OwnLines(lines, p))
           /\ StoredOf(p, OwnLines(lines, p))
           /\ isBatter(p) => OwnLines(pitchingOf(lines), p) = {}
           /\ ~ isBatter(p) => OwnLines(battingOf(lines), p) = {}
<1>1. lines \subseteq Pool
  BY DEF Stored
<1>2. OwnLines(Made(p, lines), p) = Made(p, OwnLines(lines, p))
  BY <1>1, BattingIsOwn, PitchingIsOwn DEF Made
<1>3. StoredOf(p, OwnLines(lines, p))
  BY StoredPart DEF StoredOf, OwnLines
<1>4. isBatter(p) => OwnLines(pitchingOf(lines), p) = {}
  BY DEF OwnLines, pitchingOf
<1>5. ASSUME ~ isBatter(p) PROVE OwnLines(battingOf(lines), p) = {}
  <2>1. \A line \in Origins(lines) : Final(lines, line).player = line.player /\ isBatter(line.player)
    BY <1>1, FinalIs DEF SameLine, Origins
  <2>2. \A m \in battingOf(lines) : isBatter(m.player)
    BY <1>1, <2>1, BattingIs
  <2> QED BY <1>5, <2>2 DEF OwnLines
<1> QED BY <1>2, <1>3, <1>4, <1>5

\* The rows of a digest that are of one player: those of his lines, and one if he is idle.
LEMMA RowsOfPlayer ==
    ASSUME Typed, RowsMade, NEW p \in Player
    PROVE  LET made == Made(p, OwnLines(job.lines, p)) IN
           \E zero : /\ zero.core.agg.games = 0
                     /\ RowsOf(p) = RowsFrom(p, made, job.window) \cup (IF p \in job.idle THEN {zero} ELSE {})
<1> PICK leagues : job.report = Rows(job.lines, job.window, job.idle, job.sport, leagues)
  BY DEF RowsMade
<1> DEFINE B == battingOf(job.lines)
           P == pitchingOf(job.lines)
           idleB == {q \in job.idle : isBatter(q)}
           idleP == {q \in job.idle : ~ isBatter(q)}
           batters == buildRows(B, job.window, "batting", idleB, job.sport, leagues)
           pitchers == buildRows(P, job.window, "pitching", idleP, job.sport, leagues)
           made == Made(p, OwnLines(job.lines, p))
           zero == ZeroRow(Side(p), p, job.sport[p], leagues[p])
<1>1. job.report.batters = batters /\ job.report.pitchers = pitchers
  BY DEF Rows, ReportOf
<1>2. Stored(job.lines) /\ IsFiniteSet(B) /\ IsFiniteSet(P)
  BY BattingFinite DEF Typed, Stored
<1>3. RowsOf(p) = RowsFor(p, batters) \cup RowsFor(p, pitchers)
  BY <1>1 DEF RowsOf, RowsFor
<1>4. \A row \in batters : (\E line \in B : row.core.player = line.player) \/ row.core.player \in idleB
  <2> TAKE row \in batters
  <2>1. \/ \E line \in B : row = StatRow("batting", BucketOf(B, job.window, line), Twice(B, job.window, BucketOf(B, job.window, line)))
        \/ \E q \in idleB : row = ZeroRow("batting", q, job.sport[q], leagues[q])
    BY RowsAre
  <2> HIDE DEF B, idleB
  <2> QED BY <1>2, <2>1, StatRowIs, ZeroRowIs
<1>5. \A row \in pitchers : (\E line \in P : row.core.player = line.player) \/ row.core.player \in idleP
  <2> TAKE row \in pitchers
  <2>1. \/ \E line \in P : row = StatRow("pitching", BucketOf(P, job.window, line), Twice(P, job.window, BucketOf(P, job.window, line)))
        \/ \E q \in idleP : row = ZeroRow("pitching", q, job.sport[q], leagues[q])
    BY RowsAre
  <2> HIDE DEF P, idleP
  <2> QED BY <1>2, <2>1, StatRowIs, ZeroRowIs
<1>6. zero.core.agg.games = 0
  BY ZeroRowIs
<1>7. CASE isBatter(p)
  <2>1. made = OwnLines(B, p) /\ OwnLines(P, p) = {} /\ Side(p) = "batting"
    BY <1>2, <1>7, MadeOfSide DEF Made, Side
  <2>2. RowsFor(p, pitchers) = {}
    BY <1>5, <1>7, <2>1 DEF OwnLines, RowsFor
  <2>3. RowsFor(p, batters) = RowsFrom(p, OwnLines(B, p), job.window)
                         \cup (IF p \in idleB THEN {ZeroRow("batting", p, job.sport[p], leagues[p])} ELSE {})
    <3> HIDE DEF B, P, idleB, idleP
    <3> QED BY <1>2, <2>1, RowsOfOwn
  <2>4. p \in idleB <=> p \in job.idle
    BY <1>7
  <2> HIDE DEF made, B, P, batters, pitchers, zero, idleB, idleP
  <2>5. RowsOf(p) = RowsFrom(p, made, job.window) \cup (IF p \in job.idle THEN {zero} ELSE {})
    BY <1>3, <2>1, <2>2, <2>3, <2>4 DEF zero
  <2> QED BY <1>6, <2>5 DEF made
<1>8. CASE ~ isBatter(p)
  <2>1. made = OwnLines(P, p) /\ OwnLines(B, p) = {} /\ Side(p) = "pitching"
    BY <1>2, <1>8, MadeOfSide DEF Made, Side
  <2>2. RowsFor(p, batters) = {}
    BY <1>4, <1>8, <2>1 DEF OwnLines, RowsFor
  <2>3. RowsFor(p, pitchers) = RowsFrom(p, OwnLines(P, p), job.window)
                         \cup (IF p \in idleP THEN {ZeroRow("pitching", p, job.sport[p], leagues[p])} ELSE {})
    <3> HIDE DEF B, P, idleB, idleP
    <3> QED BY <1>2, <2>1, RowsOfOwn
  <2>4. p \in idleP <=> p \in job.idle
    BY <1>8
  <2> HIDE DEF made, B, P, batters, pitchers, zero, idleB, idleP
  <2>5. RowsOf(p) = RowsFrom(p, made, job.window) \cup (IF p \in job.idle THEN {zero} ELSE {})
    BY <1>3, <2>1, <2>2, <2>3, <2>4 DEF zero
  <2> QED BY <1>6, <2>5 DEF made
<1> QED BY <1>7, <1>8

\* A player's line is counted in his row.
LEMMA RowOfIs ==
    ASSUME Typed, NEW p \in Player, NEW m \in Made(p, OwnLines(job.lines, p))
    PROVE  LET made == Made(p, OwnLines(job.lines, p)) IN
           /\ RowOf(p, made, job.window, m).core.agg.games = Cardinality(BucketOf(made, job.window, m))
           /\ Cardinality(BucketOf(made, job.window, m)) \in Nat /\ Cardinality(BucketOf(made, job.window, m)) > 0
<1> DEFINE made == Made(p, OwnLines(job.lines, p))
<1>1. StoredOf(p, OwnLines(job.lines, p))
  BY MadeOfSide DEF Typed, Stored
<1>2. IsFiniteSet(made)
  BY <1>1, MadeIs
<1> HIDE DEF made
<1>3. RowOf(p, made, job.window, m).core.agg.games = Cardinality(BucketOf(made, job.window, m))
  BY <1>2, StatRowIs DEF RowOf, made
<1>4. Cardinality(BucketOf(made, job.window, m)) \in Nat /\ Cardinality(BucketOf(made, job.window, m)) > 0
  BY <1>2, BucketIs DEF made
<1> QED BY <1>3, <1>4 DEF made

\* The days of a digest's window.
LEMMA WindowIs ==
    ASSUME Typed, WindowRead, job.request.spec \in DOMAIN SpanDays, ~ job.moved, NEW line \in Pool
    PROVE  inWindow(line, job.window) <=> line.regular /\ line.date \in WindowDays
<1>1. line.date \in 0 .. FinalDay /\ FinalDay \in Nat
  BY PoolAssumption, WorldsAssumption DEF IsLine
<1>2. /\ job.request.spec # "ytd" /\ SpanDays[job.request.spec] \in Nat \ {0}
      /\ LastOf(job.request, today) \in Int
  BY SpansAssumption, WorldsAssumption DEF Typed, LastOf
<1>3. job.window.to = LastOf(job.request, today) /\ job.window.from = job.window.to - (SpanDays[job.request.spec] - 1)
  BY <1>2 DEF WindowRead
<1> QED BY <1>1, <1>2, <1>3 DEF inWindow, WindowDays, LastOf, To

LEMMA LinesOfWindow ==
    ASSUME Typed, WindowRead, job.request.spec \in DOMAIN SpanDays, ~ job.moved,
           NEW p \in Player, LinesRead(p)
    PROVE  OwnLines(job.lines, p) = IF InScope(p) THEN LinesOf(p, WindowDays) ELSE {}
<1>1. \A line \in db.lines : inWindow(line, job.window) <=> line.regular /\ line.date \in WindowDays
  BY WindowIs, CalendarsAre DEF Typed
<1> QED BY <1>1 DEF LinesRead, OwnLines, LinesOf

\* In season, as the property has it, is in season as the code has it.
AtPlay(p) ==
  \E cal \in db.calendars : /\ cal.sport = db.sport[p]
                            /\ cal.start # Null /\ cal.start <= job.window.to
                            /\ job.window.to <= cal.post \/ (cal.post = Null /\ job.window.to <= cal.end)

LEMMA AtPlayIsInSeason ==
    ASSUME Typed, NEW p \in Player, job.window.to \in Int
    PROVE  AtPlay(p) <=> isInSeason(db.sport[p], db.calendars, job.window.to)
<1>1. ASSUME NEW cal \in db.calendars
      PROVE  /\ cal.start \in Nat /\ cal.post \in Nat /\ cal.end \in Nat /\ cal.sport \in Sports
             /\ 0 \notin Sports
  BY CalendarAssumption, CalendarsAre DEF Typed, Sports, SPORT_IDS, NCAA_SPORT_ID
<1> QED BY <1>1 DEF AtPlay, isInSeason, calendarHasUsableDates, LastDay, Null

LEMMA EveryoneListed == Typed /\ DigestInv => EveryoneIsListed
<1> SUFFICES ASSUME Typed, DigestInv, Done(DOMAIN SpanDays), NEW p \in Player, Undisturbed(p)
             PROVE  LET lines == LinesOf(p, WindowDays)
                        empty == {row \in RowsOf(p) : row.core.agg.games = 0}
                    IN  /\ InScope(p) /\ (AtPlay(p) \/ OwnGames(p, lines) # {})
                             /\ (lines # {} => OwnGames(p, lines) # {})
                             => RowsOf(p) # {}
                        /\ empty # {} => InScope(p) /\ AtPlay(p) /\ lines = {}
  BY DEF EveryoneIsListed, AtPlay
<1> DEFINE lines == LinesOf(p, WindowDays)
           empty == {row \in RowsOf(p) : row.core.agg.games = 0}
<1>1. /\ job.pc = "done" /\ job.request.spec \in DOMAIN SpanDays /\ job.request.spec # "games"
      /\ p \in Player \ job.touched /\ ~ job.moved
  BY SpansAssumption DEF Done, At, Undisturbed
<1>2. WindowRead /\ LinesRead(p) /\ RowsMade
  BY <1>1 DEF DigestInv
<1>3. OwnLines(job.lines, p) = IF InScope(p) THEN lines ELSE {}
  BY <1>1, <1>2, LinesOfWindow
<1>4. job.calendars = db.calendars /\ job.window.to \in Int
  BY <1>1, <1>2, WorldsAssumption DEF WindowRead, LastOf, Typed
<1>5. p \in job.idle <=> InScope(p) /\ OwnLines(job.lines, p) = {} /\ AtPlay(p)
  BY <1>2, <1>4, AtPlayIsInSeason DEF LinesRead
<1> DEFINE own == OwnLines(job.lines, p)
<1>6. Stored(job.lines) /\ StoredOf(p, own)
  BY MadeOfSide DEF Typed, Stored
<1>7. PICK zero : /\ zero.core.agg.games = 0
                  /\ RowsOf(p) = RowsFrom(p, Made(p, own), job.window) \cup (IF p \in job.idle THEN {zero} ELSE {})
  BY <1>2, RowsOfPlayer
<1>8. ASSUME InScope(p), OwnGames(p, lines) # {} PROVE RowsOf(p) # {}
  <2>1. OwnGames(p, own) # {}
    BY <1>3, <1>8
  <2>2. PICK m \in Made(p, own) : TRUE
    BY <1>6, <2>1, GameIsMade
  <2> QED BY <1>7, <2>2 DEF RowsFrom
<1>9. p \in job.idle => RowsOf(p) # {}
  BY <1>7
<1>10. empty # {} => p \in job.idle
  <2>1. \A m \in Made(p, own) : RowOf(p, Made(p, own), job.window, m).core.agg.games # 0
    BY RowOfIs
  <2> HIDE DEF own
  <2> QED BY <1>7, <2>1 DEF RowsFrom
<1> HIDE DEF lines, empty
<1>11. InScope(p) /\ (AtPlay(p) \/ OwnGames(p, lines) # {}) /\ (lines # {} => OwnGames(p, lines) # {}) => RowsOf(p) # {}
  BY <1>3, <1>5, <1>8, <1>9
<1>12. empty # {} => InScope(p) /\ AtPlay(p) /\ lines = {}
  BY <1>3, <1>5, <1>10
<1> QED BY <1>11, <1>12 DEF lines, empty

(***************************************************************************)
(* What a digest says is true.                                             *)
(***************************************************************************)
\* The games of a player's that are alike with one are those of the lines in its row.
LEMMA BucketIsAlike ==
    ASSUME NEW p, NEW own, StoredOf(p, own), job.window.byGame = (job.request.spec = "1d"), NEW m \in Made(p, own)
    PROVE  GamesIn(own, BucketOf(Made(p, own), job.window, m)) = {h \in OwnGames(p, own) : Alike(p, GameIn(own, m), h)}
<1> DEFINE made == Made(p, own)
           bucket == BucketOf(made, job.window, m)
<1>1. ASSUME NEW n \in made PROVE n \in bucket <=> Alike(p, GameIn(own, m), GameIn(own, n))
  <2>1. n.player = p /\ m.player = p
    BY MadeIsGame
  <2>2. n \in bucket <=> KeyOf(job.window, n) = KeyOf(job.window, m)
    BY DEF BucketOf
  <2> HIDE DEF bucket
  <2>3. CASE job.request.spec = "1d"
    <3>1. n \in bucket <=> n.game = m.game
      BY <2>1, <2>2, <2>3 DEF KeyOf
    <3>2. n.game = m.game <=> GameIn(own, m) = GameIn(own, n)
      BY MadeIsGame
    <3> QED BY <2>3, <3>1, <3>2 DEF Alike
  <2>4. CASE job.request.spec # "1d"
    <3>1. n \in bucket <=> n.sport = m.sport
      BY <2>1, <2>2, <2>4 DEF KeyOf
    <3>2. n.sport = Main(p, GameIn(own, n)).sport /\ m.sport = Main(p, GameIn(own, m)).sport
      BY MadeIsGame DEF SameLine
    <3> QED BY <2>4, <3>1, <3>2 DEF Alike
  <2> QED BY <2>3, <2>4
<1>2. bucket \subseteq made
  BY DEF BucketOf
<1>3. \A n \in made : GameIn(own, n) \in OwnGames(p, own)
  BY MadeIsGame
<1>4. \A h \in OwnGames(p, own) : \E n \in made : h = GameIn(own, n)
  BY GameIsMade
<1> HIDE DEF made, bucket
<1>5. GamesIn(own, bucket) = {h \in OwnGames(p, own) : Alike(p, GameIn(own, m), h)}
  BY <1>1, <1>2, <1>3, <1>4 DEF GamesIn
<1> QED BY <1>5 DEF made, bucket

LEMMA MadeGamesAre ==
    ASSUME NEW p, NEW own, StoredOf(p, own)
    PROVE  GamesIn(own, Made(p, own)) = OwnGames(p, own)
<1>1. \A n \in Made(p, own) : GameIn(own, n) \in OwnGames(p, own)
  BY MadeIsGame
<1>2. \A h \in OwnGames(p, own) : \E n \in Made(p, own) : h = GameIn(own, n)
  BY GameIsMade
<1> QED BY <1>1, <1>2 DEF GamesIn

\* The rows a player's own lines make, game by game.
LEMMA RowsFromGames ==
    ASSUME NEW p, NEW own, StoredOf(p, own), job.window.byGame = (job.request.spec = "1d")
    PROVE  LET rows == RowsFrom(p, Made(p, own), job.window) IN
           {<<Figures(row.core), row.core.labels>> : row \in rows}
             = {<<TrueFigures(p, b), LabelsOf(p, b)>> : b \in RowGames(p, OwnGames(p, own))}
<1> DEFINE made == Made(p, own)
           rows == RowsFrom(p, made, job.window)
           bucket(m) == BucketOf(made, job.window, m)
           alike(m) == {h \in OwnGames(p, own) : Alike(p, GameIn(own, m), h)}
<1>1. ASSUME NEW m \in made
      PROVE  LET core == RowOf(p, made, job.window, m).core IN
             Figures(core) = TrueFigures(p, alike(m)) /\ core.labels = LabelsOf(p, alike(m))
  <2>1. RowOf(p, made, job.window, m).core = buildStatRowCore(Side(p), bucket(m))
    BY DEF RowOf, StatRow
  <2>2. bucket(m) \subseteq made
    BY DEF BucketOf
  <2>3. GamesIn(own, bucket(m)) = alike(m)
    BY BucketIsAlike
  <2> HIDE DEF bucket, alike
  <2> QED BY <2>1, <2>2, <2>3, CoreIsTrue
<1>2. \A m \in made : alike(m) \in RowGames(p, OwnGames(p, own))
  BY MadeIsGame DEF RowGames
<1>3. \A b \in RowGames(p, OwnGames(p, own)) : \E m \in made : b = alike(m)
  BY GameIsMade DEF RowGames
<1> HIDE DEF made, alike
<1> QED BY <1>1, <1>2, <1>3 DEF RowsFrom, made

\* On a day of two games each row bears its game's number.
LEMMA NumbersFromGames ==
    ASSUME NEW p, NEW own, StoredOf(p, own), job.window.byGame, Cardinality(OwnGames(p, own)) > 1
    PROVE  {row.gameNumber : row \in RowsFrom(p, Made(p, own), job.window)}
             = {Main(p, g).number : g \in OwnGames(p, own)}
<1> DEFINE made == Made(p, own)
           ids == {l.game : l \in made}
           b == [m \in made |-> m.game]
<1>1. IsFiniteSet(made) /\ Cardinality(made) = Cardinality(OwnGames(p, own))
  BY MadeToGames, MadeGamesAre
<1>2. b \in [made -> ids] /\ (\A t \in ids : \E m \in made : b[m] = t) /\ \A x, y \in made : b[x] = b[y] => x = y
  BY MadeIsGame
<1>3. Cardinality(made) = Cardinality(ids)
  <2> HIDE DEF made, ids, b
  <2> QED BY <1>1, <1>2, SameCount
<1>4. ASSUME NEW m \in made PROVE RowOf(p, made, job.window, m).gameNumber = Main(p, GameIn(own, m)).number
  <2>1. BucketOf(made, job.window, m) = {m}
    BY MadeIsGame DEF BucketOf, KeyOf
  <2>2. (CHOOSE line \in {m} : TRUE) = m
    OBVIOUS
  <2>3. RowOf(p, made, job.window, m).gameNumber = m.number
    <3>1. Cardinality(ids) > 1
      BY <1>1, <1>3
    <3>2. RowOf(p, made, job.window, m) = StatRow(Side(p), {m}, TRUE)
      BY <2>1, <3>1 DEF RowOf
    <3> QED BY <2>2, <3>2 DEF StatRow
  <2> QED BY <2>3, MadeIsGame DEF SameLine
<1>5. \A m \in made : GameIn(own, m) \in OwnGames(p, own)
  BY MadeIsGame
<1>6. \A g \in OwnGames(p, own) : \E m \in made : g = GameIn(own, m)
  BY GameIsMade
<1> HIDE DEF made, ids, b
<1> QED BY <1>4, <1>5, <1>6 DEF RowsFrom, made

LEMMA NoGames == ASSUME NEW p PROVE OwnGames(p, {}) = {}
BY DEF OwnGames, Games

LEMMA UndisturbedAreTrue == Typed /\ DigestInv => UndisturbedRowsAreTrue
<1> SUFFICES ASSUME Typed, DigestInv, Done(DOMAIN SpanDays), NEW p \in Player, Undisturbed(p)
             PROVE  LET games == IF InScope(p) THEN OwnGames(p, LinesOf(p, WindowDays)) ELSE {}
                        rows  == {row \in RowsOf(p) : row.core.agg.games > 0}
                    IN  /\ {<<Figures(row.core), row.core.labels>> : row \in rows}
                             = {<<TrueFigures(p, b), LabelsOf(p, b)>> : b \in RowGames(p, games)}
                        /\ job.request.spec = "1d" /\ Cardinality(games) > 1 =>
                             {row.gameNumber : row \in rows} = {Main(p, g).number : g \in games}
  BY DEF UndisturbedRowsAreTrue, LabelsOf
<1> DEFINE games == IF InScope(p) THEN OwnGames(p, LinesOf(p, WindowDays)) ELSE {}
           rows == {row \in RowsOf(p) : row.core.agg.games > 0}
           own == OwnLines(job.lines, p)
<1>1. /\ job.pc = "done" /\ job.request.spec \in DOMAIN SpanDays /\ job.request.spec # "games"
      /\ p \in Player \ job.touched /\ ~ job.moved
  BY SpansAssumption DEF Done, At, Undisturbed
<1>2. WindowRead /\ LinesRead(p) /\ RowsMade
  BY <1>1 DEF DigestInv
<1>3. own = IF InScope(p) THEN LinesOf(p, WindowDays) ELSE {}
  BY <1>1, <1>2, LinesOfWindow
<1>4. games = OwnGames(p, own)
  BY <1>3, NoGames
<1>5. StoredOf(p, own)
  BY MadeOfSide DEF Typed, Stored
<1>6. PICK zero : /\ zero.core.agg.games = 0
                  /\ RowsOf(p) = RowsFrom(p, Made(p, own), job.window) \cup (IF p \in job.idle THEN {zero} ELSE {})
  BY <1>2, RowsOfPlayer
<1>7. \A m \in Made(p, own) : RowOf(p, Made(p, own), job.window, m).core.agg.games > 0
  BY RowOfIs
<1>8. job.window.byGame = (job.request.spec = "1d")
  BY <1>2 DEF WindowRead
<1> HIDE DEF own, games
<1>9. rows = RowsFrom(p, Made(p, own), job.window)
  BY <1>6, <1>7 DEF RowsFrom
<1> HIDE DEF rows
<1>10. {<<Figures(row.core), row.core.labels>> : row \in rows}
         = {<<TrueFigures(p, b), LabelsOf(p, b)>> : b \in RowGames(p, games)}
  BY <1>4, <1>5, <1>8, <1>9, RowsFromGames
<1>11. job.request.spec = "1d" /\ Cardinality(games) > 1 =>
         {row.gameNumber : row \in rows} = {Main(p, g).number : g \in games}
  BY <1>4, <1>5, <1>8, <1>9, NumbersFromGames
<1> QED BY <1>10, <1>11 DEF rows, games

(***************************************************************************)
(* A season is whole.                                                      *)
(***************************************************************************)
LEMMA YearBegins == ASSUME NEW day \in Nat PROVE NewYear(day) \in Nat /\ NewYear(day) <= day
<1>1. YearDays \in Nat /\ YearDays # 0
  BY SpansAssumption
<1>2. YearDays * (day \div YearDays) <= day /\ day \div YearDays \in Nat
  BY <1>1
<1> QED BY <1>1, <1>2 DEF NewYear, Year

\* The window of a season to date begins within the year, no later than the opening of the
\* sport of any player it is for.
LEMMA SeasonFrom ==
    ASSUME Typed, WindowRead, SeasonRead, ~ job.moved, job.request.spec = "ytd", Year(To) = Year(today),
           NEW p \in Player \ job.touched, InScope(p),
           NEW cal \in db.calendars, cal.sport = db.sport[p], cal.season = Year(today), cal.start # Null
    PROVE  /\ job.window.to = To /\ To \in Int /\ job.window.from \in Nat
           /\ NewYear(To) <= job.window.from /\ job.window.from <= cal.start /\ cal.start \in Nat
<1> PICK sports :
       /\ \A q \in Player \ job.touched : InScope(q) => db.sport[q] \in sports
       /\ job.window.from = resolveWindow("ytd", today, seasonStartFor(db.calendars, sports, today),
                                          job.request.asOf).from
  BY DEF SeasonRead
<1> DEFINE starts == {c.start : c \in {d \in db.calendars : d.season = Year(today) /\ d.sport \in sports \ {Null}}} \ {Null}
           first == seasonStartFor(db.calendars, sports, today)
<1>1. job.window.to = To /\ To \in Int
  BY WorldsAssumption DEF WindowRead, LastOf, To, Typed
<1>2. ASSUME NEW c \in db.calendars
      PROVE  /\ c.start \in Nat /\ c.sport \in Sports
             /\ c.start # Null => Year(c.start) = c.season
  BY CalendarsAre, CalendarAssumption DEF Typed
<1>3. starts \subseteq Nat
  BY <1>2
<1>4. cal.start \in starts
  <2>1. cal.sport \in sports \ {Null}
    BY <1>2 DEF Sports, SPORT_IDS, NCAA_SPORT_ID, Null
  <2> QED BY <2>1
<1>5. first \in starts /\ first <= cal.start
  <2>1. first = Earliest(starts)
    BY <1>4 DEF seasonStartFor
  <2> HIDE DEF starts, first
  <2> QED BY <1>3, <1>4, <2>1, EarliestIs
<1>6. first \in Nat /\ first # Null /\ Year(first) = Year(today)
  <2> HIDE DEF first
  <2> QED BY <1>2, <1>3, <1>5
<1>7. job.window.from = first
  BY <1>6 DEF resolveWindow
<1>8. NewYear(To) <= first
  <2>1. NewYear(To) = NewYear(first)
    BY <1>6 DEF NewYear
  <2> HIDE DEF first
  <2> QED BY <1>6, <2>1, YearBegins
<1> HIDE DEF first
<1> QED BY <1>1, <1>2, <1>5, <1>6, <1>7, <1>8

\* If all that is made of a player's lines is of one sport, it makes one row.
LEMMA OneRow ==
    ASSUME NEW p, NEW made, NEW window, ~ window.byGame, NEW sport, \A m \in made : m.player = p /\ m.sport = sport,
           made # {}
    PROVE  RowsFrom(p, made, window) = {StatRow(Side(p), made, FALSE)}
<1>1. \A m \in made : BucketOf(made, window, m) = made
  BY DEF BucketOf, KeyOf
<1>2. \A m \in made : RowOf(p, made, window, m) = StatRow(Side(p), made, FALSE)
  BY <1>1 DEF RowOf
<1> QED BY <1>2 DEF RowsFrom

LEMMA SumOfGames ==
    ASSUME NEW rows, NEW n \in Nat, rows = {} \/ (\E row : rows = {row} /\ row.core.agg.games = n), rows = {} => n = 0
    PROVE  SumFunction([row \in rows |-> row.core.agg.games]) = n
<1> DEFINE f == [row \in rows |-> row.core.agg.games]
<1>1. DOMAIN f = rows
  OBVIOUS
<1>2. SumFunction(f) = SumFunctionOnSet(f, DOMAIN f)
  BY DEF SumFunction
<1>3. CASE rows = {}
  <2>1. f \in [{} -> Int]
    BY <1>3
  <2> HIDE DEF f
  <2> QED BY <1>1, <1>2, <1>3, <2>1, SumOfNone
<1>4. CASE \E row : rows = {row} /\ row.core.agg.games = n
  <2> PICK row : rows = {row} /\ row.core.agg.games = n
    BY <1>4
  <2>1. f \in [{row} -> Int] /\ f[row] = n
    OBVIOUS
  <2> HIDE DEF f
  <2> QED BY <1>1, <1>2, <2>1, SumOfOne
<1> QED BY <1>3, <1>4

LEMMA SeasonsWhole == Typed /\ DigestInv => SeasonIsWhole
<1> DEFINE lines(p) == LinesOf(p, NewYear(To) .. To)
           opened(p) == {cal \in db.calendars : cal.sport = db.sport[p] /\ cal.season = Year(today) /\ cal.start # Null}
<1> SUFFICES ASSUME Typed, DigestInv, Done({"ytd"}), NEW p \in Player,
                    Undisturbed(p), InScope(p), Year(To) = Year(today),
                    \A game \in OwnGames(p, lines(p)) : \A line \in game : line.sport = db.sport[p],
                    \E cal \in opened(p) : \A line \in lines(p) : cal.start <= line.date
             PROVE  SumFunction([row \in RowsOf(p) |-> row.core.agg.games]) = Cardinality(OwnGames(p, lines(p)))
  BY DEF SeasonIsWhole
<1> DEFINE own == OwnLines(job.lines, p)
           made == Made(p, own)
           rows == RowsOf(p)
<1>1. /\ job.pc = "done" /\ job.request.spec = "ytd" /\ p \in Player \ job.touched /\ ~ job.moved
  BY DEF Done, At, Undisturbed
<1>2. WindowRead /\ SeasonRead /\ LinesRead(p) /\ RowsMade
  BY <1>1 DEF DigestInv
<1>3. StoredOf(p, own)
  BY MadeOfSide DEF Typed, Stored
<1>4. own = lines(p)
  <2>1. PICK cal \in opened(p) : \A line \in lines(p) : cal.start <= line.date
    OBVIOUS
  <2>2. /\ job.window.to = To /\ To \in Int /\ job.window.from \in Nat
        /\ NewYear(To) <= job.window.from /\ job.window.from <= cal.start /\ cal.start \in Nat
    BY <1>1, <1>2, <2>1, SeasonFrom
  <2>3. NewYear(To) \in Int
    BY <2>2, SpansAssumption DEF NewYear, Year
  <2>4. \A line \in db.lines : line.date \in Nat
    BY CalendarsAre, PoolAssumption, WorldsAssumption DEF Typed, IsLine
  <2>5. own = {line \in OwnLines(db.lines, p) : inWindow(line, job.window)}
    BY <1>2 DEF LinesRead
  <2>6. ASSUME NEW line \in db.lines, line.player = p, line.regular
        PROVE  line.date \in job.window.from .. job.window.to <=> line.date \in NewYear(To) .. To
    <3>1. ASSUME line.date \in NewYear(To) .. To PROVE cal.start <= line.date
      BY <2>1, <2>6, <3>1 DEF LinesOf
    <3> QED BY <2>2, <2>3, <2>4, <3>1
  <2> HIDE DEF own
  <2> QED BY <2>5, <2>6 DEF OwnLines, inWindow, LinesOf
<1>5. PICK zero : /\ zero.core.agg.games = 0
                  /\ rows = RowsFrom(p, made, job.window) \cup (IF p \in job.idle THEN {zero} ELSE {})
  BY <1>2, RowsOfPlayer
<1>6. \A m \in made : m.player = p /\ m.sport = db.sport[p]
  <2> TAKE m \in made
  <2>1. PICK o \in Sources(p, own) : m = MadeFrom(p, own, o)
    BY <1>3, MadeIs
  <2>2. o \in own /\ GameIn(own, o) \in OwnGames(p, own) /\ SameLine(m, o)
    BY <1>3, <2>1, SourceIsMain, MadeIs
  <2>3. o \in GameIn(own, o)
    BY <2>2 DEF GameIn
  <2>4. o.sport = db.sport[p] /\ o.player = p
    BY <1>4, <2>2, <2>3 DEF OwnLines
  <2> QED BY <2>2, <2>4 DEF SameLine
<1>7. IsFiniteSet(made) /\ Cardinality(made) = Cardinality(OwnGames(p, own)) /\ Cardinality(made) \in Nat
  BY <1>3, MadeToGames, MadeGamesAre, FS_CardinalityType
<1>8. made # {} => own # {}
  BY <1>3, MadeIs, SourceIsMain
<1>9. own # {} => p \notin job.idle
  BY <1>2 DEF LinesRead
<1>10. ~ job.window.byGame
  BY <1>1, <1>2 DEF WindowRead
<1>11. CASE made = {}
  <2>1. RowsFrom(p, made, job.window) = {}
    BY <1>11 DEF RowsFrom
  <2>2. Cardinality(made) = 0
    BY <1>11, FS_EmptySet
  <2>3. rows = {} \/ \E row : rows = {row} /\ row.core.agg.games = 0
    BY <1>5, <2>1
  <2> HIDE DEF rows, made, own
  <2>4. SumFunction([row \in rows |-> row.core.agg.games]) = 0
    BY <2>3, SumOfGames
  <2> QED BY <1>4, <1>7, <2>2, <2>4 DEF rows
<1>12. CASE made # {}
  <2> DEFINE r == StatRow(Side(p), made, FALSE)
  <2>1. rows = {r}
    <3>1. RowsFrom(p, made, job.window) = {r}
      <4> HIDE DEF made
      <4> QED BY <1>6, <1>10, <1>12, OneRow
    <3> QED BY <1>5, <1>8, <1>9, <1>12, <3>1
  <2>2. r.core.agg.games = Cardinality(made)
    <3>1. r.core = buildStatRowCore(Side(p), made)
      BY DEF StatRow
    <3> QED BY <1>3, <3>1, CoreIsTrue
  <2> HIDE DEF rows, r, made, own
  <2>3. SumFunction([row \in rows |-> row.core.agg.games]) = Cardinality(made)
    <3>1. rows # {} /\ \E row : rows = {row} /\ row.core.agg.games = Cardinality(made)
      BY <2>1, <2>2
    <3> QED BY <1>7, <3>1, SumOfGames
  <2> QED BY <1>4, <1>7, <2>3 DEF rows
<1> QED BY <1>11, <1>12

(***************************************************************************)
(* The game-count report and the card.                                     *)
(***************************************************************************)
\* Of one player's lines, the scan from the newest keeps the games that rank within the limit.
LEMMA ScanIsRanking ==
    ASSUME NEW lines, Stored(lines), NEW p, \A line \in lines : line.player = p
    PROVE  selectGames(lines) = rankedGames(lines)
<1> DEFINE met(a) == {gameOf(b) : b \in {c \in lines : LaterLine(c, a)}}
           kept(a) == gameOf(a) \notin met(a) /\ Cardinality(met(a)) < GameLimit
<1>1. selectGames(lines) = {gameOf(a) : a \in {b \in lines : kept(b)}}
  BY DEF selectGames
<1>2. \A g \in GamesOf(lines) : g[1] = p
  BY DEF GamesOf, gameOf
<1>3. ASSUME NEW a \in lines PROVE gameOf(a) \notin met(a) <=> a = Representative(lines, gameOf(a))
  <2>1. gameOf(a) \in GamesOf(lines)
    BY DEF GamesOf
  <2>2. gameOf(a) \notin met(a) <=> IsLast(lines, gameOf(a), a)
    BY DEF IsLast
  <2> HIDE DEF met
  <2> QED BY <2>1, <2>2, RepresentativeIsLast
<1>4. ASSUME NEW g \in GamesOf(lines) PROVE met(Representative(lines, g)) = Outranking(lines, g)
  <2> DEFINE r == Representative(lines, g)
  <2>1. IsLast(lines, g, r)
    BY RepresentativeIsLast
  <2> HIDE DEF r
  <2>2. ASSUME NEW b \in lines, LaterLine(b, r) PROVE gameOf(b) \in Outranking(lines, g)
    <3> DEFINE h == gameOf(b)
               s == Representative(lines, h)
    <3>1. h \in GamesOf(lines)
      BY DEF GamesOf
    <3>2. IsLast(lines, h, s)
      BY <3>1, RepresentativeIsLast
    <3> HIDE DEF s
    <3>3. ~ LaterLine(b, s) /\ s \in Pool /\ b \in Pool /\ r \in Pool
      BY <2>1, <3>2 DEF IsLast, Stored
    <3>4. LaterLine(s, r)
      <4>1. LaterLine(b, r) /\ ~ LaterLine(s, r) => LaterLine(b, s)
        BY <3>3, LaterIsAnOrder
      <4> QED BY <2>2, <3>3, <4>1
    <3>5. h[1] = p /\ g[1] = p
      BY <1>2, <3>1
    <3> HIDE DEF h
    <3> QED BY <3>1, <3>4, <3>5 DEF Outranking, s, r, h
  <2>3. ASSUME NEW h \in Outranking(lines, g) PROVE h \in met(r)
    <3> DEFINE s == Representative(lines, h)
    <3>1. h \in GamesOf(lines) /\ LaterLine(s, r)
      BY <2>3 DEF Outranking, r
    <3>2. IsLast(lines, h, s)
      BY <3>1, RepresentativeIsLast
    <3> HIDE DEF s
    <3> QED BY <3>1, <3>2 DEF IsLast
  <2> QED BY <2>2, <2>3 DEF r
<1>5. ASSUME NEW g \in GamesOf(lines)
      PROVE  g \in selectGames(lines) <=> Cardinality(Outranking(lines, g)) < GameLimit
  <2> DEFINE r == Representative(lines, g)
  <2>1. r \in lines /\ gameOf(r) = g
    BY RepresentativeIsLast DEF IsLast
  <2>2. \A a \in lines : gameOf(a) = g /\ gameOf(a) \notin met(a) => a = r
    BY <1>3
  <2>3. gameOf(r) \notin met(r) /\ met(r) = Outranking(lines, g)
    BY <1>3, <1>4, <2>1
  <2> HIDE DEF met, r
  <2> QED BY <1>1, <2>1, <2>2, <2>3
<1>6. selectGames(lines) \subseteq GamesOf(lines)
  BY <1>1 DEF GamesOf
<1>7. ASSUME NEW g \in GamesOf(lines) PROVE Cardinality(Outranking(lines, g)) \in Nat
  <2> DEFINE f == [a \in lines |-> gameOf(a)]
             T == {gameOf(a) : a \in lines}
  <2>1. f \in [lines -> T] /\ {f[a] : a \in lines} = GamesOf(lines)
    BY DEF GamesOf
  <2>2. IsFiniteSet(GamesOf(lines))
    <3>1. IsFiniteSet(lines)
      BY DEF Stored
    <3> HIDE DEF f, T
    <3>2. f \in [lines -> T]
      BY <2>1
    <3>3. IsFiniteSet({f[a] : a \in lines})
      BY ONLY <3>1, <3>2, FiniteImage
    <3> QED BY <2>1, <3>3
  <2>3. Outranking(lines, g) \subseteq GamesOf(lines)
    BY DEF Outranking
  <2> QED BY <2>2, <2>3, FS_Subset, FS_CardinalityType
<1>8. \A g \in GamesOf(lines) : g \in rankedGames(lines) <=> Cardinality(Outranking(lines, g)) + 1 <= GameLimit
  BY RankedAre
<1>9. rankedGames(lines) \subseteq GamesOf(lines)
  BY RankedAre
<1> QED BY <1>5, <1>6, <1>7, <1>8, <1>9, SpansAssumption

\* The card's selection, and what it makes of the lines.
CardLines(d, p, last) ==
  LET ofPlayer == {line \in d.lines : line.player = p /\ line.regular}
      games    == selectGames({line \in ofPlayer : line.date <= last})
  IN  {line \in ofPlayer : gameOf(line) \in games}

CardErrors(lines, line) ==
  {numberOr0(f.stats, "errors") : f \in {g \in {l \in lines : l.type = "fielding"} : gameOf(g) = gameOf(line)}}

CardBatting(lines) ==
  LET of(type) == {line \in lines : line.type = type}
      struck   == {charged(line, CardErrors(lines, line)) : line \in of("batting")}
      alone    == {f \in of("fielding") : /\ f.source # "highlightly_ncaa"
                                          /\ \A l \in lines : gameOf(l) = gameOf(f) => l.type = "fielding"}
  IN  {[line EXCEPT !.stats = withPlateAppearances(line.stats)] : line \in struck \cup {standIn(f) : f \in alone}}

LevelOf(line) == <<line.sport, line.league>>

LEMMA CardIs ==
    ASSUME NEW d, NEW p, NEW last
    PROVE  LET lines == CardLines(d, p, last) IN
           /\ cardRows(d, p, last).batters =
                {buildStatRowCore("batting", b) : b \in Buckets(CardBatting(lines), LevelOf)}
           /\ cardRows(d, p, last).pitchers =
                {buildStatRowCore("pitching", b) : b \in Buckets({l \in lines : l.type = "pitching"}, LevelOf)}
BY DEF cardRows, CardLines, CardBatting, CardErrors, LevelOf

LEMMA CardLinesAreLast ==
    ASSUME NEW d \in Databases, NEW p \in Player, NEW last \in Int
    PROVE  CardLines(d, p, last) = LastLines(OwnLines(d.lines, p), last)
<1> DEFINE own == OwnLines(d.lines, p)
           past == Past(own, last)
<1>1. Stored(d.lines) /\ Stored(past)
  <2>1. past \subseteq d.lines
    BY DEF Past, OwnLines
  <2> HIDE DEF past
  <2> QED BY <2>1, DatabaseStored, StoredPart
<1>2. past = {line \in {l \in d.lines : l.player = p /\ l.regular} : line.date <= last}
  BY DEF Past, OwnLines
<1>3. CardLines(d, p, last) = {line \in own : line.regular /\ gameOf(line) \in selectGames(past)}
  <2> HIDE DEF past
  <2> QED BY <1>2 DEF CardLines, OwnLines
<1>4. \A line \in past : line.player = p
  BY DEF Past, OwnLines
<1> HIDE DEF past
<1>5. selectGames(past) = rankedGames(past)
  BY <1>1, <1>4, ScanIsRanking
<1>6. ASSUME NEW line \in own, gameOf(line) \in rankedGames(past) PROVE line.regular
  <2>1. gameOf(line) \in GamesOf(past)
    BY <1>6, RankedAre
  <2>2. PICK other \in past : gameOf(other) = gameOf(line)
    BY <2>1 DEF GamesOf
  <2>3. other.regular /\ other.game = line.game /\ other \in Pool /\ line \in Pool
    BY <1>1, <2>2 DEF past, Past, gameOf, Stored, OwnLines
  <2> QED BY <2>3, PoolAssumption
<1> QED BY <1>3, <1>5, <1>6 DEF LastLines, past

LEMMA CardBattingIs ==
    ASSUME NEW lines, lines \subseteq Pool, NEW p \in Player, isBatter(p), \A line \in lines : line.player = p
    PROVE  CardBatting(lines) = battingOf(lines)
<1> DEFINE batting == {l \in lines : l.type = "batting"}
           alone == {f \in {l \in lines : l.type = "fielding"} :
                       /\ f.source # "highlightly_ncaa"
                       /\ \A l \in lines : gameOf(l) = gameOf(f) => l.type = "fielding"}
<1>1. \A a, b \in lines : gameOf(a) = gameOf(b) <=> sameGame(a, b)
  BY PoolAssumption DEF gameOf, sameGame
<1>2. \A l \in lines : l \in fieldedIn(lines) <=> l.type = "fielding"
  BY PoolAssumption DEF fieldedIn, IsLine
<1>3. ASSUME NEW line \in lines PROVE CardErrors(lines, line) = errorsIn(lines, line)
  <2>1. {g \in {l \in lines : l.type = "fielding"} : gameOf(g) = gameOf(line)}
          = {g \in fieldedIn(lines) : sameGame(g, line)}
    BY <1>1, <1>2 DEF fieldedIn
  <2> QED BY <2>1 DEF CardErrors, errorsIn
<1>4. Origins(lines) = batting \cup alone
  <2>1. \A l \in lines : l.type = "fielding" =>
          (Stands(lines, l) <=> \A m \in lines : gameOf(m) = gameOf(l) => m.type = "fielding")
    BY <1>1 DEF Stands
  <2> QED BY <1>2, <2>1 DEF Origins, fieldedIn
<1> DEFINE struck == {charged(line, CardErrors(lines, line)) : line \in batting}
           alones == {standIn(f) : f \in alone}
<1>5. CardBatting(lines) = {[m EXCEPT !.stats = withPlateAppearances(m.stats)] : m \in struck \cup alones}
  BY DEF CardBatting
<1>6. struck \cup alones = {Merged(lines, l) : l \in Origins(lines)}
  <2>1. \A l \in batting : Merged(lines, l) = charged(l, CardErrors(lines, l))
    BY <1>3 DEF Merged
  <2>2. \A l \in alone : Merged(lines, l) = standIn(l)
    BY DEF Merged
  <2> HIDE DEF batting, alone
  <2> QED BY <1>4, <2>1, <2>2
<1> HIDE DEF struck, alones
<1> QED BY <1>5, <1>6, BattingIs DEF Final

\* The rows of one player in the report are those of his own lines, by level.
LevelBucket(lines, line) == {m \in lines : LevelOf(m) = LevelOf(line)}

LEMMA LevelBuckets == ASSUME NEW lines PROVE Buckets(lines, LevelOf) = {LevelBucket(lines, line) : line \in lines}
BY DEF Buckets, LevelBucket

\* What a card has of some lines, and a report of a player.
LevelCores(type, lines) == {buildStatRowCore(type, b) : b \in Buckets(lines, LevelOf)}
CoresOf(rows, p) == {row.core : row \in {r \in rows : r.core.player = p}}

LEMMA GameRowsAre ==
    ASSUME NEW lines, NEW type
    PROVE  buildGameCountRows(lines, type) =
             {GameCountRow(type, LevelBucket(OwnLines(lines, line.player), line)) : line \in lines}
<1> DEFINE key(line) == <<line.player, line.sport, line.league>>
<1>1. ASSUME NEW line \in lines
      PROVE  {m \in lines : key(m) = key(line)} = LevelBucket(OwnLines(lines, line.player), line)
  BY DEF LevelBucket, LevelOf, OwnLines
<1>2. buildGameCountRows(lines, type) = {GameCountRow(type, {m \in lines : key(m) = key(line)}) : line \in lines}
  BY DEF buildGameCountRows, Buckets
<1> QED BY <1>1, <1>2

LEMMA CoreIs ==
    ASSUME NEW lines, NEW p, NEW line \in OwnLines(lines, p), NEW type
    PROVE  LET core == buildStatRowCore(type, LevelBucket(OwnLines(lines, p), line)) IN
           /\ GameCountRow(type, LevelBucket(OwnLines(lines, p), line)).core = core
           /\ core.player = p
           /\ core.labels = {levelAbbrev(line.sport, line.league)}
<1> DEFINE b == LevelBucket(OwnLines(lines, p), line)
<1>1. line \in b /\ \A m \in b : m.player = p /\ m.sport = line.sport /\ m.league = line.league
  BY DEF LevelBucket, LevelOf, OwnLines
<1> HIDE DEF b
<1>2. (CHOOSE m \in b : TRUE).player = p
  BY <1>1
<1>3. {levelAbbrev(m.sport, m.league) : m \in b} = {levelAbbrev(line.sport, line.league)}
  BY <1>1
<1>4. /\ buildStatRowCore(type, b).player = (CHOOSE m \in b : TRUE).player
      /\ buildStatRowCore(type, b).labels = {levelAbbrev(m.sport, m.league) : m \in b}
  BY DEF buildStatRowCore
<1>5. GameCountRow(type, b).core = buildStatRowCore(type, b)
  BY DEF GameCountRow
<1> QED BY <1>2, <1>3, <1>4, <1>5 DEF b

LEMMA GameRowsOfPlayer ==
    ASSUME NEW lines, NEW type, NEW p
    PROVE  CoresOf(buildGameCountRows(lines, type), p) = LevelCores(type, OwnLines(lines, p))
<1> DEFINE rows == buildGameCountRows(lines, type)
           own == OwnLines(lines, p)
           cores == {buildStatRowCore(type, LevelBucket(own, line)) : line \in own}
<1>1. LevelCores(type, own) = cores
  BY LevelBuckets DEF LevelCores
<1>2. ASSUME NEW row \in rows, row.core.player = p PROVE row.core \in cores
  <2>1. PICK line \in lines : row = GameCountRow(type, LevelBucket(OwnLines(lines, line.player), line))
    BY GameRowsAre
  <2>2. line \in OwnLines(lines, line.player)
    BY DEF OwnLines
  <2>3. row.core = buildStatRowCore(type, LevelBucket(OwnLines(lines, line.player), line)) /\ row.core.player = line.player
    BY <2>1, <2>2, CoreIs
  <2>4. line.player = p
    BY <1>2, <2>3
  <2> QED BY <2>2, <2>3, <2>4
<1>3. ASSUME NEW line \in own
      PROVE  \E row \in rows : row.core.player = p /\ row.core = buildStatRowCore(type, LevelBucket(own, line))
  <2> DEFINE row == GameCountRow(type, LevelBucket(own, line))
  <2>1. line \in lines /\ line.player = p
    BY DEF OwnLines
  <2>2. row \in rows
    BY <2>1, GameRowsAre
  <2>3. row.core.player = p /\ row.core = buildStatRowCore(type, LevelBucket(own, line))
    BY CoreIs
  <2> HIDE DEF row, rows
  <2> QED BY <2>2, <2>3
<1> HIDE DEF rows, own
<1>4. CoresOf(rows, p) = cores
  <2> HIDE DEF cores
  <2>1. \A c \in cores : \E row \in rows : row.core.player = p /\ c = row.core
    BY <1>3 DEF cores
  <2> QED BY <1>2, <2>1 DEF CoresOf
<1> QED BY <1>1, <1>4 DEF rows, own

LEMMA OneLabel ==
    ASSUME NEW lines, NEW p, \A line \in lines : line.player = p, NEW type,
           NEW core \in LevelCores(type, lines)
    PROVE  Cardinality(core.labels) = 1
<1>1. PICK line \in lines : core = buildStatRowCore(type, LevelBucket(lines, line))
  BY LevelBuckets DEF LevelCores
<1>2. OwnLines(lines, p) = lines
  BY DEF OwnLines
<1>3. core.labels = {levelAbbrev(line.sport, line.league)}
  BY <1>1, <1>2, CoreIs
<1> QED BY <1>3, FS_Singleton

LEMMA CountAgrees == Typed /\ GamesInv => GameCountAgreesWithCard
<1> SUFFICES ASSUME Typed, GamesInv, Done({"games"}), NEW p \in Player, Undisturbed(p), InScope(p)
             PROVE  LET card == cardRows(db, p, today - 1)
                        own  == IF isBatter(p) THEN card.batters ELSE card.pitchers
                    IN  /\ {row.core : row \in RowsOf(p)} = own
                        /\ \A core \in own : Cardinality(core.labels) = 1
  BY DEF GameCountAgreesWithCard
<1> DEFINE L == job.lines
           A == OwnLines(L, p)
           card == cardRows(db, p, today - 1)
<1>1. /\ job.pc = "done" /\ job.request.spec = "games" /\ ~ job.moved /\ p \in Player \ job.touched
  BY DEF Done, At, Undisturbed
<1>2. /\ GamesMade /\ A = LastLines(OwnLines(db.lines, p), today - 1)
  BY <1>1 DEF GamesInv
<1>3. job.report.batters = buildGameCountRows(battingOf(L), "batting") /\
      job.report.pitchers = buildGameCountRows(pitchingOf(L), "pitching")
  BY <1>2 DEF GamesMade, ReportOf
<1>4. L \subseteq Pool /\ A \subseteq Pool /\ (\A line \in A : line.player = p) /\ today - 1 \in Int
  BY WorldsAssumption DEF Typed, OwnLines
<1>5. CardLines(db, p, today - 1) = A
  BY <1>2, <1>4, CardLinesAreLast DEF Typed
<1>6. OwnLines(battingOf(L), p) = battingOf(A) /\ OwnLines(pitchingOf(L), p) = pitchingOf(A)
  BY <1>4, BattingIsOwn, PitchingIsOwn
<1>7. CoresOf(job.report.batters, p) = LevelCores("batting", battingOf(A))
  <2>1. CoresOf(buildGameCountRows(battingOf(L), "batting"), p) = LevelCores("batting", OwnLines(battingOf(L), p))
    BY GameRowsOfPlayer
  <2> HIDE DEF L, A
  <2> QED BY <1>3, <1>6, <2>1
<1>8. CoresOf(job.report.pitchers, p) = LevelCores("pitching", pitchingOf(A))
  <2>1. CoresOf(buildGameCountRows(pitchingOf(L), "pitching"), p) = LevelCores("pitching", OwnLines(pitchingOf(L), p))
    BY GameRowsOfPlayer
  <2> HIDE DEF L, A
  <2> QED BY <1>3, <1>6, <2>1
<1>9. /\ card.batters = LevelCores("batting", CardBatting(A))
      /\ card.pitchers = LevelCores("pitching", {l \in A : l.type = "pitching"})
  <2>1. LET lines == CardLines(db, p, today - 1) IN
        /\ card.batters = LevelCores("batting", CardBatting(lines))
        /\ card.pitchers = LevelCores("pitching", {l \in lines : l.type = "pitching"})
    BY CardIs DEF LevelCores
  <2> HIDE DEF A, card
  <2> QED BY <1>5, <2>1
<1>10. {row.core : row \in RowsOf(p)} = CoresOf(job.report.batters, p) \cup CoresOf(job.report.pitchers, p)
  BY DEF RowsOf, CoresOf
<1>11. \A m \in battingOf(A) : isBatter(m.player) /\ m.player = p
  <2>1. \A l \in Origins(A) : isBatter(l.player) /\ l.player = p /\ Final(A, l).player = l.player
    BY <1>4, FinalIs DEF SameLine, Origins
  <2> HIDE DEF A
  <2> QED BY <1>4, <2>1, BattingIs
<1>12. \A m \in pitchingOf(A) : ~ isBatter(p) /\ m.player = p
  BY <1>4 DEF pitchingOf
<1>13. CASE isBatter(p)
  <2>1. pitchingOf(A) = {}
    BY <1>12, <1>13
  <2>2. LevelCores("pitching", {}) = {}
    BY LevelBuckets DEF LevelCores
  <2>3. CoresOf(job.report.pitchers, p) = {}
    <3> HIDE DEF A
    <3> QED BY <1>8, <2>1, <2>2
  <2>4. CardBatting(A) = battingOf(A)
    BY <1>4, <1>13, CardBattingIs
  <2>5. {row.core : row \in RowsOf(p)} = card.batters
    <3> HIDE DEF A, card
    <3> QED BY <1>7, <1>9, <1>10, <2>3, <2>4
  <2>6. \A core \in card.batters : Cardinality(core.labels) = 1
    <3> HIDE DEF A, card
    <3> QED BY <1>9, <1>11, <2>4, OneLabel
  <2> QED BY <1>13, <2>5, <2>6
<1>14. CASE ~ isBatter(p)
  <2>1. battingOf(A) = {}
    BY <1>11, <1>14
  <2>2. LevelCores("batting", {}) = {}
    BY LevelBuckets DEF LevelCores
  <2>3. CoresOf(job.report.batters, p) = {}
    <3> HIDE DEF A
    <3> QED BY <1>7, <2>1, <2>2
  <2>4. {l \in A : l.type = "pitching"} = pitchingOf(A)
    BY <1>4, <1>14 DEF pitchingOf
  <2>5. {row.core : row \in RowsOf(p)} = card.pitchers
    <3> HIDE DEF A, card
    <3> QED BY <1>8, <1>9, <1>10, <2>3, <2>4
  <2>6. \A core \in card.pitchers : Cardinality(core.labels) = 1
    <3> HIDE DEF A, card
    <3>1. card.pitchers = LevelCores("pitching", pitchingOf(A))
      BY <1>9, <2>4
    <3>2. \A m \in pitchingOf(A) : m.player = p
      BY <1>12
    <3> QED BY <3>1, <3>2, OneLabel
  <2> QED BY <1>14, <2>5, <2>6
<1> QED BY <1>13, <1>14

(***************************************************************************)
(* Theorems.                                                               *)
(***************************************************************************)
ReportInv == Typed /\ DigestInv /\ GamesInv

LEMMA ReportInit == Init => ReportInv
<1> SUFFICES ASSUME Init PROVE ReportInv
  OBVIOUS
<1> PICK world \in Worlds : db = world.db /\ today = world.today /\ job = Idle(world.request) /\ left = world.left
  BY DEF Init
<1>1. /\ IsReport(job) /\ job.request = world.request /\ job.pc = "idle" /\ job.lines = {}
      /\ job.touched = {} /\ job.moved = FALSE
  BY DEF Idle, IsReport
<1>2. Typed
  BY <1>1, WorldsAssumption, FS_EmptySet DEF Typed
<1> QED BY <1>1, <1>2 DEF ReportInv, DigestInv, GamesInv

\* A statement of a digest says nothing of game-count reports.
LEMMA NotGames ==
    ASSUME Typed, assembleDigest \/ readMembers \/ readTags \/ readCalendars \/ readLines \/ readLeagues
    PROVE  GamesInv'
<1>1. job.request.spec # "games"
  <2>1. CASE assembleDigest
    BY <2>1, SpecIsDated DEF assembleDigest
  <2>2. CASE readMembers \/ readTags \/ readCalendars \/ readLines \/ readLeagues
    BY <2>2 DEF Typed, readMembers, readTags, readCalendars, readLines, readLeagues, At
  <2> QED BY <2>1, <2>2
<1>2. job'.request = job.request
  <2>1. CASE assembleDigest
    BY <2>1, BegunIs
  <2>2. CASE readMembers \/ readTags \/ readCalendars \/ readLines \/ readLeagues
    <3>1. IsReport(job)
      BY DEF Typed
    <3> QED BY <2>2, <3>1 DEF IsReport, readMembers, readTags, readCalendars, readLines, readLeagues
  <2> QED BY <2>1, <2>2
<1> QED BY <1>1, <1>2 DEF GamesInv

LEMMA ReportNext == ReportInv /\ [Next]_vars => ReportInv'
<1> SUFFICES ASSUME ReportInv, [Next]_vars PROVE ReportInv'
  OBVIOUS
<1>1. Typed /\ DigestInv /\ GamesInv
  BY DEF ReportInv
<1>2. CASE assembleDigest
  BY <1>1, <1>2, DigestBegins, NotGames DEF ReportInv
<1>3. CASE assembleGameWindow
  <2>1. Typed' /\ GamesInv'
    BY <1>1, <1>3, GamesStep
  <2>2. job'.request.spec = "games"
    BY <1>3, <1>1, SpecIsGames DEF assembleGameWindow, Idle
  <2> QED BY <2>1, <2>2 DEF ReportInv, DigestInv
<1>4. CASE readMembers
  BY <1>1, <1>4, MembersStep, NotGames DEF ReportInv
<1>5. CASE readTags
  BY <1>1, <1>5, TagsStep, NotGames DEF ReportInv
<1>6. CASE readCalendars
  BY <1>1, <1>6, CalendarsStep, NotGames DEF ReportInv
<1>7. CASE readLines
  BY <1>1, <1>7, LinesStep, NotGames DEF ReportInv
<1>8. CASE readLeagues
  BY <1>1, <1>8, LeaguesStep, NotGames DEF ReportInv
<1>9. CASE \/ \E p \in Player : activate(p) \/ enroll(p) \/ tagPlayer(p) \/ move(p)
           \/ storeLine \/ storeCalendar \/ Midnight
  <2>1. PICK players, moving : Elsewhere(players, moving)
    BY <1>1, <1>9, OthersElsewhere
  <2> QED BY <1>1, <2>1, TypedElsewhere, DigestElsewhere, GamesElsewhere DEF ReportInv
<1>10. CASE UNCHANGED vars
  <2>1. Typed'
    BY <1>1, <1>10 DEF vars, Typed
  <2>2. DigestInv'
    BY <1>1, <1>10 DEF vars, DigestInv, PlayersRead, WindowRead, SeasonRead, LinesRead, RowsMade, At, InScope
  <2>3. GamesInv'
    BY <1>1, <1>10 DEF vars, GamesInv, GamesMade, InScope
  <2> QED BY <2>1, <2>2, <2>3 DEF ReportInv
<1> QED BY <1>2, <1>3, <1>4, <1>5, <1>6, <1>7, <1>8, <1>9, <1>10 DEF Next

\* What the statements of a report have read so far is still so of every player nobody touched,
\* whatever the other processes do between two of them (digest/assemble.ts).
THEOREM ReportInvariant == Spec => []ReportInv
BY ReportInit, ReportNext, PTL DEF Spec

\* The pipeline is awake on every day on which a watched player is in season (domain/season.ts).
THEOREM NeverSleeps == Spec => []NeverSleepsInSeason
<1>1. ReportInv => NeverSleepsInSeason
  BY Sleepless, WorldsAssumption DEF ReportInv, Typed
<1> QED BY <1>1, ReportInvariant, PTL

\* A digest lists every untouched player of its scope who is in season, and with no games only
\* such a one (digest/assemble.ts).
THEOREM EveryoneStaysListed == Spec => []EveryoneIsListed
<1>1. ReportInv => EveryoneIsListed
  BY EveryoneListed DEF ReportInv
<1> QED BY <1>1, ReportInvariant, PTL

\* The game-count report and the player card, which select, fold and group by code of their
\* own, have the same rows of a player (digest/game-window.ts, reports/player-card.ts).
THEOREM CountsAgree == Spec => []GameCountAgreesWithCard
<1>1. ReportInv => GameCountAgreesWithCard
  BY CountAgrees DEF ReportInv
<1> QED BY <1>1, ReportInvariant, PTL

\* What a dated digest says of a player nobody touched is true of the database, game by game,
\* whatever happened to the others while it was read (digest/assemble.ts, digest/rows.ts).
THEOREM UndisturbedStaysTrue == Spec => []UndisturbedRowsAreTrue
<1>1. ReportInv => UndisturbedRowsAreTrue
  BY UndisturbedAreTrue DEF ReportInv
<1> QED BY <1>1, ReportInvariant, PTL

\* A season to date has every game of the year of a player who stayed at his sport, whoever
\* else is on the report (digest/assemble.ts).
THEOREM SeasonsStayWhole == Spec => []SeasonIsWhole
<1>1. ReportInv => SeasonIsWhole
  BY SeasonsWhole DEF ReportInv
<1> QED BY <1>1, ReportInvariant, PTL
=============================================================================
