------------------------------ MODULE MCReports ------------------------------
(* Instances of ReportSpec: a batter and a pitcher, years of ten days, of    *)
(* which the second to the eighth are a season, NCAA's from the first to the *)
(* fifth.                                                                    *)
EXTENDS ReportSpec

CONSTANTS batter, pitcher

Spans == [s \in {"1d", "7d"} |-> IF s = "1d" THEN 1 ELSE 3]

Whatever == "*"
Tags_ == {<<"pos", "ss">>, <<"status", "rostered">>}

Line(id, p, source, game, type, date, number, sport, league, stats) ==
  [id |-> id, player |-> p, source |-> source, game |-> game, type |-> type, date |-> date, number |-> number,
   sport |-> sport, league |-> league, regular |-> TRUE, stats |-> stats]

Mlb == "mlb_stats_api"
Highlightly == "highlightly_ncaa"

Hitting(ab, h) == "atBats" :> ab @@ "hits" :> h @@ "baseOnBalls" :> 1 @@ "avg" :> 300
HittingPA(ab, h, pa) == "plateAppearances" :> pa @@ Hitting(ab, h)
Pitching(ip, er, w, gs) == "inningsPitched" :> ip @@ "earnedRuns" :> er @@ "wins" :> w @@ "gamesStarted" :> gs
PitchingNcaa(ip, er, w) == "inningsPitched" :> ip @@ "earnedRuns" :> er @@ "wins" :> w @@ "mystery" :> 1
Fielding(e) == "errors" :> e @@ "innings" :> <<9, 0>>

BatterLines == {
  Line(1, batter, Mlb, 101, "batting", 13, 1, 16, "FCL", Hitting(3, 1)),
  Line(2, batter, Mlb, 101, "fielding", 13, 1, 16, "FCL", Fielding(2)),
  Line(3, batter, Mlb, 102, "batting", 13, 2, 16, Dominican, HittingPA(4, 2, 6)),
  Line(4, batter, Mlb, 103, "fielding", 14, 1, 16, "FCL", Fielding(1)),
  Line(4, batter, Mlb, 103, "fielding", 13, 1, 16, "FCL", Fielding(0)),
  Line(5, batter, Mlb, 103, "pitching", 14, 1, 16, "FCL", Pitching(<<1, 0>>, 0, 0, 0)),
  Line(6, batter, Mlb, 104, "batting", 12, 1, 1, NoLeague, Hitting(2, 2)),
  [Line(7, batter, Mlb, 105, "batting", 14, 1, 16, "FCL", Hitting(4, 4)) EXCEPT !.regular = FALSE]}

PitcherLines == {
  Line(11, pitcher, Mlb, 101, "pitching", 13, 1, 16, "FCL", Pitching(<<6, 1>>, 3, 1, 1)),
  Line(11, pitcher, Mlb, 101, "pitching", 13, 1, 16, "FCL", Pitching(<<6, 2>>, 4, 0, 1)),
  Line(12, pitcher, Mlb, 102, "pitching", 13, 2, 16, "FCL", Pitching(<<1, 2>>, 0, 1, 0)),
  Line(13, pitcher, Mlb, 102, "fielding", 13, 2, 16, "FCL", Fielding(1)),
  Line(14, pitcher, Highlightly, 201, "pitching", 11, 1, 22, NoLeague, PitchingNcaa(<<6, 0>>, 2, 1)),
  Line(15, pitcher, Mlb, 103, "batting", 14, 1, 16, "FCL", Hitting(1, 0))}

Lines_ == BatterLines \cup PitcherLines

Cal(sport, start, end, post) == [sport |-> sport, season |-> 1, start |-> start, end |-> end, post |-> post]
NextYear == [sport |-> 1, season |-> 2, start |-> 22, end |-> 26, post |-> 28]

\* MLB, the complex leagues, and NCAA, with or without their dates.
CalendarPool == {Cal(1, 12, 16, 18), Cal(16, 12, 16, Null), Cal(16, 12, Null, Null), Cal(22, 11, 15, Null), NextYear}

Usual == {Cal(1, 12, 16, 18), Cal(16, 12, 16, Null), Cal(22, 11, 15, Null)}

\* No more than one line of a key.
Consistent(S) == \A a, b \in S : a.id = b.id => a = b
Some(S, n) == {T \in UNION {kSubset(k, S) : k \in 0 .. n} : Consistent(T)}

Database(active, members, tags, sport, calendars, lines) ==
  [active |-> active, members |-> members, tags |-> tags, sport |-> sport, calendars |-> calendars, lines |-> lines]

Untagged == [p \in Player |-> {}]
Both == {batter, pitcher}
In(b, p) == batter :> b @@ pitcher :> p

Ask(spec, list, tokens, asOf) == [spec |-> spec, list |-> list, tokens |-> tokens, asOf |-> asOf]

Open(spec) == Ask(spec, FALSE, {}, Null)
OfList(spec) == Ask(spec, TRUE, {}, Null)
OfShortstops(spec) == Ask(spec, TRUE, {<<"pos", Whatever>>, <<"status", "rostered">>}, Null)
Recovered == Ask("1d", TRUE, {}, 14)

World(d, day, request) == [db |-> d, today |-> day, request |-> request, left |-> 1]

\* A few lines of one of the two.
Contents ==
  {World(Database(Both, {batter}, Untagged, In(16, sport), Usual, lines), day, request)
    : sport \in {16, 22}, day \in {14, 15}, lines \in Some(BatterLines, 3) \cup Some(PitcherLines, 3),
      request \in {Open("1d"), Open("7d"), Open("ytd"), Open("games")}}

\* Every scope, in and out of season.
OneGame == {Line(1, batter, Mlb, 101, "batting", 13, 1, 16, "FCL", Hitting(3, 1))}
Scopes ==
  {World(Database(active, members, batter :> tags @@ pitcher :> Tags_, In(16, 22), Usual, OneGame), day, request)
    : active \in SUBSET Both, members \in SUBSET Both, tags \in SUBSET Tags_, day \in {14, 17},
      request \in {Recovered, OfList("ytd"), OfShortstops("7d"), OfShortstops("games")}}

\* Every calendar, on the days about its dates.
OneOfASeason(S) == \A c, d \in S : c.sport = d.sport /\ c.season = d.season => c = d
Seasons ==
  {World(Database(Both, Both, Untagged, In(b, p), calendars, {}), day, Open("1d"))
    : b \in {1, 16}, p \in {Null, 22}, calendars \in {S \in SUBSET CalendarPool : OneOfASeason(S)},
      day \in {11, 12, 16, 18, 19, 21}}

\* Two changes, in scope and in season at the start.
TwoGames == OneGame \cup {Line(11, pitcher, Mlb, 101, "pitching", 13, 1, 16, "FCL", Pitching(<<6, 1>>, 3, 1, 1))}
Races ==
  {[World(Database(Both, Both, [p \in Player |-> Tags_], In(16, sport), Usual, TwoGames), 14, request) EXCEPT !.left = 2]
    : sport \in {16, 22}, request \in {Open("1d"), OfList("ytd"), OfShortstops("7d"), OfShortstops("games")}}

AllWorlds == Contents \cup Scopes \cup Seasons \cup Races
=============================================================================
