------------------------------ MODULE ReportSpec ------------------------------
(***************************************************************************)
(* What the reports owe their reader, stated game by game over the         *)
(* database itself, not over the lines, folds and groups the code goes     *)
(* through.                                                                *)
(***************************************************************************)
EXTENDS Reports

Done(kinds) == At("done") /\ job.request.spec \in kinds

\* Nothing that is p's, no calendar and no date changed since the report was begun.
Undisturbed(p) == p \notin job.touched /\ ~job.moved

InScope(p) == scopeCondition(db, job.request, p)

RowsOf(p) == {row \in job.report.batters \cup job.report.pitchers : row.core.player = p}

Side(p) == IF isBatter(p) THEN "batting" ELSE "pitching"

(***************************************************************************)
(* A player's game, whatever lines it has.                                 *)
(***************************************************************************)
LinesOf(p, days) == {line \in db.lines : line.player = p /\ line.regular /\ line.date \in days}

\* The lines of one game by type, of which there is one at most.
OfType(game, type) == {line \in game : line.type = type}
The(S) == CHOOSE x \in S : TRUE

Games(lines) == {{m \in lines : gameOf(m) = gameOf(line)} : line \in lines}

\* A game of a batter's is one he batted in, or fielded in without pitching; a pitcher's, one
\* he pitched in.
OwnGame(p, game) ==
  IF isBatter(p) THEN OfType(game, "batting") # {} \/ OfType(game, "pitching") = {}
  ELSE OfType(game, "pitching") # {}

OwnGames(p, lines) == {game \in Games(lines) : OwnGame(p, game)}

\* The line a game is counted by: without one of his side, that of his fielding.
Main(p, game) == The(IF OfType(game, Side(p)) # {} THEN OfType(game, Side(p)) ELSE game)

\* What a game counts for one key: errors are the fielding line's, if there is one, and
\* everything else is of the batting or the pitching line; appearances are reported or made up.
Counted(p, game, key) ==
  LET main  == OfType(game, Side(p))
      field == OfType(game, "fielding")
      has(k) == IF main = {} THEN 0 ELSE numberOr0(The(main).stats, k)
  IN  CASE key = "errors" /\ isBatter(p) /\ field # {} -> numberOr0(The(field).stats, "errors")
        [] key = "plateAppearances" /\ has(key) = 0 -> has("atBats") + has("baseOnBalls") + has("hitByPitch")
        [] OTHER -> has(key)

\* Thirds of an inning.
Thirds(game) ==
  LET ip == {line.stats["inningsPitched"] : line \in {l \in OfType(game, "pitching") : "inningsPitched" \in DOMAIN l.stats}}
      thirds == {3 * x[1] + x[2] : x \in {y \in ip : Len(y) = 2 /\ y[2] < 3}}
  IN  IF thirds = {} THEN 0 ELSE The(thirds)

IsQuality(p, game) == ~isBatter(p) /\ Thirds(game) >= 18 /\ Counted(p, game, "earnedRuns") < 4

InRelief(p, game, key) ==
  /\ ~isBatter(p) /\ Counted(p, game, key) = 1
  /\ \E line \in OfType(game, "pitching") : "gamesStarted" \in DOMAIN line.stats /\ line.stats["gamesStarted"] = 0

\* The figures of a set of games, and those of a row.
TrueFigures(p, games) ==
  [games |-> Cardinality(games),
   counters |-> [key \in KeysOfClass(Side(p), "counter") |-> SumFunction([g \in games |-> Counted(p, g, key)])],
   outs |-> IF isBatter(p) THEN NoOuts ELSE SumFunction([g \in games |-> Thirds(g)]),
   decisions |-> <<Cardinality({g \in games : IsQuality(p, g)}), Cardinality({g \in games : InRelief(p, g, "wins")}),
                   Cardinality({g \in games : InRelief(p, g, "losses")})>>]

Figures(core) ==
  [games |-> core.agg.games, counters |-> core.agg.counters, outs |-> core.agg.outs,
   decisions |-> <<core.qualityStarts, core.reliefWins, core.reliefLosses>>]

\* The last day of a report.
To == (IF job.request.asOf = Null THEN today ELSE job.request.asOf) - 1

WindowDays == {day \in 0 .. FinalDay : day <= To /\ day > To - SpanDays[job.request.spec]}

\* The games that make one row: on a single day each its own, else those at one sport.
Alike(p, g, h) == IF job.request.spec = "1d" THEN g = h ELSE Main(p, g).sport = Main(p, h).sport

RowGames(p, games) == {{h \in games : Alike(p, g, h)} : g \in games}

(***************************************************************************)
(* Properties.                                                             *)
(***************************************************************************)
\* What a dated digest says of a player is true of the database when it is done, if nothing
\* of his changed meanwhile, whatever happened to the others: one row per game on a single
\* day, else one per sport he played at, with the sums of those games, and none out of scope.
UndisturbedRowsAreTrue ==
  Done(DOMAIN SpanDays) =>
    \A p \in Player : Undisturbed(p) =>
      LET games == IF InScope(p) THEN OwnGames(p, LinesOf(p, WindowDays)) ELSE {}
          rows  == {row \in RowsOf(p) : row.core.agg.games > 0}
          label(line) == levelAbbrev(line.sport, line.league)
      IN  /\ {<<Figures(row.core), row.core.labels>> : row \in rows}
               = {<<TrueFigures(p, b), {label(Main(p, g)) : g \in b}>> : b \in RowGames(p, games)}
          /\ job.request.spec = "1d" /\ Cardinality(games) > 1 =>
               {row.gameNumber : row \in rows} = {Main(p, g).number : g \in games}

\* A player in the scope of a digest is listed, with no games if need be, while his sport is
\* in season on the last day of the window; out of season, or out of scope, he is not listed
\* for no games.  (Who has only lines of the other side in the window is not listed.)
EveryoneIsListed ==
  Done(DOMAIN SpanDays) =>
    \A p \in Player : Undisturbed(p) =>
      LET lines == LinesOf(p, WindowDays)
          to    == job.window.to
          atPlay == \E cal \in db.calendars : /\ cal.sport = db.sport[p]
                                              /\ cal.start # Null /\ cal.start <= to
                                              /\ to <= cal.post \/ (cal.post = Null /\ to <= cal.end)
          empty == {row \in RowsOf(p) : row.core.agg.games = 0}
      IN  /\ InScope(p) /\ (atPlay \/ OwnGames(p, lines) # {}) /\ (lines # {} => OwnGames(p, lines) # {})
               => RowsOf(p) # {}
          /\ empty # {} => InScope(p) /\ atPlay /\ lines = {}

\* A season to date is whole: every game of the year counts for a player of the digest who
\* played at his present sport alone, whoever else is on it, if the opening day of that sport
\* is known and he has no line before it.  (Before the new year's first report the two years
\* differ; a player who moved, or whose sport has no calendar, may lose games to the others'
\* openings.)
SeasonIsWhole ==
  Done({"ytd"}) =>
    \A p \in Player :
      LET lines == LinesOf(p, NewYear(To) .. To)
          games == OwnGames(p, lines)
          opened == {cal \in db.calendars : cal.sport = db.sport[p] /\ cal.season = Year(today) /\ cal.start # Null}
      IN  /\ Undisturbed(p) /\ InScope(p) /\ Year(To) = Year(today)
          /\ \A game \in games : \A line \in game : line.sport = db.sport[p]
          /\ \E cal \in opened : \A line \in lines : cal.start <= line.date
          => SumFunction([row \in RowsOf(p) |-> row.core.agg.games]) = Cardinality(games)

\* A player's last games are the same in the cohort report and on his card, which select,
\* fold and group by code of their own; no row of either blends two levels.
GameCountAgreesWithCard ==
  Done({"games"}) =>
    \A p \in Player : Undisturbed(p) /\ InScope(p) =>
      LET card == cardRows(db, p, today - 1)
          own  == IF isBatter(p) THEN card.batters ELSE card.pitchers
      IN  /\ {row.core : row \in RowsOf(p)} = own
          /\ \A core \in own : Cardinality(core.labels) = 1

\* The pipeline is awake on every day on which a watched player is in season, provided that
\* the World Series, if its date is known, ends the year's baseball.
NeverSleepsInSeason ==
  LET watched == {db.sport[p] : p \in db.active}
      ofYear  == {cal \in db.calendars : cal.season = Year(today)}
  IN  /\ \E sport \in watched : isInSeason(sport, db.calendars, today)
      /\ \A c, d \in ofYear : c.sport = 1 /\ c.post # Null => LastDay(d) <= c.post
      => ~sleepWindow(db.calendars, watched, today)
=============================================================================
