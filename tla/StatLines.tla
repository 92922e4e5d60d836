------------------------------ MODULE StatLines ------------------------------
(***************************************************************************)
(* The arithmetic of the reports: seasons and windows, levels, innings,    *)
(* the folding of fielding into batting, and the roll-up of a set of lines *)
(* into a row.  Nothing here keeps state.                                  *)
(*                                                                         *)
(* A date is a day number, and days come in years of YearDays.  A stat     *)
(* line is a record; its stats are a function whose domain is the keys the *)
(* provider sent.  The tables of stats/fields.ts are cut down to the keys  *)
(* some formula reads and one of each class.                               *)
(***************************************************************************)
EXTENDS Integers, Sequences, FiniteSets, FiniteSetsExt, TLC

CONSTANTS YearDays,  \* the days of a year
          SpanDays,  \* SpanDays[w] is the length of the dated window w
          GameLimit  \* the games a game-count window keeps per player

ASSUME SpansAssumption ==
  /\ YearDays \in Nat \ {0} /\ GameLimit \in Nat \ {0}
  /\ SpanDays \in [DOMAIN SpanDays -> Nat \ {0}]
  /\ "1d" \in DOMAIN SpanDays /\ SpanDays["1d"] = 1
  /\ "ytd" \notin DOMAIN SpanDays /\ "games" \notin DOMAIN SpanDays

\* No date, no sport, no game number.
Null == 0

Year(day) == day \div YearDays
NewYear(day) == YearDays * Year(day)

Earliest(S) == CHOOSE d \in S : \A e \in S : d <= e
Latest(S) == CHOOSE d \in S : \A e \in S : d >= e

(***************************************************************************)
(* Levels (mlb/levels.ts).                                                 *)
(***************************************************************************)
SPORT_IDS == {1, 11, 12, 13, 14, 16}
NCAA_SPORT_ID == 22
Sports == SPORT_IDS \cup {NCAA_SPORT_ID}

NoLeague == ""
Dominican == "Dominican Summer League"

SPORT_ID_ABBREV ==
  1 :> "MLB" @@ 11 :> "AAA" @@ 12 :> "AA" @@ 13 :> "A+" @@ 14 :> "A" @@ 16 :> "R" @@ 22 :> "NCAA"

\* The league tells levels apart at sport 16 alone.
levelAbbrev(sport, league) ==
  IF sport = 16 /\ league = Dominican THEN "DSL" ELSE SPORT_ID_ABBREV[sport]

(***************************************************************************)
(* Seasons (domain/season.ts).  A calendar has the sport, the season's     *)
(* year, and the dates the mathematics reads, each of which may be Null.   *)
(***************************************************************************)
LastDay(cal) == IF cal.post # Null THEN cal.post ELSE cal.end

calendarHasUsableDates(cal) == cal.start # Null /\ LastDay(cal) # Null

\* A player's sport is Null when his level names none.
isInSeason(sport, cals, day) ==
  \E cal \in cals : /\ sport # Null /\ cal.sport = sport
                    /\ calendarHasUsableDates(cal)
                    /\ day \in cal.start .. LastDay(cal)

\* A bug: the pipeline goes to sleep when the first of the seasons is over.
BugSleepsAtFirstEnd(cals, watched, today) ==
  LET ours == {cal \in cals : cal.season = Year(today) /\ cal.sport \in watched \ {Null}}
      openings == {cal.start : cal \in ours} \ {Null}
      ends == {LastDay(cal) : cal \in ours} \ {Null}
  IN  openings # {} /\ ends # {} /\ (today < Earliest(openings) \/ today > Earliest(ends))

\* Whether the whole pipeline sleeps: outside the days from the first watched opening day of
\* the year to the end of the World Series; never when a calendar it would need is missing.
sleepWindow(cals, watched, today) ==
  LET ofYear   == {cal \in cals : cal.season = Year(today)}
      ours     == {cal \in ofYear : cal.sport \in watched \ {Null}}
      openings == {cal.start : cal \in ours} \ {Null}
      series   == {cal.post : cal \in {c \in ofYear : c.sport = 1}} \ {Null}
      ends     == {LastDay(cal) : cal \in ours} \ {Null}
      finals   == IF series # {} THEN series ELSE ends
  IN  /\ openings # {} /\ finals # {}
      /\ today < Earliest(openings) \/ today > Latest(finals)

(***************************************************************************)
(* Windows (domain/window.ts, digest/assemble.ts).  Every window ends with *)
(* the last completed day, the one before today or before asOf.            *)
(***************************************************************************)
lastCompletedHostDate(today) == today - 1

\* A bug: ytd begins on opening day of the majors, for everybody.
BugMlbOpeningDay(cals, sports, today) ==
  LET starts == {cal.start : cal \in {c \in cals : c.season = Year(today) /\ c.sport = 1}} \ {Null}
  IN  IF starts = {} THEN Null ELSE Earliest(starts)

\* The first day of the season among those of the sports the players are at, by today's year.
seasonStartFor(cals, sports, today) ==
  LET starts == {cal.start : cal \in {c \in cals : c.season = Year(today) /\ c.sport \in sports \ {Null}}}
                  \ {Null}
  IN  IF starts = {} THEN Null ELSE Earliest(starts)

resolveWindow(spec, today, seasonStart, asOf) ==
  LET to == lastCompletedHostDate(IF asOf = Null THEN today ELSE asOf)
  IN  [to   |-> to,
       from |-> IF spec # "ytd" THEN to - (SpanDays[spec] - 1)
                ELSE IF seasonStart # Null THEN seasonStart ELSE NewYear(to),
       byGame |-> spec = "1d"]

(***************************************************************************)
(* Innings (digest/rates.ts).  "6.1" is <<6, 1>>: six innings and one out. *)
(***************************************************************************)
NoOuts == -1

ipToOuts(ip) == IF Len(ip) = 2 /\ ip[2] \in 0 .. 2 THEN 3 * ip[1] + ip[2] ELSE NoOuts

qualityStart(outs, earnedRuns) == outs # NoOuts /\ outs >= 18 /\ earnedRuns <= 3

(***************************************************************************)
(* Fields (stats/fields.ts): a key that no table has is of no class.       *)
(***************************************************************************)
BATTING == [atBats |-> "counter", hits |-> "counter", baseOnBalls |-> "counter", hitByPitch |-> "counter",
            plateAppearances |-> "counter", errors |-> "counter", avg |-> "rate", summary |-> "excluded"]
PITCHING == [inningsPitched |-> "innings", earnedRuns |-> "counter", wins |-> "counter", losses |-> "counter",
             gamesStarted |-> "counter", hits |-> "counter", era |-> "rate", summary |-> "excluded"]
FIELDING == [errors |-> "counter", putOuts |-> "counter", innings |-> "innings", fielding |-> "rate",
             position |-> "excluded"]

TABLES == [batting |-> BATTING, pitching |-> PITCHING, fielding |-> FIELDING]

classifyField(type, key) == IF key \in DOMAIN TABLES[type] THEN TABLES[type][key] ELSE "none"

KeysOfClass(type, class) == {key \in DOMAIN TABLES[type] : TABLES[type][key] = class}

unknownFieldsOf(lines) ==
  UNION {{key \in DOMAIN line.stats : classifyField(line.type, key) = "none"} : line \in lines}

(***************************************************************************)
(* Roll-ups (stats/aggregate.ts, digest/rows.ts).  A key that is not there *)
(* counts as zero.                                                         *)
(***************************************************************************)
numberOr0(stats, key) == IF key \in DOMAIN stats THEN stats[key] ELSE 0

\* The stats with one key set.
put(stats, key, value) == [k \in DOMAIN stats \cup {key} |-> IF k = key THEN value ELSE stats[k]]

OutsOf(stats, key) ==
  IF key \notin DOMAIN stats \/ ipToOuts(stats[key]) = NoOuts THEN 0 ELSE ipToOuts(stats[key])

aggregate(type, lines) ==
  [games |-> Cardinality(lines),
   counters |-> [key \in KeysOfClass(type, "counter") |->
                   SumFunction([line \in lines |-> numberOr0(line.stats, key)])],
   outs |-> IF type = "pitching" THEN SumFunction([line \in lines |-> OutsOf(line.stats, "inningsPitched")])
            ELSE NoOuts]

\* A plate appearance is counted by the provider or, per game, from what it is made of.
withPlateAppearances(stats) ==
  LET derived == numberOr0(stats, "atBats") + numberOr0(stats, "baseOnBalls") + numberOr0(stats, "hitByPitch")
  IN  IF numberOr0(stats, "plateAppearances") > 0 \/ derived = 0 THEN stats
      ELSE put(stats, "plateAppearances", derived)

isReliefAppearance(stats) == "gamesStarted" \in DOMAIN stats /\ stats["gamesStarted"] = 0

countQualityStarts(lines) ==
  Cardinality({line \in lines :
    /\ "inningsPitched" \in DOMAIN line.stats
    /\ qualityStart(ipToOuts(line.stats["inningsPitched"]), numberOr0(line.stats, "earnedRuns"))})

countReliefWins(lines) ==
  Cardinality({line \in lines : numberOr0(line.stats, "wins") = 1 /\ isReliefAppearance(line.stats)})

countReliefLosses(lines) ==
  Cardinality({line \in lines : numberOr0(line.stats, "losses") = 1 /\ isReliefAppearance(line.stats)})

\* The lines whose errors count: Highlightly has no fielding.
fieldedIn(lines) == {line \in lines : line.type = "fielding" /\ line.source # "highlightly_ncaa"}

sameGame(a, b) == a.player = b.player /\ a.game = b.game

errorsIn(lines, line) == {numberOr0(f.stats, "errors") : f \in {g \in fieldedIn(lines) : sameGame(g, line)}}

\* A batting line with its game's errors, and a fielding line that stands for one.
charged(line, errors) ==
  IF errors = {} THEN line ELSE [line EXCEPT !.stats = put(line.stats, "errors", Latest(errors))]
standIn(line) == [line EXCEPT !.stats = [key \in {"errors"} |-> numberOr0(line.stats, key)]]

\* A bug: a game a player only pitched in becomes a batting game when his fielding line is there.
BugFieldsWherePitched(lines) ==
  LET batting == {line \in lines : line.type = "batting"}
  IN  {charged(line, errorsIn(lines, line)) : line \in batting}
        \cup {standIn(f) : f \in {g \in fieldedIn(lines) : ~ \E b \in batting : sameGame(b, g)}}

\* A fielding line lends its errors to the batting line of the same game, or stands for one
\* if the player neither batted nor pitched.
mergeFieldingIntoBatting(lines) ==
  LET stands(f) == ~ \E other \in lines : other.type # "fielding" /\ sameGame(other, f)
  IN  {charged(line, errorsIn(lines, line)) : line \in {l \in lines : l.type = "batting"}}
        \cup {standIn(f) : f \in {g \in fieldedIn(lines) : stands(g)}}

\* What a row has of a set of lines of one player.  Its label is that of the first line the
\* database gave, which may be any.
buildStatRowCore(type, lines) ==
  [player |-> (CHOOSE line \in lines : TRUE).player,
   labels |-> {levelAbbrev(line.sport, line.league) : line \in lines},
   agg |-> aggregate(type, lines),
   qualityStarts |-> IF type = "pitching" THEN countQualityStarts(lines) ELSE 0,
   reliefWins |-> IF type = "pitching" THEN countReliefWins(lines) ELSE 0,
   reliefLosses |-> IF type = "pitching" THEN countReliefLosses(lines) ELSE 0]
=============================================================================
