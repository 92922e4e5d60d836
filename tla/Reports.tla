------------------------------- MODULE Reports -------------------------------
(***************************************************************************)
(* The reports: the dated digest, the game-count report and the player     *)
(* card, assembled by a process over a database that other processes       *)
(* change.  The digest is read in six statements, and between any two of   *)
(* them a player may be moved, deactivated, enrolled, tagged, or refreshed *)
(* and midnight may pass; the game-count report is one statement, the card *)
(* one transaction.  Nothing is written.                                   *)
(***************************************************************************)
EXTENDS StatLines

CONSTANTS Player, Pitchers,  \* everyone, and those of position P
          Tag, AnyValue,     \* tags are <<namespace, value>>; a selector's token may leave the value open
          Pool, Calendars,   \* the lines and calendars a provider may report, in every version
          Worlds,            \* the databases, dates, requests and numbers of changes a behaviour begins with
          FinalDay           \* the last date

VARIABLES db,       \* active, members, tags, sport, calendars, lines
          today,    \* the host's date
          job,      \* the report under way or done
          left      \* how many changes others may still make

vars == <<db, today, job, left>>

\* A line as a provider reports it; Highlightly's fielding is never stored.
IsLine(a) ==
  /\ a = [id |-> a.id, player |-> a.player, source |-> a.source, game |-> a.game, type |-> a.type,
          date |-> a.date, number |-> a.number, sport |-> a.sport, league |-> a.league,
          regular |-> a.regular, stats |-> a.stats]
  /\ a.player \in Player /\ a.type \in {"batting", "pitching", "fielding"} /\ a.sport \in Sports
  /\ a.id \in Nat /\ a.date \in 0 .. FinalDay /\ a.number \in Nat /\ a.regular \in BOOLEAN
  /\ a.type = "fielding" => a.source # "highlightly_ncaa"
  /\ \A key \in DOMAIN a.stats \cap KeysOfClass(a.type, "counter") : a.stats[key] \in Nat
  /\ a.type = "pitching" /\ "inningsPitched" \in DOMAIN a.stats => a.stats["inningsPitched"] \in Seq(Nat)

ASSUME PoolAssumption ==
  /\ \A a \in Pool : IsLine(a)
  \* the game ids of two sources differ, a game is of one kind, and a line keeps its id
  /\ \A a, b \in Pool : a.game = b.game => a.source = b.source /\ a.regular = b.regular
  /\ \A a, b \in Pool : a.id = b.id <=> <<a.player, a.source, a.game, a.type>> = <<b.player, b.source, b.game, b.type>>

\* A season lies in its year.
ASSUME CalendarAssumption ==
  \A cal \in Calendars :
    /\ cal.sport \in Sports /\ {cal.start, cal.end, cal.post} \subseteq Nat
    /\ cal.start # Null => Year(cal.start) = cal.season
    /\ LastDay(cal) # Null => Year(LastDay(cal)) = cal.season

\* One line of a key, and one calendar of a sport and year: so the tables' unique indexes.
OneOfEach(d) ==
  /\ \A a, b \in d.lines : a.id = b.id => a = b
  /\ \A c, e \in d.calendars : c.sport = e.sport /\ c.season = e.season => c = e

Databases ==
  {d \in [active : SUBSET Player, members : SUBSET Player, tags : [Player -> SUBSET Tag],
          sport : [Player -> Sports \cup {Null}], calendars : SUBSET Calendars, lines : SUBSET Pool] :
     IsFiniteSet(d.calendars) /\ IsFiniteSet(d.lines) /\ OneOfEach(d)}

ASSUME WorldsAssumption ==
  /\ FinalDay \in Nat
  /\ \A world \in Worlds :
       /\ world.db \in Databases /\ world.today \in 0 .. FinalDay /\ world.left \in Nat
       /\ world.request.spec \in DOMAIN SpanDays \cup {"ytd", "games"}
       /\ world.request.list \in BOOLEAN /\ world.request.asOf \in Nat

isBatter(p) == p \notin Pitchers

(***************************************************************************)
(* The scope of a report: a list's members, a selector's tokens, or both.  *)
(***************************************************************************)
matchesTag(tags, token) ==
  \E tag \in tags : tag[1] = token[1] /\ (token[2] = AnyValue \/ tag[2] = token[2])

\* A bare token and a valued one may be met by different tags.
tagScopeCondition(d, tokens, p) == \A token \in tokens : matchesTag(d.tags[p], token)

playerIdsMatchingTags(d, tokens) == {p \in Player : tagScopeCondition(d, tokens, p)}

listMemberIds(d) == d.members \cap d.active

scopeCondition(d, request, p) ==
  /\ p \in d.active
  /\ request.list => p \in d.members
  /\ tagScopeCondition(d, request.tokens, p)

(***************************************************************************)
(* The game-count report (digest/game-window.ts).                          *)
(***************************************************************************)
\* A game is a player's, a source's and an id's; its date and number are attributes that
\* its lines may disagree on.
gameOf(line) == <<line.player, line.source, line.game>>

LaterLine(a, b) ==
  \/ a.date > b.date
  \/ a.date = b.date /\ a.number > b.number
  \/ a.date = b.date /\ a.number = b.number /\ a.id > b.id

Representative(lines, game) ==
  CHOOSE a \in lines : gameOf(a) = game /\ \A b \in lines : gameOf(b) = game => ~ LaterLine(b, a)

\* A bug: a game's dates are part of its identity, so a resumed game takes two places.
BugResumedGameTwice(lines) ==
  LET dated(line) == <<line.player, line.date, line.game>>
      later(p, g) == {h \in {dated(line) : line \in lines} : h[1] = p /\ (h[2] > g[2] \/ (h[2] = g[2] /\ h[3] > g[3]))}
  IN  {gameOf(line) : line \in {l \in lines : Cardinality(later(l.player, dated(l))) < GameLimit}}

\* Each player's last games, ranked by their representatives.
rankedGames(lines) ==
  LET games == {gameOf(line) : line \in lines}
      rank(g) == Cardinality({h \in games : /\ h[1] = g[1]
                                            /\ LaterLine(Representative(lines, h), Representative(lines, g))}) + 1
  IN  {g \in games : rank(g) <= GameLimit}

\* The join goes back to every line of a selected game, whatever its date or kind.
rankedGameLinesQuery(d, request, lastCompleted) ==
  LET scoped == {line \in d.lines : /\ line.regular /\ line.date <= lastCompleted
                                    /\ scopeCondition(d, request, line.player)}
      chosen == rankedGames(scoped)
  IN  {line \in d.lines : gameOf(line) \in chosen}

battingOf(lines) ==
  {[line EXCEPT !.stats = withPlateAppearances(line.stats)]
    : line \in {l \in mergeFieldingIntoBatting(lines) : isBatter(l.player)}}

pitchingOf(lines) == {line \in lines : line.type = "pitching" /\ ~isBatter(line.player)}

Buckets(lines, Key(_)) == {{m \in lines : Key(m) = Key(line)} : line \in lines}

DatesOf(lines) == {line.date : line \in lines}

GameCountRow(type, bucket) ==
  [core |-> buildStatRowCore(type, bucket), gameNumber |-> Null,
   spanFrom |-> Earliest(DatesOf(bucket)), spanTo |-> Latest(DatesOf(bucket))]

buildGameCountRows(lines, type) ==
  LET key(line) == <<line.player, line.sport, line.league>>
  IN  {GameCountRow(type, bucket) : bucket \in Buckets(lines, key)}

(***************************************************************************)
(* The player card (reports/player-card.ts), which has its own selection,  *)
(* its own folding and its own grouping.                                   *)
(***************************************************************************)
\* The scan from the newest line on keeps a game the first time it meets it and stops at
\* the limit.
selectGames(lines) ==
  LET met(a) == {gameOf(b) : b \in {c \in lines : LaterLine(c, a)}}
      kept(a) == gameOf(a) \notin met(a) /\ Cardinality(met(a)) < GameLimit
  IN  {gameOf(a) : a \in {b \in lines : kept(b)}}

cardRows(d, p, lastCompleted) ==
  LET ofPlayer == {line \in d.lines : line.player = p /\ line.regular}
      games    == selectGames({line \in ofPlayer : line.date <= lastCompleted})
      lines    == {line \in ofPlayer : gameOf(line) \in games}
      of(type) == {line \in lines : line.type = type}
      struck   == {charged(line, {numberOr0(f.stats, "errors") : f \in {g \in of("fielding") : gameOf(g) = gameOf(line)}})
                    : line \in of("batting")}
      alone    == {f \in of("fielding") : /\ f.source # "highlightly_ncaa"
                                          /\ \A l \in lines : gameOf(l) = gameOf(f) => l.type = "fielding"}
      batting  == {[line EXCEPT !.stats = withPlateAppearances(line.stats)]
                    : line \in struck \cup {standIn(f) : f \in alone}}
      key(line) == <<line.sport, line.league>>
  IN  [batters  |-> {buildStatRowCore("batting", bucket) : bucket \in Buckets(batting, key)},
       pitchers |-> {buildStatRowCore("pitching", bucket) : bucket \in Buckets(of("pitching"), key)}]

(***************************************************************************)
(* The dated digest (digest/assemble.ts).                                  *)
(***************************************************************************)
inWindow(line, window) == line.regular /\ line.date \in window.from .. window.to

StatRow(type, bucket, twice) ==
  [core |-> buildStatRowCore(type, bucket),
   gameNumber |-> IF twice THEN (CHOOSE line \in bucket : TRUE).number ELSE Null]

\* A row with no games bears the level of the player's row and of the league he was last in.
ZeroRow(type, p, sport, leagues) ==
  [core |-> [player |-> p, labels |-> {levelAbbrev(sport, league) : league \in leagues},
             agg |-> aggregate(type, {}), qualityStarts |-> 0, reliefWins |-> 0, reliefLosses |-> 0],
   gameNumber |-> Null]

buildRows(lines, window, type, idle, sport, leagues) ==
  LET key(line) == IF window.byGame THEN <<line.player, line.game>> ELSE <<line.player, line.sport>>
      games(p) == {line.game : line \in {l \in lines : l.player = p}}
      twice(bucket) == window.byGame /\ Cardinality(games((CHOOSE line \in bucket : TRUE).player)) > 1
  IN  {StatRow(type, bucket, twice(bucket)) : bucket \in Buckets(lines, key)}
        \cup {ZeroRow(type, p, sport[p], leagues[p]) : p \in idle}

\* The leagues of a player's latest lines, of which the first the database gives is taken.
lastKnownLeagues(d, p) ==
  LET own == {line \in d.lines : line.player = p}
  IN  IF own = {} THEN {NoLeague} ELSE {line.league : line \in {l \in own : l.date = Latest(DatesOf(own))}}

NoReport == [batters |-> {}, pitchers |-> {}, players |-> 0, lines |-> 0, unknown |-> {}]

ReportOf(lines, batters, pitchers) ==
  [batters |-> batters, pitchers |-> pitchers,
   players |-> Cardinality({line.player : line \in lines}), lines |-> Cardinality(lines),
   unknown |-> unknownFieldsOf(lines)]

NoWindow == [from |-> Null, to |-> Null, byGame |-> FALSE]

Dated == DOMAIN SpanDays \cup {"ytd"}

Idle(request) ==
        [pc |-> "idle", request |-> request, active |-> {}, sport |-> [p \in Player |-> Null],
         calendars |-> {}, window |-> NoWindow, lines |-> {}, idle |-> {}, report |-> NoReport,
         touched |-> {}, moved |-> FALSE]

At(pc) == job.pc = pc

\* One request, made again and again.
Asked(kinds) == job.pc \in {"idle", "done"} /\ job.request.spec \in kinds

Calm == UNCHANGED <<db, today, left>>

\* The statements of one digest, in order; a scope it does not have is not read.
assembleDigest ==
  /\ Asked(Dated)
  /\ job' = [Idle(job.request) EXCEPT !.pc = IF job.request.list THEN "members" ELSE "tags",
                                      !.active = db.active, !.sport = db.sport]
  /\ Calm

readMembers ==
  /\ At("members")
  /\ job' = [job EXCEPT !.pc = "tags", !.active = @ \cap listMemberIds(db)]
  /\ Calm

readTags ==
  /\ At("tags")
  /\ job' = [job EXCEPT !.pc = "window", !.active = @ \cap playerIdsMatchingTags(db, job.request.tokens)]
  /\ Calm

\* The calendars are read, and the window follows from them and from the clock.
readCalendars ==
  LET start == seasonStartFor(db.calendars, {job.sport[p] : p \in job.active}, today)
  IN  /\ At("window")
      /\ job' = [job EXCEPT !.pc = "lines", !.calendars = db.calendars,
                            !.window = resolveWindow(job.request.spec, today, start, job.request.asOf)]
      /\ Calm

Rows(lines, window, idle, sport, leagues) ==
  ReportOf(lines,
    buildRows(battingOf(lines), window, "batting", {p \in idle : isBatter(p)}, sport, leagues),
    buildRows(pitchingOf(lines), window, "pitching", {p \in idle : ~isBatter(p)}, sport, leagues))

\* A bug: a player is idle only if he is in season today.
BugIdleByToday ==
  LET lines == {line \in db.lines : inWindow(line, job.window) /\ scopeCondition(db, job.request, line.player)}
      idle  == {p \in job.active : /\ \A line \in lines : line.player # p
                                   /\ isInSeason(job.sport[p], job.calendars, today)}
  IN  /\ At("lines")
      /\ job' = [job EXCEPT !.pc = "leagues", !.lines = lines, !.idle = idle]
      /\ Calm

\* The join scopes again, by the database as it is by now; who has no line in it is idle if
\* he was of the players read before and in season on the window's last day.
readLines ==
  LET lines == {line \in db.lines : inWindow(line, job.window) /\ scopeCondition(db, job.request, line.player)}
      idle  == {p \in job.active : /\ \A line \in lines : line.player # p
                                   /\ isInSeason(job.sport[p], job.calendars, job.window.to)}
  IN  /\ At("lines")
      /\ job' = [job EXCEPT !.pc = "leagues", !.lines = lines, !.idle = idle]
      /\ Calm

readLeagues ==
  /\ At("leagues")
  /\ job' = [job EXCEPT !.pc = "done",
                !.report = Rows(job.lines, job.window, job.idle, job.sport,
                                [p \in Player |-> lastKnownLeagues(db, p)])]
  /\ Calm

\* A game-count report has no window: its dates are those of the games it selected.
envelopeWindow(lines, lastCompleted) ==
  LET dates == IF lines = {} THEN {lastCompleted} ELSE DatesOf(lines)
  IN  [from |-> Earliest(dates), to |-> Latest(dates), byGame |-> FALSE]

assembleGameWindow ==
  LET lines == rankedGameLinesQuery(db, job.request, lastCompletedHostDate(today))
  IN  /\ Asked({"games"})
      /\ job' = [Idle(job.request) EXCEPT !.pc = "done", !.lines = lines,
                    !.window = envelopeWindow(lines, lastCompletedHostDate(today)),
                    !.report = ReportOf(lines, buildGameCountRows(battingOf(lines), "batting"),
                                        buildGameCountRows(pitchingOf(lines), "pitching"))]
      /\ Calm

(***************************************************************************)
(* What others do meanwhile.  job.touched and job.moved are history: whose *)
(* data changed since the report was begun, and whether the calendars or   *)
(* the date did.                                                           *)
(***************************************************************************)
Change(d, players) ==
  /\ left > 0 /\ left' = left - 1
  /\ db' = d
  /\ job' = [job EXCEPT !.touched = @ \cup players]
  /\ UNCHANGED today

Toggle(S, e) == IF e \in S THEN S \ {e} ELSE S \cup {e}

activate(p) == Change([db EXCEPT !.active = Toggle(@, p)], {p})

enroll(p) == Change([db EXCEPT !.members = Toggle(@, p)], {p})

tagPlayer(p) == \E tag \in Tag : Change([db EXCEPT !.tags[p] = Toggle(@, tag)], {p})

move(p) == \E sport \in Sports \ {db.sport[p]} : Change([db EXCEPT !.sport[p] = sport], {p})

\* A refresh adds a line, or corrects the one of the same key.
storeLine ==
  \E line \in Pool \ db.lines :
    Change([db EXCEPT !.lines = {l \in @ : l.id # line.id} \cup {line}], {line.player})

storeCalendar ==
  \E cal \in Calendars \ db.calendars :
    /\ left > 0 /\ left' = left - 1
    /\ db' = [db EXCEPT !.calendars = {c \in @ : <<c.sport, c.season>> # <<cal.sport, cal.season>>} \cup {cal}]
    /\ job' = [job EXCEPT !.moved = TRUE]
    /\ UNCHANGED today

Midnight ==
  /\ today < FinalDay /\ left > 0
  /\ today' = today + 1 /\ left' = left - 1
  /\ job' = [job EXCEPT !.moved = TRUE]
  /\ UNCHANGED db

Init ==
  \E world \in Worlds :
    db = world.db /\ today = world.today /\ job = Idle(world.request) /\ left = world.left

Next ==
  \/ assembleDigest \/ assembleGameWindow
  \/ readMembers \/ readTags \/ readCalendars \/ readLines \/ readLeagues
  \/ \E p \in Player : activate(p) \/ enroll(p) \/ tagPlayer(p) \/ move(p)
  \/ storeLine \/ storeCalendar \/ Midnight

Spec == Init /\ [][Next]_vars
=============================================================================
