SPECIFICATION Spec
CONSTANTS
  batter = batter
  pitcher = pitcher
  Player = {batter, pitcher}
  Pitchers = {pitcher}
  Tag <- Tags_
  AnyValue <- Whatever
  Pool <- Lines_
  Calendars <- CalendarPool
  Worlds <- AllWorlds
  YearDays = 10
  SpanDays <- Spans
  GameLimit = 2
  FinalDay = 22
INVARIANTS
  UndisturbedRowsAreTrue
  EveryoneIsListed
  SeasonIsWhole
  GameCountAgreesWithCard
  NeverSleepsInSeason
