SPECIFICATION MCSpec
CONSTANTS
  e1 = e1
  e2 = e2
  s1 = s1
  h1 = h1
  n1 = n1
  n2 = n2
  n3 = n3
  Persons = {e1, e2}
  Seqs = {s1}
  HlIds = {h1}
  Names = {n1, n2, n3}
  Server = Server
  Cli = Cli
  Null = Null
  Files <- MCFiles
  MaxPlayers = 4
  MaxLists = 3
INVARIANTS TypeOK SchemaHolds TagsFollowRows RoundTrip
PROPERTIES RestoreIsFaithful DefaultIsKept PromotedForGood
CHECK_DEADLOCK FALSE
