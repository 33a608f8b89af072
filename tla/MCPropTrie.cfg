SPECIFICATION MCSpec
CONSTANTS
  Readers = {"r1"}
  Init_ = "init"
  NoArea = "none"
  Tokens = {0, 1, 2, 3}
  Names <- MCNames
  Lines <- MCLines
  Matches <- MCMatches
  BtSize = 2
  InfoSize = 3
  AreaSize = 13
  MaxCalls <- MCMaxCalls
CHECK_DEADLOCK FALSE
INVARIANTS
  TypeOK
  ForeachComplete
  NothingLeaks
  LongestPrefixWins
PROPERTIES
  Linearizable
  FindReturns
