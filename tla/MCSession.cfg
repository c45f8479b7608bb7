SPECIFICATION SessionSpec
CONSTANTS
  PduOptions = {0, 3, 8}
  CountOptions = {0, 1, 3}
  DefaultPdu = 7
  DefaultCount = 2
  DefaultNesting = 4
  MinPdu = 4
  ErrorSize = 2
  Sizes = {2, 4, 6, 9}
  Conns = {k1, k2}
  Requests <- MCRequests
SYMMETRY ConnSymmetry
INVARIANTS
  Negotiated
  AnswersFit
  DialKept
  BroadcastReachesAll
PROPERTIES
  PathsKept
  ResultsTrue
  OthersKept
