SPECIFICATION ServicesSpec
CONSTANTS
  MaxN = 5
  MaxSize = 3
  Names = {1, 2, 3}
  Static = {2}
  Clients = {c1, c2}
  Listers = {c1}
  PageSize = 1
  MaxNames = 4
  Calls = {d1, d2}
  Chunks = 2
  Conns = {k1, k2}
  MaxPending = 1
INVARIANTS
  NamesExact
  NamesCovered
  FilesExact
  TransportsInv
PROPERTIES
  Implements
  ServicesEnd
  SilentPeersDoNotBlock
  ClosingEnds
