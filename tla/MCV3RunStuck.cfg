SPECIFICATION Spec
CONSTANTS
  A = A
  B = B
  C = C
  D = D
  Node <- Nodes3
  MaxInst = 1
  Dep <- RaceDep
  When <- None
  AllSuccess <- RaceAll
  Quorum <- One
  Gated <- None
  Rank <- RankOf
  RevisitTo <- None
  Pools <- None
  GlobalCap = 2
  PairLimit = 1
  RunLimit = 1
  Foreign = TRUE
  MaxCrash = 0
  MaxHuman = 0
INVARIANT NeverStuck
CHECK_DEADLOCK FALSE
