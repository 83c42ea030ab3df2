SPECIFICATION Spec
CONSTANTS
  A = A
  B = B
  C = C
  D = D
  Node <- Nodes4
  MaxInst = 2
  Dep <- DiamondDep
  When <- None
  AllSuccess <- Nodes3
  Quorum <- One
  Gated <- None
  Rank <- RankOf
  RevisitTo <- LoserBack
  Pools <- None
  GlobalCap = 2
  PairLimit = 1
  RunLimit = 1
  Foreign = FALSE
  MaxCrash = 0
  MaxHuman = 0
PROPERTY LoserStaysOut
CHECK_DEADLOCK FALSE
