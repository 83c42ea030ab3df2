SPECIFICATION Spec
CONSTANTS
  A = A
  B = B
  C = C
  D = D
  Node <- Nodes3
  MaxInst = 2
  Dep <- ChainDep
  When <- None
  AllSuccess <- Nodes3
  Quorum <- One
  Gated <- None
  Rank <- RankOf
  RevisitTo <- ChainBack
  Pools <- None
  GlobalCap = 2
  PairLimit = 1
  RunLimit = 1
  Foreign = FALSE
  MaxCrash = 1
  MaxHuman = 0
INVARIANT FreshInputs
CHECK_DEADLOCK FALSE
