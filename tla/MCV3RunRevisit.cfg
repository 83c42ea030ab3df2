SPECIFICATION Spec
CONSTANTS
  A = A
  B = B
  C = C
  D = D
  Node <- Nodes4
  MaxInst = 3
  Dep <- BranchDep
  When <- BranchWhen
  AllSuccess <- Nodes3
  Quorum <- Two
  Gated <- ChainGate
  Rank <- RankOf
  RevisitTo <- BranchBack
  Pools <- None
  GlobalCap = 2
  PairLimit = 1
  RunLimit = 1
  Foreign = FALSE
  MaxCrash = 0
  MaxHuman = 1
INVARIANTS GateBeforeWork FreshInputs SkipJustified NeverStuck
CHECK_DEADLOCK FALSE
