SPECIFICATION Spec
CONSTANTS
  A = A
  B = B
  C = C
  D = D
  Node <- Nodes3
  MaxInst = 1
  Dep <- RaceDep
  When <- None
  AllSuccess <- RaceAll
  Quorum <- One
  Gated <- None
  Rank <- RankOf
  RevisitTo <- None
  Pools <- RacePools
  GlobalCap = 2
  PairLimit = 1
  RunLimit = 1
  Foreign = TRUE
  MaxCrash = 1
  MaxHuman = 1
INVARIANTS TypeOK TerminalQuiescent WorkerAccounted OneWorkerPerNode SlotsHold
PROPERTIES CutIsFinal LoserStaysOut ImplementsLifecycle
CHECK_DEADLOCK FALSE
