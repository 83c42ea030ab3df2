SPECIFICATION FairSpec
CONSTANTS
  A = A
  B = B
  C = C
  D = D
  Node <- Nodes1
  MaxInst = 1
  Dep <- None
  When <- None
  AllSuccess <- Nodes1
  Quorum <- One
  Gated <- Nodes1
  Rank <- RankOf
  RevisitTo <- None
  Pools <- None
  GlobalCap = 2
  PairLimit = 1
  RunLimit = 1
  Foreign = FALSE
  MaxCrash = 3
  MaxHuman = 1
INVARIANTS BlockedIsRecoverable NoStall
PROPERTIES AttemptUsedOnce DriveEnds CancelConverges
CHECK_DEADLOCK FALSE
