SPECIFICATION FairSpec
CONSTANTS
  Proc = {p1, p2, p3}
  Mortal = {p1, p2}
  MaxFile = 3
  MaxEpoch = 1
  MaxKill = 2
  MaxFault = 1
  Recycle = TRUE
  Prompt = TRUE
INVARIANTS TypeOK HolderNamed
PROPERTIES ImplementsMutex StaleReclaimed
CHECK_DEADLOCK FALSE
