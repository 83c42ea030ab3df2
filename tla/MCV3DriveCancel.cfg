SPECIFICATION FairSpec
CONSTANTS
  Daemon = {d1}
  Gate = {g1}
  Work = w
  MaxCrash = 0
  MaxPostFail = 1
  MaxTimeout = 0
  MaxFault = 1
  Stall = FALSE
PROPERTY CancelNotStranded
CHECK_DEADLOCK FALSE
