SPECIFICATION FairSpec
CONSTANTS
  Daemon = {d1}
  Gate = {g1, g2}
  Work = w
  MaxCrash = 1
  MaxPostFail = 0
  MaxTimeout = 0
  MaxFault = 1
  Stall = FALSE
PROPERTY ApprovalResumes
CHECK_DEADLOCK FALSE
