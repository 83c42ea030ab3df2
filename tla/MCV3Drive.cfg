SPECIFICATION FairSpec
CONSTANTS
  Daemon = {d1, d2}
  Gate = {g1, g2}
  Work = w
  MaxCrash = 1
  MaxPostFail = 1
  MaxTimeout = 1
  MaxFault = 1
  Stall = FALSE
INVARIANTS TypeOK SomebodysTurn
PROPERTIES OneAnswer ApprovalActedOn CancelConverges
CHECK_DEADLOCK FALSE
