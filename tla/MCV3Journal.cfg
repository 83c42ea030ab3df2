SPECIFICATION MCSpec
CONSTANTS
  Writer = {w1, w2}
  Event = {e1, e2}
  Start = Start
  MaxLen = 4
  MaxKill = 3
  MaxPower = 2
INVARIANTS TypeOK NeverGlued OneHistoryRoot AckedSurvives
PROPERTY ImplementsLog
CHECK_DEADLOCK FALSE
