SPECIFICATION Spec
CONSTANTS
  Writer = {w1}
  Event = {e1}
  Start = Start
  MaxLen = 2
  MaxKill = 1
  MaxPower = 1
INVARIANT AckedSurvives
CHECK_DEADLOCK FALSE
