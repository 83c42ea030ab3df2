SPECIFICATION Spec
CONSTANTS
  Proc = {p1, p2, p3, p4}
  Mortal = {p1, p2}
  MaxFile = 3
  MaxEpoch = 0
  MaxKill = 2
  MaxFault = 0
  Recycle = FALSE
  Prompt = TRUE
INVARIANT HolderNamed
CHECK_DEADLOCK FALSE
