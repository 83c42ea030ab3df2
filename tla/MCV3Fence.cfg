SPECIFICATION FairSpec
CONSTANTS
  MaxLife = 3
  MaxLapse = 1
  MaxFail = 1
  PromptExec = TRUE
  QuickReuse = FALSE
INVARIANTS TypeOK StrangerSpared
PROPERTIES ProofMeansDead Drained
CHECK_DEADLOCK FALSE
