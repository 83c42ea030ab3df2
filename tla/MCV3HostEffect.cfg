SPECIFICATION FairSpec
CONSTANTS
  Value = {soon, later}
  MaxAttempt = 2
  MaxRetry = 1
  MaxCrash = 1
  MaxDamage = 1
  Slow = FALSE
INVARIANTS TypeOK AtMostOnce AppliedAsApproved NothingSilent
PROPERTY EffectCloses
CHECK_DEADLOCK FALSE
