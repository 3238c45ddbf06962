\* One owner with four tokens, a treasury that can deposit one; the owner keeps
\* withdrawing while time passes.
SPECIFICATION FairStakingSpec
CONSTANTS
  o1 = o1 t1 = t1 t2 = t2 s1 = s1 s2 = s2
  Wallets = {o1, t1, t2}
  Owners = {o1}
  Treasuries = {t1, t2}
  FirstTreasury = t1
  Receivers = {o1, t1, t2}
  Depositors = {o1, t2}
  Slashers = {s1, s2}
  FirstSlasher = s1
  Funds <- mcFunds
  Amounts = {0, 1, 2, 3}
  Durations = {1, 2, 3}
  DurationMin = 2
  DurationMax = 3
  XnosPrecision = 4
  MaxU64 = 1000
  MaxTime = 7
  None = None
INVARIANTS StakingTypeOK Backed ScoreIsCurrent
PROPERTIES ReleasedOnSchedule TokensLocked TokensReleased
CHECK_DEADLOCK FALSE
