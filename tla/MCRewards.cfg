\* Two stakers, two fees of one token and any number of zero; the first rate is 40.
SPECIFICATION Spec
CONSTANTS
  o1 = o1 o2 = o2 t1 = t1 f1 = f1 s1 = s1
  Wallets = {o1, o2, t1, f1}
  Owners = {o1, o2}
  Treasuries = {t1}
  FirstTreasury = t1
  Receivers = {t1}
  Depositors = {}
  Slashers = {s1}
  FirstSlasher = s1
  Funds <- mcFunds
  Amounts = {1}
  Durations = {2}
  DurationMin = 2
  DurationMax = 3
  XnosPrecision = 2
  MaxU64 = 1000
  MaxTime = 2
  None = None
  Fees = {0, 1}
  FeePayers = {f1}
  Supply = 10
  MaxU128 = 400
INVARIANTS RewardsTypeOK RewardNeedsStake TotalsAgree PayoutsCovered PoolHasRoom
PROPERTIES StaysSound RewardsNeverLost
CHECK_DEADLOCK FALSE

