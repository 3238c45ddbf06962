\* Tokens are deposited in the vault of a stake that is being released.
SPECIFICATION StakingSpec
CONSTANTS
  o1 = o1 t1 = t1 t2 = t2 s1 = s1 s2 = s2
  Wallets = {o1, t1, t2}
  Owners = {o1}
  Treasuries = {t1, t2}
  FirstTreasury = t1
  Receivers = {o1, t1, t2}
  Depositors = {o1, t2}
  Slashers = {s1, s2}
  FirstSlasher = s1
  Funds <- mcFunds
  Amounts = {0, 1, 2, 3}
  Durations = {1, 2, 3}
  DurationMin = 2
  DurationMax = 3
  XnosPrecision = 4
  MaxU64 = 1000
  MaxTime = 7
  None = None
INVARIANTS ReleasedCanBeWithdrawn
CHECK_DEADLOCK FALSE
