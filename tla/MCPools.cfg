\* Two pools that can pay each other, two users with four tokens.
SPECIFICATION PoolsSpec
CONSTANTS
  u1 = u1 u2 = u2 p1 = p1 p2 = p2 rewards = rewards
  Pools = {p1, p2}
  Users = {u1, u2}
  Openers = {u1}
  Payees = {u1, u2, p1, p2, rewards}
  RewardsVault = rewards
  Funds <- mcFunds
  Amounts = {1, 3}
  Emissions = {2}
  StartTimes = {1}
  MaxU64 = 5
  MaxTime = 3
  None = None
INVARIANTS PoolsTypeOK ClaimedWithinEmission
PROPERTIES PaidByEmission DueStaysDue
SYMMETRY Symmetric
CHECK_DEADLOCK FALSE
