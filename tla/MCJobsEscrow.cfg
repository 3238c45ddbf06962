\* One market whose price changes, two jobs, one node, two ticks of the clock.
SPECIFICATION SpecFresh
CONSTANTS
  m1 = m1 m2 = m2 j1 = j1 j2 = j2 j3 = j3 j4 = j4 r1 = r1 r2 = r2
  n1 = n1 n2 = n2 p1 = p1 a1 = a1 k1 = k1
  Markets = {m1}
  Jobs = {j1, j2}
  Runs = {r1, r2}
  Users <- mcUsersTwo
  Nodes = {n1}
  Projects = {p1}
  Payers = {p1}
  Authorities = {p1}
  MarketAdmin = p1
  Keys = {}
  SystemKey = SystemKey
  Holds <- mcHoldsTwo
  Xnos <- mcXnosTwo
  Terms <- PricedTerms
  Timeouts <- mcTimeouts
  Funds <- mcFundsFour
  QueueCapacity = 2
  MaxTime = 2
  None = None
INVARIANTS TypeOK PaidJobsHaveDeposit
PROPERTIES StaysSolvent SettledByTheClock ImplementsContract
CHECK_DEADLOCK FALSE
SYMMETRY Symmetric
