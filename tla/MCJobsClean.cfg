\* Two markets that keep their jobs for a different time.
SPECIFICATION SpecNoAdmin
CONSTANTS
  m1 = m1 m2 = m2 j1 = j1 j2 = j2 j3 = j3 j4 = j4 r1 = r1 r2 = r2
  n1 = n1 n2 = n2 p1 = p1 a1 = a1 k1 = k1
  Markets = {m1, m2}
  Jobs = {j1}
  Runs = {r1}
  Users <- mcUsers
  Nodes = {n1}
  Projects = {p1}
  Payers = {p1}
  Authorities = {a1}
  MarketAdmin = a1
  Keys = {}
  SystemKey = SystemKey
  Holds <- mcHoldsNone
  Xnos <- mcXnos
  Terms <- ExpiringTerms
  Timeouts = {1}
  Funds <- mcFunds
  QueueCapacity = 2
  MaxTime = 2
  None = None
PROPERTIES CleanedAfterExpiration
CHECK_DEADLOCK FALSE
SYMMETRY Symmetric
