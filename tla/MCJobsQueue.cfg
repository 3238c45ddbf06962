\* One market, four jobs, two nodes, a queue of three.
SPECIFICATION SpecFresh
CONSTANTS
  m1 = m1 m2 = m2 j1 = j1 j2 = j2 j3 = j3 j4 = j4 r1 = r1 r2 = r2
  n1 = n1 n2 = n2 p1 = p1 a1 = a1 k1 = k1
  Markets = {m1}
  Jobs = {j1, j2, j3, j4}
  Runs = {r1, r2}
  Users <- mcUsers
  Nodes = {n1, n2}
  Projects = {p1}
  Payers = {p1}
  Authorities = {a1}
  MarketAdmin = a1
  Keys = {}
  SystemKey = SystemKey
  Holds <- mcHoldsNone
  Xnos <- mcXnos
  Terms <- FreeTerms
  Timeouts = {1}
  Funds <- mcFunds
  QueueCapacity = 3
  MaxTime = 0
  None = None
INVARIANTS QueueConsistent SingleAssignment
PROPERTIES FirstComeFirstServed
CHECK_DEADLOCK FALSE
SYMMETRY Symmetric
