\* Nodes keep working, projects recover; the admin does not intervene.
SPECIFICATION FairSpec
CONSTANTS
  m1 = m1 m2 = m2 j1 = j1 j2 = j2 j3 = j3 j4 = j4 r1 = r1 r2 = r2
  n1 = n1 n2 = n2 p1 = p1 a1 = a1 k1 = k1
  Markets = {m1}
  Jobs = {j1, j2, j3}
  Runs = {r1, r2}
  Users <- mcUsersLive
  Nodes = {n1, n2}
  Projects = {p1}
  Payers = {p1}
  Authorities = {p1}
  MarketAdmin = p1
  Keys = {}
  SystemKey = SystemKey
  Holds <- mcHoldsLive
  Xnos <- mcXnosLive
  Terms <- PlainTerms
  Timeouts = {1}
  Funds <- mcFundsLive
  QueueCapacity = 2
  MaxTime = 0
  None = None
PROPERTIES StaysReachable QueuedJobsLeave StoppedJobsRecovered
CHECK_DEADLOCK FALSE
