\* Two markets, one of them can be restricted to holders of k1.
SPECIFICATION SpecNoAdmin
CONSTANTS
  m1 = m1 m2 = m2 j1 = j1 j2 = j2 j3 = j3 j4 = j4 r1 = r1 r2 = r2
  n1 = n1 n2 = n2 p1 = p1 a1 = a1 k1 = k1
  Markets = {m1, m2}
  Jobs = {j1, j2}
  Runs = {r1}
  Users <- mcUsersTwo
  Nodes = {n1}
  Projects = {p1}
  Payers = {p1}
  Authorities = {p1}
  MarketAdmin = p1
  Keys = {k1}
  SystemKey = SystemKey
  Holds <- mcHoldsKey
  Xnos <- mcXnosTwo
  Terms <- AccessTerms
  Timeouts = {1}
  Funds <- mcFundsOne
  QueueCapacity = 2
  MaxTime = 0
  None = None
INVARIANTS SingleAssignment MentionedJobsExist RestrictedIffSettings
PROPERTIES StaysReachable ImplementsContractNoAdmin
CHECK_DEADLOCK FALSE
SYMMETRY Symmetric
