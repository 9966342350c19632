CONSTANTS
  Run = {r1, r2}
  PoolSize = 1
  FourRole = {r1}
  Retries <- RetryLimits
  Price = {0, 1}
  Caller = {c1, c2, c3}
  Threshold = 2
  MaxFailures = 5
  Client = {u1, u2}
  OpId = {o1, o2}
  OpAmount <- Amounts
  Paid = 2
  Triple = {k}
  MaxVersion = 1
  MaxSum = 3
  MaxIrregular = 1
  NoClient = NoClient
  DocKey <- Documents
  Digits <- Decimals
  Content <- Contents
  TopK = 1
  NoDoc = NoDoc
  Pair <- Pairs
  Decimal <- Decimals
  Request = {q}
  NoRequest = NoRequest
  Nobody = Nobody
  PolicyId = {p, q}
  RuleVersion = {1, 2}
  Tag = {a, b}
  Window = {7, 30}
  Ratio = {0, 100}
  Days = {15}
  MaxRules = 2
  NoClaim = NoClaim
  Principal <- People
  Identity <- Identities
  Ticket = {k1}
  Process = {s1, s2}
  AThread = {h1, h2}
  MaxEvents = 3
  OrderNo = {n1, n2}
  NoOrder = NoOrder
  MaxCues = 2
  Owner = {w1, w2, w3}
  Fingerprint = {f1, f2}
  MaxClaims = 4
  NoOwner = NoOwner
SPECIFICATION FairSpec
INVARIANTS
  OneRecordPerCall
  AgentsInOrder
  GatewayInOrder
  BreakerConsistent
  RepositoryConsistent
  FoundStaysCitable
  KeysLeadHome
  PoliciesAgree
  FourEyes
  TenantsApart
  AuditIdsExact
  IntakeInOrder
  NewestClaimHolds
PROPERTIES
  AllOrNothing
  AgentRunsEnd
  TasksAnswered
CHECK_DEADLOCK FALSE
