SPECIFICATION OfficeSpec
CHECK_DEADLOCK FALSE
SYMMETRY WorkerSymmetry
CONSTANTS
  None = None
  w1 = w1
  w2 = w2
  Workers = {w1, w2}
  MaxCalls = 3
  p1 = p1
  Players = {p1}
  Accepted = {"ACTIVE", "SELF_EXCLUDED", "PENDING_KYC", "SUSPENDED", "CLOSED_BY_OPERATOR", "ERASED"}
  Reported = {"ACTIVE", "CLOSED_BY_OPERATOR"}
  MaxRisk = 2
  People = {"p1", "p2", "p3", "p4"}
  Focal = "p1"
  Shared <- Sharings
  MaxNodes = 3
  Dossiers = {"A", "B"}
  DueAt <- DeadlineOf
  LastHour = 8
  MaxFeed = 4
  Batch = 2
  MaxPolls = 4
  a1 = a1
  a2 = a2
  DeskAlerts = {a1, a2}
  Verdicts = {"CONFIRMED", "DISMISSED"}
  MaxLabels = 2
  MaxFiles = 2
  Packages <- Piles
  QueueLimit = 1
  QueueScan = 2
  Ttl = 1
  MaxEdits = 2
  LastTick = 2
  Texts <- SomeTexts
  Bodies <- SomeBodies
  RuleIds <- MixedRules
  Scope <- MixedScope
  Severity <- MixedSeverity
  Weight <- MixedWeight
  Compounds <- MixedCompounds
  Config <- DefaultConfig
  Levels = {0, 50, 100}
  u1 = u1
  u2 = u2
  Accounts = {u1, u2}
  Root = u1
  MaxSessions = 4
  Replicas = {"r1", "r2"}
  CacheTtl = 2
  LastMoment = 3
  Bands = {0, 1, 2}
  Limits <- FirstLimits
  Groups = {"g1", "g2"}
  MaxRows = 3
  Gaps = 2
  Attempts = 2
  MaxValidations = 3
  Names <- SomeNames
  ShortWords = {"da"}
  Cpfs = {"c1"}
  NoCpf = "-"
  NoName = NoName
  MaxListed = 2
  CaseIds = {"c1", "c2", "c3"}
  FirstCases = {"c1", "c2"}
  Evidence = {"x1", "x2", "x3"}
  PlayerOf <- OwnerOf
  Analysts = {"ana"}
  Outsiders = {"out"}
  Holders = {"h1", "h2"}
  Things = {"account", "device"}
  Inbox <- SomeInbox
  Spans = {1, 3}
  WindowTtl = 3
  SetTtl = 2
  LastInstant = 2
 
INVARIANT StatusHonoured
 
INVARIANT FeedSound
 
INVARIANT CustodySound
INVARIANT BookSound
 
INVARIANT SessionsSound
 
INVARIANT MappingsSound
INVARIANT FieldsSound
 
 
 
PROPERTY NeverLessOnMoreEvidence
INVARIANT RiskKept
 
