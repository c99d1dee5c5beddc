SPECIFICATION ServicesSafety
CONSTANTS
  Parts = {"exclusion"}
  Server = {"s1", "s2"}
  Consumer = {"notifier"}
  MaxSeq = 2
  RelayBatch = 1
  ReadBatch = 2
  MaxFaults = 1
  Admin = {"a", "b"}
  Proposal = {"p", "q", "r", "s"}
  Asked <- MCAsked
  DirectPatch <- MCDirectPatch
  Replica = {"s1", "s2"}
  Seed <- MCSeed
  FeeDelta = 2
  Factor = 4
  ProposalLife = 1
  MaxGeneration = 3
  MaxMoment = 1
  MaxRestarts = 1
  Sweeper = {"s1", "s2"}
  Deliverer = {"s1"}
  Identity = {"i1"}
  MaxIncident = 2
  MaxFlips = 2
  MaxOutages = 1
  Job = {"j1", "j2"}
  Slot <- MCSlot
  Worker = {"w1", "w2"}
  ClaimBatch = 2
  MaxAttempts = 2
  MaxDeaths = 1
  Command = {"k1", "k2"}
  Runner = {"s1", "s2"}
  MaxBadRuns = 2
  Draft = {"d1", "d2"}
  TierOf <- MCTier
  SeedChoice = {1, 2, 3}
  SeedFloor = 2
  LpPaused = {1}
  Executor = {"e1", "e2"}
  MaxPending = 2
  SeedBudget = 4
  DayHours = 2
  Horizon = 2
  DraftLife = 2
  MaxHour = 2
  MaxCommands = 2
  MaxStumbles = 1
  Comment = {"c1", "c2"}
  ParentOf <- MCParent
  Voter = {"u1"}
  Reader = {"u1", "u2"}
  Qualified = {"u1", "u2"}
  ShadowThreshold = 2
  MaxReports = 2
  Moderator = {"m1", "m2"}
  MaxScreens = 2
  MaxDecisions = 1
  MaxMishaps = 1
  Person = {"u1", "u2"}
  Token = {"t1", "t2"}
  Visitor = {"v1", "v2"}
  Epoch = {1, 2}
  ExclusionId = {"x1", "x2"}
  FlagId = {"f1"}
  LicenseId = {"l1"}
  Number = {"n1", "n2"}
  EventId = {"e1", "e2"}
  Payload = {0, 2}
  LimitValue = {0, 1, 2}
  BanDelay = 1
  FrozenDelay = 2
  ConfirmSpan = 0
  CoolingOff = 1
  RaiseDelay = 1
  ChallengeLife = 1
  PhoneTries = 1
  MaxDay = 2
  MaxAsks = 3
  MaxKyc = 2
  MaxCodes = 3
  NewsLimit <- MCNews
  BusCap = 1
  MaxDrops = 1
  MaxResends = 1
  MaxMisses = 0
INVARIANT ExclusionInForce
CHECK_DEADLOCK FALSE
