\* Two handlers for one user with two reserves; two evaluations of two users; one request
\* of two feeds, one of them in ETH; one audit; two polls for two liquidations.
CONSTANTS
  Users = {u1}
  Handlers = {h1, h2}
  Reserves = {r1, r2}
  Balances = {0, 2}
  Prices = {0, 1, 2}
  Hfs = {90, 97, 101}
  Bonus = 50
  Preferred = {r1}
  TokenBound = 3
  DustMin = 2
  DustBase = 2
  MinRepay = 1
  ProfitMin = 1
  MaxBlock = 1
  Watchers = {u1, u2}
  Assets = {x}
  Evaluations = {f1, f2}
  SignalHfs = {0, 1}
  NearBand = {0}
  Strengths = {1}
  Debounce = 1
  DedupTtl = 1
  MaxCached = 1
  MaxUsersPerTick = 1
  MaxTicksPerMin = 1
  MaxUsersPerAsset = 2
  RpcBudget = 1
  Minute = 3
  Hour = 3
  IntervalBlocks = 1
  IntervalMs = 1
  SignalBlocks = 2
  SignalTime = 3
  Direct = {weth}
  Ratio = {wsteth}
  Eth = weth
  Requests = {q1}
  Opportunities = {o1}
  CacheTtl = 1
  DisableAfter = 1
  MaxPerBlock = 1
  Keep = 0
  PriceBlocks = 1
  PriceTime = 2
  Audits = {a1}
  MaxSize = 2
  DecisionTtl = 2
  Lookback = 1
  Limit = 1
  Window = 2
  TransientBlocks = 1
  Kinds = {"attempt", "filtered"}
  Marks = {"attempted"}
  MaxDecisions = 2
  AuditTime = 3
  Polls = {p1, p2}
  PollLimit = 1
  TrackMax = 1
  Capacity = 1
  Failures = 1
  Pages = 1
  SeedQueries = 1
  Chunks = 1
  MaxEvents = 2
SPECIFICATION ExecutionSpec
INVARIANTS
  ExecutionTypeOK
  OneExecutionPerUser
  NeverBlind
  ScaledInTime
  ToldOnce
PROPERTIES
  UsersAreFreed
  FallbackPaced
  VerdictOfTheDecision
CHECK_DEADLOCK FALSE
