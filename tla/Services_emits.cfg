\* As Services.cfg.
CONSTANTS
  Callers = {c1, c2}
  Costs = {1, 2}
  Unit = 2
  RateLimit = 1
  BurstCapacity = 2
  Timeouts = {0, 2}
  FirstWait = 1
  MaxBackoff = 2
  MaxTime = 5
  Debtors = {u1}
  Reserves = {d1, d2}
  BackfillBlocks = 2
  ChunkSize = 2
  Modes = {"memory", "redis", "postgres"}
  MaxDebt = 2
  IndexBlocks = 3
  MaxRestarts = 1
  Symbols = {WETH, ETH}
  Own = WETH
  Asks = {q1}
  NoSymbol = NoSymbol
  PriceTtl = 1
  MaxRpc = 1
  MaxRounds = 2
  FeedHorizon = 3
  Planned = {p1, p2, p3}
  NoPlan = NoPlan
  MaxPlanned = 2
  PlanTtl = 2
  PlanHorizon = 5
  Assets = {a1, a2}
  NoCandidate = NoCandidate
  Up <- ScaledUp
  Down <- ScaledDown
  Wad = 10
  FlashloanFeeBps = 900
  SafetyBufferBps = 500
  CloseFactorBps = 5000
  HaircutBps = 200
  TopN = 2
  Balances = {0, 1, 45, 4999}
  Prices = {7, 30}
  Bonuses = {0, 11000}
  Spread = 1
  Accounts = {o1, o2}
  Deployer = o1
  Contracts = {k}
  Zero = Zero
  NoEvent = NoEvent
  VaultFeeBps = 4000
  VaultBufferBps = 2500
  MaxUnits = 3
  MaxFee = 1
  Hfs = {9690, 9700, 9820, 11000}
  Threshold = 9800
  Band = 30
  Hysteresis = 20
  EdgeBlocks = 2
  Checks = {f1, f2}
  MaxChecks = 3
  VerifiedUsers = {v1}
  Reads = {r1, r2}
  Calls = {i1, i2}
  VerifyBlocks = 2
  MaxPerBlock = 1
  MaxReads = 3
  Sockets = {s1, s2, s3, s4}
  Reconnects = {w1, w2}
  MaxAttempts = 1
  MaxErrors = 3
SPECIFICATION ServicesSpec
INVARIANTS
  OncePerBlock
CHECK_DEADLOCK FALSE
