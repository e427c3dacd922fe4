\* Two lookups of a token; two reserves, two refreshes; two users; one attempt and two
\* runs of the critical lane; a pair of candidates, templates and assets.
CONSTANTS
  Tokens = {t1}
  Overrides = {}
  Callers = {"service", "helper"}
  Requests = {q1, q2}
  Slots = 1
  Ttl = 2
  NegativeTtl = 1
  OuterTtl <- CallersTtl
  SupplyTtl = 1
  MaxTime = 3
  Reserves = {r1, r2}
  Refreshes = {f1, f2}
  RefreshInterval = 1
  MaxChanges = 1
  AaveTime = 4
  Users = {u1, u2}
  Assets = {a, b}
  Tracked = {x}
  Symbols = {s}
  TrackedHfs = {0, 101, 120}
  MaxCandidates = 1
  Touched = 1
  AlwaysInclude = 105
  MaxEntries = 1
  RecheckBatch = 1
  ScanMax = 1
  MinDelta = 1
  MaxIndex = 1
  TrackersTime = 1
  BatchSize = 1
  PageAttempts = 2
  MaxMoves = 2
  Borrowers = {u1}
  Attempts = {x1}
  Runs = {g1, g2}
  Scenarios = {s1}
  Pairs = {p1, p2}
  Submits = {m1}
  LockTtl = 2
  SnapshotTtl = 2
  AbortAfter = 1
  MaxUnprofitable = 1
  CriticalTime = 4
  StageHfs = {96, 102}
  Window = 2
  PreSimHf = 96
  PrestageHf = 101
  NearBand = {96}
  ClearInterval = 2
  MaxBatch = 2
  MaxPrestaged = 1
  StaleBlocks = 0
  MaxTemplates = 1
  RefreshBlocks = 1
  TtlBlocks = 0
  StageTime = 2
  HotHfs = {95, 102, 110}
  HotHf = 100
  WarmHf = 103
  MaxHotSize = 1
  MaxWarmSize = 1
  Priorities = {1, 2}
  TopK = 1
  Prices = {0, 100}
  Debts = {1}
  MaxIntentAge = 1
  MaxCacheSize = 1
  HotTime = 3
  MaxBlock = 2
SPECIFICATION ToolsSpec
INVARIANTS
  ToolsTypeOK
  ListingIsWhole
  AgeBounded
PROPERTIES
  EveryLookupEnds
CHECK_DEADLOCK FALSE
