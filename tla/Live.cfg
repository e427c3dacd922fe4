\* One sweep of an index that refreshes rewrite; five providers, six connections; one
\* feed; three connections with polls; four transactions and their endpoints.
CONSTANTS
  Users = {u1, u2}
  Tokens = {k1}
  Sweeps = {s1}
  Fetches = {f1}
  NoUser = NoUser
  NoToken = NoToken
  RateLimit = 1
  Throttle = 1
  Horizon = 1
  MaxTrades = 1
  Subscribers = {"chainlink", "heartbeat"}
  MaxWsAttempts = 2
  MaxProviders = 5
  MaxPythAttempts = 2
  MaxConns = 6
  Feeds = {p1}
  Scans = {e1, e2}
  Answers = {95, 97, 99}
  DropBps = 300
  MaxBlock = 2
  MaxMoves = 3
  BaseTick = 25
  BatchSize = 60
  Reconnects = 2
  MaxReconnectAttempts = 2
  Reserves = {"r1", "r2"}
  PerReserve = FALSE
  DebounceWindow = 2
  MaxBatchSize = 3
  NumPublics = 2
  Submissions = {t1, t2}
  Modes = {"public", "private", "race"}
  Races = {t3}
  Bursts = {t4}
  Optimists = {t5, t6}
  MaxBumps = 1
  MaxReverts = 1
  Keys = 2
  Days = 2
SPECIFICATION Spec
INVARIANTS
  TypeOK
  OneLink
PROPERTIES
  RefreshesAreSafe
  LinksRecover
  LastingFallTriggers
CHECK_DEADLOCK FALSE
