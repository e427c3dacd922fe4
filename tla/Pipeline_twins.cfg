\* Two overlapping ticks and one user.
CONSTANTS
  Users = {u1}
  Watched = {u1}
  Ticks = {t1, t2}
  Rescores = {}
  BatchSize = 1
  NoUser = NoUser
  MaxMoves = 2
SPECIFICATION Spec
INVARIANT NoTwinAttempts
CHECK_DEADLOCK FALSE
