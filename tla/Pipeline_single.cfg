\* One user whose attempts go through the one provider or the broadcaster.
CONSTANTS
  Users = {u1}
  Watched = {u1}
  Ticks = {t1, t2}
  Rescores = {}
  BatchSize = 1
  NoUser = NoUser
  MaxMoves = 2
SPECIFICATION Spec
INVARIANT PendingIsSkipped
CHECK_DEADLOCK FALSE
