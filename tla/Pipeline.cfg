\* Two overlapping or serial ticks, two users, one of which may be rescored.
CONSTANTS
  Users = {u1, u2}
  Watched = {u1, u2}
  Ticks = {t1, t2}
  Rescores = {p1}
  BatchSize = 1
  NoUser = NoUser
  MaxMoves = 2
SPECIFICATION FairSpec
INVARIANTS
  TypeOK
  NoLostMark
  OneLiveTransaction
PROPERTY MarksAreRead
CHECK_DEADLOCK FALSE
