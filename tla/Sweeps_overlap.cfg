\* As Sweeps.cfg.
CONSTANTS
  Users = {u1}
  Loops = {l1, l2, l3}
  MaxBlock = 2
  MaxHangs = 1
  MaxMarks = 1
  MaxTouches = 1
  Totals = {11, 12, 14}
  Sample = 3
  MinPage = 9
  MaxPage = 11
  HotSets = {{}, {0}, {2, 5, 9}, {0, 1, 2, 3, 4, 5, 6, 7, 8, 9}}
  Reserves = {r1}
  Slots = {x1, x2}
  BatchBlocks = 3
  MaxPerBlock = 1
  Keep = 1
  MinLevel = 1
  MaxLevel = 2
  MaxEvents = 3
SPECIFICATION SweepsSpec
INVARIANTS
  OneSweep
CHECK_DEADLOCK FALSE
