\* Two overlapping calls, two nodes, two replacements each, one poll between them.
CONSTANTS
  Calls = {c1, c2}
  Nodes = {n1, n2}
  Rpcs = {n1, n2}
  Monitor = n1
  Home = n1
  NoTx = NoTx
  BaseFee = 20
  BumpPercent = 20
  MaxReplacements = 2
  MaxPolls = 1
SPECIFICATION FairSpec
INVARIANTS
  LandsOnce
  DefiniteAnswersTrue
  ReplacementOutbids
PROPERTIES
  KeepsPromise
  CallsAnswer
CHECK_DEADLOCK FALSE
