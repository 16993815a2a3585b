SPECIFICATION HistorySpec
CONSTANTS
  e1 = e1
  e2 = e2
  e3 = e3
  Events = {e1, e2}
  InThread = {e1, e2}
  Conns = {1, 2}
  NoCursor = NoCursor
  RingCap = 2
  ChanCap = 1
  PageLimit = 1
  Rank <- MCRank
INVARIANTS HistoryTypeOK HandoffLeavesNoGap
PROPERTIES KeptOnlyGrows
CHECK_DEADLOCK FALSE
