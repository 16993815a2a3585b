SPECIFICATION HistorySpec
CONSTANTS
  e1 = e1
  e2 = e2
  e3 = e3
  Events = {e1, e2, e3}
  InThread = {e1, e2, e3}
  Conns = {1, 2}
  NoCursor = NoCursor
  RingCap = 3
  ChanCap = 1
  PageLimit = 3
  Rank <- MCRank
INVARIANTS ReconnectCatchesUp
CHECK_DEADLOCK FALSE
