SPECIFICATION HistorySpec
CONSTANTS
  e1 = e1
  e2 = e2
  e3 = e3
  Events = {e1, e2, e3}
  InThread = {e1, e2}
  Conns = {1}
  NoCursor = NoCursor
  RingCap = 3
  ChanCap = 1
  PageLimit = 1
  Rank <- MCRank
INVARIANTS ReceivedIsKept
CHECK_DEADLOCK FALSE
