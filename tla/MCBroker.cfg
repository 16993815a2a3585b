SPECIFICATION Spec
CONSTANTS
  Events = {e1, e2, e3}
  Conns = {c1, c2}
  NoCursor = NoCursor
  RingCap = 2
  ChanCap = 1
SYMMETRY Symmetry
INVARIANTS TypeOK AtMostOnce NoSilentGap NothingBeforeCursor SequentialPublishesStayOrdered SendNeverWaits
PROPERTIES KeepsPromise
CHECK_DEADLOCK FALSE
