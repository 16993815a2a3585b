SPECIFICATION FairSpec
CONSTANTS
  Requests = {r1}
  QueueCap = 1
PROPERTIES ForwardingNeverWaits BothEndsCloseStopsProxy
CHECK_DEADLOCK FALSE
