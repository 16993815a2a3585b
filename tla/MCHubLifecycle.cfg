SPECIFICATION FairSpec
CONSTANTS
  p1 = p1
  p2 = p2
  Proxies = {p1, p2}
  Majors = {1, 2}
  BeatEvery = 2
  IdleTimeout = 3
  MaxTries = 2
  MaxVisits = 1
  None = None
INVARIANT TypeOK
PROPERTIES IdleStopFollowsSilence HeartbeatsKeepTheHub StartEnds HubServesOrEnds IdleHubsStop
CHECK_DEADLOCK FALSE
