SPECIFICATION Spec
CONSTANTS
  call1 = call1
  rename1 = rename1
  rename2 = rename2
  reply1 = reply1
  call2 = call2
  message2 = message2
  p1 = p1
  p2 = p2
  t1 = t1
  t2 = t2
  r1 = r1
  again = again
  first = first
  second = second
  Events = {call1, rename1, rename2, reply1, call2, message2}
  Proxies = {p1, p2}
  Threads = {t1, t2}
  Requests = {r1}
  Titles = {again, first, second}
  None = None
  Outbox <- IndexOutbox
  KindOf <- MCKindOf
  ThreadOf <- MCThreadOf
  RequestOf <- MCRequestOf
  TitleOf <- MCTitleOf
  MaxCrashes = 1
  MaxGiveUps = 1
  Faulty = {call1, rename1}
INVARIANTS TypeOK AcknowledgedEventsAreIndexed LiveThreadsAreListed AnsweredCallsAreCompleted LatestRenameStands
PROPERTY TitleGivesWayToRenamesOnly
CHECK_DEADLOCK FALSE
