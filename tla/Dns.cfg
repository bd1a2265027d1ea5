SPECIFICATION DnsFairSpec
CONSTANTS
  Loops = {l1, l2}
  DnsEvents = {d1, d2}
  Workers = {w1, w2}
  NoEvent = NoEvent
INVARIANTS
  TermLosesNothing
  RequestIsInOnePlace
  WorkerIsSafe
PROPERTIES
  RequestIsAnswered
  JoinsEnd
CHECK_DEADLOCK FALSE
