SPECIFICATION FairSpec
CONSTANTS
  Events = {e1, e2}
  Backends = {"epoll", "kqueue", "iocp"}
  MaxEvents = 3
  Timed = {TRUE}
  CtlFails = FALSE
  TimerFails = {"epoll", "kqueue"}
  Created = {e1}
INVARIANTS
  InterestMatchesWrite
  PendingCanComplete
PROPERTIES
  OperationEnds
  FreedIsReleased
CHECK_DEADLOCK FALSE
