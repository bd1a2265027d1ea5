SPECIFICATION Spec
CONSTANTS
  Events = {e1, e2}
  Backends = {"epoll", "kqueue", "iocp"}
  MaxEvents = 3
  Unsolicited = {e2}
INVARIANTS
  ExpectedIsLive
  ExpectedIsPending
  PendingCanComplete
PROPERTIES
  ImplementsSocketOps
CHECK_DEADLOCK FALSE
