SPECIFICATION Spec
CONSTANTS
  Events = {e1, e2}
  Backends = {"epoll", "kqueue", "iocp"}
  MaxEvents = 3
  Unsolicited = {e1, e2}
INVARIANTS
  ContextIsPending
CHECK_DEADLOCK FALSE
