SPECIFICATION Spec
CONSTANTS
  Events = {e1, e2}
  Backends = {"epoll", "kqueue", "iocp"}
  MaxEvents = 3
  Timed = {TRUE}
  CtlFails = TRUE
  TimerFails = {"epoll", "kqueue"}
  Created = {e1, e2}
INVARIANTS
  NothingDangles
  ContextIsPending
  AcceptedSocketHasOwner
PROPERTIES
  ImplementsSocketOps
SYMMETRY Symmetry
CHECK_DEADLOCK FALSE
