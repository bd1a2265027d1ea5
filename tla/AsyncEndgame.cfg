SPECIFICATION Spec
CONSTANTS
  Asyncs = {a1}
  Senders = {s1}
  LoopThread = loop
  None = None
  PipeCap = 2
INVARIANTS
  AddEndgameAssertion
CHECK_DEADLOCK FALSE
