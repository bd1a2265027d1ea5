SPECIFICATION FairSpec
CONSTANTS
  Asyncs = {a1, a2}
  Senders = {s1, s2}
  LoopThread = loop
  None = None
  PipeCap = 2
INVARIANTS
  TypeOK
  OneWakeupPerSend
  NoLostItem
  NoUseAfterFree
PROPERTIES
  ItemsAreTaken
CHECK_DEADLOCK FALSE
