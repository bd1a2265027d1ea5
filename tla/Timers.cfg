SPECIFICATION FairSpec
CONSTANTS
  USec = 4
  UMilli = 2
  IntLimit = 128
  Timers = {t1, t2}
  None = None
  Delays = {1, 3}
  MinClock = 3
  MaxClock = 4
  HeapChunk = 64
INVARIANTS
  HeapSound
  NoDanglingTimer
  RepeatStaysArmed
  PollWakesInTime
PROPERTIES
  ImplementsTimerSet
  BreakEndsRun
