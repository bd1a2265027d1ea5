SPECIFICATION Spec
CONSTANTS
  USec = 2
  UMilli = 1
  IntLimit = 128
  Timers = {t1, t2}
  None = None
  Delays = {1}
  MinClock = 1
  MaxClock = 2
  HeapChunk = 1
INVARIANTS
  HeapWithinCapacity
