SPECIFICATION HeapSpec
CONSTANTS
  USec = 2
  UMilli = 1
  IntLimit = 128
  Timers = {t1, t2, t3, t4, t5, t6}
  MaxClock = 2
INVARIANTS
  HeapOrder
  HeapIndex
