SPECIFICATION PollerSpec
CONSTANTS
  Breakers = {b1, b2}
  Nobody = Nobody
  Events = {e1, e2}
  Junk = Junk
  Chunk = 2
  MaxEvents = 2
  MaxCapacity = 4
INVARIANTS
  WithinArray
  BreakIsNoticed
PROPERTIES
  ImplementsEventQueue
  BreakStopsLoop
  SubmittedIsReturned
