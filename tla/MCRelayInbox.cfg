SPECIFICATION FairSpec
CONSTANTS
  m1 = m1
  m2 = m2
  Messages <- MCMessages
  SeenMax = 1
  SeenTTL = 1
  Window = 0
  FirstRun = 2
  MaxNow = 4
  MaxStarts = 1
INVARIANTS OnceWithinBounds MarkedWasHanded
PROPERTIES EveryMessageSeen
CHECK_DEADLOCK FALSE
