SPECIFICATION FairSpec
CONSTANTS
  t1 = t1
  t2 = t2
  c1 = c1
  c2 = c2
  c3 = c3
  None = None
  Transports <- MCTransports
  Clients <- MCClients
INVARIANTS AttachedIsWatched OneLink QuietTeardownIsFinal
 
CHECK_DEADLOCK FALSE
