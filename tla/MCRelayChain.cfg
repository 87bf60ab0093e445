SPECIFICATION FairSpec
CONSTANTS
  nostr = nostr
  gist = gist
  c1 = c1
  c2 = c2
  NoRelay = NoRelay
  Chain <- MCChain
  Calls <- MCCalls
  Threshold = 2
  Cooldown = 2
  MaxNow = 3
 
PROPERTIES EveryCallEnds
CHECK_DEADLOCK FALSE
