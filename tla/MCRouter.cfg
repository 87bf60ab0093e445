SPECIFICATION FairSpec
CONSTANTS
  d1 = d1
  d2 = d2
  d3 = d3
  a1 = a1
  a2 = a2
  AgentNames <- MCAgentNames
  Deliveries <- MCDeliveries
  Threshold = 2
  Cooldown = 2
  MaxNow = 3
INVARIANTS DeliveredToAll OneCopyPerConnection
PROPERTIES ThrowsAfterTheRelay EveryDeliveryEnds
CHECK_DEADLOCK FALSE
