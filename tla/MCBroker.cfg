SPECIFICATION BrokerSpec
CONSTANTS
  mAlice = mAlice
  inAlice = inAlice
  i1 = i1
  i2 = i2
  i3 = i3
  NoClient = NoClient
  NoId = NoId
  Clients <- MCClients
  Topics <- MCTopics
  Owner <- MCOwner
  AgentInbox <- MCAgentInbox
  MessageIds <- ThreeIds
  Cap = 2
  TTL = 0
  MaxNow = 3
  MaxEpoch = 1
  IdsMayCollide = FALSE
INVARIANTS BrokerTypeOK   NothingStranded
PROPERTIES  PromiseKept
SYMMETRY Symmetry
CHECK_DEADLOCK FALSE
