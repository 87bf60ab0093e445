SPECIFICATION ConsumerFairSpec
CONSTANTS
  mAlice = mAlice
  inAlice = inAlice
  i1 = i1
  i2 = i2
  NoClient = NoClient
  NoId = NoId
  Clients <- MCClients
  Topics <- MCTopics
  Owner <- MCOwner
  AgentInbox <- MCAgentInbox
  MessageIds <- TwoIds
  Cap = 2
  TTL = 0
  MaxNow = 2
  MaxEpoch = 0
  IdsMayCollide = FALSE
INVARIANTS PollYields
PROPERTIES BacklogConsumed DrainedByPolls
CHECK_DEADLOCK FALSE
