SPECIFICATION Spec
CONSTANTS
  mAlice = mAlice
  inAlice = inAlice
  broadcast = broadcast
  i1 = i1
  NoClient = NoClient
  NoId = NoId
  Clients <- MCClients
  Topics <- MCTopics
  Owner <- MCOwner
  AgentInbox <- MCAgentInbox
  MessageIds <- MCMessageIds
  Cap = 2
  TTL = 2
  MaxNow = 3
  MaxEpoch = 1
INVARIANTS CapRespected SavedWhenClean
PROPERTIES QuietRestartKeepsAll InboxNeverDowngraded OldestGoFirst
CHECK_DEADLOCK FALSE
