SPECIFICATION FairSpec
CONSTANTS
  e1 = e1
  e2 = e2
  m1 = m1
  m2 = m2
  m3 = m3
  Envs <- MCEnvs
  Messages <- MCMessages
  Sender <- MCSender
INVARIANTS OneWriterKeepsAll SendersInOrder
PROPERTIES EveryAppendSettles
CHECK_DEADLOCK FALSE
