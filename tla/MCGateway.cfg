SPECIFICATION FairSpec
CONSTANTS
  m1 = m1
  m2 = m2
  sigint = sigint
  sigterm = sigterm
  NoSignal = NoSignal
  Messages <- MCMessages
  Signals <- MCSignals
  MaxStarts = 2
INVARIANTS OneWayBack StoppedForGood
PROPERTIES CleanStopKeepsMail MailIsTaken
CHECK_DEADLOCK FALSE
