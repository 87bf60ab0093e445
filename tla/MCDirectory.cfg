SPECIFICATION FairSpec
CONSTANTS
  home = home
  peer = peer
  nostr = nostr
  gist = gist
  timer = timer
  direct = direct
  NoFile = NoFile
  Unread = Unread
  Failed = Failed
  Never = Never
  EnvNames <- MCEnvNames
  Home = home
  Transports <- MCTransports
  Callers <- MCCallers
  Timer = timer
  Threshold = 1
  Cooldown = 1
  MaxRoster = 1
  MaxRestarts = 1
PROPERTIES  NeverEmptied Converges
CHECK_DEADLOCK FALSE
