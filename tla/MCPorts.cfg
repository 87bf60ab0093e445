SPECIFICATION PortsFairSpec
CONSTANTS
  mqtt = mqtt
  ws = ws
  Other = Other
  NoEntry = NoEntry
  Apps <- MCApps
  Mqtt = mqtt
  Ports <- MCPorts
  Pins <- MCPins
  MaxAttempts = 1
  MaxProcesses = 2
  MaxMoves = 1
PROPERTIES StickyKept  
CHECK_DEADLOCK FALSE
