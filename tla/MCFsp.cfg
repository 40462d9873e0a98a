CONSTANTS
  kMaxActionNumInOneFrame = 2
  kUdpSegmentSize = 13
  kMaxFrameBufInGame = 60
  FrameHead = 3
  ActionSize = 5
  MaxFrameId = 1
  Session = {s1, s2}
  Action = {a, b}
  MaxPlayers = 2
  Cap = 3
  kPickActionEveryPlayer = 2
SPECIFICATION Spec
INVARIANT FspTypeOK
PROPERTY PicksFromEveryone
