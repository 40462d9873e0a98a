CONSTANTS
  Session = {s1, s2}
  PlayerNums = {2}
  MaxRooms = 2
  Cap = 2
  MaxPkgs = 3
  MaxPkgsInAll = 3
SPECIFICATION FairSpec
INVARIANTS SspTypeOK RoomForNext SameFeed
PROPERTIES NoDropWhilePlaying RelaySpec BacklogDrains
