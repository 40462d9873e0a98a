CONSTANTS
  Session = {s1, s2, s3}
  PlayerNums = {0, 2, 3}
  MaxRooms = 3
SYMMETRY Sessions
SPECIFICATION LobbySpec
INVARIANTS LobbyTypeOK PlayersDistinct RoomNeverOverfull OneGamePerRoom CreatorSeat SeatTold
PROPERTY SeatStable
