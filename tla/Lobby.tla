------------------------------- MODULE Lobby -------------------------------
(***************************************************************************)
(* Rooms and games: the lobby commands of Session::HandlePkg and what they *)
(* do in RoomMgr, Room, GameMgr and Game.  One thread runs every handler,  *)
(* so a whole command (HandlePkg down to the last vector it touches) is    *)
(* one step.  Room keeps the players by address and Game keeps a pointer   *)
(* to the room's list, so a game here names its room and reads the list    *)
(* there.  Replies to the sender carry no state and are left out.          *)
(***************************************************************************)
EXTENDS Integers, Sequences

CONSTANTS Session,     (* the connected sessions                           *)
          PlayerNums,  (* the player numbers a CREATEROOM may ask for,     *)
                       (* after the conversion to unsigned                 *)
          MaxRooms     (* bound: rooms created in one run                  *)

ASSUME LobbyAssumption == PlayerNums \subseteq Nat /\ MaxRooms \in Nat

VARIABLES
  m_room_map,  (* RoomMgr: room id -> Room                                 *)
  g_room_id,   (* RoomMgr: the next room id                                *)
  m_game_map,  (* GameMgr: game id -> Game                                 *)
  m_g_game_id, (* GameMgr: the next game id                                *)
  m_rid,       (* Session: the room this session created, 0 for none       *)
  outbox       (* the writes started on the session's game socket, in order *)

lobbyVars == <<m_room_map, g_room_id, m_game_map, m_g_game_id, m_rid, outbox>>

Rooms == DOMAIN m_room_map
Games == DOMAIN m_game_map

(* std::unordered_map::insert: an existing key keeps its value. *)
MapInsert(f, k, v) ==
  [x \in DOMAIN f \union {k} |-> IF x \in DOMAIN f THEN f[x] ELSE v]

(* The Session* pointers of a game's player list, and the list itself. *)
PlayerList(g) == m_room_map[m_game_map[g].m_rid].m_player_list
PlayersOf(list) == {list[i] : i \in DOMAIN list}
Players(g) == PlayersOf(PlayerList(g))

-----------------------------------------------------------------------------
(* Broken variants, each standing for a plausible slip in the code. *)
AlreadyIn_Never(room, player) == FALSE
RoomFull_OffByOne(room) == Len(room.m_player_list) > room.m_max_player_num
Seated_AtFront(list, player) == <<player>> \o list
NewRoomId_PreIncrement == g_room_id + 1
InOwnRoom_Unchecked(s) == FALSE
MayStart_Unchecked(rid) == rid \in Rooms
PlayerIdx_PostIncrement(i) == i

-----------------------------------------------------------------------------
(* Room *)
NewRoom(creator, max_player_num) ==
  [m_max_player_num |-> max_player_num,
   m_player_list    |-> <<creator>>,
   m_is_fighting    |-> FALSE]

AlreadyIn(room, player) == player \in PlayersOf(room.m_player_list)
RoomFull(room) == Len(room.m_player_list) >= room.m_max_player_num
Seated(list, player) == Append(list, player)

AddPlayer(room, player) ==
  IF AlreadyIn(room, player) \/ RoomFull(room)
    THEN room
    ELSE [room EXCEPT !.m_player_list = Seated(@, player)]

-----------------------------------------------------------------------------
(* CREATEROOM: nobody who already created a room creates another. *)
NewRoomId == g_room_id
InOwnRoom(s) == m_rid[s] # 0

CreateRoom(s, player_num) ==
  \/ /\ ~InOwnRoom(s)
     /\ g_room_id <= MaxRooms
     /\ m_room_map' = MapInsert(m_room_map, NewRoomId, NewRoom(s, player_num))
     /\ g_room_id' = g_room_id + 1
     /\ m_rid' = [m_rid EXCEPT ![s] = NewRoomId]
     /\ UNCHANGED <<m_game_map, m_g_game_id, outbox>>
  \/ /\ InOwnRoom(s)
     /\ UNCHANGED lobbyVars

(* JOINROOM: the room takes the player or not; m_rid is not touched, and a *)
(* room that is already fighting takes players too.                        *)
JoinRoom(s, rid) ==
  \/ /\ rid \in Rooms
     /\ m_room_map' = [m_room_map EXCEPT ![rid] = AddPlayer(@, s)]
     /\ UNCHANGED <<g_room_id, m_game_map, m_g_game_id, m_rid, outbox>>
  \/ /\ rid \notin Rooms
     /\ UNCHANGED lobbyVars

(* STARTGAME: any session may start any room that is not fighting. *)
MayStart(rid) == rid \in Rooms /\ ~m_room_map[rid].m_is_fighting

NewGame(rid) == [m_rid |-> rid, m_state_buf |-> <<>>]

PlayerIdx(i) == i - 1

StartNtf(gid, list, i) ==
  [type |-> "STARTGAME", gid |-> gid, size |-> Len(list), idx |-> PlayerIdx(i)]

SeatOf(list, player) == CHOOSE i \in DOMAIN list : list[i] = player

(* Game::SendStartGameNtfToAll: one write to each player's game socket. *)
SendStartGameNtfToAll(gid, list) ==
  outbox' = [s \in Session |->
               IF s \in PlayersOf(list)
                 THEN Append(outbox[s], StartNtf(gid, list, SeatOf(list, s)))
                 ELSE outbox[s]]

StartGame(rid) ==
  \/ /\ MayStart(rid)
     /\ m_room_map' = [m_room_map EXCEPT ![rid].m_is_fighting = TRUE]
     /\ m_game_map' = MapInsert(m_game_map, m_g_game_id, NewGame(rid))
     /\ m_g_game_id' = m_g_game_id + 1
     /\ SendStartGameNtfToAll(m_g_game_id, m_room_map[rid].m_player_list)
     /\ UNCHANGED <<g_room_id, m_rid>>
  \/ /\ ~MayStart(rid)
     /\ UNCHANGED lobbyVars

-----------------------------------------------------------------------------
LobbyInit ==
  /\ m_room_map = <<>> /\ g_room_id = 1
  /\ m_game_map = <<>> /\ m_g_game_id = 1
  /\ m_rid = [s \in Session |-> 0]
  /\ outbox = [s \in Session |-> <<>>]

(* Ids a client may name: also one that does not exist yet. *)
RoomArgs == 1 .. MaxRooms + 1

LobbyNext ==
  \E s \in Session :
    \/ \E n \in PlayerNums : CreateRoom(s, n)
    \/ \E rid \in RoomArgs : JoinRoom(s, rid)
    \/ \E rid \in RoomArgs : StartGame(rid)

LobbySpec == LobbyInit /\ [][LobbyNext]_lobbyVars

-----------------------------------------------------------------------------
RoomType == [m_max_player_num : Nat, m_player_list : Seq(Session),
             m_is_fighting : BOOLEAN]

(* What goes to a game socket: STARTGAME from the lobby, and in SspLoop    *)
(* also frames, each a function from sessions to states (0 for none).      *)
Ntf == [type : {"STARTGAME"}, gid : Nat, size : Nat, idx : Nat]
         \union [type : {"STATE"}, gid : Nat, frames : Seq([Session -> Nat])]

(* Ids are handed out densely from 1, every id in use has its object,      *)
(* every game is played in an existing room, and outside a tick no game    *)
(* has anything left in the buffer of its FrameMgr.                        *)
LobbyTypeOK ==
  /\ g_room_id \in Nat \ {0} /\ m_g_game_id \in Nat \ {0}
  /\ m_room_map \in [1 .. g_room_id - 1 -> RoomType]
  /\ m_game_map \in [1 .. m_g_game_id - 1 -> [m_rid : Rooms, m_state_buf : {<<>>}]]
  /\ m_rid \in [Session -> Nat]
  /\ outbox \in [Session -> Seq(Ntf)]

(* No sequence of creates, joins and starts seats a session twice in a     *)
(* room: it would be popped twice a frame and get two seat numbers.        *)
PlayersDistinct ==
  \A r \in Rooms :
    LET list == m_room_map[r].m_player_list IN
      \A i, j \in DOMAIN list : list[i] = list[j] => i = j

(* Joins never push a room past its size; only the creator's own seat may  *)
(* (a room made for 0 players still holds its creator).                    *)
RoomNeverOverfull ==
  \A r \in Rooms :
    LET room == m_room_map[r] IN
      Len(room.m_player_list) \in
        1 .. (IF room.m_max_player_num = 0 THEN 1 ELSE room.m_max_player_num)

(* However many STARTGAMEs race for a room, it gets one game, and exactly  *)
(* the fighting rooms have one.                                            *)
OneGamePerRoom ==
  /\ \A g, h \in Games : m_game_map[g].m_rid = m_game_map[h].m_rid => g = h
  /\ \A r \in Rooms :
       m_room_map[r].m_is_fighting <=> \E g \in Games : m_game_map[g].m_rid = r

(* m_rid is the back reference of the first seat: a session has the id of  *)
(* the one room it created, and every room's first seat is its creator.    *)
CreatorSeat ==
  /\ \A s \in Session : m_rid[s] # 0 => m_rid[s] \in Rooms
  /\ \A r \in Rooms, s \in Session :
       m_rid[s] = r <=> m_room_map[r].m_player_list[1] = s

(* The seat numbers told in STARTGAME: for each game there is the number n *)
(* of players seated when it started; each of those seats, and nobody      *)
(* else, was told n and its own index, once, and the seat is still its     *)
(* own, whatever joins came later.                                         *)
Told(s, g) == {k \in DOMAIN outbox[s] :
                 outbox[s][k].type = "STARTGAME" /\ outbox[s][k].gid = g}

SeatTold ==
  \A g \in Games :
    \E n \in 1 .. Len(PlayerList(g)) :
      /\ \A i \in 1 .. n :
           \E k \in Told(PlayerList(g)[i], g) :
             /\ Told(PlayerList(g)[i], g) = {k}
             /\ outbox[PlayerList(g)[i]][k].size = n
             /\ outbox[PlayerList(g)[i]][k].idx = i - 1
      /\ \A s \in Session : Told(s, g) # {} => \E i \in 1 .. n : PlayerList(g)[i] = s

(* A seat is for ever: lists only grow at the end, so an index a client    *)
(* was told never comes to mean another player.                            *)
SeatStable ==
  [][\A r \in Rooms :
       LET old == m_room_map[r].m_player_list
           new == m_room_map'[r].m_player_list
       IN  r \in DOMAIN m_room_map' /\ Len(old) <= Len(new)
             /\ \A i \in DOMAIN old : new[i] = old[i]]_lobbyVars

=============================================================================
