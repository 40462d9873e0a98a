----------------------------- MODULE SspProofs -----------------------------
(***************************************************************************)
(* Rooms, games and the main loop, for any number of sessions, rooms and   *)
(* games and any cache capacity.  First the lobby, Lobby by itself: seats  *)
(* are distinct, bounded, permanent and told.  Then the loop that composes *)
(* it, SspLoop: it drops no state of a player in a running game, shows the *)
(* same frames to all players and implements StateRelay.                   *)
(***************************************************************************)
EXTENDS SspLoop, SequenceTheorems, FiniteSetTheorems, TLAPS

-----------------------------------------------------------------------------
(* Helpers of the model. *)
LEMMA MapInsertFresh ==
  ASSUME NEW D, NEW S, NEW f \in [D -> S], NEW k, NEW v
  PROVE  /\ DOMAIN MapInsert(f, k, v) = D \union {k}
         /\ \A x \in D : MapInsert(f, k, v)[x] = f[x]
         /\ k \notin D => MapInsert(f, k, v)[k] = v
BY DEF MapInsert

LEMMA AddPlayerType ==
  ASSUME NEW room \in RoomType, NEW p \in Session
  PROVE  /\ AddPlayer(room, p) \in RoomType
         /\ AddPlayer(room, p).m_is_fighting = room.m_is_fighting
         /\ AddPlayer(room, p).m_max_player_num = room.m_max_player_num
<1>1. room.m_player_list \in Seq(Session)
  BY DEF RoomType
<1>2. Append(room.m_player_list, p) \in Seq(Session)
  BY <1>1
<1> QED BY <1>1, <1>2 DEF AddPlayer, Seated, RoomType

(* A join changes the list by adding a newcomer at the end, or not at all. *)
LEMMA AddPlayerList ==
  ASSUME NEW room \in RoomType, NEW p \in Session
  PROVE  LET old == room.m_player_list
             new == AddPlayer(room, p).m_player_list
         IN  \/ new = old
             \/ /\ new = Append(old, p)
                /\ \A i \in DOMAIN old : old[i] # p
                /\ Len(old) < room.m_max_player_num
<1>1. /\ room.m_player_list \in Seq(Session)
      /\ room.m_max_player_num \in Nat /\ Len(room.m_player_list) \in Nat
  BY DEF RoomType
<1> QED BY <1>1 DEF AddPlayer, Seated, RoomType, AlreadyIn, RoomFull, PlayersOf

LEMMA NewRoomType ==
  ASSUME NEW p \in Session, NEW n \in Nat
  PROVE  /\ NewRoom(p, n) \in RoomType
         /\ NewRoom(p, n).m_player_list = <<p>>
         /\ NewRoom(p, n).m_is_fighting = FALSE
         /\ NewRoom(p, n).m_max_player_num = n
BY DEF NewRoom, RoomType

-----------------------------------------------------------------------------
(* Types *)
LEMMA LobbyInitType == LobbyInit => LobbyTypeOK
BY DEF LobbyInit, LobbyTypeOK, Rooms

LEMMA CreateRoomType ==
  ASSUME LobbyTypeOK, NEW s \in Session, NEW n \in Nat, CreateRoom(s, n)
  PROVE  LobbyTypeOK'
<1>1. CASE ~InOwnRoom(s)
  <2>1. /\ m_room_map' = MapInsert(m_room_map, g_room_id, NewRoom(s, n))
        /\ g_room_id' = g_room_id + 1
        /\ m_rid' = [m_rid EXCEPT ![s] = g_room_id]
        /\ UNCHANGED <<m_game_map, m_g_game_id, outbox>>
    BY <1>1 DEF CreateRoom, NewRoomId
  <2>2. g_room_id \in Nat \ {0} /\ m_room_map \in [1 .. g_room_id - 1 -> RoomType]
    BY DEF LobbyTypeOK
  <2>3. (1 .. g_room_id - 1) \union {g_room_id} = 1 .. g_room_id' - 1
    BY <2>1, <2>2
  <2>4. m_room_map' \in [1 .. g_room_id' - 1 -> RoomType]
    BY <2>1, <2>2, <2>3, NewRoomType DEF MapInsert
  <2>5. Rooms \subseteq Rooms'
    BY <2>2, <2>3, <2>4 DEF Rooms
  <2>6. m_game_map' \in [1 .. m_g_game_id' - 1 -> [m_rid : Rooms', m_state_buf : {<<>>}]]
    BY <2>1, <2>5 DEF LobbyTypeOK
  <2> QED BY <2>1, <2>2, <2>4, <2>6 DEF LobbyTypeOK
<1>2. CASE InOwnRoom(s)
  BY <1>2 DEF CreateRoom, lobbyVars, LobbyTypeOK, Rooms
<1> QED BY <1>1, <1>2

LEMMA JoinRoomType ==
  ASSUME LobbyTypeOK, NEW s \in Session, NEW rid, JoinRoom(s, rid)
  PROVE  LobbyTypeOK'
<1>1. CASE rid \in Rooms
  <2>1. /\ m_room_map' = [m_room_map EXCEPT ![rid] = AddPlayer(m_room_map[rid], s)]
        /\ UNCHANGED <<g_room_id, m_game_map, m_g_game_id, m_rid, outbox>>
    BY <1>1 DEF JoinRoom
  <2>2. m_room_map[rid] \in RoomType
    BY <1>1 DEF LobbyTypeOK, Rooms
  <2>3. m_room_map' \in [1 .. g_room_id' - 1 -> RoomType] /\ Rooms' = Rooms
    BY <2>1, <2>2, AddPlayerType DEF LobbyTypeOK, Rooms
  <2> QED BY <2>1, <2>3 DEF LobbyTypeOK
<1>2. CASE rid \notin Rooms
  BY <1>2 DEF JoinRoom, lobbyVars, LobbyTypeOK, Rooms
<1> QED BY <1>1, <1>2

(* Each player of the starting room gets one message more, nobody else. *)
LEMMA StartNtfSent ==
  ASSUME outbox \in [Session -> Seq(Ntf)], NEW gid \in Nat,
         NEW list \in Seq(Session), SendStartGameNtfToAll(gid, list)
  PROVE  /\ outbox' \in [Session -> Seq(Ntf)]
         /\ \A i \in DOMAIN list : SeatOf(list, list[i]) \in DOMAIN list
                                     /\ list[SeatOf(list, list[i])] = list[i]
<1>1. ASSUME NEW i \in DOMAIN list
      PROVE  SeatOf(list, list[i]) \in DOMAIN list /\ list[SeatOf(list, list[i])] = list[i]
  BY <1>1 DEF SeatOf
<1>2. ASSUME NEW i \in DOMAIN list PROVE StartNtf(gid, list, i) \in Ntf
  BY <1>2 DEF StartNtf, PlayerIdx, Ntf
<1>3. ASSUME NEW s \in Session, s \in PlayersOf(list)
      PROVE  StartNtf(gid, list, SeatOf(list, s)) \in Ntf
  BY <1>1, <1>2, <1>3 DEF PlayersOf
<1>4. ASSUME NEW s \in Session PROVE outbox'[s] \in Seq(Ntf)
  BY <1>3, <1>4, AppendProperties DEF SendStartGameNtfToAll
<1> QED BY <1>1, <1>4 DEF SendStartGameNtfToAll

LEMMA StartGameType ==
  ASSUME LobbyTypeOK, NEW rid, StartGame(rid)
  PROVE  LobbyTypeOK'
<1>1. CASE MayStart(rid)
  <2>1. /\ m_room_map' = [m_room_map EXCEPT ![rid].m_is_fighting = TRUE]
        /\ m_game_map' = MapInsert(m_game_map, m_g_game_id, NewGame(rid))
        /\ m_g_game_id' = m_g_game_id + 1
        /\ SendStartGameNtfToAll(m_g_game_id, m_room_map[rid].m_player_list)
        /\ UNCHANGED <<g_room_id, m_rid>>
    BY <1>1 DEF StartGame
  <2>2. rid \in Rooms /\ m_room_map[rid] \in RoomType
    BY <1>1 DEF MayStart, LobbyTypeOK, Rooms
  <2>3. m_room_map' \in [1 .. g_room_id' - 1 -> RoomType] /\ Rooms' = Rooms
    BY <2>1, <2>2 DEF LobbyTypeOK, Rooms, RoomType
  <2>4. (1 .. m_g_game_id - 1) \union {m_g_game_id} = 1 .. m_g_game_id' - 1
    BY <2>1 DEF LobbyTypeOK
  <2>5. NewGame(rid) \in [m_rid : Rooms, m_state_buf : {<<>>}]
    BY <2>2 DEF NewGame
  <2>6. m_game_map' \in [1 .. m_g_game_id' - 1 -> [m_rid : Rooms', m_state_buf : {<<>>}]]
    BY <2>1, <2>3, <2>4, <2>5 DEF LobbyTypeOK, MapInsert
  <2>7. outbox' \in [Session -> Seq(Ntf)]
    BY <2>1, <2>2, StartNtfSent DEF LobbyTypeOK, RoomType
  <2> QED BY <2>1, <2>3, <2>6, <2>7 DEF LobbyTypeOK
<1>2. CASE ~MayStart(rid)
  BY <1>2 DEF StartGame, lobbyVars, LobbyTypeOK, Rooms
<1> QED BY <1>1, <1>2

LEMMA LobbyNextType == LobbyTypeOK /\ [LobbyNext]_lobbyVars => LobbyTypeOK'
<1> SUFFICES ASSUME LobbyTypeOK, [LobbyNext]_lobbyVars PROVE LobbyTypeOK'
  OBVIOUS
<1>1. ASSUME NEW s \in Session, NEW n \in PlayerNums, CreateRoom(s, n)
      PROVE  LobbyTypeOK'
  BY <1>1, LobbyAssumption, CreateRoomType
<1>2. ASSUME NEW s \in Session, NEW rid \in RoomArgs, JoinRoom(s, rid)
      PROVE  LobbyTypeOK'
  BY <1>2, JoinRoomType
<1>3. ASSUME NEW rid \in RoomArgs, StartGame(rid) PROVE LobbyTypeOK'
  BY <1>3, StartGameType
<1>4. CASE UNCHANGED lobbyVars
  BY <1>4 DEF lobbyVars, LobbyTypeOK, Rooms
<1> QED BY <1>1, <1>2, <1>3, <1>4 DEF LobbyNext

(* Ids, rooms, games and messages keep their types. *)
THEOREM LobbyTypeInvariant == LobbySpec => []LobbyTypeOK
BY LobbyInitType, LobbyNextType, PTL DEF LobbySpec

-----------------------------------------------------------------------------
(* What one command does to rooms: an old room keeps its size limit and    *)
(* its list, up to one newcomer at the end; a new room appears only for a  *)
(* session without one, which is its first player.                         *)
GrowsByOne(r) ==
  LET old == m_room_map[r].m_player_list IN
    \E p \in Session :
      /\ m_room_map'[r].m_player_list = Append(old, p)
      /\ \A i \in DOMAIN old : old[i] # p
      /\ Len(old) < m_room_map[r].m_max_player_num

KeepsList(r) == m_room_map'[r].m_player_list = m_room_map[r].m_player_list

RoomsStep ==
  /\ \A r \in Rooms :
       /\ r \in Rooms'
       /\ m_room_map'[r].m_max_player_num = m_room_map[r].m_max_player_num
       /\ KeepsList(r) \/ GrowsByOne(r)
  /\ \/ Rooms' = Rooms /\ m_rid' = m_rid
     \/ \E s \in Session :
          /\ m_rid[s] = 0
          /\ g_room_id \notin Rooms /\ g_room_id # 0
          /\ Rooms' = Rooms \union {g_room_id}
          /\ m_room_map'[g_room_id].m_player_list = <<s>>
          /\ m_rid' = [m_rid EXCEPT ![s] = g_room_id]

LEMMA RoomsStepOfNext == LobbyTypeOK /\ [LobbyNext]_lobbyVars => RoomsStep
<1> SUFFICES ASSUME LobbyTypeOK, [LobbyNext]_lobbyVars PROVE RoomsStep
  OBVIOUS
<1>0. ASSUME UNCHANGED <<m_room_map, m_rid>> PROVE RoomsStep
  BY <1>0 DEF RoomsStep, Rooms, KeepsList
<1>1. ASSUME NEW s \in Session, NEW n \in PlayerNums, CreateRoom(s, n)
      PROVE  RoomsStep
  <2>1. CASE ~InOwnRoom(s)
    <3>1. /\ m_room_map' = MapInsert(m_room_map, g_room_id, NewRoom(s, n))
          /\ m_rid' = [m_rid EXCEPT ![s] = g_room_id]
          /\ m_rid[s] = 0
      BY <1>1, <2>1 DEF CreateRoom, NewRoomId, InOwnRoom
    <3>2. /\ g_room_id \notin Rooms /\ g_room_id # 0
          /\ m_room_map \in [Rooms -> RoomType]
      BY DEF LobbyTypeOK, Rooms
    <3>3. /\ Rooms' = Rooms \union {g_room_id}
          /\ \A r \in Rooms : m_room_map'[r] = m_room_map[r]
          /\ m_room_map'[g_room_id] = NewRoom(s, n)
      BY <3>1, <3>2 DEF MapInsert, Rooms
    <3>4. m_room_map'[g_room_id].m_player_list = <<s>>
      BY <3>3 DEF NewRoom
    <3> QED BY <3>1, <3>2, <3>3, <3>4 DEF RoomsStep, KeepsList
  <2>2. CASE InOwnRoom(s)
    BY <1>0, <1>1, <2>2 DEF CreateRoom, lobbyVars
  <2> QED BY <2>1, <2>2
<1>2. ASSUME NEW s \in Session, NEW rid \in RoomArgs, JoinRoom(s, rid)
      PROVE  RoomsStep
  <2>1. CASE rid \in Rooms
    <3>1. /\ m_room_map' = [m_room_map EXCEPT ![rid] = AddPlayer(m_room_map[rid], s)]
          /\ m_rid' = m_rid
      BY <1>2, <2>1 DEF JoinRoom
    <3>2. m_room_map \in [Rooms -> RoomType] /\ m_room_map[rid] \in RoomType
      BY <2>1 DEF LobbyTypeOK, Rooms
    <3>3. Rooms' = Rooms /\ \A r \in Rooms \ {rid} : m_room_map'[r] = m_room_map[r]
      BY <3>1, <3>2 DEF Rooms
    <3>4. m_room_map'[rid] = AddPlayer(m_room_map[rid], s)
      BY <2>1, <3>1, <3>2 DEF Rooms
    <3>5. /\ m_room_map'[rid].m_max_player_num = m_room_map[rid].m_max_player_num
          /\ KeepsList(rid) \/ GrowsByOne(rid)
      BY <3>2, <3>4, AddPlayerType, AddPlayerList DEF KeepsList, GrowsByOne
    <3>6. \A r \in Rooms \ {rid} :
            /\ m_room_map'[r].m_max_player_num = m_room_map[r].m_max_player_num
            /\ KeepsList(r)
      BY <3>3 DEF KeepsList
    <3> QED BY <3>1, <3>3, <3>5, <3>6 DEF RoomsStep
  <2>2. CASE rid \notin Rooms
    BY <1>0, <1>2, <2>2 DEF JoinRoom, lobbyVars
  <2> QED BY <2>1, <2>2
<1>3. ASSUME NEW rid \in RoomArgs, StartGame(rid) PROVE RoomsStep
  <2>1. CASE MayStart(rid)
    <3>1. /\ m_room_map' = [m_room_map EXCEPT ![rid].m_is_fighting = TRUE]
          /\ m_rid' = m_rid
      BY <1>3, <2>1 DEF StartGame
    <3>2. m_room_map \in [Rooms -> RoomType]
      BY DEF LobbyTypeOK, Rooms
    <3>3. /\ Rooms' = Rooms
          /\ \A r \in Rooms :
               /\ m_room_map'[r].m_player_list = m_room_map[r].m_player_list
               /\ m_room_map'[r].m_max_player_num = m_room_map[r].m_max_player_num
      BY <3>1, <3>2 DEF Rooms, RoomType
    <3> QED BY <3>1, <3>3 DEF RoomsStep, KeepsList
  <2>2. CASE ~MayStart(rid)
    BY <1>0, <1>3, <2>2 DEF StartGame, lobbyVars
  <2> QED BY <2>1, <2>2
<1>4. CASE UNCHANGED lobbyVars
  BY <1>0, <1>4 DEF lobbyVars
<1> QED BY <1>1, <1>2, <1>3, <1>4 DEF LobbyNext

-----------------------------------------------------------------------------
(* Rooms *)
RoomInv == PlayersDistinct /\ RoomNeverOverfull /\ CreatorSeat

LEMMA RoomInvStep ==
  ASSUME LobbyTypeOK, LobbyTypeOK', RoomInv, RoomsStep
  PROVE  RoomInv'
<1> DEFINE L(r) == m_room_map[r].m_player_list
           M(r) == m_room_map'[r].m_player_list
<1>0. /\ \A r \in Rooms : L(r) \in Seq(Session) /\ m_room_map[r].m_max_player_num \in Nat
      /\ \A r \in Rooms' : M(r) \in Seq(Session)
                           /\ m_room_map'[r].m_max_player_num \in Nat
  BY DEF LobbyTypeOK, Rooms, RoomType
<1>1. ASSUME NEW r \in Rooms
      PROVE  /\ \A i, j \in DOMAIN M(r) : M(r)[i] = M(r)[j] => i = j
             /\ Len(M(r)) \in 1 .. (IF m_room_map'[r].m_max_player_num = 0
                                      THEN 1 ELSE m_room_map'[r].m_max_player_num)
             /\ M(r)[1] = L(r)[1]
  <2>1. /\ \A i, j \in DOMAIN L(r) : L(r)[i] = L(r)[j] => i = j
        /\ Len(L(r)) \in 1 .. (IF m_room_map[r].m_max_player_num = 0
                                 THEN 1 ELSE m_room_map[r].m_max_player_num)
    BY DEF RoomInv, PlayersDistinct, RoomNeverOverfull
  <2>2. m_room_map'[r].m_max_player_num = m_room_map[r].m_max_player_num
    BY DEF RoomsStep
  <2>3. CASE KeepsList(r)
    BY <2>1, <2>2, <2>3 DEF KeepsList
  <2>4. CASE GrowsByOne(r)
    <3>1. PICK p \in Session : /\ M(r) = Append(L(r), p)
                               /\ \A i \in DOMAIN L(r) : L(r)[i] # p
                               /\ Len(L(r)) < m_room_map[r].m_max_player_num
      BY <2>4 DEF GrowsByOne
    <3>2. /\ Len(M(r)) = Len(L(r)) + 1
          /\ \A i \in 1 .. Len(L(r)) : M(r)[i] = L(r)[i]
          /\ M(r)[Len(L(r)) + 1] = p
          /\ DOMAIN M(r) = 1 .. Len(L(r)) + 1 /\ DOMAIN L(r) = 1 .. Len(L(r))
          /\ Len(L(r)) \in Nat
      BY <1>0, <3>1, AppendProperties, LenProperties
    <3>3. ASSUME NEW i \in DOMAIN M(r), NEW j \in DOMAIN M(r), M(r)[i] = M(r)[j]
          PROVE  i = j
      BY <2>1, <3>1, <3>2, <3>3
    <3> QED BY <1>0, <2>1, <2>2, <3>1, <3>2, <3>3
  <2> QED BY <2>3, <2>4 DEF RoomsStep
<1>2. CASE Rooms' = Rooms /\ m_rid' = m_rid
  BY <1>1, <1>2 DEF RoomInv, PlayersDistinct, RoomNeverOverfull, CreatorSeat
<1>3. ASSUME NEW s \in Session, m_rid[s] = 0, g_room_id \notin Rooms, g_room_id # 0,
             Rooms' = Rooms \union {g_room_id},
             M(g_room_id) = <<s>>, m_rid' = [m_rid EXCEPT ![s] = g_room_id]
      PROVE  RoomInv'
  <2>1. /\ \A i, j \in DOMAIN M(g_room_id) : M(g_room_id)[i] = M(g_room_id)[j] => i = j
        /\ Len(M(g_room_id)) = 1 /\ M(g_room_id)[1] = s
    BY <1>3
  <2>2. PlayersDistinct'
    BY <1>1, <1>3, <2>1 DEF PlayersDistinct
  <2>3. RoomNeverOverfull'
    <3>1. m_room_map'[g_room_id].m_max_player_num \in Nat
      BY <1>0, <1>3
    <3>2. Len(M(g_room_id)) \in 1 .. (IF m_room_map'[g_room_id].m_max_player_num = 0
                                      THEN 1 ELSE m_room_map'[g_room_id].m_max_player_num)
      BY <2>1, <3>1
    <3> QED BY <1>1, <1>3, <3>2 DEF RoomNeverOverfull
  <2>4. CreatorSeat'
    <3>1. /\ m_rid'[s] = g_room_id
          /\ \A t \in Session \ {s} : m_rid'[t] = m_rid[t]
      BY <1>3 DEF LobbyTypeOK
    <3>2. \A t \in Session : m_rid'[t] # 0 => m_rid'[t] \in Rooms'
      BY <1>3, <3>1 DEF RoomInv, CreatorSeat
    <3>3. ASSUME NEW r \in Rooms, NEW t \in Session
          PROVE  m_rid'[t] = r <=> M(r)[1] = t
      <4>1. m_rid[t] = r <=> L(r)[1] = t
        BY DEF RoomInv, CreatorSeat
      <4>2. r # 0
        BY DEF LobbyTypeOK, Rooms
      <4> QED BY <1>1, <1>3, <3>1, <4>1, <4>2
    <3>4. ASSUME NEW t \in Session
          PROVE  m_rid'[t] = g_room_id <=> M(g_room_id)[1] = t
      BY <1>3, <2>1, <3>1 DEF RoomInv, CreatorSeat
    <3> QED BY <1>3, <3>2, <3>3, <3>4 DEF CreatorSeat
  <2> QED BY <2>2, <2>3, <2>4 DEF RoomInv
<1> QED BY <1>2, <1>3 DEF RoomsStep

LEMMA RoomInvInit == LobbyInit => RoomInv
BY DEF LobbyInit, RoomInv, PlayersDistinct, RoomNeverOverfull, CreatorSeat, Rooms

LEMMA RoomInvariant == LobbySpec => [](LobbyTypeOK /\ RoomInv)
<1>1. LobbyInit => LobbyTypeOK /\ RoomInv
  BY LobbyInitType, RoomInvInit
<1>2. LobbyTypeOK /\ RoomInv /\ [LobbyNext]_lobbyVars => (LobbyTypeOK /\ RoomInv)'
  BY LobbyNextType, RoomsStepOfNext, RoomInvStep
<1> QED BY <1>1, <1>2, PTL DEF LobbySpec

(* Nobody sits twice in a room, whatever the commands and their order. *)
THEOREM NobodyTwice == LobbySpec => []PlayersDistinct
BY RoomInvariant, PTL DEF RoomInv

(* No room takes more players than it was made for. *)
THEOREM NoOverfullRoom == LobbySpec => []RoomNeverOverfull
BY RoomInvariant, PTL DEF RoomInv

(* m_rid and the first seat of a room name each other. *)
THEOREM CreatorHasSeat == LobbySpec => []CreatorSeat
BY RoomInvariant, PTL DEF RoomInv

(* Seats never move. *)
LEMMA SeatStep ==
  ASSUME LobbyTypeOK, LobbyTypeOK', RoomsStep, NEW r \in Rooms
  PROVE  LET old == m_room_map[r].m_player_list
             new == m_room_map'[r].m_player_list
         IN  r \in DOMAIN m_room_map' /\ Len(old) <= Len(new)
               /\ \A i \in DOMAIN old : new[i] = old[i]
<1>1. r \in Rooms' /\ m_room_map[r].m_player_list \in Seq(Session)
  BY DEF LobbyTypeOK, Rooms, RoomType, RoomsStep
<1>2. CASE KeepsList(r)
  BY <1>1, <1>2, LenProperties DEF KeepsList, Rooms
<1>3. CASE GrowsByOne(r)
  BY <1>1, <1>3, AppendProperties, LenProperties DEF GrowsByOne, Rooms
<1> QED BY <1>2, <1>3 DEF RoomsStep

THEOREM SeatsNeverMove == LobbySpec => SeatStable
<1>1. LobbyTypeOK /\ LobbyTypeOK' /\ [LobbyNext]_lobbyVars =>
        [\A r \in Rooms :
           LET old == m_room_map[r].m_player_list
               new == m_room_map'[r].m_player_list
           IN  r \in DOMAIN m_room_map' /\ Len(old) <= Len(new)
                 /\ \A i \in DOMAIN old : new[i] = old[i]]_lobbyVars
  BY RoomsStepOfNext, SeatStep
<1> QED BY <1>1, LobbyTypeInvariant, PTL DEF LobbySpec, SeatStable

-----------------------------------------------------------------------------
(* Games: a command leaves games and fighting rooms alone, or starts one   *)
(* game in a room that was not fighting.                                   *)
Fighting(r) == m_room_map[r].m_is_fighting

GamesStep ==
  \/ /\ m_game_map' = m_game_map
     /\ \A r \in Rooms' : Fighting(r)' <=> r \in Rooms /\ Fighting(r)
     /\ Rooms \subseteq Rooms'
  \/ \E rid \in Rooms :
       /\ ~Fighting(rid)
       /\ m_g_game_id \notin Games
       /\ Games' = Games \union {m_g_game_id}
       /\ \A g \in Games : m_game_map'[g].m_rid = m_game_map[g].m_rid
       /\ m_game_map'[m_g_game_id].m_rid = rid
       /\ Rooms' = Rooms
       /\ \A r \in Rooms : Fighting(r)' <=> r = rid \/ Fighting(r)

LEMMA GamesStepOfNext == LobbyTypeOK /\ [LobbyNext]_lobbyVars => GamesStep
<1> SUFFICES ASSUME LobbyTypeOK, [LobbyNext]_lobbyVars PROVE GamesStep
  OBVIOUS
<1>0. ASSUME UNCHANGED <<m_room_map, m_game_map>> PROVE GamesStep
  BY <1>0 DEF GamesStep, Rooms, Fighting
<1>t. m_room_map \in [1 .. g_room_id - 1 -> RoomType] /\ g_room_id \in Nat \ {0}
  BY DEF LobbyTypeOK
<1>1. ASSUME NEW s \in Session, NEW n \in PlayerNums, CreateRoom(s, n)
      PROVE  GamesStep
  <2>1. CASE ~InOwnRoom(s)
    <3>1. /\ m_room_map' = MapInsert(m_room_map, g_room_id, NewRoom(s, n))
          /\ m_game_map' = m_game_map
      BY <1>1, <2>1 DEF CreateRoom, NewRoomId
    <3>2. /\ Rooms' = Rooms \union {g_room_id} /\ g_room_id \notin Rooms
          /\ \A r \in Rooms : m_room_map'[r] = m_room_map[r]
          /\ m_room_map'[g_room_id] = NewRoom(s, n)
      BY <1>t, <3>1 DEF MapInsert, Rooms
    <3>3. ~m_room_map'[g_room_id].m_is_fighting
      BY <3>2 DEF NewRoom
    <3> QED BY <3>1, <3>2, <3>3 DEF GamesStep, Fighting
  <2>2. CASE InOwnRoom(s)
    BY <1>0, <1>1, <2>2 DEF CreateRoom, lobbyVars
  <2> QED BY <2>1, <2>2
<1>2. ASSUME NEW s \in Session, NEW rid \in RoomArgs, JoinRoom(s, rid)
      PROVE  GamesStep
  <2>1. CASE rid \in Rooms
    <3>1. /\ m_room_map' = [m_room_map EXCEPT ![rid] = AddPlayer(m_room_map[rid], s)]
          /\ m_game_map' = m_game_map
      BY <1>2, <2>1 DEF JoinRoom
    <3>2. AddPlayer(m_room_map[rid], s).m_is_fighting = m_room_map[rid].m_is_fighting
      BY <1>t, <2>1, AddPlayerType DEF Rooms
    <3>3. /\ Rooms' = Rooms
          /\ \A r \in Rooms : m_room_map'[r].m_is_fighting = m_room_map[r].m_is_fighting
      BY <1>t, <3>1, <3>2 DEF Rooms
    <3> QED BY <3>1, <3>3 DEF GamesStep, Fighting
  <2>2. CASE rid \notin Rooms
    BY <1>0, <1>2, <2>2 DEF JoinRoom, lobbyVars
  <2> QED BY <2>1, <2>2
<1>3. ASSUME NEW rid \in RoomArgs, StartGame(rid) PROVE GamesStep
  <2>1. CASE MayStart(rid)
    <3>1. /\ m_room_map' = [m_room_map EXCEPT ![rid].m_is_fighting = TRUE]
          /\ m_game_map' = MapInsert(m_game_map, m_g_game_id, NewGame(rid))
          /\ rid \in Rooms /\ ~Fighting(rid)
      BY <1>3, <2>1 DEF StartGame, MayStart, Fighting
    <3>2. /\ Rooms' = Rooms
          /\ \A r \in Rooms :
               m_room_map'[r].m_is_fighting <=> r = rid \/ m_room_map[r].m_is_fighting
      BY <1>t, <3>1 DEF Rooms, RoomType
    <3>3. m_g_game_id \notin Games
      BY DEF LobbyTypeOK, Games
    <3>4. /\ Games' = Games \union {m_g_game_id}
          /\ \A g \in Games : m_game_map'[g] = m_game_map[g]
          /\ m_game_map'[m_g_game_id] = NewGame(rid)
      BY <3>1, <3>3 DEF MapInsert, Games
    <3>5. m_game_map'[m_g_game_id].m_rid = rid
      BY <3>4 DEF NewGame
    <3> QED BY <3>1, <3>2, <3>3, <3>4, <3>5 DEF GamesStep, Fighting
  <2>2. CASE ~MayStart(rid)
    BY <1>0, <1>3, <2>2 DEF StartGame, lobbyVars
  <2> QED BY <2>1, <2>2
<1>4. CASE UNCHANGED lobbyVars
  BY <1>0, <1>4 DEF lobbyVars
<1> QED BY <1>1, <1>2, <1>3, <1>4 DEF LobbyNext

LEMMA OneGameStep ==
  ASSUME LobbyTypeOK, OneGamePerRoom, GamesStep
  PROVE  OneGamePerRoom'
<1>1. \A g \in Games : m_game_map[g].m_rid \in Rooms
  BY DEF LobbyTypeOK, Games
<1>2. /\ \A g, h \in Games : m_game_map[g].m_rid = m_game_map[h].m_rid => g = h
      /\ \A r \in Rooms : Fighting(r) <=> \E g \in Games : m_game_map[g].m_rid = r
  BY DEF OneGamePerRoom, Fighting
<1>3. CASE /\ m_game_map' = m_game_map
           /\ \A r \in Rooms' : Fighting(r)' <=> r \in Rooms /\ Fighting(r)
           /\ Rooms \subseteq Rooms'
  BY <1>1, <1>2, <1>3 DEF OneGamePerRoom, Fighting, Games
<1>4. ASSUME NEW rid \in Rooms, ~Fighting(rid),
             m_g_game_id \notin Games, Games' = Games \union {m_g_game_id},
             \A g \in Games : m_game_map'[g].m_rid = m_game_map[g].m_rid,
             m_game_map'[m_g_game_id].m_rid = rid,
             Rooms' = Rooms,
             \A r \in Rooms : Fighting(r)' <=> r = rid \/ Fighting(r)
      PROVE  OneGamePerRoom'
  BY <1>1, <1>2, <1>4 DEF OneGamePerRoom, Fighting
<1> QED BY <1>3, <1>4 DEF GamesStep

(* However STARTGAMEs race, a room has at most one game, and has one       *)
(* exactly when it is fighting.                                            *)
THEOREM AtMostOneGame == LobbySpec => []OneGamePerRoom
<1>1. LobbyInit => OneGamePerRoom
  BY DEF LobbyInit, OneGamePerRoom, Rooms, Games
<1>2. LobbyTypeOK /\ OneGamePerRoom /\ [LobbyNext]_lobbyVars => OneGamePerRoom'
  BY GamesStepOfNext, OneGameStep
<1> QED BY <1>1, <1>2, LobbyTypeInvariant, PTL DEF LobbySpec

-----------------------------------------------------------------------------
(* Messages.  A command sends nothing and leaves games alone, or starts a  *)
(* game and sends a STARTGAME of it to each player of its room. *)
Started(rid) ==
  /\ rid \in Rooms
  /\ m_g_game_id \notin Games /\ Games' = Games \union {m_g_game_id}
  /\ \A g \in Games : m_game_map'[g].m_rid = m_game_map[g].m_rid
  /\ m_game_map'[m_g_game_id].m_rid = rid
  /\ m_room_map'[rid].m_player_list = m_room_map[rid].m_player_list
  /\ SendStartGameNtfToAll(m_g_game_id, m_room_map[rid].m_player_list)

SentStep ==
  \/ outbox' = outbox /\ m_game_map' = m_game_map
  \/ \E rid \in Rooms : Started(rid)

LEMMA SentStepOfNext == LobbyTypeOK /\ [LobbyNext]_lobbyVars => SentStep
<1> SUFFICES ASSUME LobbyTypeOK, [LobbyNext]_lobbyVars PROVE SentStep
  OBVIOUS
<1>1. ASSUME NEW rid \in RoomArgs, StartGame(rid) PROVE SentStep
  <2>1. CASE MayStart(rid)
    <3>1. /\ m_room_map' = [m_room_map EXCEPT ![rid].m_is_fighting = TRUE]
          /\ m_game_map' = MapInsert(m_game_map, m_g_game_id, NewGame(rid))
          /\ SendStartGameNtfToAll(m_g_game_id, m_room_map[rid].m_player_list)
          /\ rid \in Rooms
      BY <1>1, <2>1 DEF StartGame, MayStart
    <3>2. m_room_map[rid] \in RoomType /\ m_room_map \in [Rooms -> RoomType]
      BY <3>1 DEF LobbyTypeOK, Rooms
    <3>3. m_room_map'[rid].m_player_list = m_room_map[rid].m_player_list
      BY <3>1, <3>2 DEF RoomType
    <3>4. m_g_game_id \notin Games
      BY DEF LobbyTypeOK, Games
    <3>5. /\ Games' = Games \union {m_g_game_id}
          /\ \A g \in Games : m_game_map'[g] = m_game_map[g]
          /\ m_game_map'[m_g_game_id] = NewGame(rid)
      BY <3>1, <3>4 DEF MapInsert, Games
    <3>6. m_game_map'[m_g_game_id].m_rid = rid
      BY <3>5 DEF NewGame
    <3> QED BY <3>1, <3>3, <3>4, <3>5, <3>6 DEF SentStep, Started
  <2>2. CASE ~MayStart(rid)
    BY <1>1, <2>2 DEF StartGame, lobbyVars, SentStep
  <2> QED BY <2>1, <2>2
<1>2. ASSUME NEW s \in Session, NEW n \in PlayerNums, CreateRoom(s, n)
      PROVE  SentStep
  BY <1>2 DEF CreateRoom, lobbyVars, SentStep
<1>3. ASSUME NEW s \in Session, NEW rid \in RoomArgs, JoinRoom(s, rid)
      PROVE  SentStep
  BY <1>3 DEF JoinRoom, lobbyVars, SentStep
<1>4. CASE UNCHANGED lobbyVars
  BY <1>4 DEF lobbyVars, SentStep
<1> QED BY <1>1, <1>2, <1>3, <1>4 DEF LobbyNext

(* What a game start does to one outbox. *)
LEMMA StartedBoxes ==
  ASSUME LobbyTypeOK, NEW rid, Started(rid), NEW s \in Session
  PROVE  LET list == m_room_map[rid].m_player_list
             ntf == StartNtf(m_g_game_id, list, SeatOf(list, s))
         IN  IF s \in PlayersOf(list)
               THEN outbox'[s] = Append(outbox[s], ntf) /\ ntf \in Ntf
               ELSE outbox'[s] = outbox[s]
<1> DEFINE list == m_room_map[rid].m_player_list
           ntf == StartNtf(m_g_game_id, list, SeatOf(list, s))
<1>1. list \in Seq(Session) /\ m_g_game_id \in Nat
  BY DEF Started, LobbyTypeOK, Rooms, RoomType
<1>2. IF s \in PlayersOf(list) THEN outbox'[s] = Append(outbox[s], ntf)
                               ELSE outbox'[s] = outbox[s]
  BY DEF Started, SendStartGameNtfToAll
<1>3. ASSUME s \in PlayersOf(list) PROVE ntf \in Ntf
  <2>1. SeatOf(list, s) \in DOMAIN list
    BY <1>3 DEF PlayersOf, SeatOf
  <2> HIDE DEF list
  <2> QED BY <1>1, <2>1 DEF StartNtf, PlayerIdx, Ntf
<1> QED BY <1>2, <1>3

ToldIn(box, g) == {k \in DOMAIN box : box[k].type = "STARTGAME" /\ box[k].gid = g}

LEMMA ToldAppended ==
  ASSUME NEW box \in Seq(Ntf), NEW m \in Ntf, NEW g
  PROVE  /\ ToldIn(Append(box, m), g) =
              ToldIn(box, g) \union
                (IF m.type = "STARTGAME" /\ m.gid = g THEN {Len(box) + 1} ELSE {})
         /\ \A k \in DOMAIN box : Append(box, m)[k] = box[k] /\ k <= Len(box)
         /\ Append(box, m)[Len(box) + 1] = m
         /\ DOMAIN Append(box, m) = DOMAIN box \union {Len(box) + 1}
<1> DEFINE longer == Append(box, m)
<1>1. /\ Len(box) \in Nat /\ DOMAIN box = 1 .. Len(box)
      /\ DOMAIN longer = 1 .. Len(box) + 1
      /\ \A k \in 1 .. Len(box) : longer[k] = box[k]
      /\ longer[Len(box) + 1] = m
  BY AppendProperties, LenProperties
<1> HIDE DEF longer
<1>2. DOMAIN longer = DOMAIN box \union {Len(box) + 1}
  BY <1>1
<1>3. ToldIn(longer, g) =
        ToldIn(box, g) \union
          (IF m.type = "STARTGAME" /\ m.gid = g THEN {Len(box) + 1} ELSE {})
  BY <1>1, <1>2 DEF ToldIn
<1> QED BY <1>1, <1>2, <1>3 DEF longer

(* Every message is about a game that exists. *)
NtfsKnown ==
  \A s \in Session : \A k \in DOMAIN outbox[s] : outbox[s][k].gid \in Games

LEMMA NtfsKnownStep ==
  ASSUME LobbyTypeOK, NtfsKnown, SentStep
  PROVE  NtfsKnown'
<1>1. CASE outbox' = outbox /\ m_game_map' = m_game_map
  BY <1>1 DEF NtfsKnown, Games
<1>2. ASSUME NEW rid \in Rooms, Started(rid) PROVE NtfsKnown'
  <2> SUFFICES ASSUME NEW s \in Session, NEW k \in DOMAIN outbox'[s]
               PROVE  outbox'[s][k].gid \in Games'
    BY DEF NtfsKnown
  <2> DEFINE list == m_room_map[rid].m_player_list
             ntf == StartNtf(m_g_game_id, list, SeatOf(list, s))
  <2>1. /\ Games' = Games \union {m_g_game_id}
        /\ \A j \in DOMAIN outbox[s] : outbox[s][j].gid \in Games
        /\ outbox[s] \in Seq(Ntf)
    BY <1>2 DEF Started, NtfsKnown, LobbyTypeOK
  <2>2. ntf.gid = m_g_game_id
    BY DEF StartNtf
  <2>3. CASE s \in PlayersOf(list)
    <3>1. outbox'[s] = Append(outbox[s], ntf) /\ ntf \in Ntf
      BY <1>2, <2>3, StartedBoxes
    <3> HIDE DEF ntf
    <3> QED BY <2>1, <2>2, <3>1, ToldAppended
  <2>4. CASE s \notin PlayersOf(list)
    <3>1. outbox'[s] = outbox[s]
      BY <1>2, <2>4, StartedBoxes
    <3> QED BY <2>1, <3>1
  <2> QED BY <2>3, <2>4
<1> QED BY <1>1, <1>2 DEF SentStep

(* A game start leaves what was told of the other games alone. *)
LEMMA ToldKept ==
  ASSUME LobbyTypeOK, SentStep, NEW s \in Session, NEW g \in Games
  PROVE  /\ ToldIn(outbox'[s], g) = ToldIn(outbox[s], g)
         /\ \A k \in DOMAIN outbox[s] :
              k \in DOMAIN outbox'[s] /\ outbox'[s][k] = outbox[s][k]
<1>1. CASE outbox' = outbox
  BY <1>1
<1>2. ASSUME NEW rid \in Rooms, Started(rid)
      PROVE  /\ ToldIn(outbox'[s], g) = ToldIn(outbox[s], g)
             /\ \A k \in DOMAIN outbox[s] :
                  k \in DOMAIN outbox'[s] /\ outbox'[s][k] = outbox[s][k]
  <2> DEFINE list == m_room_map[rid].m_player_list
             ntf == StartNtf(m_g_game_id, list, SeatOf(list, s))
  <2>1. CASE s \in PlayersOf(list)
    <3>1. outbox'[s] = Append(outbox[s], ntf) /\ ntf \in Ntf /\ outbox[s] \in Seq(Ntf)
      BY <1>2, <2>1, StartedBoxes DEF LobbyTypeOK
    <3>2. ntf.gid # g
      BY <1>2 DEF StartNtf, Started
    <3> HIDE DEF ntf
    <3>3. ToldIn(outbox'[s], g) = ToldIn(outbox[s], g)
      <4>1. ToldIn(Append(outbox[s], ntf), g) =
              ToldIn(outbox[s], g) \union
                (IF ntf.type = "STARTGAME" /\ ntf.gid = g THEN {Len(outbox[s]) + 1} ELSE {})
        BY <3>1, ToldAppended
      <4> QED BY <3>1, <3>2, <4>1
    <3>4. \A k \in DOMAIN outbox[s] :
            k \in DOMAIN outbox'[s] /\ outbox'[s][k] = outbox[s][k]
      BY <3>1, ToldAppended
    <3> QED BY <3>3, <3>4
  <2>2. CASE s \notin PlayersOf(list)
    <3>1. outbox'[s] = outbox[s]
      BY <1>2, <2>2, StartedBoxes
    <3> QED BY <3>1
  <2> QED BY <2>1, <2>2
<1> QED BY <1>1, <1>2 DEF SentStep

(* The two parts of SeatTold, for a game, its players, what they were sent *)
(* and the number of them who were there when it started. *)
SeatsTold(list, box, g, n) ==
  /\ \A i \in 1 .. n :
       \E k \in ToldIn(box[list[i]], g) :
         /\ ToldIn(box[list[i]], g) = {k}
         /\ box[list[i]][k].size = n
         /\ box[list[i]][k].idx = i - 1
  /\ \A s \in Session : ToldIn(box[s], g) # {} => \E i \in 1 .. n : list[i] = s

LEMMA SeatToldParts ==
  SeatTold <=> \A g \in Games : \E n \in 1 .. Len(PlayerList(g)) :
                 SeatsTold(PlayerList(g), outbox, g, n)
BY DEF SeatTold, SeatsTold, Told, ToldIn

LEMMA ListIsSeq ==
  ASSUME LobbyTypeOK, NEW g \in Games
  PROVE  /\ m_game_map[g].m_rid \in Rooms
         /\ PlayerList(g) \in Seq(Session) /\ Len(PlayerList(g)) \in Nat
         /\ DOMAIN PlayerList(g) = 1 .. Len(PlayerList(g))
<1>1. m_game_map[g].m_rid \in Rooms
  BY DEF LobbyTypeOK, Games
<1>2. PlayerList(g) \in Seq(Session)
  BY <1>1 DEF PlayerList, LobbyTypeOK, Rooms, RoomType
<1> QED BY <1>1, <1>2, LenProperties

(* Of an old game, whose first n seats stay where they are. *)
LEMMA OldGameTold ==
  ASSUME LobbyTypeOK, LobbyTypeOK', RoomsStep, SentStep, NEW g \in Games,
         NEW n \in 1 .. Len(PlayerList(g)), SeatsTold(PlayerList(g), outbox, g, n)
  PROVE  n \in 1 .. Len(PlayerList(g)') /\ SeatsTold(PlayerList(g)', outbox', g, n)
<1>1. g \in Games' /\ m_game_map'[g].m_rid = m_game_map[g].m_rid
  BY DEF SentStep, Started, Games
<1> DEFINE r == m_game_map[g].m_rid
           L == PlayerList(g)
           M == PlayerList(g)'
<1>2. /\ r \in Rooms /\ L \in Seq(Session) /\ Len(L) \in Nat /\ DOMAIN L = 1 .. Len(L)
      /\ L = m_room_map[r].m_player_list
  BY ListIsSeq DEF PlayerList
<1>3. M = m_room_map'[r].m_player_list
  BY <1>1 DEF PlayerList
<1>4. Len(L) <= Len(M) /\ \A i \in DOMAIN L : M[i] = L[i]
  BY <1>2, <1>3, SeatStep
<1>5. M \in Seq(Session) /\ Len(M) \in Nat
  <2>1. r \in Rooms'
    BY <1>2 DEF RoomsStep
  <2> HIDE DEF r
  <2>2. m_room_map'[r] \in RoomType
    BY <2>1 DEF LobbyTypeOK, Rooms
  <2>3. M \in Seq(Session)
    BY <1>3, <2>2 DEF RoomType
  <2> QED BY <2>3, LenProperties
<1> HIDE DEF r, L, M
<1>6. n \in 1 .. Len(L)
  BY DEF L
<1>7. n \in 1 .. Len(M) /\ \A i \in 1 .. n : M[i] = L[i] /\ L[i] \in Session
  BY <1>2, <1>4, <1>5, <1>6
<1>8. ASSUME NEW i \in 1 .. n
      PROVE  \E k \in ToldIn(outbox'[M[i]], g) :
               /\ ToldIn(outbox'[M[i]], g) = {k}
               /\ outbox'[M[i]][k].size = n
               /\ outbox'[M[i]][k].idx = i - 1
  <2>1. M[i] = L[i] /\ L[i] \in Session
    BY <1>7
  <2>2. PICK k \in ToldIn(outbox[L[i]], g) : /\ ToldIn(outbox[L[i]], g) = {k}
                                             /\ outbox[L[i]][k].size = n
                                             /\ outbox[L[i]][k].idx = i - 1
    BY DEF SeatsTold, L
  <2>3. k \in DOMAIN outbox[L[i]]
    BY <2>2 DEF ToldIn
  <2>4. ToldIn(outbox'[L[i]], g) = ToldIn(outbox[L[i]], g) /\ outbox'[L[i]][k] = outbox[L[i]][k]
    BY <2>1, <2>3, ToldKept
  <2> QED BY <2>1, <2>2, <2>4
<1>9. ASSUME NEW s \in Session, ToldIn(outbox'[s], g) # {}
      PROVE  \E i \in 1 .. n : M[i] = s
  <2>1. ToldIn(outbox[s], g) # {}
    BY <1>9, ToldKept
  <2>2. \E i \in 1 .. n : L[i] = s
    BY <2>1 DEF SeatsTold, L
  <2> QED BY <2>2, <1>7
<1> QED BY <1>7, <1>8, <1>9 DEF SeatsTold, M

(* Of the game just started: all who sit in its room are told. *)
LEMMA NewGameTold ==
  ASSUME LobbyTypeOK, PlayersDistinct, RoomNeverOverfull, NtfsKnown,
         NEW rid \in Rooms, Started(rid), NEW g, g = m_g_game_id
  PROVE  \E n \in 1 .. Len(PlayerList(g)') : SeatsTold(PlayerList(g)', outbox', g, n)
<1> DEFINE L == m_room_map[rid].m_player_list
           n == Len(L)
           M == PlayerList(g)'
           ntf(s) == StartNtf(g, L, SeatOf(L, s))
<1>1. /\ L \in Seq(Session) /\ n \in Nat /\ n >= 1 /\ DOMAIN L = 1 .. n
      /\ \A i, j \in DOMAIN L : L[i] = L[j] => i = j
  <2>1. L \in Seq(Session)
    BY DEF LobbyTypeOK, Rooms, RoomType
  <2>2. m_room_map[rid].m_max_player_num \in Nat
    BY DEF LobbyTypeOK, Rooms, RoomType
  <2>3. Len(L) >= 1
    BY <2>2 DEF RoomNeverOverfull
  <2> QED BY <2>1, <2>3, LenProperties DEF PlayersDistinct
<1>2. M = L
  BY DEF Started, PlayerList
<1>3. ASSUME NEW s \in Session
      PROVE  ToldIn(outbox[s], g) = {} /\ outbox[s] \in Seq(Ntf)
  BY DEF NtfsKnown, ToldIn, Started, LobbyTypeOK
<1>5. ASSUME NEW s \in Session, s \in PlayersOf(L)
      PROVE  /\ ToldIn(outbox'[s], g) = {Len(outbox[s]) + 1}
             /\ outbox'[s][Len(outbox[s]) + 1] = ntf(s)
  <2>1. outbox'[s] = Append(outbox[s], ntf(s)) /\ ntf(s) \in Ntf
    BY <1>5, StartedBoxes
  <2>2. ntf(s).type = "STARTGAME" /\ ntf(s).gid = g
    BY DEF StartNtf
  <2>3. ToldIn(outbox[s], g) = {}
    BY <1>3
  <2> DEFINE m == ntf(s)
  <2> HIDE DEF m
  <2>4. outbox'[s] = Append(outbox[s], m) /\ m \in Ntf /\ m.type = "STARTGAME" /\ m.gid = g
    BY <2>1, <2>2 DEF m
  <2>5. ToldIn(outbox'[s], g) = ToldIn(outbox[s], g) \union {Len(outbox[s]) + 1}
    BY <1>3, <2>4, ToldAppended
  <2>6. outbox'[s][Len(outbox[s]) + 1] = m
    BY <1>3, <2>4, ToldAppended
  <2> QED BY <2>3, <2>5, <2>6 DEF m
<1>6. ASSUME NEW s \in Session, s \notin PlayersOf(L)
      PROVE  ToldIn(outbox'[s], g) = {}
  <2>1. outbox'[s] = outbox[s]
    BY <1>6, StartedBoxes
  <2> QED BY <2>1, <1>3
<1>7. ASSUME NEW i \in 1 .. n
      PROVE  /\ L[i] \in Session /\ L[i] \in PlayersOf(L)
             /\ ntf(L[i]).size = n /\ ntf(L[i]).idx = i - 1
  <2>1. L[i] \in Session /\ i \in DOMAIN L
    BY <1>1
  <2>2. SeatOf(L, L[i]) \in DOMAIN L /\ L[SeatOf(L, L[i])] = L[i]
    BY <2>1 DEF SeatOf
  <2>3. SeatOf(L, L[i]) = i
    BY <1>1, <2>1, <2>2
  <2> QED BY <2>1, <2>3 DEF PlayersOf, StartNtf, PlayerIdx
<1> HIDE DEF L, M, n, ntf
<1>8. ASSUME NEW i \in 1 .. n
      PROVE  \E k \in ToldIn(outbox'[M[i]], g) :
               /\ ToldIn(outbox'[M[i]], g) = {k}
               /\ outbox'[M[i]][k].size = n
               /\ outbox'[M[i]][k].idx = i - 1
  BY <1>2, <1>5, <1>7
<1>9. ASSUME NEW s \in Session, ToldIn(outbox'[s], g) # {}
      PROVE  \E i \in 1 .. n : M[i] = s
  BY <1>1, <1>2, <1>6, <1>9 DEF PlayersOf
<1>10. n \in 1 .. Len(M)
  BY <1>1, <1>2 DEF n
<1> QED BY <1>8, <1>9, <1>10 DEF SeatsTold, M

LEMMA SeatToldStep ==
  ASSUME LobbyTypeOK, LobbyTypeOK', PlayersDistinct, RoomNeverOverfull, NtfsKnown,
         RoomsStep, SentStep, SeatTold
  PROVE  SeatTold'
<1>1. ASSUME NEW g \in Games
      PROVE  \E n \in 1 .. Len(PlayerList(g)') : SeatsTold(PlayerList(g)', outbox', g, n)
  BY <1>1, OldGameTold, SeatToldParts
<1>2. ASSUME NEW g \in Games', g \notin Games
      PROVE  \E n \in 1 .. Len(PlayerList(g)') : SeatsTold(PlayerList(g)', outbox', g, n)
  <2>1. PICK rid \in Rooms : Started(rid)
    BY <1>2 DEF SentStep, Games
  <2>2. g = m_g_game_id
    BY <1>2, <2>1 DEF Started
  <2> QED BY <2>1, <2>2, NewGameTold
<1>3. \A g \in Games' : \E n \in 1 .. Len(PlayerList(g)') :
        SeatsTold(PlayerList(g)', outbox', g, n)
  BY <1>1, <1>2
<1> QED BY <1>3 DEF SeatTold, SeatsTold, Told, ToldIn

LEMMA SeatToldInvariant == LobbySpec => [](NtfsKnown /\ SeatTold)
<1>1. LobbyInit => NtfsKnown /\ SeatTold
  BY DEF LobbyInit, NtfsKnown, SeatTold, Games
<1>2. LobbyTypeOK /\ LobbyTypeOK' /\ RoomInv /\ (NtfsKnown /\ SeatTold)
        /\ [LobbyNext]_lobbyVars => (NtfsKnown /\ SeatTold)'
  BY NtfsKnownStep, SeatToldStep, SentStepOfNext, RoomsStepOfNext DEF RoomInv
<1> QED BY <1>1, <1>2, RoomInvariant, PTL DEF LobbySpec

(* The seat numbers clients were told stay true: whatever joins and starts *)
(* came before or after, everybody seated when a game started, and nobody  *)
(* else, was told of it once, with its own seat and the number of players. *)
THEOREM SeatNumbersTold == LobbySpec => []SeatTold
BY SeatToldInvariant, PTL

-----------------------------------------------------------------------------
(* Types *)
LEMMA PushType ==
  ASSUME NEW cache \in Seq(State), Len(cache) <= Cap, NEW state \in State
  PROVE  /\ Push(cache, state) \in Seq(State)
         /\ Len(Push(cache, state)) <= Cap
         /\ Len(cache) < Cap => Len(Push(cache, state)) = Len(cache) + 1
BY SspAssumption, AppendProperties, LenProperties DEF Push

LEMMA PoppedType ==
  ASSUME NEW cache \in Seq(State), cache # <<>>
  PROVE  /\ Popped(cache) \in Seq(State)
         /\ Len(Popped(cache)) = Len(cache) - 1
         /\ Taken(cache) \in State
BY HeadTailProperties DEF Popped, Taken

LEMMA FrameType ==
  ASSUME m_state_cache \in [Session -> Seq(State)], NEW P \in SUBSET Session,
         \A p \in P : m_state_cache[p] # <<>>
  PROVE  CalculateFrame(P) \in Frame
<1>1. ASSUME NEW s \in Session
      PROVE  (IF s \in P THEN Taken(m_state_cache[s]) ELSE 0) \in 0 .. MaxPkgs
  BY PoppedType, SspAssumption DEF State
<1> QED BY <1>1 DEF CalculateFrame, Frame

(* A lobby command only ever lengthens an outbox. *)
LEMMA OutboxGrows ==
  ASSUME LobbyTypeOK, [LobbyNext]_lobbyVars, NEW s \in Session
  PROVE  Len(outbox'[s]) >= Len(outbox[s])
<1>0. outbox[s] \in Seq(Ntf) /\ Len(outbox[s]) \in Nat
  BY DEF LobbyTypeOK
<1>1. ASSUME NEW rid \in RoomArgs, StartGame(rid)
      PROVE  Len(outbox'[s]) >= Len(outbox[s])
  <2>1. CASE MayStart(rid)
    <3>1. SendStartGameNtfToAll(m_g_game_id, m_room_map[rid].m_player_list)
      BY <1>1, <2>1 DEF StartGame
    <3>2. \/ outbox'[s] = outbox[s]
          \/ \E m : outbox'[s] = Append(outbox[s], m)
      BY <3>1 DEF SendStartGameNtfToAll
    <3>3. \A m : Len(Append(outbox[s], m)) = Len(outbox[s]) + 1
      BY <1>0
    <3> QED BY <1>0, <3>2, <3>3
  <2>2. CASE ~MayStart(rid)
    BY <1>0, <1>1, <2>2 DEF StartGame, lobbyVars
  <2> QED BY <2>1, <2>2
<1>2. CASE outbox' = outbox
  BY <1>0, <1>2
<1>3. ASSUME NEW t \in Session, NEW n \in PlayerNums, CreateRoom(t, n)
      PROVE  outbox' = outbox
  BY <1>3 DEF CreateRoom, lobbyVars
<1>4. ASSUME NEW t \in Session, NEW rid \in RoomArgs, JoinRoom(t, rid)
      PROVE  outbox' = outbox
  BY <1>4 DEF JoinRoom, lobbyVars
<1> QED BY <1>1, <1>2, <1>3, <1>4 DEF LobbyNext, lobbyVars

LEMMA GamesKept == LobbyTypeOK /\ [LobbyNext]_lobbyVars => Games \subseteq Games'
BY GamesStepOfNext DEF GamesStep, Games

LEMMA SspInitType == Init => SspTypeOK
<1> SUFFICES ASSUME Init PROVE SspTypeOK
  OBVIOUS
<1>1. LobbyTypeOK
  BY LobbyInitType DEF Init
<1> QED BY <1>1, SspAssumption DEF Init, SspTypeOK, LobbyInit, Games

LEMMA LobbyCommandType == SspTypeOK /\ LobbyCommand => SspTypeOK'
<1> SUFFICES ASSUME SspTypeOK, LobbyCommand PROVE SspTypeOK'
  OBVIOUS
<1>1. LobbyTypeOK'
  BY LobbyNextType DEF SspTypeOK, LobbyCommand
<1>2. writing' \in [Session -> Nat]
  <2>1. ASSUME NEW s \in Session
        PROVE  writing[s] + (Len(outbox'[s]) - Len(outbox[s])) \in Nat
    <3>1. Len(outbox'[s]) >= Len(outbox[s])
      BY OutboxGrows DEF SspTypeOK, LobbyCommand
    <3>2. /\ Len(outbox[s]) \in Nat /\ Len(outbox'[s]) \in Nat
          /\ writing[s] \in Nat
      BY <1>1 DEF SspTypeOK, LobbyTypeOK
    <3>3. \A a, b, c \in Nat : b >= c => a + (b - c) \in Nat
      OBVIOUS
    <3> QED BY <3>1, <3>2, <3>3
  <2> QED BY <2>1 DEF LobbyCommand
<1>3. feed' \in [Games' -> Seq(Frame)]
  BY DEF LobbyCommand, SspTypeOK, Games
<1>4. todo' \subseteq Games'
  BY DEF LobbyCommand, ThenTick, Games
<1> QED BY <1>1, <1>2, <1>3, <1>4 DEF SspTypeOK, LobbyCommand

LEMMA UpdateType ==
  ASSUME SspTypeOK, NEW s \in Session, SspHandleStatePkg(s)
  PROVE  SspTypeOK'
<1>1. /\ received' = [received EXCEPT ![s] = received[s] + 1]
      /\ m_state_cache' = [m_state_cache EXCEPT ![s] =
                             Push(m_state_cache[s], received[s] + 1)]
      /\ received[s] < MaxPkgs
      /\ UNCHANGED <<lobbyVars, writing, feed>>
      /\ todo' = DOMAIN m_game_map'
  BY DEF SspHandleStatePkg, ThenTick
<1>2. received[s] + 1 \in State /\ received' \in [Session -> 0 .. MaxPkgs]
  BY <1>1, SspAssumption DEF SspTypeOK, State
<1>3. /\ Push(m_state_cache[s], received[s] + 1) \in Seq(State)
      /\ Len(Push(m_state_cache[s], received[s] + 1)) <= Cap
  BY <1>2, PushType DEF SspTypeOK
<1>4. /\ m_state_cache' \in [Session -> Seq(State)]
      /\ \A t \in Session : Len(m_state_cache'[t]) <= Cap
  BY <1>1, <1>3 DEF SspTypeOK
<1>5. LobbyTypeOK' /\ Games' = Games
  BY <1>1 DEF SspTypeOK, LobbyTypeOK, lobbyVars, Rooms, Games
<1> QED BY <1>1, <1>2, <1>4, <1>5 DEF SspTypeOK, Games

LEMMA GameWriteDoneType ==
  ASSUME SspTypeOK, NEW s \in Session, GameWriteDone(s)
  PROVE  SspTypeOK'
<1>1. LobbyTypeOK' /\ Games' = Games
  BY DEF GameWriteDone, SspTypeOK, LobbyTypeOK, lobbyVars, Rooms, Games
<1>2. writing' \in [Session -> Nat]
  BY DEF GameWriteDone, SspTypeOK
<1> QED BY <1>1, <1>2 DEF GameWriteDone, ThenTick, SspTypeOK, Games

LEMMA OtherHandlerType == SspTypeOK /\ OtherHandler => SspTypeOK'
<1> SUFFICES ASSUME SspTypeOK, OtherHandler PROVE SspTypeOK'
  OBVIOUS
<1>1. LobbyTypeOK' /\ Games' = Games
  BY DEF OtherHandler, SspTypeOK, LobbyTypeOK, lobbyVars, Rooms, Games
<1> QED BY <1>1 DEF OtherHandler, ThenTick, SspTypeOK, Games

-----------------------------------------------------------------------------
(* One game's tick *)
LEMMA PlayersAreSessions ==
  ASSUME LobbyTypeOK, NEW g \in Games
  PROVE  Players(g) \subseteq Session
<1>1. m_game_map[g].m_rid \in Rooms
  BY DEF LobbyTypeOK, Games
<1>2. PlayerList(g) \in Seq(Session)
  BY <1>1 DEF PlayerList, LobbyTypeOK, Rooms, RoomType
<1> QED BY <1>2 DEF Players, PlayersOf

LEMMA FrameTickCaches ==
  ASSUME SspTypeOK, NEW g \in Games, FrameTick(g)
  PROVE  /\ m_state_cache' \in [Session -> Seq(State)]
         /\ \A s \in Session : Len(m_state_cache'[s]) <= Len(m_state_cache[s])
         /\ \A p \in Players(g) : Len(m_state_cache'[p]) < Cap
<1> DEFINE C == Contributors(Players(g))
<1>1. m_state_cache' = [s \in Session |-> IF s \in C THEN Popped(m_state_cache[s])
                                                     ELSE m_state_cache[s]]
  BY DEF FrameTick
<1>2. ASSUME NEW s \in Session
      PROVE  /\ m_state_cache[s] \in Seq(State)
             /\ Len(m_state_cache[s]) \in Nat /\ Len(m_state_cache[s]) <= Cap
             /\ s \in C <=> s \in Players(g) /\ m_state_cache[s] # <<>>
  BY DEF SspTypeOK, Contributors
<1>3. ASSUME NEW s \in Session
      PROVE  /\ m_state_cache'[s] \in Seq(State)
             /\ Len(m_state_cache'[s]) <= Len(m_state_cache[s])
             /\ s \in Players(g) => Len(m_state_cache'[s]) < Cap
  <2>1. CASE s \in C
    <3>1. m_state_cache'[s] = Popped(m_state_cache[s]) /\ m_state_cache[s] # <<>>
      BY <1>1, <1>2, <2>1
    <3> QED BY <1>2, <3>1, PoppedType, SspAssumption
  <2>2. CASE s \notin C
    <3>1. m_state_cache'[s] = m_state_cache[s]
      BY <1>1, <2>2
    <3>2. s \in Players(g) => Len(m_state_cache[s]) = 0
      BY <1>2, <2>2
    <3> QED BY <1>2, <3>1, <3>2, SspAssumption
  <2> QED BY <2>1, <2>2
<1>4. Players(g) \subseteq Session
  BY PlayersAreSessions DEF SspTypeOK
<1> QED BY <1>1, <1>3, <1>4

LEMMA FrameTickType ==
  ASSUME SspTypeOK, NEW g \in Games, FrameTick(g)
  PROVE  SspTypeOK'
<1> DEFINE C == Contributors(Players(g))
           F == CalculateFrame(C)
           buf == AddState(m_game_map[g].m_state_buf, F)
           R == IF buf = <<>> THEN {} ELSE Recipients(Players(g))
<1>1. /\ outbox' = [s \in Session |-> IF s \in R THEN Append(outbox[s], StateNtf(g, buf))
                                                 ELSE outbox[s]]
      /\ writing' = [s \in Session |-> IF s \in R THEN writing[s] + 1 ELSE writing[s]]
      /\ feed' = [feed EXCEPT ![g] = feed[g] \o buf]
      /\ m_game_map' = [m_game_map EXCEPT ![g].m_state_buf = <<>>]
      /\ todo' = todo \ {g}
      /\ UNCHANGED <<m_room_map, g_room_id, m_g_game_id, m_rid, received>>
  BY DEF FrameTick, ClearState
<1>2. buf \in Seq(Frame)
  <2>1. C \in SUBSET Session /\ \A p \in C : m_state_cache[p] # <<>>
    BY PlayersAreSessions DEF Contributors, SspTypeOK
  <2>2. F \in Frame
    BY <2>1, FrameType DEF SspTypeOK
  <2>3. m_game_map[g].m_state_buf = <<>>
    BY DEF SspTypeOK, LobbyTypeOK, Games
  <2> QED BY <2>2, <2>3, AppendProperties DEF AddState
<1>3. StateNtf(g, buf) \in Ntf
  <2>1. Frame \subseteq [Session -> Nat]
    BY SspAssumption DEF Frame
  <2>2. buf \in Seq([Session -> Nat])
    BY <1>2, <2>1, SeqMonotonic
  <2>3. g \in Nat
    BY DEF SspTypeOK, LobbyTypeOK, Games
  <2> QED BY <2>2, <2>3 DEF StateNtf, Ntf
<1>4. outbox' \in [Session -> Seq(Ntf)]
  BY <1>1, <1>3, AppendProperties DEF SspTypeOK, LobbyTypeOK
<1>5. writing' \in [Session -> Nat]
  BY <1>1 DEF SspTypeOK
<1>6. /\ m_game_map' \in [1 .. m_g_game_id' - 1 -> [m_rid : Rooms', m_state_buf : {<<>>}]]
      /\ Games' = Games /\ Rooms' = Rooms
  BY <1>1 DEF SspTypeOK, LobbyTypeOK, Games, Rooms
<1>7. LobbyTypeOK'
  BY <1>1, <1>4, <1>6 DEF SspTypeOK, LobbyTypeOK
<1>8. feed' \in [Games' -> Seq(Frame)]
  BY <1>1, <1>2, <1>6, ConcatProperties DEF SspTypeOK
<1>9. todo' \subseteq Games'
  BY <1>1, <1>6 DEF SspTypeOK
<1>10. /\ m_state_cache' \in [Session -> Seq(State)]
       /\ \A s \in Session : Len(m_state_cache'[s]) <= Cap
  <2>1. ASSUME NEW s \in Session
        PROVE  /\ Len(m_state_cache'[s]) <= Len(m_state_cache[s])
               /\ Len(m_state_cache[s]) <= Cap
               /\ Len(m_state_cache[s]) \in Nat /\ Len(m_state_cache'[s]) \in Nat
    BY FrameTickCaches DEF SspTypeOK
  <2> QED BY <2>1, FrameTickCaches, SspAssumption
<1> QED BY <1>1, <1>5, <1>7, <1>8, <1>9, <1>10 DEF SspTypeOK

LEMMA SspStutterType == SspTypeOK /\ UNCHANGED vars => SspTypeOK'
BY DEF vars, lobbyVars, sspVars, SspTypeOK, LobbyTypeOK, Rooms, Games

LEMMA SspNextType == SspTypeOK /\ [Next]_vars => SspTypeOK'
BY LobbyCommandType, UpdateType, GameWriteDoneType, OtherHandlerType,
   FrameTickType, SspStutterType DEF Next

(* Caches, counters, buffers and messages keep their types and bounds. *)
THEOREM SspTypeInvariant == Spec => []SspTypeOK
BY SspInitType, SspNextType, PTL DEF Spec

-----------------------------------------------------------------------------
(* A free slot for every player *)

(* The players of an old game after a lobby command are still players. *)
LEMMA RoomForNextStep ==
  ASSUME SspTypeOK, SspTypeOK', RoomForNext, [Next]_vars
  PROVE  RoomForNext'
<1>1. ASSUME ThenTick PROVE RoomForNext'
  BY <1>1 DEF ThenTick, RoomForNext, Games
<1>2. ASSUME NEW g \in Games, FrameTick(g) PROVE RoomForNext'
  <2>1. /\ todo' = todo \ {g}
        /\ m_room_map' = m_room_map
        /\ \E b : m_game_map' = [m_game_map EXCEPT ![g].m_state_buf = b]
    BY <1>2 DEF FrameTick
  <2>2. /\ Games' = Games
        /\ \A h \in Games : m_game_map'[h].m_rid = m_game_map[h].m_rid
    BY <2>1 DEF SspTypeOK, LobbyTypeOK, Games
  <2>3. \A h \in Games : Players(h)' = Players(h)
    BY <2>1, <2>2 DEF Players, PlayerList
  <2>4. ASSUME NEW h \in Games, NEW p \in Players(h)
        PROVE  h \in todo' \/ Len(m_state_cache'[p]) < Cap
    <3>1. CASE h = g
      BY <1>2, <2>4, <3>1, FrameTickCaches
    <3>2. CASE h # g
      <4>1. p \in Session
        BY <2>4, PlayersAreSessions DEF SspTypeOK
      <4>2. /\ Len(m_state_cache'[p]) <= Len(m_state_cache[p])
            /\ Len(m_state_cache'[p]) \in Nat /\ Len(m_state_cache[p]) \in Nat
        BY <1>2, <4>1, FrameTickCaches DEF SspTypeOK
      <4>3. h \in todo \/ Len(m_state_cache[p]) < Cap
        BY <2>4 DEF RoomForNext
      <4> QED BY <2>1, <3>2, <4>2, <4>3, SspAssumption
    <3> QED BY <3>1, <3>2
  <2> QED BY <2>2, <2>3, <2>4 DEF RoomForNext
<1>3. CASE UNCHANGED vars
  BY <1>3 DEF vars, lobbyVars, sspVars, RoomForNext, Games, Players, PlayerList
<1> QED BY <1>1, <1>2, <1>3
        DEF Next, LobbyCommand, SspHandleStatePkg, GameWriteDone, OtherHandler

LEMMA RoomForNextInit == Init => RoomForNext
BY DEF Init, LobbyInit, RoomForNext, Games

(* Whenever the loop waits, every player's cache has a free slot. *)
THEOREM PlayersHaveRoom == Spec => []RoomForNext
<1>1. SspTypeOK /\ SspTypeOK' /\ RoomForNext /\ [Next]_vars => RoomForNext'
  BY RoomForNextStep
<1> QED BY <1>1, RoomForNextInit, SspTypeInvariant, PTL DEF Spec

(* So the push whose result the code ignores cannot fail in a game. *)
THEOREM NoStateDropped == Spec => NoDropWhilePlaying
<1>1. SspTypeOK /\ RoomForNext /\ [Next]_vars =>
        [\A s \in Session :
           Playing(s) /\ received'[s] # received[s] =>
             Len(m_state_cache'[s]) = Len(m_state_cache[s]) + 1]_vars
  <2> SUFFICES ASSUME SspTypeOK, RoomForNext, Next,
                      NEW s \in Session, Playing(s), received'[s] # received[s]
               PROVE  Len(m_state_cache'[s]) = Len(m_state_cache[s]) + 1
    OBVIOUS
  <2>1. SspHandleStatePkg(s)
    <3>1. ASSUME NEW t \in Session, SspHandleStatePkg(t) PROVE t = s
      BY <3>1 DEF SspHandleStatePkg, SspTypeOK
    <3> QED BY <3>1 DEF Next, LobbyCommand, GameWriteDone, OtherHandler, FrameTick
  <2>2. PICK g \in Games : s \in Players(g)
    BY DEF Playing
  <2>3. Len(m_state_cache[s]) < Cap
    BY <2>1, <2>2 DEF RoomForNext, SspHandleStatePkg, AtLoopHead
  <2>4. m_state_cache'[s] = Push(m_state_cache[s], received[s] + 1)
    BY <2>1 DEF SspHandleStatePkg, SspTypeOK
  <2>5. m_state_cache[s] \in Seq(State)
    BY DEF SspTypeOK
  <2> QED BY <2>3, <2>4, <2>5 DEF Push
<1> QED BY <1>1, SspTypeInvariant, PlayersHaveRoom, PTL DEF Spec, NoDropWhilePlaying

-----------------------------------------------------------------------------
(* The loop implements the abstract relay. *)
LEMMA AppendToFunction ==
  ASSUME NEW S, NEW n \in Nat, NEW f \in [1 .. n -> S], NEW e \in S,
         NEW h, DOMAIN h = 1 .. n + 1, h = [i \in DOMAIN h |-> h[i]],
         \A i \in 1 .. n : h[i] = f[i], h[n + 1] = e
  PROVE  h = Append(f, e)
<1>1. f \in Seq(S) /\ h \in Seq(S)
  BY SeqDef
<1>2. Len(f) = n /\ Len(h) = n + 1
  BY <1>1, LenProperties
<1>3. \A i \in 1 .. n + 1 : h[i] = Append(f, e)[i]
  BY <1>1, <1>2, AppendProperties
<1>4. Append(f, e) \in Seq(S) /\ Len(Append(f, e)) = n + 1
  BY <1>1, <1>2, AppendProperties
<1>5. \A a, b \in Seq(S) :
        Len(a) = Len(b) /\ (\A i \in 1 .. Len(a) : a[i] = b[i]) => a = b
  BY SeqEqual
<1> QED BY <1>1, <1>2, <1>3, <1>4, <1>5

LEMMA LobbyCommandRelays ==
  ASSUME SspTypeOK, LobbyCommand
  PROVE  Relay!Open \/ UNCHANGED Relay!vars
<1>1. /\ m_state_cache' = m_state_cache
      /\ feed' = [g \in Games' |-> IF g \in Games THEN feed[g] ELSE <<>>]
  BY DEF LobbyCommand, Games
<1>2. /\ m_g_game_id \in Nat \ {0} /\ Games = 1 .. m_g_game_id - 1
      /\ feed \in [Games -> Seq(Frame)]
  BY DEF SspTypeOK, LobbyTypeOK, Games
<1>3. GamesStep
  BY GamesStepOfNext DEF SspTypeOK, LobbyCommand
<1>4. CASE m_game_map' = m_game_map
  <2>1. feed' = feed
    BY <1>1, <1>2, <1>4 DEF Games
  <2> QED BY <1>1, <2>1 DEF Relay!vars
<1>5. CASE Games' = Games \union {m_g_game_id}
  <2>1. Games' = 1 .. m_g_game_id
    BY <1>2, <1>5
  <2> DEFINE n == m_g_game_id - 1
  <2>2. n \in Nat /\ feed \in [1 .. n -> Seq(Frame)] /\ <<>> \in Seq(Frame)
    BY <1>2
  <2>3. /\ DOMAIN feed' = 1 .. n + 1 /\ feed' = [g \in DOMAIN feed' |-> feed'[g]]
        /\ \A i \in 1 .. n : feed'[i] = feed[i]
        /\ feed'[n + 1] = <<>>
    BY <1>1, <1>2, <2>1
  <2>4. feed' = Append(feed, <<>>)
    <3> HIDE DEF n
    <3> QED BY <2>2, <2>3, AppendToFunction
  <2> QED BY <1>1, <2>4 DEF Relay!Open
<1> QED BY <1>3, <1>4, <1>5 DEF GamesStep

LEMMA UpdateRelays ==
  ASSUME SspTypeOK, NEW s \in Session, SspHandleStatePkg(s)
  PROVE  (\E x \in State : Relay!Accept(s, x)) \/ UNCHANGED Relay!vars
<1>1. /\ m_state_cache' = [m_state_cache EXCEPT ![s] =
                             Push(m_state_cache[s], received[s] + 1)]
      /\ received[s] + 1 \in State
      /\ feed' = feed
  BY SspAssumption DEF SspHandleStatePkg, SspTypeOK, State
<1>2. CASE Len(m_state_cache[s]) < Cap
  BY <1>1, <1>2 DEF Relay!Accept, Push
<1>3. CASE ~(Len(m_state_cache[s]) < Cap)
  BY <1>1, <1>3 DEF Relay!vars, Push, SspTypeOK
<1> QED BY <1>2, <1>3

LEMMA FrameTickRelays ==
  ASSUME SspTypeOK, NEW g \in Games, FrameTick(g)
  PROVE  \/ \E players \in SUBSET Session : Relay!Publish(g, players)
         \/ UNCHANGED Relay!vars
<1> DEFINE C == Contributors(Players(g))
           F == CalculateFrame(C)
           buf == AddState(m_game_map[g].m_state_buf, F)
<1>1. /\ m_state_cache' = [s \in Session |-> IF s \in C THEN Popped(m_state_cache[s])
                                                     ELSE m_state_cache[s]]
      /\ feed' = [feed EXCEPT ![g] = feed[g] \o buf]
  BY DEF FrameTick
<1>2. m_game_map[g].m_state_buf = <<>>
  BY DEF SspTypeOK, LobbyTypeOK, Games
<1>3. /\ C \in SUBSET Session /\ \A p \in C : m_state_cache[p] # <<>>
      /\ m_state_cache \in [Session -> Seq(State)]
      /\ feed \in [Games -> Seq(Frame)]
  BY PlayersAreSessions DEF Contributors, SspTypeOK
<1>4. F = [s \in Session |-> IF s \in C THEN Head(m_state_cache[s]) ELSE 0] /\ F \in Frame
  BY <1>3, FrameType DEF CalculateFrame, Taken
<1>5. CASE C = {}
  <2>1. buf = <<>>
    BY <1>2, <1>4, <1>5 DEF AddState, IsEmptyState
  <2>2. feed[g] \o <<>> = feed[g]
    BY <1>3, ConcatEmptySeq
  <2>3. feed' = feed /\ m_state_cache' = m_state_cache
    BY <1>1, <1>3, <1>5, <2>1, <2>2
  <2> QED BY <2>3 DEF Relay!vars
<1>6. CASE C # {}
  <2>1. PICK p \in C : F[p] \in State
    BY <1>3, <1>4, <1>6, PoppedType DEF Taken
  <2>2. F[p] # 0
    BY <2>1 DEF State
  <2>3. buf = <<F>>
    BY <1>2, <1>3, <2>1, <2>2 DEF AddState, IsEmptyState
  <2>4. feed[g] \o <<F>> = Append(feed[g], F)
    BY <1>3, <1>4, AppendIsConcat
  <2>5. feed' = [feed EXCEPT ![g] = Append(feed[g], F)]
    BY <1>1, <2>3, <2>4
  <2>6. Relay!Publish(g, C)
    BY <1>1, <1>3, <1>4, <1>6, <2>5 DEF Relay!Publish, Popped
  <2> QED BY <1>3, <2>6
<1> QED BY <1>5, <1>6

(* Every accepted state is published at most once, in the order of its     *)
(* player, in frames of the oldest states: Ssp refines StateRelay.         *)
THEOREM SspImplementsRelay == Spec => RelaySpec
<1>1. Init => Relay!Init
  BY DEF Init, LobbyInit, Relay!Init
<1>2. SspTypeOK /\ [Next]_vars => [Relay!Next]_(Relay!vars)
  <2> SUFFICES ASSUME SspTypeOK, [Next]_vars
               PROVE  Relay!Next \/ UNCHANGED Relay!vars
    OBVIOUS
  <2>1. CASE LobbyCommand
    BY <2>1, LobbyCommandRelays DEF Relay!Next
  <2>2. ASSUME NEW s \in Session, SspHandleStatePkg(s)
        PROVE  Relay!Next \/ UNCHANGED Relay!vars
    BY <2>2, UpdateRelays DEF Relay!Next
  <2>3. ASSUME NEW s \in Session, GameWriteDone(s) PROVE UNCHANGED Relay!vars
    BY <2>3 DEF GameWriteDone, Relay!vars
  <2>4. CASE OtherHandler
    BY <2>4 DEF OtherHandler, Relay!vars
  <2>5. ASSUME NEW g \in Games, FrameTick(g)
        PROVE  Relay!Next \/ UNCHANGED Relay!vars
    <3>1. g \in DOMAIN feed
      BY DEF SspTypeOK
    <3> QED BY <2>5, <3>1, FrameTickRelays DEF Relay!Next
  <2>6. CASE UNCHANGED vars
    BY <2>6 DEF vars, sspVars, Relay!vars
  <2> QED BY <2>1, <2>2, <2>3, <2>4, <2>5, <2>6 DEF Next
<1> QED BY <1>1, <1>2, SspTypeInvariant, PTL DEF Spec, RelaySpec, Relay!Spec

-----------------------------------------------------------------------------
(* What a client sees of one game: box is what was sent to it, f the feed  *)
(* of the game g, player whether it plays. *)
FramesIn(box, g) == {k \in DOMAIN box : box[k].type = "STATE" /\ box[k].gid = g}
Rank(k, got) == Cardinality({j \in got : j <= k})
Missed(box, g, f) == Len(f) - Cardinality(FramesIn(box, g))

Fed(box, g, f, player) ==
  /\ player \/ (FramesIn(box, g) = {} /\ ToldIn(box, g) = {})
  /\ Missed(box, g, f) >= 0
  /\ \A k \in FramesIn(box, g) :
       box[k].frames = <<f[Missed(box, g, f) + Rank(k, FramesIn(box, g))]>>
  /\ ToldIn(box, g) # {} =>
       /\ Missed(box, g, f) = 0
       /\ \A k \in FramesIn(box, g) : \E j \in ToldIn(box, g) : j < k

LEMMA FramesFinite ==
  ASSUME NEW box \in Seq(Ntf), NEW g
  PROVE  /\ IsFiniteSet(FramesIn(box, g)) /\ Cardinality(FramesIn(box, g)) \in Nat
         /\ FramesIn(box, g) \subseteq 1 .. Len(box) /\ Len(box) \in Nat
         /\ ToldIn(box, g) \subseteq 1 .. Len(box)
         /\ \A k : Rank(k, FramesIn(box, g)) \in Nat
<1>1. Len(box) \in Nat /\ DOMAIN box = 1 .. Len(box)
  BY LenProperties
<1>2. FramesIn(box, g) \subseteq 1 .. Len(box) /\ ToldIn(box, g) \subseteq 1 .. Len(box)
  BY <1>1 DEF FramesIn, ToldIn
<1>3. IsFiniteSet(1 .. Len(box))
  BY <1>1, FS_Interval
<1>4. IsFiniteSet(FramesIn(box, g))
  BY <1>2, <1>3, FS_Subset
<1>5. ASSUME NEW k PROVE Rank(k, FramesIn(box, g)) \in Nat
  <2>1. {j \in FramesIn(box, g) : j <= k} \in SUBSET FramesIn(box, g)
    OBVIOUS
  <2>2. IsFiniteSet({j \in FramesIn(box, g) : j <= k})
    BY <1>4, <2>1, FS_Subset
  <2> QED BY <2>2, FS_CardinalityType DEF Rank
<1> QED BY <1>1, <1>2, <1>4, <1>5, FS_CardinalityType

LEMMA FramesAppended ==
  ASSUME NEW box \in Seq(Ntf), NEW m \in Ntf, NEW g
  PROVE  FramesIn(Append(box, m), g) =
           FramesIn(box, g) \union
             (IF m.type = "STATE" /\ m.gid = g THEN {Len(box) + 1} ELSE {})
<1> DEFINE longer == Append(box, m)
<1>1. /\ DOMAIN longer = DOMAIN box \union {Len(box) + 1}
      /\ \A k \in DOMAIN box : longer[k] = box[k]
      /\ longer[Len(box) + 1] = m
      /\ Len(box) + 1 \notin DOMAIN box
  BY ToldAppended, LenProperties
<1> HIDE DEF longer
<1>2. FramesIn(longer, g) =
        FramesIn(box, g) \union
          (IF m.type = "STATE" /\ m.gid = g THEN {Len(box) + 1} ELSE {})
  BY <1>1 DEF FramesIn
<1> QED BY <1>2 DEF longer

LEMMA ToldUntouched ==
  ASSUME NEW box \in Seq(Ntf), NEW m \in Ntf, NEW g, ~(m.type = "STARTGAME" /\ m.gid = g)
  PROVE  ToldIn(Append(box, m), g) = ToldIn(box, g)
<1>1. ToldIn(Append(box, m), g) =
        ToldIn(box, g) \union
          (IF m.type = "STARTGAME" /\ m.gid = g THEN {Len(box) + 1} ELSE {})
  BY ToldAppended
<1> QED BY <1>1

(* A message about another game changes nothing. *)
LEMMA FedOther ==
  ASSUME NEW box \in Seq(Ntf), NEW m \in Ntf, NEW g, NEW f, NEW player, m.gid # g,
         Fed(box, g, f, player)
  PROVE  Fed(Append(box, m), g, f, player)
<1> DEFINE longer == Append(box, m)
<1>1. FramesIn(longer, g) = FramesIn(box, g)
  <2>1. FramesIn(longer, g) =
          FramesIn(box, g) \union
            (IF m.type = "STATE" /\ m.gid = g THEN {Len(box) + 1} ELSE {})
    BY FramesAppended
  <2> QED BY <2>1
<1>2. ToldIn(longer, g) = ToldIn(box, g)
  BY ToldUntouched
<1>3. \A k \in FramesIn(box, g) : longer[k] = box[k]
  BY ToldAppended DEF FramesIn
<1> HIDE DEF longer
<1>4. Missed(longer, g, f) = Missed(box, g, f)
  BY <1>1 DEF Missed
<1>5. Fed(longer, g, f, player)
  BY <1>1, <1>2, <1>3, <1>4 DEF Fed
<1> QED BY <1>5 DEF longer

(* A player is sent the next frame of its game. *)
LEMMA FedNext ==
  ASSUME NEW box \in Seq(Ntf), NEW g, NEW f \in Seq(Frame), NEW F \in Frame,
         NEW m \in Ntf, m.type = "STATE", m.gid = g, m.frames = <<F>>,
         Fed(box, g, f, TRUE)
  PROVE  Fed(Append(box, m), g, Append(f, F), TRUE)
<1>0. ToldIn(Append(box, m), g) = ToldIn(box, g)
  <2>1. ~(m.type = "STARTGAME" /\ m.gid = g)
    OBVIOUS
  <2> QED BY <2>1, ToldUntouched
<1> DEFINE longer == Append(box, m)
           more == Append(f, F)
           got == FramesIn(box, g)
           all == FramesIn(longer, g)
           top == Len(box) + 1
<1>1. /\ Len(f) \in Nat /\ Len(more) = Len(f) + 1
      /\ \A i \in 1 .. Len(f) : more[i] = f[i]
      /\ more[Len(f) + 1] = F
  BY AppendProperties, LenProperties
<1>2. /\ \A k \in got : longer[k] = box[k]
      /\ longer[top] = m
  BY ToldAppended DEF FramesIn
<1>3. ToldIn(longer, g) = ToldIn(box, g)
  BY <1>0
<1>4. all = got \union {top}
  BY FramesAppended
<1>5. /\ IsFiniteSet(got) /\ Cardinality(got) \in Nat
      /\ Len(box) \in Nat /\ got \subseteq 1 .. Len(box)
      /\ ToldIn(box, g) \subseteq 1 .. Len(box)
      /\ \A k : Rank(k, got) \in Nat
  BY FramesFinite
<1> HIDE DEF longer, more, got, all
<1>6. top \notin got /\ \A k \in got : k <= top /\ ~(top <= k)
  BY <1>5
<1>7. Cardinality(all) = Cardinality(got) + 1
  BY <1>4, <1>5, <1>6, FS_AddElement
<1>8. Missed(longer, g, more) = Missed(box, g, f) /\ Missed(box, g, f) = Len(f) - Cardinality(got)
  BY <1>1, <1>5, <1>7 DEF Missed, got, all
<1>9. ASSUME NEW k \in got PROVE Rank(k, all) = Rank(k, got) /\ Rank(k, got) <= Cardinality(got)
                                 /\ Rank(k, got) >= 1
  <2>1. {j \in all : j <= k} = {j \in got : j <= k}
    BY <1>4, <1>6
  <2>2. {j \in got : j <= k} \in SUBSET got
    OBVIOUS
  <2>3. IsFiniteSet({j \in got : j <= k}) /\ Rank(k, got) <= Cardinality(got)
    BY <2>2, <1>5, FS_Subset DEF Rank
  <2>4. k \in {j \in got : j <= k}
    BY <1>5
  <2>5. Cardinality({j \in got : j <= k}) # 0
    BY <2>3, <2>4, FS_EmptySet
  <2>6. Rank(k, got) \in Nat /\ Rank(k, got) # 0
    BY <2>5, <1>5 DEF Rank
  <2>7. Rank(k, all) = Rank(k, got)
    BY <2>1 DEF Rank
  <2> QED BY <2>3, <2>6, <2>7
<1>10. Rank(top, all) = Cardinality(got) + 1
  <2>0. \A j \in all : j <= top
    BY <1>4, <1>5
  <2> HIDE DEF top
  <2>1. {j \in all : j <= top} = all
    BY <2>0
  <2> QED BY <2>1, <1>7 DEF Rank
<1>11. Missed(box, g, f) >= 0 /\ Missed(box, g, f) \in Int
  BY <1>1, <1>5, <1>8 DEF Fed
<1>12. ASSUME NEW k \in all
       PROVE  longer[k].frames = <<more[Missed(longer, g, more) + Rank(k, all)]>>
  <2>1. CASE k \in got
    <3>1. box[k].frames = <<f[Missed(box, g, f) + Rank(k, got)]>>
      BY <2>1 DEF Fed, got
    <3>2. Missed(box, g, f) + Rank(k, got) \in 1 .. Len(f)
      BY <2>1, <1>1, <1>5, <1>8, <1>9, <1>11
    <3> QED BY <2>1, <3>1, <3>2, <1>1, <1>2, <1>8, <1>9
  <2>2. CASE k = top
    <3>1. Missed(longer, g, more) + Rank(k, all) = Len(f) + 1
      BY <2>2, <1>1, <1>5, <1>8, <1>10
    <3> QED BY <2>2, <3>1, <1>1, <1>2
  <2> QED BY <2>1, <2>2, <1>4
<1>13. ASSUME ToldIn(longer, g) # {}
       PROVE  /\ Missed(longer, g, more) = 0
              /\ \A k \in all : \E j \in ToldIn(longer, g) : j < k
  <2>1. /\ Missed(box, g, f) = 0
        /\ \A k \in got : \E j \in ToldIn(box, g) : j < k
    BY <1>3, <1>13 DEF Fed, got
  <2>2. PICK j \in ToldIn(box, g) : TRUE
    BY <1>3, <1>13
  <2>3. j < top
    BY <2>2, <1>5
  <2> QED BY <2>1, <2>2, <2>3, <1>3, <1>4, <1>8
<1>14. Fed(longer, g, more, TRUE)
  BY <1>8, <1>11, <1>12, <1>13 DEF Fed, all
<1> QED BY <1>14 DEF longer, more

(* Whoever does not play misses it. *)
LEMMA FedMisses ==
  ASSUME NEW box \in Seq(Ntf), NEW g, NEW f \in Seq(Frame), NEW F \in Frame,
         Fed(box, g, f, FALSE)
  PROVE  Fed(box, g, Append(f, F), FALSE)
<1>1. FramesIn(box, g) = {} /\ ToldIn(box, g) = {}
  BY DEF Fed
<1>2. Cardinality(FramesIn(box, g)) = 0
  BY <1>1, FS_EmptySet
<1>3. Len(f) \in Nat /\ Len(Append(f, F)) = Len(f) + 1
  BY AppendProperties, LenProperties
<1> QED BY <1>1, <1>2, <1>3 DEF Fed, Missed

LEMMA SameFeedParts ==
  SameFeed <=> \A g \in Games, s \in Session :
                 LET got == FramesIn(outbox[s], g)
                     missed == Missed(outbox[s], g, feed[g])
                 IN  /\ s \in Players(g) \/ got = {}
                     /\ missed >= 0
                     /\ \A k \in got : outbox[s][k].frames = <<feed[g][missed + Rank(k, got)]>>
                     /\ ToldIn(outbox[s], g) # {} =>
                          /\ missed = 0
                          /\ \A k \in got : \E j \in ToldIn(outbox[s], g) : j < k
BY DEF SameFeed, StateNtfsTo, Told, ToldIn, FramesIn, Missed, Rank

AllFed ==
  \A g \in Games, s \in Session : Fed(outbox[s], g, feed[g], s \in Players(g))

LEMMA AllFedSame == AllFed => SameFeed
BY SameFeedParts DEF AllFed, Fed

FeedInv == NtfsKnown /\ AllFed

(* Nothing that AllFed is about changes. *)
LEMMA FeedIdle ==
  ASSUME FeedInv, UNCHANGED <<lobbyVars, feed>>
  PROVE  FeedInv'
<1>1. /\ Games' = Games /\ outbox' = outbox /\ feed' = feed
      /\ \A g \in Games : Players(g)' = Players(g)
  BY DEF lobbyVars, Games, Players, PlayerList
<1> QED BY <1>1 DEF FeedInv, NtfsKnown, AllFed

(* Players stay players. *)
LEMMA PlayersGrow ==
  ASSUME LobbyTypeOK, LobbyTypeOK', RoomsStep, SentStep, NEW g \in Games
  PROVE  Players(g) \subseteq Players(g)'
<1>1. m_game_map'[g].m_rid = m_game_map[g].m_rid
  BY DEF SentStep, Started, Games
<1>2. m_game_map[g].m_rid \in Rooms
  BY ListIsSeq
<1> DEFINE r == m_game_map[g].m_rid
           L == m_room_map[r].m_player_list
           M == m_room_map'[r].m_player_list
<1>3. /\ r \in Rooms' /\ L \in Seq(Session) /\ M \in Seq(Session)
  BY <1>2 DEF RoomsStep, LobbyTypeOK, Rooms, RoomType
<1>4. Len(L) <= Len(M) /\ \A i \in DOMAIN L : M[i] = L[i]
  BY <1>2, SeatStep
<1>5. Players(g) = PlayersOf(L) /\ Players(g)' = PlayersOf(M)
  BY <1>1 DEF Players, PlayerList
<1> HIDE DEF L, M
<1>6. DOMAIN L \subseteq DOMAIN M
  BY <1>3, <1>4, LenProperties
<1> QED BY <1>4, <1>5, <1>6 DEF PlayersOf

LEMMA LobbyCommandFeeds ==
  ASSUME SspTypeOK, SspTypeOK', FeedInv, LobbyCommand
  PROVE  FeedInv'
<1>1. /\ LobbyTypeOK /\ LobbyTypeOK' /\ [LobbyNext]_lobbyVars
      /\ feed' = [g \in Games' |-> IF g \in Games THEN feed[g] ELSE <<>>]
  BY DEF LobbyCommand, SspTypeOK, Games
<1>2. RoomsStep /\ SentStep
  BY <1>1, RoomsStepOfNext, SentStepOfNext
<1>3. NtfsKnown'
  BY <1>1, <1>2, NtfsKnownStep DEF FeedInv
<1>4. ASSUME NEW g \in Games, NEW s \in Session
      PROVE  Fed(outbox'[s], g, feed[g], s \in Players(g)')
  <2>1. Fed(outbox[s], g, feed[g], s \in Players(g))
    BY DEF FeedInv, AllFed
  <2>2. Fed(outbox[s], g, feed[g], s \in Players(g)')
    <3>1. s \in Players(g) => s \in Players(g)'
      BY <1>1, <1>2, PlayersGrow
    <3> QED BY <2>1, <3>1 DEF Fed
  <2>3. CASE outbox'[s] = outbox[s]
    BY <2>2, <2>3
  <2>4. CASE outbox'[s] # outbox[s]
    <3>1. PICK rid \in Rooms : Started(rid)
      BY <1>2, <2>4 DEF SentStep
    <3> DEFINE L == m_room_map[rid].m_player_list
               ntf == StartNtf(m_g_game_id, L, SeatOf(L, s))
    <3>a. outbox'[s] = Append(outbox[s], ntf) /\ ntf \in Ntf
      BY <1>1, <2>4, <3>1, StartedBoxes
    <3>b. ntf.gid = m_g_game_id
      BY DEF StartNtf
    <3>2. PICK m \in Ntf : outbox'[s] = Append(outbox[s], m) /\ m.gid = m_g_game_id
      BY <3>a, <3>b
    <3>3. m.gid # g
      BY <3>1, <3>2 DEF Started
    <3>4. outbox[s] \in Seq(Ntf)
      BY <1>1 DEF LobbyTypeOK
    <3> QED BY <2>2, <3>2, <3>3, <3>4, FedOther
  <2> QED BY <2>3, <2>4
<1>5. ASSUME NEW g \in Games', g \notin Games, NEW s \in Session
      PROVE  Fed(outbox'[s], g, <<>>, s \in Players(g)')
  <2>1. PICK rid \in Rooms : Started(rid)
    BY <1>2, <1>5 DEF SentStep, Games
  <2> DEFINE L == m_room_map[rid].m_player_list
             ntf == StartNtf(m_g_game_id, L, SeatOf(L, s))
  <2>2. g = m_g_game_id /\ outbox[s] \in Seq(Ntf)
    BY <1>1, <1>5, <2>1 DEF Started, LobbyTypeOK
  <2>3. Players(g)' = PlayersOf(L)
    BY <2>1, <2>2 DEF Started, Players, PlayerList
  <2>4. FramesIn(outbox[s], g) = {} /\ ToldIn(outbox[s], g) = {}
    BY <1>5 DEF FeedInv, NtfsKnown, FramesIn, ToldIn
  <2>5. /\ FramesIn(outbox'[s], g) = {}
        /\ s \notin PlayersOf(L) => ToldIn(outbox'[s], g) = {}
    <3>1. CASE s \in PlayersOf(L)
      <4>1. outbox'[s] = Append(outbox[s], ntf) /\ ntf \in Ntf
        BY <1>1, <2>1, <3>1, StartedBoxes
      <4>2. ntf.type # "STATE"
        BY DEF StartNtf
      <4> HIDE DEF ntf
      <4>3. FramesIn(outbox'[s], g) =
              FramesIn(outbox[s], g) \union
                (IF ntf.type = "STATE" /\ ntf.gid = g THEN {Len(outbox[s]) + 1} ELSE {})
        BY <2>2, <4>1, FramesAppended
      <4> QED BY <2>4, <3>1, <4>2, <4>3
    <3>2. CASE s \notin PlayersOf(L)
      <4>1. outbox'[s] = outbox[s]
        BY <1>1, <2>1, <3>2, StartedBoxes
      <4> QED BY <2>4, <4>1
    <3> QED BY <3>1, <3>2
  <2> HIDE DEF L
  <2>6. Missed(outbox'[s], g, <<>>) = 0
    BY <2>5, FS_EmptySet DEF Missed
  <2> QED BY <2>3, <2>5, <2>6 DEF Fed
<1>6. AllFed'
  BY <1>1, <1>4, <1>5 DEF AllFed
<1> QED BY <1>3, <1>6 DEF FeedInv

LEMMA FrameTickFeeds ==
  ASSUME SspTypeOK, FeedInv, NEW g \in Games, FrameTick(g)
  PROVE  FeedInv'
<1> DEFINE C == Contributors(Players(g))
           F == CalculateFrame(C)
           buf == AddState(m_game_map[g].m_state_buf, F)
           R == IF buf = <<>> THEN {} ELSE Players(g)
           m == StateNtf(g, buf)
<1>1. /\ outbox' = [s \in Session |-> IF s \in R THEN Append(outbox[s], m) ELSE outbox[s]]
      /\ feed' = [feed EXCEPT ![g] = feed[g] \o buf]
      /\ m_game_map' = [m_game_map EXCEPT ![g].m_state_buf = <<>>]
      /\ m_room_map' = m_room_map
  BY DEF FrameTick, ClearState, Recipients
<1>2. Games' = Games /\ \A h \in Games : Players(h)' = Players(h)
  <2>1. /\ Games' = Games
        /\ \A h \in Games : m_game_map'[h].m_rid = m_game_map[h].m_rid
    BY <1>1 DEF SspTypeOK, LobbyTypeOK, Games
  <2> QED BY <1>1, <2>1 DEF Players, PlayerList
<1>3. /\ F \in Frame /\ feed \in [Games -> Seq(Frame)] /\ feed[g] \in Seq(Frame)
      /\ outbox \in [Session -> Seq(Ntf)]
  <2>1. C \in SUBSET Session /\ \A p \in C : m_state_cache[p] # <<>>
    BY PlayersAreSessions DEF Contributors, SspTypeOK
  <2> QED BY <2>1, FrameType DEF SspTypeOK, LobbyTypeOK
<1>4. buf = <<>> \/ buf = <<F>>
  <2>1. m_game_map[g].m_state_buf = <<>>
    BY DEF SspTypeOK, LobbyTypeOK, Games
  <2> HIDE DEF F
  <2> QED BY <1>3, <2>1 DEF AddState
<1>5. CASE buf = <<>>
  <2>1. feed[g] \o <<>> = feed[g]
    BY <1>3, ConcatEmptySeq
  <2>2. feed' = feed /\ outbox' = outbox
    BY <1>1, <1>3, <1>5, <2>1
  <2> QED BY <1>2, <2>2 DEF FeedInv, NtfsKnown, AllFed
<1>6. CASE buf = <<F>>
  <2>1. /\ m.type = "STATE" /\ m.gid = g /\ m.frames = <<F>> /\ m \in Ntf
    <3>1. F \in [Session -> Nat]
      BY <1>3, SspAssumption DEF Frame
    <3>2. <<F>> \in Seq([Session -> Nat]) /\ g \in Nat
      BY <3>1 DEF SspTypeOK, LobbyTypeOK, Games
    <3> HIDE DEF F, buf
    <3> QED BY <1>6, <3>2 DEF StateNtf, Ntf
  <2>2. feed[g] \o <<F>> = Append(feed[g], F)
    BY <1>3, AppendIsConcat
  <2> HIDE DEF F, m
  <2>3. R = Players(g)
    BY <1>6
  <2> HIDE DEF buf, R
  <2>4. /\ feed'[g] = Append(feed[g], F)
        /\ \A h \in Games : h # g => feed'[h] = feed[h]
    BY <1>1, <1>3, <1>6, <2>2
  <2>5. ASSUME NEW s \in Session
        PROVE  IF s \in Players(g) THEN outbox'[s] = Append(outbox[s], m)
                                  ELSE outbox'[s] = outbox[s]
    BY <1>1, <2>3
  <2>6. NtfsKnown'
    <3> SUFFICES ASSUME NEW s \in Session, NEW k \in DOMAIN outbox'[s]
                 PROVE  outbox'[s][k].gid \in Games
      BY <1>2 DEF NtfsKnown
    <3>1. \A j \in DOMAIN outbox[s] : outbox[s][j].gid \in Games
      BY DEF FeedInv, NtfsKnown
    <3>2. CASE s \in Players(g)
      <4>1. outbox'[s] = Append(outbox[s], m) /\ outbox[s] \in Seq(Ntf)
        BY <1>3, <2>5, <3>2
      <4>2. /\ DOMAIN outbox'[s] = DOMAIN outbox[s] \union {Len(outbox[s]) + 1}
            /\ \A j \in DOMAIN outbox[s] : outbox'[s][j] = outbox[s][j]
            /\ outbox'[s][Len(outbox[s]) + 1] = m
        BY <2>1, <4>1, ToldAppended
      <4> QED BY <2>1, <3>1, <4>2
    <3>3. CASE s \notin Players(g)
      BY <2>5, <3>1, <3>3
    <3> QED BY <3>2, <3>3
  <2>7. ASSUME NEW h \in Games, NEW s \in Session
        PROVE  Fed(outbox'[s], h, feed'[h], s \in Players(h))
    <3>1. /\ Fed(outbox[s], h, feed[h], s \in Players(h))
          /\ outbox[s] \in Seq(Ntf)
      BY <1>3 DEF FeedInv, AllFed
    <3>2. CASE h # g
      <4>1. CASE s \in Players(g)
        <5>1. Fed(Append(outbox[s], m), h, feed[h], s \in Players(h))
          BY <2>1, <3>1, <3>2, FedOther
        <5> QED BY <2>4, <2>5, <3>2, <4>1, <5>1
      <4>2. CASE s \notin Players(g)
        BY <2>4, <2>5, <3>1, <3>2, <4>2
      <4> QED BY <4>1, <4>2
    <3>3. CASE h = g /\ s \in Players(g)
      <4>1. Fed(outbox[s], g, feed[g], TRUE)
        BY <3>1, <3>3 DEF Fed
      <4>2. Fed(Append(outbox[s], m), g, Append(feed[g], F), TRUE)
        BY <1>3, <2>1, <3>1, <4>1, FedNext
      <4>3. outbox'[s] = Append(outbox[s], m) /\ feed'[h] = Append(feed[g], F)
        BY <2>4, <2>5, <3>3
      <4>4. Fed(outbox'[s], h, feed'[h], TRUE)
        BY <3>3, <4>2, <4>3
      <4> QED BY <3>3, <4>4 DEF Fed
    <3>4. CASE h = g /\ s \notin Players(g)
      <4>1. Fed(outbox[s], g, feed[g], FALSE)
        BY <3>1, <3>4 DEF Fed
      <4>2. Fed(outbox[s], g, Append(feed[g], F), FALSE)
        BY <1>3, <3>1, <4>1, FedMisses
      <4>3. outbox'[s] = outbox[s] /\ feed'[h] = Append(feed[g], F)
        BY <2>4, <2>5, <3>4
      <4>4. Fed(outbox'[s], h, feed'[h], FALSE)
        BY <3>4, <4>2, <4>3
      <4> QED BY <3>4, <4>4 DEF Fed
    <3> QED BY <3>2, <3>3, <3>4
  <2> QED BY <1>2, <2>6, <2>7 DEF FeedInv, AllFed
<1> QED BY <1>4, <1>5, <1>6

(* Everybody told of a game gets all of its frames, each once, in order    *)
(* and after the STARTGAME; a latecomer gets them from some moment on.     *)
THEOREM EverybodySeesTheGame == Spec => []SameFeed
<1>1. Init => FeedInv
  BY DEF Init, LobbyInit, FeedInv, NtfsKnown, AllFed, Games
<1>2. SspTypeOK /\ SspTypeOK' /\ FeedInv /\ [Next]_vars => FeedInv'
  <2> SUFFICES ASSUME SspTypeOK, SspTypeOK', FeedInv, [Next]_vars PROVE FeedInv'
    OBVIOUS
  <2>1. CASE LobbyCommand
    BY <2>1, LobbyCommandFeeds
  <2>2. ASSUME NEW s \in Session, SspHandleStatePkg(s) \/ GameWriteDone(s)
        PROVE  FeedInv'
    BY <2>2, FeedIdle DEF SspHandleStatePkg, GameWriteDone
  <2>3. CASE OtherHandler
    BY <2>3, FeedIdle DEF OtherHandler
  <2>4. ASSUME NEW g \in Games, FrameTick(g) PROVE FeedInv'
    BY <2>4, FrameTickFeeds
  <2>5. CASE UNCHANGED vars
    BY <2>5, FeedIdle DEF vars, sspVars
  <2> QED BY <2>1, <2>2, <2>3, <2>4, <2>5 DEF Next
<1>3. FeedInv => SameFeed
  BY AllFedSame DEF FeedInv
<1> QED BY <1>1, <1>2, <1>3, SspTypeInvariant, PTL DEF Spec
=============================================================================
