------------------------------ MODULE SspLoop ------------------------------
(***************************************************************************)
(* The main loop with state synchronisation (Ssp), on top of Lobby:        *)
(*                                                                         *)
(*   while (true) { io_service.run_one(); GameMgr::Tick(); }               *)
(*                                                                         *)
(* One handler runs, then every game ticks once, in the order of an        *)
(* unordered_map.  There is no timer: a tick only ever follows a handler,  *)
(* so a game advances because packets arrive or because its own writes     *)
(* complete.  The executions modelled are those without a connection error *)
(* or a malformed command, which end the process.                          *)
(***************************************************************************)
EXTENDS Lobby, FiniteSets

CONSTANTS Cap,       (* the capacity of a session's m_state_cache           *)
          MaxPkgs,   (* bound: UPDATEGAME packages per session              *)
          MaxPkgsInAll  (* bound: UPDATEGAME packages of all sessions       *)

ASSUME SspAssumption ==
  Cap \in Nat \ {0} /\ MaxPkgs \in Nat /\ MaxPkgsInAll \in Nat

VARIABLES
  m_state_cache, (* Session: the states not yet taken, oldest first         *)
  received,      (* how many UPDATEGAME packages the session has sent; the  *)
                 (* n-th one is the state n                                 *)
  writing,       (* writes on the game socket that have not completed       *)
  todo,          (* the games the current Tick has still to visit           *)
  feed           (* history: the frames each game has broadcast             *)

sspVars == <<m_state_cache, received, writing, todo, feed>>
vars == <<lobbyVars, sspVars>>

-----------------------------------------------------------------------------
(* Broken variants, each standing for a plausible slip in the code. *)
Popped_Kept(cache) == cache
Taken_Newest(cache) == cache[Len(cache)]
ClearState_Missing(buf) == buf
Contributors_OnlyIfAll(players) ==
  IF \A p \in players : m_state_cache[p] # <<>> THEN players ELSE {}
Recipients_Contributors(players) ==
  {p \in players : m_state_cache[p] # <<>>}

-----------------------------------------------------------------------------
(* RingQueue as a user sees it (module RingQueue shows that it is one). *)
Push(cache, state) == IF Len(cache) < Cap THEN Append(cache, state) ELSE cache
Taken(cache) == Head(cache)
Popped(cache) == Tail(cache)

(* After a handler, Tick visits every game there is then. *)
AtLoopHead == todo = {}
ThenTick == todo' = DOMAIN m_game_map'

(* A command of the lobby: a started game gets an empty feed, and every    *)
(* STARTGAME message is one more write under way.                          *)
LobbyCommand ==
  /\ AtLoopHead
  /\ LobbyNext
  /\ writing' = [s \in Session |->
                   writing[s] + (Len(outbox'[s]) - Len(outbox[s]))]
  /\ feed' = [g \in DOMAIN m_game_map' |-> IF g \in Games THEN feed[g] ELSE <<>>]
  /\ UNCHANGED <<m_state_cache, received>>
  /\ ThenTick

PkgsInAll == Cardinality({p \in Session \X (1 .. MaxPkgs) : p[2] <= received[p[1]]})

(* UPDATEGAME.  The result of the push is ignored: a full cache loses the  *)
(* package silently.  Any session may send one, in a game or not.          *)
SspHandleStatePkg(s) ==
  /\ AtLoopHead
  /\ received[s] < MaxPkgs /\ PkgsInAll < MaxPkgsInAll
  /\ received' = [received EXCEPT ![s] = @ + 1]
  /\ m_state_cache' = [m_state_cache EXCEPT ![s] = Push(@, received[s] + 1)]
  /\ UNCHANGED <<lobbyVars, writing, feed>>
  /\ ThenTick

(* Game::HandleWrite and Session::SendStateHandleWrite: a STARTGAME or a   *)
(* frame has been written, or has failed; either way only a tick follows.  *)
GameWriteDone(s) ==
  /\ AtLoopHead
  /\ writing[s] > 0
  /\ writing' = [writing EXCEPT ![s] = @ - 1]
  /\ UNCHANGED <<lobbyVars, m_state_cache, received, feed>>
  /\ ThenTick

(* A handler that changes nothing here: LISTROOM, an unknown command, a    *)
(* reply written, a connection accepted, one part of a long write.         *)
OtherHandler ==
  /\ AtLoopHead
  /\ UNCHANGED <<lobbyVars, m_state_cache, received, writing, feed>>
  /\ ThenTick

-----------------------------------------------------------------------------
(* Game::SspCalculateFrame pops one state of each player that has one.     *)
(* The code concatenates them in seat order; here a frame is the function  *)
(* from sessions to their states, 0 for those that contribute none.        *)
Contributors(players) == {p \in players : m_state_cache[p] # <<>>}

CalculateFrame(contributors) ==
  [s \in Session |-> IF s \in contributors THEN Taken(m_state_cache[s]) ELSE 0]

(* FrameMgr::AddState ignores an empty state. *)
IsEmptyState(frame) == \A s \in Session : frame[s] = 0
AddState(buf, frame) == IF IsEmptyState(frame) THEN buf ELSE Append(buf, frame)
ClearState(buf) == <<>>

(* Session::SendStateCacheToClient sends nothing from an empty buffer. *)
Recipients(players) == players

StateNtf(g, buf) == [type |-> "STATE", gid |-> g, frames |-> buf]

FrameTick(g) ==
  LET contributors == Contributors(Players(g))
      buf == AddState(m_game_map[g].m_state_buf, CalculateFrame(contributors))
      receivers == IF buf = <<>> THEN {} ELSE Recipients(Players(g))
  IN  /\ g \in todo
      /\ m_state_cache' =
           [s \in Session |-> IF s \in contributors THEN Popped(m_state_cache[s])
                                                    ELSE m_state_cache[s]]
      /\ outbox' = [s \in Session |-> IF s \in receivers
                                        THEN Append(outbox[s], StateNtf(g, buf))
                                        ELSE outbox[s]]
      /\ writing' = [s \in Session |-> IF s \in receivers THEN writing[s] + 1
                                                          ELSE writing[s]]
      /\ feed' = [feed EXCEPT ![g] = @ \o buf]
      /\ m_game_map' = [m_game_map EXCEPT ![g].m_state_buf = ClearState(buf)]
      /\ todo' = todo \ {g}
      /\ UNCHANGED <<m_room_map, g_room_id, m_g_game_id, m_rid, received>>

Init ==
  /\ LobbyInit
  /\ m_state_cache = [s \in Session |-> <<>>]
  /\ received = [s \in Session |-> 0]
  /\ writing = [s \in Session |-> 0]
  /\ todo = {}
  /\ feed = <<>>

Next ==
  \/ LobbyCommand
  \/ \E s \in Session : SspHandleStatePkg(s) \/ GameWriteDone(s)
  \/ OtherHandler
  \/ \E g \in Games : FrameTick(g)

Spec == Init /\ [][Next]_vars

(* The loop never blocks inside a tick, and run_one returns when some      *)
(* write has completed.  No write in particular is assumed to complete, no *)
(* packet is assumed to arrive.                                            *)
Fairness ==
  /\ WF_vars(\E g \in Games : FrameTick(g))
  /\ WF_vars(\E s \in Session : GameWriteDone(s))

FairSpec == Spec /\ Fairness

-----------------------------------------------------------------------------
Playing(s) == \E g \in Games : s \in Players(g)

State == 1 .. MaxPkgs
Frame == [Session -> 0 .. MaxPkgs]

(* The lobby's part, and: caches within their capacity, no negative count  *)
(* of writes, Tick visiting games that exist, a feed for every game.       *)
SspTypeOK ==
  /\ LobbyTypeOK
  /\ m_state_cache \in [Session -> Seq(State)]
  /\ \A s \in Session : Len(m_state_cache[s]) <= Cap
  /\ received \in [Session -> 0 .. MaxPkgs]
  /\ writing \in [Session -> Nat]
  /\ todo \subseteq Games
  /\ feed \in [Games -> Seq(Frame)]

(* The code ignores the result of m_state_cache.push.  It may: a package   *)
(* of somebody in a running game always finds room, even when the session  *)
(* filled its cache before the game started, or plays in several games.    *)
NoDropWhilePlaying ==
  [][\A s \in Session :
       Playing(s) /\ received'[s] # received[s] =>
         Len(m_state_cache'[s]) = Len(m_state_cache[s]) + 1]_vars

(* Why: a player's cache has a free slot whenever the loop waits for the   *)
(* next handler, because the tick of any of its games has made one.        *)
RoomForNext ==
  \A g \in Games : \A p \in Players(g) :
    g \in todo \/ Len(m_state_cache[p]) < Cap

(* What a client sees.  Whoever was told STARTGAME gets every frame of the *)
(* game, each exactly once, in order and after that STARTGAME; whoever     *)
(* joined later gets every frame from some moment on; nobody else gets any.*)
StateNtfsTo(s, g) ==
  {k \in DOMAIN outbox[s] : outbox[s][k].type = "STATE" /\ outbox[s][k].gid = g}

SameFeed ==
  \A g \in Games, s \in Session :
    LET got == StateNtfsTo(s, g)
        missed == Len(feed[g]) - Cardinality(got)
    IN  /\ s \in Players(g) \/ got = {}
        /\ missed >= 0
        /\ \A k \in got :
             outbox[s][k].frames =
               <<feed[g][missed + Cardinality({j \in got : j <= k})]>>
        /\ Told(s, g) # {} =>
             /\ missed = 0
             /\ \A k \in got : \E j \in Told(s, g) : j < k

(* Nothing accepted is lost, repeated or reordered on its way through      *)
(* caches, frames and buffer: the loop implements the abstract relay.      *)
Relay == INSTANCE StateRelay
           WITH None <- 0, backlog <- m_state_cache

RelaySpec == Relay!Spec

(* A backlog built up before the game drains by itself: every frame is     *)
(* written to the players, and every completed write lets the game tick    *)
(* again, so no further packet is needed.                                  *)
BacklogDrains ==
  \A s \in Session :
    Playing(s) /\ m_state_cache[s] # <<>> ~> m_state_cache[s] = <<>>
=============================================================================
