-------------------------------- MODULE Fsp --------------------------------
(***************************************************************************)
(* Frame synchronisation as far as the code has it: sessions queue the     *)
(* actions of their players (FspHandleActionPkg), a game collects them for *)
(* its current frame (FspCalculateFrame), and FrameStore keeps frames.     *)
(* Game::FrameTick has the calls commented out, so the module lets them    *)
(* happen in any order, beside whatever is done to the frame.              *)
(***************************************************************************)
EXTENDS FrameStore

CONSTANTS Session,                 (* the sessions, the game's and others    *)
          Action,                  (* contents of an action                  *)
          MaxPlayers,              (* bound: players of the game             *)
          Cap,                     (* capacity of m_action_cache             *)
          kPickActionEveryPlayer

ASSUME FspAssumption ==
  MaxPlayers \in Nat /\ Cap \in Nat \ {0} /\ kPickActionEveryPlayer \in Nat \ {0}

VARIABLES
  m_player_list,     (* Game: the players in seat order                      *)
  m_action_cache,    (* Session: RingQueue of actions, oldest first          *)
  m_max_cache_size   (* Session: high-water mark, uninitialised              *)

fspVars == <<m_player_list, m_action_cache, m_max_cache_size>>
vars == <<storeVars, fspVars>>

-----------------------------------------------------------------------------
(* Broken variants, each standing for a plausible slip in the code. *)
NextPlayer_AlwaysAdvances(it, erase) == it + 1

-----------------------------------------------------------------------------
(* Session::FspHandleActionPkg.  The package is not parsed: the action     *)
(* pushed is an uninitialised local, hence any action.  One that repeats   *)
(* the last is reported as dropped and pushed all the same.                *)
Pushed(cache, a) == IF Len(cache) < Cap THEN Append(cache, a) ELSE cache

FspHandleActionPkg(s) ==
  /\ \E a \in Action : m_action_cache' = [m_action_cache EXCEPT ![s] = Pushed(@, a)]
  /\ UNCHANGED <<storeVars, m_player_list, m_max_cache_size>>

(* Session::PopAction, n times, none of them on an empty cache. *)
HighWater(old, size) == IF size > old THEN size ELSE old
PopActions(cache, n) == SubSeq(cache, n + 1, Len(cache))

(* Game::FspCalculateFrame.  A player is asked until it has given          *)
(* kPickActionEveryPlayer actions or has none left; in the latter case it  *)
(* is erased from sess_list_tmp, and the iterator is then on the next one. *)
(* AddActionToCurFrame adds nothing, so a frame that is not full when the  *)
(* loop begins is not full later either.                                   *)
NextPlayer(it, erase) == IF erase THEN it ELSE it + 1
EraseAt(list, it) == SubSeq(list, 1, it - 1) \o SubSeq(list, it + 1, Len(list))

Turn(loop) ==
  LET s == loop.list[loop.it]
      erase == Len(m_action_cache[s]) < kPickActionEveryPlayer
      n == IF erase THEN Len(m_action_cache[s]) ELSE kPickActionEveryPlayer
  IN  IF loop.it > Len(loop.list) THEN loop
      ELSE [list |-> IF erase THEN EraseAt(loop.list, loop.it) ELSE loop.list,
            it |-> NextPlayer(loop.it, erase),
            taken |-> [loop.taken EXCEPT ![s] = n]]

NobodyAsked == [list |-> m_player_list, it |-> 1, taken |-> [s \in Session |-> 0]]

(* The loop after so many turns.  Each erases a player or passes one by,   *)
(* so that it is over after one turn for each.                             *)
PickLoop[turns \in 0 .. Len(m_player_list)] ==
  IF turns = 0 THEN NobodyAsked ELSE Turn(PickLoop[turns - 1])

FspCalculateFrame ==
  LET loop == IF FrameFull THEN NobodyAsked ELSE PickLoop[Len(m_player_list)]
      taken == loop.taken
  IN  /\ m_action_cache' =
           [s \in Session |-> PopActions(m_action_cache[s], taken[s])]
      /\ m_max_cache_size' =
           [s \in Session |-> IF taken[s] = 0 THEN m_max_cache_size[s]
                              ELSE HighWater(m_max_cache_size[s], Len(m_action_cache[s]))]
      /\ UNCHANGED <<storeVars, m_player_list>>

(* The players are seated by then; they are distinct (see Lobby). *)
Distinct(l) == \A i, j \in DOMAIN l : l[i] = l[j] => i = j

Init ==
  /\ StoreInit
  /\ m_player_list \in {l \in UNION {[1 .. n -> Session] : n \in 1 .. MaxPlayers} : Distinct(l)}
  /\ m_action_cache = [s \in Session |-> <<>>]
  /\ m_max_cache_size \in [Session -> {0, Cap + 1}]

Next ==
  \/ StoreNext /\ UNCHANGED fspVars
  \/ \E s \in Session : FspHandleActionPkg(s)
  \/ FspCalculateFrame

Spec == Init /\ [][Next]_vars

-----------------------------------------------------------------------------
(* Frames and caches within their arrays, and no player seated twice.      *)
FspTypeOK ==
  /\ FrameTypeOK
  /\ m_player_list \in Seq(Session) /\ Distinct(m_player_list)
  /\ m_action_cache \in [Session -> Seq(Action)]
  /\ \A s \in Session : Len(m_action_cache[s]) <= Cap
  /\ m_max_cache_size \in [Session -> Nat]

(* The loop that erases from the list it walks through skips nobody: each  *)
(* player gives its oldest actions, as many as it has up to the limit, and *)
(* nobody else gives any.                                                  *)
PicksFromEveryone ==
  [][FspCalculateFrame /\ ~FrameFull =>
       \A s \in Session :
         LET given == Len(m_action_cache[s]) - Len(m_action_cache'[s]) IN
           /\ m_action_cache'[s] = SubSeq(m_action_cache[s], given + 1, Len(m_action_cache[s]))
           /\ \/ given = kPickActionEveryPlayer
              \/ given < kPickActionEveryPlayer /\ m_action_cache'[s] = <<>>
              \/ given = 0 /\ \A i \in DOMAIN m_player_list : m_player_list[i] # s]_vars
=============================================================================
