----------------------------- MODULE StateRelay -----------------------------
(***************************************************************************)
(* What state synchronisation promises, without ticks, rooms or buffers:   *)
(* each player has a bounded backlog of states, and a game publishes       *)
(* frames.  A frame takes the oldest state of each of some players, and    *)
(* taking it removes it, so every state is published at most once and the  *)
(* states of a player are published in the order they were accepted.       *)
(***************************************************************************)
EXTENDS Integers, Sequences

CONSTANTS Session,   (* the players                              *)
          None,      (* in a frame: nothing from this player     *)
          State,     (* the states a player may send             *)
          Cap        (* the largest backlog                      *)

VARIABLES backlog,   (* [Session -> Seq(state)], oldest first        *)
          feed       (* for each game, the frames so far: Seq(frame) *)

vars == <<backlog, feed>>

Init ==
  /\ backlog = [s \in Session |-> <<>>]
  /\ feed = <<>>

Accept(s, state) ==
  /\ Len(backlog[s]) < Cap
  /\ backlog' = [backlog EXCEPT ![s] = Append(@, state)]
  /\ UNCHANGED feed

(* Games are numbered as they open. *)
Open ==
  /\ feed' = Append(feed, <<>>)
  /\ UNCHANGED backlog

Publish(g, players) ==
  /\ players # {} /\ \A p \in players : backlog[p] # <<>>
  /\ feed' = [feed EXCEPT ![g] = Append(@, [s \in Session |->
                     IF s \in players THEN Head(backlog[s]) ELSE None])]
  /\ backlog' = [s \in Session |->
                   IF s \in players THEN Tail(backlog[s]) ELSE backlog[s]]

Next ==
  \/ \E s \in Session, x \in State : Accept(s, x)
  \/ Open
  \/ \E g \in DOMAIN feed, players \in SUBSET Session : Publish(g, players)

Spec == Init /\ [][Next]_vars
=============================================================================
