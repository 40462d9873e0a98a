---- MODULE MCLobby ----
(* Three sessions and three rooms, for 0, 2 or 3 players: enough for a     *)
(* refused join, a late join, a session in two rooms and two games.        *)
EXTENDS Lobby, TLC

Sessions == Permutations(Session)
====
