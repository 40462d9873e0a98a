---- MODULE MCServerFiles ----
(* Three processes: two with a pid of one digit, and one with two. *)
EXTENDS ServerFiles

CONSTANTS p1, p2, p3
MCPid == [p \in Proc |-> CASE p = p1 -> <<7, 3>> [] p = p2 -> <<4>> [] OTHER -> <<9>>]
====
