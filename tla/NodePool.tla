------------------------------ MODULE NodePool ------------------------------
(***************************************************************************)
(* What a pool of fixed-size nodes promises, whatever it keeps in memory:  *)
(* a node handed out is not handed out again before it is freed, a node    *)
(* that is not handed out cannot be freed, and the pool is exhausted only  *)
(* when every node is in use.  It does not promise that a call returns: a  *)
(* process that ends in a call leaves the nodes as they are.               *)
(***************************************************************************)
EXTENDS Integers

CONSTANT Nodes      (* the nodes, by their offsets; none of them is 0 *)

VARIABLES used,     (* the nodes in use                                      *)
          ret       (* what the last call returned: a node or 0 (NULL) for   *)
                    (* an allocation, 0 or -1 for the other calls            *)

vars == <<used, ret>>

Init == used = {} /\ ret = 0

Alloc ==
  \/ \E n \in Nodes \ used : used' = used \union {n} /\ ret' = n
  \/ used = Nodes /\ ret' = 0 /\ UNCHANGED used

Free(n) ==
  \/ n \in used /\ used' = used \ {n} /\ ret' = 0
  \/ n \notin used /\ ret' = -1 /\ UNCHANGED used

(* The pool is laid out anew, its memory is deleted, or an attempt to take *)
(* it over is refused.                                                     *)
Reset == used' = {} /\ ret' = 0
Delete == used' = {} /\ UNCHANGED ret
Refused == ret' = -1 /\ UNCHANGED used

Next == Alloc \/ (\E n \in Nodes : Free(n)) \/ Reset \/ Delete \/ Refused

Spec == Init /\ [][Next]_vars
=============================================================================
