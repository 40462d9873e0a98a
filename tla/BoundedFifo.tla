---------------------------- MODULE BoundedFifo ----------------------------
(***************************************************************************)
(* What RingQueue promises to its users: a first-in first-out queue of at  *)
(* most Cap elements that refuses a push when it is full and ignores a pop *)
(* when it is empty (ring_queue.h says its interface imitates std::queue). *)
(***************************************************************************)
EXTENDS Integers, Sequences

CONSTANTS T,     (* the element type                        *)
          Cap    (* the largest number of elements it holds *)

VARIABLES q,     (* the elements, oldest first              *)
          ret    (* what the last call returned             *)

vars == <<q, ret>>

StorageFull == -1    \* a push was refused
Void == 1            \* the call returns nothing

Init == q = <<>> /\ ret = Void

Push(e) ==
  \/ /\ Len(q) < Cap
     /\ q' = Append(q, e)
     /\ ret' = 0
  \/ /\ Len(q) = Cap
     /\ ret' = StorageFull
     /\ UNCHANGED q

Pop ==
  /\ q' = IF q = <<>> THEN <<>> ELSE Tail(q)
  /\ ret' = Void

Clear == q' = <<>> /\ ret' = Void

Next == (\E e \in T : Push(e)) \/ Pop \/ Clear

Spec == Init /\ [][Next]_vars
=============================================================================
