------------------------------ MODULE DrawOne ------------------------------
(***************************************************************************)
(* RandomOne of rand_util.h, one step an iteration: it draws one of        *)
(* several weighted elements by keeping, of those seen so far, one.        *)
(* Indices start at 1 where the code's start at 0; the sum is unbounded.   *)
(***************************************************************************)
EXTENDS Integers, Sequences

VARIABLES weight,       (* Seq(Nat), the elements' weights                   *)
          seen,         (* RandomOne: i, the elements looked at              *)
          total_weight, (* of these                                          *)
          idx           (* RandomOne: the element drawn so far               *)

drawVars == <<weight, seen, total_weight, idx>>

(* Random01() * total_weight < weight, a number at least 0 and below 1:    *)
(* never for a weight of 0, always for the whole weight, else by chance.   *)
Hits(w, total) ==
  {hit \in BOOLEAN : (w = 0 => ~hit) /\ (w > 0 /\ w = total => hit)}

DrawInit ==
  /\ weight \in Seq(Nat) /\ Len(weight) > 0
  /\ seen = 0 /\ total_weight = 0 /\ idx = 1

DrawNext ==
  /\ seen < Len(weight)
  /\ seen' = seen + 1
  /\ total_weight' = total_weight + weight[seen + 1]
  /\ \E hit \in Hits(weight[seen + 1], total_weight + weight[seen + 1]) :
       idx' = IF hit THEN seen + 1 ELSE idx
  /\ UNCHANGED weight

DrawSpec == DrawInit /\ [][DrawNext]_drawVars

-----------------------------------------------------------------------------
(* What the comment of RandomOne promises over its predecessor: an element *)
(* of weight 0 is never drawn, unless all weights are 0.                   *)
NeverZero ==
  \/ idx \in 1 .. seen /\ weight[idx] > 0
  \/ \A j \in 1 .. seen : weight[j] = 0
=============================================================================
