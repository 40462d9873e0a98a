---- MODULE MCFsp ----
(* Two players, caches of three, two actions picked at a time: players     *)
(* with none, with fewer, as many and more actions than are picked.        *)
EXTENDS Fsp
====
