---- MODULE MCSspLoop ----
(* Two sessions, two rooms, three packages of whomever: one session can    *)
(* overflow its cache of two, or both can fill theirs halfway, while games *)
(* share no, one or both players.                                          *)
EXTENDS SspLoop
====
