---- MODULE MCAcceptor ----
(* Three clients (two for the violation run): one that overtakes, one that *)
(* is overtaken, and sessions with and without a predecessor.              *)
EXTENDS Acceptor
====
