---- MODULE MCRingQueue ----
(* A three-element ring over two values: every head/tail position, wrapped *)
(* and unwrapped, with every contents.                                     *)
EXTENDS RingQueue
====
