---- MODULE MCFixedMemPool ----
(* Three blocks of 24 bytes: free lists of every order and length.  Free   *)
(* takes any of the 1024 addresses.  Pages have 256 bytes, 16 more than a  *)
(* multiple of the block size, as pages of 4096 have: mapped at the third  *)
(* page, the block before NULL looks like one of the pool's, at the first  *)
(* it does not.                                                            *)
EXTENDS FixedMemPool
====
