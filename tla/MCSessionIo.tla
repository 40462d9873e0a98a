---- MODULE MCSessionIo ----
(* Messages of two bytes and room for three: writes that fit, that are cut *)
(* in two and that have to wait.                                           *)
EXTENDS SessionIo
====
