---- MODULE MCPkgBuffer ----
(* A buffer of ten bytes, messages of two to seven: they fill it, fit      *)
(* twice, follow shorter and longer ones and ones with the same command.   *)
EXTENDS PkgBuffer

Msg(c, a) == [cmd |-> c, arg |-> a]
MCMessages ==
  {Msg("CREATEROOM", <<2>>), Msg("LISTROOM", <<>>), Msg("JOINROOM", <<1>>),
   Msg("JOINROOM", <<1, 2>>), Msg("STARTGAME", <<1>>), Msg("UPDATEGAME", <<3, 4>>)}
====
