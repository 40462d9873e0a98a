----------------------------- MODULE PkgBuffer -----------------------------
(***************************************************************************)
(* What a package is: the bytes of one connection on their way from the    *)
(* client's messages, through TCP, which may cut and join them, and the    *)
(* buffer m_pkg, which is never cleared, to the command HandlePkg acts on. *)
(* Lobby and SspLoop start where this module ends, with the command.       *)
(*                                                                         *)
(* A byte is a letter of a keyword, the separator, a digit, NUL, or        *)
(* something else.  Keywords are shortened alike: stems by three letters,  *)
(* ROOM and GAME to one, so that their lengths keep their differences.     *)
(***************************************************************************)
EXTENDS Integers, Sequences, SequencesExt

CONSTANTS Messages,      (* [cmd, arg]: what the client may send; arg is digits *)
          MAX_PKG_SIZE,  (* bytes of m_pkg                                   *)
          MaxSent,       (* bound: messages sent                             *)
          MaxCuts        (* bound: reads that end inside a message           *)

(* A message is well formed: a number where HandlePkg takes one with stoi, *)
(* none after LISTROOM; UPDATEGAME carries any number of bytes that no     *)
(* keyword has, here the digits: a state does not spell a command.         *)
ASSUME PkgAssumption ==
  /\ MAX_PKG_SIZE \in Nat \ {0} /\ MaxSent \in Nat /\ MaxCuts \in Nat
  /\ \A m \in Messages :
       /\ m.arg \in Seq(0 .. 9) /\ m = [cmd |-> m.cmd, arg |-> m.arg]
       /\ \/ m.cmd \in {"CREATEROOM", "JOINROOM", "STARTGAME"} /\ m.arg # <<>>
          \/ m.cmd = "LISTROOM" /\ m.arg = <<>>
          \/ m.cmd = "UPDATEGAME"

VARIABLES
  sent,     (* Seq(Messages), history: what the client has sent              *)
  stream,   (* Seq(Seq(Byte)), sent and not read, one element a message      *)
  m_pkg,    (* the buffer                                                    *)
  m_rid,    (* 0, or a room once CREATEROOM made one                         *)
  handled,  (* history: each read, what was in it and what HandlePkg did     *)
  up,       (* no exception has left the main loop                           *)
  cuts,     (* history: reads that ended inside a message                    *)
  fill,     (* the byte m_pkg held when the session was made                 *)
  ends      (* the byte the client ends its messages with, or none           *)

client == <<sent, fill, ends>>
vars == <<sent, stream, m_pkg, m_rid, handled, up, cuts, fill, ends>>

-----------------------------------------------------------------------------
Nul == <<"nul">>
Sep == <<"separator">>
Junk == <<"junk">>
Digit(d) == <<"digit", d>>

Stem == [CREATEROOM |-> 3, LISTROOM |-> 1, JOINROOM |-> 1, STARTGAME |-> 2, UPDATEGAME |-> 3]
Commands == DOMAIN Stem
Tail1(c) == IF c \in {"STARTGAME", "UPDATEGAME"} THEN <<"GAME">> ELSE <<"ROOM">>
Keyword(c) == [i \in 1 .. Stem[c] |-> <<c, i>>] \o <<Tail1(c)>>

(* A message as the client writes it: CREATEROOM@2, with or without a NUL. *)
Bytes(m, end) ==
  Keyword(m.cmd)
    \o (IF m.arg = <<>> THEN <<>> ELSE <<Sep>> \o [i \in DOMAIN m.arg |-> Digit(m.arg[i])])
    \o end

-----------------------------------------------------------------------------
(* Broken variants, each standing for a plausible slip in the code. *)
Overlay_Shifts(buf, chunk) == SubSeq(chunk \o buf, 1, Len(buf))
CString_PastNul(buf) == SubSeq(buf, 1, SelectLastInSeq(buf, LAMBDA b : b = Nul))

(* async_read_some: the bytes that arrived, over what was there before. *)
Overlay(buf, chunk) ==
  [i \in DOMAIN buf |-> IF i \in DOMAIN chunk THEN chunk[i] ELSE buf[i]]

(* m_pkg as the std::string it is passed as: up to the first NUL, wherever *)
(* that is; without one it goes on into the memory behind the buffer.      *)
CString(buf) ==
  LET n == SelectInSeq(buf, LAMBDA b : b = Nul)
  IN  IF n = 0 THEN Append(buf, Junk) ELSE SubSeq(buf, 1, n - 1)

(* HandlePkg: pkg.find, pkg.substr and std::stoi. *)
Finds(pkg, c) ==
  \E k \in 0 .. Len(pkg) - Len(Keyword(c)) :
    SubSeq(pkg, k + 1, k + Len(Keyword(c))) = Keyword(c)

Branches == <<"CREATEROOM", "LISTROOM", "JOINROOM", "STARTGAME", "UPDATEGAME">>

CommandOf(pkg) ==
  LET n == SelectInSeq(Branches, LAMBDA c : Finds(pkg, c))
  IN  IF n = 0 THEN "none" ELSE Branches[n]

ArgOf(pkg, c) == SubSeq(pkg, Len(Keyword(c)) + 2, Len(pkg))

Stoi(s) ==
  LET n == SelectInSeq(s, LAMBDA b : b[1] # "digit")
      digits == IF n = 0 THEN s ELSE SubSeq(s, 1, n - 1)
  IN  [i \in DOMAIN digits |-> digits[i][2]]

(* What is done for a package: the command with its number, with the whole *)
(* package for UPDATEGAME, or nothing; stoi and substr throw where there   *)
(* is no number.                                                           *)
HandlePkg(pkg) ==
  LET c == CommandOf(pkg)
      arg == Stoi(ArgOf(pkg, c))
  IN  CASE c = "none" -> [cmd |-> "none", arg |-> <<>>]
        [] c = "CREATEROOM" /\ m_rid # 0 -> [cmd |-> "already in a room", arg |-> <<>>]
        [] c = "LISTROOM" -> [cmd |-> c, arg |-> <<>>]
        [] c = "UPDATEGAME" -> [cmd |-> c, arg |-> pkg]
        [] OTHER -> [cmd |-> IF arg = <<>> THEN "throws" ELSE c, arg |-> arg]

-----------------------------------------------------------------------------
(* The bytes of the first messages of the stream, one after the other.     *)
FirstBytes[k \in 0 .. Len(stream)] ==
  IF k = 0 THEN <<>> ELSE FirstBytes[k - 1] \o stream[k]

ClientSends(m) ==
  /\ Len(sent) < MaxSent
  /\ sent' = Append(sent, m)
  /\ stream' = Append(stream, Bytes(m, ends))
  /\ UNCHANGED <<m_pkg, m_rid, handled, up, cuts, fill, ends>>

(* HandleRead with the n bytes that end whole messages and part bytes of   *)
(* the next: TCP knows nothing of messages.  Its reply and the read after  *)
(* it are the chain of SessionIo.                                          *)
HandleRead(whole, part) ==
  LET chunk == FirstBytes[whole]
                 \o (IF part = 0 THEN <<>> ELSE SubSeq(stream[whole + 1], 1, part))
      rest == SubSeq(stream, whole + 1, Len(stream))
      did == HandlePkg(CString(Overlay(m_pkg, chunk)))
      next == Len(sent) - Len(stream) + 1
  IN  /\ up
      /\ Len(chunk) \in 1 .. MAX_PKG_SIZE
      /\ stream' = IF part = 0 THEN rest
                   ELSE [rest EXCEPT ![1] = SubSeq(@, part + 1, Len(@))]
      /\ cuts' = IF part = 0 THEN cuts ELSE cuts + 1
      /\ m_pkg' = Overlay(m_pkg, chunk)
      /\ handled' = Append(handled,
           [did |-> did, first |-> next, count |-> whole,
            uncut |-> part = 0 /\ stream[1] = Bytes(sent[next], ends)])
      /\ up' = (did.cmd # "throws")
      /\ m_rid' = IF did.cmd = "CREATEROOM" THEN 1 ELSE m_rid
      /\ UNCHANGED client

Init ==
  /\ sent = <<>> /\ stream = <<>> /\ handled = <<>>
  /\ fill \in {Nul, Junk} /\ ends \in {<<Nul>>, <<>>}
  /\ m_pkg = [i \in 1 .. MAX_PKG_SIZE |-> fill]
  /\ m_rid = 0 /\ up = TRUE /\ cuts = 0

Next ==
  \/ \E m \in Messages : ClientSends(m)
  \/ \E whole \in 0 .. Len(stream) :
       \/ HandleRead(whole, 0)
       \/ /\ whole < Len(stream) /\ cuts < MaxCuts
          /\ \E part \in 1 .. Len(stream[whole + 1]) - 1 : HandleRead(whole, part)

Spec == Init /\ [][Next]_vars

-----------------------------------------------------------------------------
(* What a client means by a message that is read as the i-th package. *)
Meant(m, i) ==
  CASE m.cmd = "UPDATEGAME" -> [cmd |-> m.cmd, arg |-> Bytes(m, <<>>)]
    [] m.cmd = "CREATEROOM" /\ \E j \in 1 .. i - 1 : handled[j].did.cmd = m.cmd ->
         [cmd |-> "already in a room", arg |-> <<>>]
    [] OTHER -> m

(* For a client that ends its messages with a NUL: a read that starts and  *)
(* ends between messages is handled as the first of them, whatever earlier *)
(* reads, cut ones too, have left in the buffer.  The others that arrived  *)
(* with it are lost: HandlePkg takes one command out of a package.         *)
FirstMessageWins ==
  ends = <<Nul>> =>
    \A i \in DOMAIN handled :
      handled[i].uncut => handled[i].did = Meant(sent[handled[i].first], i)

(* For a client that does not, as the echo client that only writes strlen  *)
(* bytes: every command is handled as sent, in order, as long as no read   *)
(* joins or cuts messages, none is shorter than the one before, none fills *)
(* the buffer, and the memory of the session happened to be zero.  Without *)
(* these a package ends in the tail of an older one: JOINROOM@1 joins room *)
(* 12.                                                                     *)
NeverShorter ==
  \A i, j \in DOMAIN sent :
    i < j => Len(Bytes(sent[i], ends)) <= Len(Bytes(sent[j], ends))

NoneFills == \A i \in DOMAIN sent : Len(Bytes(sent[i], <<>>)) < MAX_PKG_SIZE
OneByOne == \A i \in DOMAIN handled : handled[i].uncut /\ handled[i].count = 1

AsSentIfNeverShorter ==
  fill = Nul /\ NeverShorter /\ NoneFills /\ OneByOne =>
    \A i \in DOMAIN handled : handled[i].did = Meant(sent[i], i)
=============================================================================
