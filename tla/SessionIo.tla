----------------------------- MODULE SessionIo -----------------------------
(***************************************************************************)
(* One Session's two connections.  On each, a chain of handlers reads a    *)
(* package, writes the reply and reads again; on the game socket the games *)
(* start writes of their own (STARTGAME, frames) at any moment.  A reply   *)
(* is written from the member m_rsp or m_game_rsp, a notification from a   *)
(* local string that is gone once the write has been started.              *)
(*                                                                         *)
(* asio is modelled as the code depends on it: async_write sends what fits *)
(* the socket's buffer at once, unless an earlier write waits for the      *)
(* socket; otherwise it waits.  Each part sent posts a handler, which      *)
(* continues with the rest in the same way or calls the user's handler.    *)
(***************************************************************************)
EXTENDS Integers, Sequences, FiniteSets

CONSTANTS Size,      (* bytes of a message                                   *)
          Buffer,    (* bytes the kernel takes until the client reads        *)
          MaxPkgs,   (* bound: packages received on each connection          *)
          MaxNtfs    (* bound: notifications written on the game socket      *)

ASSUME SessionIoAssumption ==
  Size \in Nat \ {0} /\ Buffer \in Nat \ {0} /\ MaxPkgs \in Nat /\ MaxNtfs \in Nat

VARIABLES
  conn,      (* [Sock -> {"closed", "open", "lost"}]                         *)
  chain,     (* [Sock -> {"idle", "read", "reply"}], what is outstanding     *)
  received,  (* [Sock -> Nat], packages read                                 *)
  rsp,       (* [Sock -> Nat], m_rsp and m_game_rsp: the reply to package n  *)
  ntfs,      (* notifications started so far                                 *)
  waiting,   (* [Sock -> Seq(write)], writes that wait for the socket        *)
  posted,    (* Seq(write), writes whose handler is due                      *)
  wire,      (* [Sock -> Seq(byte)], history: what the kernel took           *)
  unread,    (* [Sock -> Nat], bytes of it the client has not read           *)
  stalled,   (* [Sock -> BOOLEAN], history: some write had to wait           *)
  deleted    (* `delete this' has run: behaviour is undefined from there on  *)

vars == <<conn, chain, received, rsp, ntfs, waiting, posted, wire, unread, stalled, deleted>>

Sock == {"main", "game"}
Garbage == [kind |-> "garbage", id |-> 0, pos |-> 0]

-----------------------------------------------------------------------------
(* Broken variants, each standing for a plausible slip in the code. *)
RspOf_Shared(c) == "main"
Rearms_Always(w) == TRUE
LocalLives_Never(inCall) == FALSE
AfterReply_Idle == "idle"
Write_WithNul(c, kind, id, size) ==
  [sock |-> c, kind |-> kind, id |-> id, sent |-> 0, size |-> size + 1, ok |-> TRUE]

-----------------------------------------------------------------------------
(* A write: of a reply or a notification, how much of it has been sent, of *)
(* how much, and, once posted, whether it succeeded.                       *)
Write(c, kind, id, size) ==
  [sock |-> c, kind |-> kind, id |-> id, sent |-> 0, size |-> size, ok |-> TRUE]

(* The member a reply is kept in while it is written. *)
RspOf(c) == c

(* In the call of async_write itself the source is intact; later a local   *)
(* string is not, and a member holds whatever was last put there.          *)
LocalLives(inCall) == inCall

Byte(w, k, rspNow, inCall) ==
  CASE w.kind = "reply" ->
         [kind |-> "reply", id |-> rspNow[RspOf(w.sock)], pos |-> w.sent + k]
    [] w.kind = "ntf" /\ LocalLives(inCall) ->
         [kind |-> "ntf", id |-> w.id, pos |-> w.sent + k]
    [] OTHER -> Garbage

Fitting(w) ==
  LET left == w.size - w.sent
      room == Buffer - unread[w.sock]
  IN  IF left < room THEN left ELSE room

Send(w, rspNow, inCall, done) ==
  LET n == Fitting(w) IN
    /\ wire' = [wire EXCEPT ![w.sock] =
                  @ \o [k \in 1 .. n |-> Byte(w, k, rspNow, inCall)]]
    /\ unread' = [unread EXCEPT ![w.sock] = @ + n]
    /\ posted' = Append(done, [w EXCEPT !.sent = @ + n])

(* async_write_some: a write of nothing succeeds, any other fails on a     *)
(* connection that is not open.                                            *)
StartSome(w, rspNow, inCall, done) ==
  \/ /\ conn[w.sock] # "open" /\ w.size > 0
     /\ posted' = Append(done, [w EXCEPT !.ok = FALSE])
     /\ UNCHANGED <<waiting, wire, unread, stalled>>
  \/ /\ \/ w.size = 0
        \/ conn[w.sock] = "open" /\ waiting[w.sock] = <<>> /\ Fitting(w) > 0
     /\ Send(w, rspNow, inCall, done)
     /\ stalled' = [stalled EXCEPT ![w.sock] = @ \/ w.sent + Fitting(w) < w.size]
     /\ UNCHANGED waiting
  \/ /\ conn[w.sock] = "open"
     /\ w.size > 0 /\ (waiting[w.sock] # <<>> \/ Fitting(w) = 0)
     /\ waiting' = [waiting EXCEPT ![w.sock] = Append(@, w)]
     /\ stalled' = [stalled EXCEPT ![w.sock] = TRUE]
     /\ posted' = done
     /\ UNCHANGED <<wire, unread>>

-----------------------------------------------------------------------------
(* Session::Start and Session::GameStart. *)
Start(c) ==
  /\ conn[c] = "closed"
  /\ conn' = [conn EXCEPT ![c] = "open"]
  /\ chain' = [chain EXCEPT ![c] = "read"]
  /\ UNCHANGED <<received, rsp, ntfs, waiting, posted, wire, unread, stalled, deleted>>

(* HandleRead, GameHandleRead: keep the reply, which may be empty, and     *)
(* start to write it.                                                      *)
HandleRead(c) ==
  /\ chain[c] = "read" /\ conn[c] = "open"
  /\ received[c] < MaxPkgs
  /\ received' = [received EXCEPT ![c] = @ + 1]
  /\ rsp' = [rsp EXCEPT ![RspOf(c)] = received[c] + 1]
  /\ chain' = [chain EXCEPT ![c] = "reply"]
  /\ \E size \in {0, Size} :
       StartSome(Write(c, "reply", received[c] + 1, size), rsp', TRUE, posted)
  /\ UNCHANGED <<conn, ntfs, deleted>>

HandleReadError(c) ==
  /\ chain[c] = "read" /\ conn[c] = "lost"
  /\ deleted' = TRUE
  /\ UNCHANGED <<conn, chain, received, rsp, ntfs, waiting, posted, wire, unread, stalled>>

(* SendStateCacheToClient, and the same in SendStartGameNtfToAll: whether  *)
(* or not the game socket is open.                                         *)
Notify ==
  /\ ntfs < MaxNtfs
  /\ ntfs' = ntfs + 1
  /\ StartSome(Write("game", "ntf", ntfs + 1, Size), rsp, TRUE, posted)
  /\ UNCHANGED <<conn, chain, received, rsp, deleted>>

(* The handler of a part that leaves a rest. *)
Continue ==
  /\ posted # <<>>
  /\ Head(posted).ok /\ Head(posted).sent < Head(posted).size
  /\ StartSome(Head(posted), rsp, FALSE, Tail(posted))
  /\ UNCHANGED <<conn, chain, received, rsp, ntfs, deleted>>

(* The handlers the writes were given: HandleWrite and GameHandleWrite     *)
(* read again, or delete the session; Game::HandleWrite and                *)
(* SendStateHandleWrite ignore success and failure alike.                  *)
Rearms(w) == w.kind = "reply"
AfterReply == "read"

HandleWrite ==
  /\ posted # <<>>
  /\ LET w == Head(posted) IN
       /\ w.ok => w.sent = w.size
       /\ chain' = IF w.ok /\ Rearms(w) THEN [chain EXCEPT ![w.sock] = AfterReply]
                                        ELSE chain
       /\ deleted' = (~w.ok /\ Rearms(w))
  /\ posted' = Tail(posted)
  /\ UNCHANGED <<conn, received, rsp, ntfs, waiting, wire, unread, stalled>>

-----------------------------------------------------------------------------
(* The socket takes more: the oldest waiting write goes on. *)
Writable(c) ==
  /\ waiting[c] # <<>> /\ Fitting(Head(waiting[c])) > 0
  /\ Send(Head(waiting[c]), rsp, FALSE, posted)
  /\ waiting' = [waiting EXCEPT ![c] = Tail(@)]
  /\ UNCHANGED <<conn, chain, received, rsp, ntfs, stalled, deleted>>

ClientReads(c) ==
  /\ unread[c] > 0
  /\ unread' = [unread EXCEPT ![c] = 0]
  /\ UNCHANGED <<conn, chain, received, rsp, ntfs, waiting, posted, wire, stalled, deleted>>

(* The connection is lost: writes that wait fail. *)
Lose(c) ==
  /\ conn[c] = "open"
  /\ conn' = [conn EXCEPT ![c] = "lost"]
  /\ posted' = posted \o [i \in DOMAIN waiting[c] |-> [waiting[c][i] EXCEPT !.ok = FALSE]]
  /\ waiting' = [waiting EXCEPT ![c] = <<>>]
  /\ UNCHANGED <<chain, received, rsp, ntfs, wire, unread, stalled, deleted>>

Init ==
  /\ conn = [c \in Sock |-> "closed"] /\ chain = [c \in Sock |-> "idle"]
  /\ received = [c \in Sock |-> 0] /\ rsp = [c \in Sock |-> 0] /\ ntfs = 0
  /\ waiting = [c \in Sock |-> <<>>] /\ posted = <<>>
  /\ wire = [c \in Sock |-> <<>>] /\ unread = [c \in Sock |-> 0]
  /\ stalled = [c \in Sock |-> FALSE] /\ deleted = FALSE

Handlers == Continue \/ HandleWrite

Next ==
  /\ ~deleted
  /\ \/ \E c \in Sock : \/ Start(c) \/ HandleRead(c) \/ HandleReadError(c)
                        \/ Writable(c) \/ ClientReads(c) \/ Lose(c)
     \/ Notify \/ Handlers

(* The loop runs every handler that is due, the kernel reports a socket    *)
(* that takes more, and the client is assumed to read what it is sent.     *)
Fairness ==
  /\ WF_vars(~deleted /\ Handlers)
  /\ \A c \in Sock : WF_vars(~deleted /\ Writable(c)) /\ WF_vars(~deleted /\ ClientReads(c))

Spec == Init /\ [][Next]_vars /\ Fairness

-----------------------------------------------------------------------------
Writes == {w \in [sock : Sock, kind : {"reply", "ntf"}, id : Nat, sent : 0 .. Size,
                  size : {0, Size}, ok : BOOLEAN] : w.sent <= w.size}

Bytes == [kind : {"reply", "ntf", "garbage"}, id : Nat, pos : Nat]

Replies(c, ws) == {i \in DOMAIN ws : ws[i].kind = "reply" /\ ws[i].sock = c}

(* Writes wait on the socket they are for; the kernel holds no more than   *)
(* its buffer; and each chain has a reply outstanding exactly when it does *)
(* not read: never two, so the member it is written from has one user.     *)
SessionIoTypeOK ==
  /\ conn \in [Sock -> {"closed", "open", "lost"}]
  /\ chain \in [Sock -> {"idle", "read", "reply"}]
  /\ received \in [Sock -> 0 .. MaxPkgs] /\ rsp = received
  /\ ntfs \in 0 .. MaxNtfs /\ posted \in Seq(Writes) /\ deleted \in BOOLEAN
  /\ unread \in [Sock -> 0 .. Buffer] /\ stalled \in [Sock -> BOOLEAN]
  /\ waiting \in [Sock -> Seq(Writes)] /\ wire \in [Sock -> Seq(Bytes)]
  /\ \A c \in Sock : \A i \in DOMAIN waiting[c] :
       waiting[c][i].sock = c /\ waiting[c][i].ok

OneReplyAtATime ==
  \A c \in Sock :
    ~deleted => Cardinality(Replies(c, waiting[c])) + Cardinality(Replies(c, posted))
                  = (IF chain[c] = "reply" THEN 1 ELSE 0)

(* Whatever the games write in between and however the bytes are cut, the  *)
(* replies on a connection are whole and in the order of their packages.   *)
ReplyBytes(bytes) == {i \in DOMAIN bytes : bytes[i].kind = "reply"}
Last(S) == {j \in S : \A k \in S : k <= j}

RepliesWhole ==
  \A c \in Sock : \A i \in ReplyBytes(wire[c]) :
    LET byte == wire[c][i]
        before == Last({j \in ReplyBytes(wire[c]) : j < i})
    IN  IF byte.pos > 1
          THEN \E j \in before : wire[c][j] = [byte EXCEPT !.pos = @ - 1]
          ELSE \A j \in before : wire[c][j].pos = Size /\ wire[c][j].id < byte.id

(* As long as the client keeps up, so that every write fits the socket's   *)
(* buffer at once, nothing a client gets is torn or overwritten.  (When a  *)
(* write has to wait, notifications can be: their strings are gone, and    *)
(* writes of one socket overlap.)                                          *)
IntactWhileKeepingUp ==
  \A c \in Sock : ~stalled[c] =>
    \A i \in DOMAIN wire[c] :
      /\ wire[c][i].kind # "garbage"
      /\ wire[c][i].pos > 1 => i > 1 /\ wire[c][i - 1] = [wire[c][i] EXCEPT !.pos = @ - 1]

(* A chain that writes a reply reads again, also on the game socket where  *)
(* notifications compete for the buffer, unless the connection is lost.    *)
ChainGoesOn ==
  \A c \in Sock : chain[c] = "reply" ~> chain[c] = "read" \/ conn[c] # "open" \/ deleted
=============================================================================
