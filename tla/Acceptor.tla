------------------------------ MODULE Acceptor ------------------------------
(***************************************************************************)
(* Server and SessionMgr: how the connections that arrive on the two ports *)
(* become sessions.  A Session owns two sockets, and each new one is       *)
(* offered to both acceptors at once: the next connection on the main port *)
(* becomes its m_socket and some connection on the game port becomes its   *)
(* m_game_socket.  HandleAccept makes the next Session; GameHandleAccept   *)
(* makes none.  Accepts started on one acceptor complete in the order they *)
(* were started, and completed handlers run one at a time, in order.       *)
(***************************************************************************)
EXTENDS Integers, Sequences, FiniteSets

CONSTANTS Client,    (* the clients, each with an ip:port of its own        *)
          None       (* "no client": a socket that is not open              *)

ASSUME AcceptorAssumption == None \notin Client

VARIABLES
  arrived,       (* [Port -> Seq(Client)], connections in order of arrival  *)
  taken,         (* [Port -> Nat], how many of them have been accepted      *)
  accepting,     (* [Port -> Seq(session)], accepts started and not complete*)
  ready,         (* completed accepts whose handler has not run yet         *)
  peer,          (* [Port -> Seq(Client)], whom session k's sockets reach   *)
  started,       (* [Port -> sessions], read chains begun                   *)
  m_session_map, (* SessionMgr: session id (the ip:port) -> session         *)
  gone,          (* clients that reset their main connection early          *)
  inVain,        (* history: sessions whose game accept has failed          *)
  status         (* "running", or "exited" after an uncaught exception, or  *)
                 (* "undefined" after the delete in HandleAccept            *)

vars == <<arrived, taken, accepting, ready, peer, started, m_session_map, gone, inVain, status>>

Port == {"main", "game"}
Sessions == 1 .. Len(peer["main"])
Newest == Len(peer["main"])

-----------------------------------------------------------------------------
(* Broken variants, each standing for a plausible slip in the code. *)
NextOf_Latest(p) == Newest
Rearmed_GameOnly(s) == [accepting EXCEPT !["game"] = Append(@, s)]
NewSession_NotYetThere == Newest + 2
AddSession_LatestForAll(sid, s) == [x \in DOMAIN m_session_map \union {sid} |-> s]
Started_GameOnly(p, s) == IF p = "game" THEN started[p] \union {s} ELSE started[p]

-----------------------------------------------------------------------------
(* Environment: a client connects, once to each port; the kernel queues    *)
(* the connection.  A connection that ends later makes its session delete  *)
(* itself (module SessionIo stops there), so no address is ever used again *)
(* in an execution the program defines.                                    *)
MayConnect(c, port) ==
  \A k \in DOMAIN arrived[port] : arrived[port][k] # c

Connect(c, port) ==
  /\ MayConnect(c, port)
  /\ arrived' = [arrived EXCEPT ![port] = Append(@, c)]
  /\ UNCHANGED <<taken, accepting, ready, peer, started, m_session_map, gone, inVain, status>>

(* It resets its main connection before the handler of the accept has run. *)
Reset(c) ==
  /\ c \notin gone /\ \E k \in DOMAIN arrived["main"] : arrived["main"][k] = c
  /\ \A s \in started["main"] : peer["main"][s] # c
  /\ gone' = gone \union {c}
  /\ UNCHANGED <<arrived, taken, accepting, ready, peer, started, m_session_map, inVain, status>>

-----------------------------------------------------------------------------
(* asio completes the oldest accept of the port with the next connection.  *)
NextOf(p) == Head(accepting[p])

Accepted(p) ==
  /\ taken[p] < Len(arrived[p]) /\ accepting[p] # <<>>
  /\ taken' = [taken EXCEPT ![p] = @ + 1]
  /\ accepting' = [accepting EXCEPT ![p] = Tail(@)]
  /\ peer' = [peer EXCEPT ![p][NextOf(p)] = arrived[p][taken[p] + 1]]
  /\ ready' = Append(ready, [port |-> p, sess |-> NextOf(p), ok |-> TRUE])
  /\ UNCHANGED <<arrived, started, m_session_map, gone, inVain, status>>

(* An accept fails, for example for want of a descriptor. *)
AcceptFails(p) ==
  /\ accepting[p] # <<>>
  /\ accepting' = [accepting EXCEPT ![p] = Tail(@)]
  /\ ready' = Append(ready, [port |-> p, sess |-> NextOf(p), ok |-> FALSE])
  /\ inVain' = IF p = "game" THEN inVain \union {NextOf(p)} ELSE inVain
  /\ UNCHANGED <<arrived, taken, peer, started, m_session_map, gone, status>>

-----------------------------------------------------------------------------
(* SessionMgr::AddSession: a known id keeps its session. *)
AddSession(sid, s) ==
  [x \in DOMAIN m_session_map \union {sid} |->
     IF x \in DOMAIN m_session_map THEN m_session_map[x] ELSE s]

(* A fresh Session is offered to both acceptors. *)
NewSession == Newest + 1
Rearmed(s) == [p \in Port |-> Append(accepting[p], s)]

(* Session::Start and Session::GameStart begin the read chain of a socket. *)
Started(p, s) == started[p] \union {s}

HandlerOf(p, ok) ==
  ready # <<>> /\ Head(ready).port = p /\ Head(ready).ok = ok /\ ready' = Tail(ready)

HandleAccept ==
  LET s == Head(ready).sess
      c == peer["main"][s]
  IN  /\ HandlerOf("main", TRUE)
      /\ \/ /\ c \notin gone
            /\ m_session_map' = AddSession(c, s)
            /\ started' = [started EXCEPT !["main"] = Started("main", s)]
            /\ peer' = [p \in Port |-> Append(peer[p], None)]
            /\ accepting' = Rearmed(NewSession)
            /\ UNCHANGED status
         \/ (* remote_endpoint() throws through run_one and out of the loop *)
            /\ c \in gone
            /\ status' = "exited"
            /\ UNCHANGED <<m_session_map, started, peer, accepting>>
      /\ UNCHANGED <<arrived, taken, gone, inVain>>

(* The error branch deletes the session, whose m_socket_ptr owns m_socket  *)
(* a second time, while the game accept still refers to it.                *)
HandleAcceptError ==
  /\ HandlerOf("main", FALSE)
  /\ status' = "undefined"
  /\ UNCHANGED <<arrived, taken, accepting, peer, started, m_session_map, gone, inVain>>

GameHandleAccept ==
  /\ HandlerOf("game", TRUE)
  /\ started' = [started EXCEPT !["game"] = Started("game", Head(ready).sess)]
  /\ UNCHANGED <<arrived, taken, accepting, peer, m_session_map, gone, inVain, status>>

GameHandleAcceptError ==
  /\ HandlerOf("game", FALSE)
  /\ UNCHANGED <<arrived, taken, accepting, peer, started, m_session_map, gone, inVain, status>>

-----------------------------------------------------------------------------
(* Server's constructor offers the first Session. *)
Init ==
  /\ arrived = [p \in Port |-> <<>>]
  /\ taken = [p \in Port |-> 0]
  /\ accepting = [p \in Port |-> <<1>>]
  /\ ready = <<>>
  /\ peer = [p \in Port |-> <<None>>]
  /\ started = [p \in Port |-> {}]
  /\ m_session_map = <<>>
  /\ gone = {} /\ inVain = {}
  /\ status = "running"

Environment ==
  \/ \E c \in Client : Reset(c) \/ \E p \in Port : Connect(c, p)
  \/ \E p \in Port : AcceptFails(p)

Handlers ==
  HandleAccept \/ HandleAcceptError \/ GameHandleAccept \/ GameHandleAcceptError

Next ==
  /\ status = "running"
  /\ Environment \/ (\E p \in Port : Accepted(p)) \/ Handlers

(* The loop keeps running handlers and asio keeps completing accepts.      *)
Fairness ==
  /\ \A p \in Port : WF_vars(status = "running" /\ Accepted(p))
  /\ WF_vars(status = "running" /\ Handlers)

Spec == Init /\ [][Next]_vars /\ Fairness

-----------------------------------------------------------------------------
(* Every session has a slot on both ports; completed accepts and pending   *)
(* accepts are about sessions that exist, each at most once.               *)
AcceptorTypeOK ==
  /\ arrived \in [Port -> Seq(Client)]
  /\ taken \in [Port -> Nat] /\ \A p \in Port : taken[p] <= Len(arrived[p])
  /\ peer \in [Port -> Seq(Client \union {None})] /\ Len(peer["game"]) = Newest
  /\ started \in [Port -> SUBSET Sessions] /\ accepting \in [Port -> Seq(Sessions)]
  /\ ready \in Seq([port : Port, sess : Sessions, ok : BOOLEAN])
  /\ DOMAIN m_session_map \subseteq Client
  /\ m_session_map \in [DOMAIN m_session_map -> Sessions]
  /\ gone \subseteq Client /\ inVain \subseteq Sessions
  /\ status \in {"running", "exited", "undefined"}

(* Session ids are unique while the clients' addresses are: the manager    *)
(* knows exactly the started sessions, each under its own client.  (The    *)
(* server ignores what AddSession returns, so a session it refused would   *)
(* run without being known.)                                               *)
SessionMapExact ==
  /\ \A c \in DOMAIN m_session_map :
       m_session_map[c] \in started["main"] /\ peer["main"][m_session_map[c]] = c
  /\ \A s \in started["main"] :
       peer["main"][s] \in DOMAIN m_session_map /\ m_session_map[peer["main"][s]] = s

(* The sockets of the k-th session are the k-th connections of the two     *)
(* ports, as long as no game accept fails: nothing else ties them together.*)
KthToKth ==
  \A p \in Port : \A k \in Sessions :
    /\ peer[p][k] # None
    /\ p = "game" => inVain = {}
    => k <= Len(arrived[p]) /\ peer[p][k] = arrived[p][k]

(* The game port may run ahead of the main port, by one session: at most   *)
(* the newest session can have its game chain running (or its game socket  *)
(* open) before its main chain.                                            *)
GameAheadByOne ==
  \A s \in Sessions :
    s \in started["game"] \/ peer["game"][s] # None =>
      s \in started["main"] \/ s = Newest

(* The accept loops go on: every main connection gets a running session,   *)
(* and so does the k-th game connection once k - 1 sessions have their     *)
(* main connection, unless the process has ended or, for the game port, an *)
(* accept there has failed.                                                *)
MainServed ==
  \A k \in 1 .. Cardinality(Client) :
    Len(arrived["main"]) >= k ~> k \in started["main"] \/ status # "running"

GameServed ==
  \A k \in 1 .. Cardinality(Client) :
    Len(arrived["game"]) >= k /\ Len(arrived["main"]) >= k - 1
      ~> k \in started["game"] \/ inVain # {} \/ status # "running"

AcceptsGoOn == MainServed /\ GameServed

-----------------------------------------------------------------------------
(* session.h:35: "Every TCP conn is a session, which stand for a player":  *)
(* the two connections of a session come from one client.                  *)
OneClientPerSession ==
  \A s \in Sessions :
    peer["main"][s] # None /\ peer["game"][s] # None => peer["main"][s] = peer["game"][s]
=============================================================================
