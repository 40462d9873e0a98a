--------------------------- MODULE AcceptorProofs ---------------------------
(***************************************************************************)
(* What ties the connections of the two ports together, for any number of  *)
(* clients, connections, resets and failing accepts.                       *)
(***************************************************************************)
EXTENDS Acceptor, TLAPS

(* The main port has one accept under way at a time, and it is the newest  *)
(* session's: it is outstanding, or completed and not handled yet, or the  *)
(* server has ended; and the handler makes the next session.  So all the   *)
(* sessions but the newest have been started.                              *)
MainReady == {i \in DOMAIN ready : ready[i].port = "main"}

MainInv ==
  /\ Newest >= 1 /\ started["main"] = 1 .. Newest - 1
  /\ accepting["main"] = <<>> \/ accepting["main"] = <<Newest>>
  /\ accepting["main"] # <<>> => taken["main"] = Newest - 1 /\ MainReady = {}
  /\ \A i, j \in MainReady : i = j
  /\ \A i \in MainReady :
       /\ ready[i].sess = Newest
       /\ ready[i].ok => taken["main"] = Newest /\ peer["main"][Newest] # None

(* The game port owes accepts to the newest sessions, in order; as long as *)
(* none has failed, it has served the sessions before those.               *)
GameInv ==
  /\ \A i \in DOMAIN accepting["game"] :
       accepting["game"][i] = Newest - Len(accepting["game"]) + i
  /\ inVain = {} => taken["game"] + Len(accepting["game"]) = Newest

(* Whom an accept gave to a session; what has not been accepted is open.   *)
PeerInv ==
  \A p \in Port : \A k \in Sessions :
    /\ peer[p][k] # None
    /\ p = "game" => inVain = {}
    => k <= taken[p] /\ peer[p][k] = arrived[p][k]

(* A client's address connects once to each port. *)
ArrivedOnce ==
  \A p \in Port : \A i, j \in DOMAIN arrived[p] : arrived[p][i] = arrived[p][j] => i = j

AInv ==
  /\ AcceptorTypeOK
  /\ MainInv
  /\ GameInv
  /\ PeerInv
  /\ ArrivedOnce
  /\ SessionMapExact

-----------------------------------------------------------------------------
(* The environment *)
LEMMA ConnectStep ==
  ASSUME AInv, NEW c \in Client, NEW port \in Port, Connect(c, port)
  PROVE  AInv'
<1> USE DEF AInv, AcceptorTypeOK
<1>1. /\ arrived' = [arrived EXCEPT ![port] = Append(arrived[port], c)]
      /\ UNCHANGED <<taken, accepting, ready, peer, started, m_session_map, gone, inVain, status>>
      /\ \A k \in DOMAIN arrived[port] : arrived[port][k] # c
  BY DEF Connect, MayConnect
<1>2. ASSUME NEW p \in Port
      PROVE  /\ arrived'[p] \in Seq(Client)
             /\ Len(arrived[p]) <= Len(arrived'[p])
             /\ \A k \in 1 .. Len(arrived[p]) : arrived'[p][k] = arrived[p][k]
             /\ \A i, j \in DOMAIN arrived'[p] : arrived'[p][i] = arrived'[p][j] => i = j
  <2> DEFINE old == arrived[p]
             n == Len(old)
  <2>1. old \in Seq(Client) /\ n \in Nat /\ DOMAIN old = 1 .. n
    OBVIOUS
  <2>2. \A i, j \in 1 .. n : old[i] = old[j] => i = j
    BY <2>1 DEF ArrivedOnce
  <2>3. CASE p = port
    <3>1. arrived'[p] = Append(old, c) /\ \A k \in 1 .. n : old[k] # c
      BY <1>1, <2>1, <2>3
    <3> HIDE DEF old, n, AInv, AcceptorTypeOK
    <3>2. /\ arrived'[p] \in Seq(Client) /\ Len(arrived'[p]) = n + 1 /\ DOMAIN arrived'[p] = 1 .. n + 1
          /\ arrived'[p][n + 1] = c /\ \A k \in 1 .. n : arrived'[p][k] = old[k]
      BY <2>1, <3>1 DEF n
    <3>3. ASSUME NEW i \in 1 .. n + 1, NEW j \in 1 .. n + 1, arrived'[p][i] = arrived'[p][j]
          PROVE  i = j
      BY <2>1, <2>2, <3>1, <3>2, <3>3
    <3> QED BY <2>1, <3>2, <3>3 DEF old, n
  <2>4. CASE p # port
    BY <1>1, <2>1, <2>2, <2>4
  <2> QED BY <2>3, <2>4
<1>3. AcceptorTypeOK'
  <2>1. arrived' \in [Port -> Seq(Client)]
    BY <1>1
  <2>2. \A p \in Port : taken[p] <= Len(arrived'[p])
    BY <1>2
  <2> QED BY <1>1, <2>1, <2>2 DEF Sessions, Newest
<1>4. PeerInv'
  <2> HIDE DEF AcceptorTypeOK
  <2> SUFFICES ASSUME NEW p \in Port, NEW k \in Sessions, peer[p][k] # None, p = "game" => inVain = {}
               PROVE  k <= taken[p] /\ arrived'[p][k] = peer[p][k]
    BY <1>1 DEF PeerInv, Sessions
  <2>1. k <= taken[p] /\ peer[p][k] = arrived[p][k]
    BY DEF PeerInv
  <2>2. k \in 1 .. Len(arrived[p])
    <3>1. taken[p] \in Nat /\ taken[p] <= Len(arrived[p]) /\ arrived[p] \in Seq(Client)
      BY DEF AcceptorTypeOK
    <3>2. k \in Nat \ {0} /\ Len(arrived[p]) \in Nat
      BY <3>1 DEF Sessions
    <3> QED BY <2>1, <3>1, <3>2
  <2> QED BY <1>2, <2>1, <2>2
<1>5. ArrivedOnce'
  BY <1>2 DEF ArrivedOnce
<1>6. MainInv' /\ GameInv' /\ SessionMapExact'
  <2> HIDE DEF AcceptorTypeOK
  <2>1. Newest' = Newest /\ MainReady' = MainReady
    BY <1>1 DEF Newest, MainReady
  <2>2. MainInv' /\ GameInv'
    BY <1>1, <2>1 DEF MainInv, GameInv
  <2>3. SessionMapExact'
    BY <1>1 DEF SessionMapExact
  <2> QED BY <2>2, <2>3
<1> QED BY <1>3, <1>4, <1>5, <1>6

LEMMA ResetStep ==
  ASSUME AInv, NEW c \in Client, Reset(c)
  PROVE  AInv'
<1> USE DEF AInv
<1>1. /\ UNCHANGED <<arrived, taken, accepting, ready, peer, started, m_session_map, inVain, status>>
      /\ gone' = gone \union {c}
  BY DEF Reset
<1>2. AcceptorTypeOK'
  BY <1>1 DEF AcceptorTypeOK, Sessions, Newest
<1>3. MainInv' /\ GameInv' /\ PeerInv' /\ ArrivedOnce' /\ SessionMapExact'
  BY <1>1 DEF MainInv, GameInv, PeerInv, ArrivedOnce, SessionMapExact, MainReady, Newest, Sessions
<1> QED BY <1>2, <1>3

-----------------------------------------------------------------------------
(* Queues: what a completed accept adds to ready and a handler takes off,  *)
(* and the oldest accept of a port.                                        *)
Handler == [port : Port, sess : Sessions, ok : BOOLEAN]

LEMMA WiderSeq ==
  ASSUME NEW S, NEW T, S \subseteq T, NEW seq \in Seq(S)
  PROVE  seq \in Seq(T)
<1>1. seq \in [1 .. Len(seq) -> T] /\ Len(seq) \in Nat
  OBVIOUS
<1> QED BY <1>1

LEMMA ReplacedInSeq ==
  ASSUME NEW S, NEW seq \in Seq(S), NEW i \in 1 .. Len(seq), NEW e \in S
  PROVE  [seq EXCEPT ![i] = e] \in Seq(S) /\ Len([seq EXCEPT ![i] = e]) = Len(seq)
<1>1. seq \in [1 .. Len(seq) -> S] /\ Len(seq) \in Nat
  OBVIOUS
<1>2. [seq EXCEPT ![i] = e] \in [1 .. Len(seq) -> S]
  BY <1>1
<1> QED BY <1>1, <1>2

LEMMA ReadyAppend ==
  ASSUME AcceptorTypeOK, NEW r \in Handler, ready' = Append(ready, r)
  PROVE  /\ ready' \in Seq(Handler) /\ DOMAIN ready' = 1 .. Len(ready) + 1
         /\ ready'[Len(ready) + 1] = r
         /\ \A i \in MainReady : ready'[i] = ready[i] /\ i \in 1 .. Len(ready)
         /\ MainReady' = MainReady \union {i \in {Len(ready) + 1} : r.port = "main"}
<1>1. ready \in Seq(Handler) /\ Len(ready) \in Nat /\ DOMAIN ready = 1 .. Len(ready)
  BY DEF AcceptorTypeOK, Handler
<1> HIDE DEF Handler
<1>2. /\ ready' \in Seq(Handler) /\ DOMAIN ready' = 1 .. Len(ready) + 1
      /\ ready'[Len(ready) + 1] = r
      /\ \A i \in 1 .. Len(ready) : ready'[i] = ready[i]
  BY <1>1
<1>3. MainReady' = MainReady \union {i \in {Len(ready) + 1} : r.port = "main"}
  BY <1>1, <1>2 DEF MainReady
<1> QED BY <1>1, <1>2, <1>3 DEF MainReady

LEMMA ReadyTail ==
  ASSUME AcceptorTypeOK, ready # <<>>, ready' = Tail(ready)
  PROVE  /\ ready' \in Seq(Handler) /\ Head(ready) = ready[1] /\ 1 \in DOMAIN ready
         /\ ready[1] \in Handler
         /\ \A i \in MainReady' :
              i \in Nat \ {0} /\ i + 1 \in MainReady /\ ready'[i] = ready[i + 1]
<1>1. ready \in Seq(Handler) /\ Len(ready) \in Nat /\ DOMAIN ready = 1 .. Len(ready)
  BY DEF AcceptorTypeOK, Handler
<1> HIDE DEF Handler
<1>2. /\ ready' \in Seq(Handler) /\ Head(ready) = ready[1] /\ Len(ready) >= 1
      /\ DOMAIN ready' = 1 .. Len(ready) - 1
      /\ \A i \in 1 .. Len(ready) - 1 : ready'[i] = ready[i + 1]
  BY <1>1
<1>3. ASSUME NEW i \in MainReady'
      PROVE  i \in Nat \ {0} /\ i + 1 \in MainReady /\ ready'[i] = ready[i + 1]
  BY <1>1, <1>2 DEF MainReady
<1>4. 1 \in DOMAIN ready /\ ready[1] \in Handler
  BY <1>1, <1>2
<1> QED BY <1>2, <1>3, <1>4

LEMMA OldestAccept ==
  ASSUME AcceptorTypeOK, NEW p \in Port, accepting[p] # <<>>
  PROVE  /\ NextOf(p) = accepting[p][1] /\ NextOf(p) \in Sessions
         /\ Len(accepting[p]) \in Nat \ {0} /\ Tail(accepting[p]) \in Seq(Sessions)
         /\ DOMAIN accepting[p] = 1 .. Len(accepting[p])
         /\ Len(Tail(accepting[p])) = Len(accepting[p]) - 1
         /\ DOMAIN Tail(accepting[p]) = 1 .. Len(accepting[p]) - 1
         /\ \A i \in 1 .. Len(accepting[p]) - 1 : Tail(accepting[p])[i] = accepting[p][i + 1]
<1>1. accepting[p] \in Seq(Sessions)
  BY DEF AcceptorTypeOK
<1> HIDE DEF Sessions
<1> QED BY <1>1 DEF NextOf

(* Counting from the newest session downwards survives the loss of the     *)
(* oldest accept.                                                          *)
LEMMA GameQueueTail ==
  ASSUME AInv, accepting["game"] # <<>>, accepting'["game"] = Tail(accepting["game"]), Newest' = Newest
  PROVE  /\ \A i \in DOMAIN accepting'["game"] :
              accepting'["game"][i] = Newest - Len(accepting'["game"]) + i
         /\ Len(accepting'["game"]) = Len(accepting["game"]) - 1
         /\ NextOf("game") = Newest - Len(accepting["game"]) + 1
<1>1. "game" \in Port /\ Newest \in Nat
  BY DEF Port, AInv, AcceptorTypeOK, Newest
<1>2. \A i \in DOMAIN accepting["game"] :
        accepting["game"][i] = Newest - Len(accepting["game"]) + i
  BY DEF AInv, GameInv
<1> DEFINE q == accepting["game"]
           t == Tail(q)
<1>3. /\ Len(q) \in Nat \ {0} /\ DOMAIN q = 1 .. Len(q) /\ NextOf("game") = q[1]
      /\ Len(t) = Len(q) - 1 /\ DOMAIN t = 1 .. Len(q) - 1
      /\ \A i \in 1 .. Len(q) - 1 : t[i] = q[i + 1]
  BY <1>1, OldestAccept DEF AInv
<1>4. accepting'["game"] = t /\ \A i \in DOMAIN q : q[i] = Newest - Len(q) + i
  BY <1>2
<1> HIDE DEF q, t
<1>5. ASSUME NEW i \in 1 .. Len(q) - 1
      PROVE  t[i] = Newest - Len(t) + i
  <2>1. t[i] = q[i + 1] /\ i + 1 \in DOMAIN q
    BY <1>3
  <2>2. q[i + 1] = Newest - Len(q) + (i + 1)
    BY <1>4, <2>1
  <2> QED BY <1>1, <1>3, <2>1, <2>2
<1>6. q[1] = Newest - Len(q) + 1
  BY <1>1, <1>3, <1>4
<1> QED BY <1>3, <1>4, <1>5, <1>6 DEF q

-----------------------------------------------------------------------------
(* Accepts that complete or fail *)
LEMMA AcceptedTypes ==
  ASSUME AInv, NEW p \in Port, Accepted(p)
  PROVE  /\ AcceptorTypeOK' /\ Newest' = Newest /\ Newest \in Nat
         /\ taken[p] + 1 \in DOMAIN arrived[p] /\ arrived[p][taken[p] + 1] \in Client
         /\ [port |-> p, sess |-> NextOf(p), ok |-> TRUE] \in Handler
<1> USE DEF AInv
<1>1. NextOf(p) \in Sessions /\ Tail(accepting[p]) \in Seq(Sessions)
  BY OldestAccept DEF Accepted
<1>2. arrived[p] \in Seq(Client) /\ taken[p] \in Nat /\ taken[p] < Len(arrived[p])
  BY DEF AcceptorTypeOK, Accepted
<1>3. taken[p] + 1 \in DOMAIN arrived[p] /\ arrived[p][taken[p] + 1] \in Client
  BY <1>2
<1>4. peer' = [peer EXCEPT ![p] = [peer[p] EXCEPT ![NextOf(p)] = arrived[p][taken[p] + 1]]]
  BY DEF Accepted, AcceptorTypeOK
<1>5. /\ \A q \in Port : peer'[q] \in Seq(Client \union {None}) /\ Len(peer'[q]) = Len(peer[q])
      /\ peer' \in [Port -> Seq(Client \union {None})]
  <2> DEFINE S == Client \union {None}
             new == [peer[p] EXCEPT ![NextOf(p)] = arrived[p][taken[p] + 1]]
  <2>1. peer[p] \in Seq(S) /\ arrived[p][taken[p] + 1] \in S /\ peer \in [Port -> Seq(S)]
    BY <1>3 DEF AcceptorTypeOK
  <2>2. new \in Seq(S) /\ Len(new) = Len(peer[p])
    <3>1. NextOf(p) \in 1 .. Len(peer[p])
      BY <1>1 DEF AcceptorTypeOK, Sessions, Newest, Port
    <3> HIDE DEF S
    <3> QED BY <2>1, <3>1, ReplacedInSeq
  <2>3. peer' = [peer EXCEPT ![p] = new]
    BY <1>4
  <2> HIDE DEF S, new
  <2>4. peer' \in [Port -> Seq(S)] /\ \A q \in Port : Len(peer'[q]) = Len(peer[q])
    BY <2>1, <2>2, <2>3
  <2> QED BY <2>4 DEF S
<1>6. Newest' = Newest /\ Newest \in Nat /\ Sessions' = Sessions
  BY <1>5 DEF Newest, Sessions, Port, AcceptorTypeOK
<1>7. [port |-> p, sess |-> NextOf(p), ok |-> TRUE] \in Handler
  BY <1>1 DEF Handler
<1>8. ready' \in Seq([port : Port, sess : Sessions', ok : BOOLEAN])
  BY <1>6, <1>7, ReadyAppend DEF Handler, Accepted
<1>9. taken' \in [Port -> Nat] /\ \A q \in Port : taken'[q] <= Len(arrived'[q])
  BY <1>2 DEF Accepted, AcceptorTypeOK
<1>10. accepting' \in [Port -> Seq(Sessions')]
  BY <1>1, <1>6 DEF Accepted, AcceptorTypeOK
<1>11. Len(peer'["game"]) = Newest'
  BY <1>5, <1>6 DEF Port, AcceptorTypeOK
<1> QED
  BY <1>3, <1>5, <1>6, <1>7, <1>8, <1>9, <1>10, <1>11 DEF Accepted, AcceptorTypeOK

LEMMA AcceptedPeer ==
  ASSUME AInv, NEW p \in Port, Accepted(p)
  PROVE  \A q \in Port : \A k \in Sessions :
           peer'[q][k] = (IF q = p /\ k = NextOf(p) THEN arrived[p][taken[p] + 1] ELSE peer[q][k])
<1>1. NextOf(p) \in Sessions
  BY OldestAccept DEF Accepted, AInv
<1>2. peer' = [peer EXCEPT ![p] = [peer[p] EXCEPT ![NextOf(p)] = arrived[p][taken[p] + 1]]]
  BY DEF Accepted, AInv, AcceptorTypeOK
<1>3. \A q \in Port : DOMAIN peer[q] = Sessions
  BY DEF AInv, AcceptorTypeOK, Sessions, Newest, Port
<1> QED BY <1>1, <1>2, <1>3 DEF AInv, AcceptorTypeOK

LEMMA MainAccepted ==
  ASSUME AInv, Accepted("main")
  PROVE  AInv'
<1> DEFINE r == [port |-> "main", sess |-> NextOf("main"), ok |-> TRUE]
<1>1. "main" \in Port /\ "game" \in Port
  BY DEF Port
<1>2. accepting["main"] = <<Newest>> /\ NextOf("main") = Newest
      /\ taken["main"] = Newest - 1 /\ MainReady = {} /\ started["main"] = 1 .. Newest - 1
  BY DEF AInv, MainInv, NextOf, Accepted
<1>3. /\ AcceptorTypeOK' /\ Newest' = Newest /\ Newest \in Nat /\ r \in Handler
      /\ arrived["main"][Newest] \in Client
  BY <1>1, <1>2, AcceptedTypes
<1>4. /\ taken'["main"] = Newest /\ taken'["game"] = taken["game"]
      /\ accepting'["main"] = <<>> /\ accepting'["game"] = accepting["game"]
      /\ ready' = Append(ready, r)
      /\ UNCHANGED <<arrived, started, m_session_map, inVain>>
  BY <1>1, <1>2 DEF Accepted, AInv, AcceptorTypeOK
<1>5. /\ \A k \in Sessions : peer'["main"][k] = IF k = Newest THEN arrived["main"][Newest] ELSE peer["main"][k]
      /\ \A k \in Sessions : peer'["game"][k] = peer["game"][k]
  <2>1. taken["main"] + 1 = Newest
    BY <1>2, <1>3
  <2> QED BY <1>1, <1>2, <2>1, AcceptedPeer
<1>6. MainReady' = {Len(ready) + 1} /\ ready'[Len(ready) + 1] = r
  BY <1>2, <1>3, <1>4, ReadyAppend DEF AInv
<1>7. Newest >= 1 /\ Newest \in Sessions /\ None \notin Client /\ Sessions' = Sessions
  BY <1>3, AcceptorAssumption DEF AInv, MainInv, Sessions, Newest
<1>8. MainInv'
  BY <1>2, <1>3, <1>4, <1>5, <1>6, <1>7 DEF MainInv
<1>9. GameInv'
  BY <1>3, <1>4 DEF AInv, GameInv
<1>10. PeerInv'
  <2>1. ASSUME NEW k \in Sessions, peer'["main"][k] # None
        PROVE  k <= taken'["main"] /\ peer'["main"][k] = arrived["main"][k]
    BY <1>2, <1>3, <1>4, <1>5, <1>7, <2>1 DEF AInv, PeerInv, Sessions, Port, Newest
  <2>2. ASSUME NEW k \in Sessions, peer'["game"][k] # None, inVain = {}
        PROVE  k <= taken'["game"] /\ peer'["game"][k] = arrived["game"][k]
    BY <1>1, <1>4, <1>5, <2>2 DEF AInv, PeerInv
  <2> QED BY <1>4, <1>7, <2>1, <2>2 DEF PeerInv, Port
<1>11. ArrivedOnce'
  BY <1>4 DEF AInv, ArrivedOnce
<1>12. SessionMapExact'
  <2>1. \A s \in started["main"] : s \in Sessions /\ peer'["main"][s] = peer["main"][s]
    BY <1>2, <1>3, <1>5 DEF Sessions, Newest
  <2> QED BY <1>4, <2>1 DEF AInv, SessionMapExact
<1> QED BY <1>3, <1>8, <1>9, <1>10, <1>11, <1>12 DEF AInv

LEMMA GameAccepted ==
  ASSUME AInv, Accepted("game")
  PROVE  AInv'
<1> DEFINE s == NextOf("game")
           r == [port |-> "game", sess |-> s, ok |-> TRUE]
<1>1. "main" \in Port /\ "game" \in Port
  BY DEF Port
<1>2. /\ AcceptorTypeOK' /\ Newest' = Newest /\ Newest \in Nat /\ r \in Handler
      /\ arrived["game"][taken["game"] + 1] \in Client
  BY <1>1, AcceptedTypes
<1>3. /\ taken'["game"] = taken["game"] + 1 /\ taken'["main"] = taken["main"]
      /\ accepting'["game"] = Tail(accepting["game"]) /\ accepting'["main"] = accepting["main"]
      /\ accepting["game"] # <<>> /\ ready' = Append(ready, r)
      /\ UNCHANGED <<arrived, started, m_session_map, inVain>>
  BY <1>1 DEF Accepted, AInv, AcceptorTypeOK
<1>4. /\ \A k \in Sessions : peer'["main"][k] = peer["main"][k]
      /\ \A k \in Sessions : peer'["game"][k] = IF k = s THEN arrived["game"][taken["game"] + 1] ELSE peer["game"][k]
  BY <1>1, AcceptedPeer
<1>5. MainReady' = MainReady /\ \A i \in MainReady : ready'[i] = ready[i]
  BY <1>2, <1>3, ReadyAppend DEF AInv
<1>6. Newest >= 1 /\ Newest \in Sessions /\ Sessions' = Sessions /\ started["main"] = 1 .. Newest - 1
  BY <1>2 DEF AInv, MainInv, Sessions, Newest
<1>7. MainInv'
  BY <1>2, <1>3, <1>4, <1>5, <1>6 DEF AInv, MainInv
<1>8. /\ \A i \in DOMAIN accepting'["game"] :
           accepting'["game"][i] = Newest - Len(accepting'["game"]) + i
      /\ Len(accepting'["game"]) = Len(accepting["game"]) - 1
      /\ s = Newest - Len(accepting["game"]) + 1
  BY <1>2, <1>3, GameQueueTail
<1>9. taken["game"] \in Nat /\ Len(accepting["game"]) \in Nat
  BY <1>1 DEF AInv, AcceptorTypeOK
<1>10. GameInv'
  BY <1>2, <1>3, <1>8, <1>9 DEF AInv, GameInv
<1>11. PeerInv'
  <2>1. ASSUME NEW k \in Sessions, peer'["main"][k] # None
        PROVE  k <= taken'["main"] /\ peer'["main"][k] = arrived["main"][k]
    BY <1>1, <1>3, <1>4, <2>1 DEF AInv, PeerInv
  <2>2. ASSUME NEW k \in Sessions, peer'["game"][k] # None, inVain = {}
        PROVE  k <= taken'["game"] /\ peer'["game"][k] = arrived["game"][k]
    <3>1. s = taken["game"] + 1
      BY <1>2, <1>8, <1>9, <2>2 DEF AInv, GameInv
    <3>2. k \in Int
      BY DEF Sessions
    <3>3. CASE k = s
      BY <1>3, <1>4, <1>9, <3>1, <3>3
    <3>4. CASE k # s
      <4>1. k <= taken["game"] /\ peer["game"][k] = arrived["game"][k]
        BY <1>1, <1>4, <2>2, <3>4 DEF AInv, PeerInv
      <4> QED BY <1>3, <1>4, <1>9, <3>2, <3>4, <4>1
    <3> QED BY <3>3, <3>4
  <2> QED BY <1>3, <1>6, <2>1, <2>2 DEF PeerInv, Port
<1>12. ArrivedOnce'
  BY <1>3 DEF AInv, ArrivedOnce
<1>13. SessionMapExact'
  <2>1. \A k \in started["main"] : k \in Sessions /\ peer'["main"][k] = peer["main"][k]
    BY <1>2, <1>4, <1>6 DEF Sessions, Newest
  <2> QED BY <1>3, <2>1 DEF AInv, SessionMapExact
<1> QED BY <1>2, <1>7, <1>10, <1>11, <1>12, <1>13 DEF AInv

LEMMA FailTypes ==
  ASSUME AInv, NEW p \in Port, AcceptFails(p)
  PROVE  AcceptorTypeOK' /\ [port |-> p, sess |-> NextOf(p), ok |-> FALSE] \in Handler
<1> USE DEF AInv
<1>1. NextOf(p) \in Sessions /\ Tail(accepting[p]) \in Seq(Sessions)
  BY OldestAccept DEF AcceptFails
<1>2. [port |-> p, sess |-> NextOf(p), ok |-> FALSE] \in Handler
  BY <1>1 DEF Handler
<1>3. peer' = peer /\ Newest' = Newest /\ Sessions' = Sessions
  BY DEF AcceptFails, Newest, Sessions
<1>4. ready' \in Seq([port : Port, sess : Sessions, ok : BOOLEAN])
  BY <1>2, ReadyAppend DEF Handler, AcceptFails
<1>5. accepting' \in [Port -> Seq(Sessions)] /\ inVain' \subseteq Sessions
  BY <1>1 DEF AcceptFails, AcceptorTypeOK
<1> QED BY <1>2, <1>3, <1>4, <1>5 DEF AcceptFails, AcceptorTypeOK

LEMMA MainAcceptFails ==
  ASSUME AInv, AcceptFails("main")
  PROVE  AInv'
<1> DEFINE r == [port |-> "main", sess |-> NextOf("main"), ok |-> FALSE]
<1>1. "main" \in Port /\ "game" \in Port /\ AcceptorTypeOK' /\ r \in Handler
  BY FailTypes DEF Port
<1>2. accepting["main"] = <<Newest>> /\ NextOf("main") = Newest /\ MainReady = {}
  BY DEF AInv, MainInv, NextOf, AcceptFails
<1>3. /\ accepting'["main"] = <<>> /\ accepting'["game"] = accepting["game"]
      /\ ready' = Append(ready, r)
      /\ UNCHANGED <<arrived, taken, peer, started, m_session_map, inVain>>
      /\ Newest' = Newest /\ Sessions' = Sessions
  BY <1>1, <1>2 DEF AcceptFails, AInv, AcceptorTypeOK, Newest, Sessions
<1>4. MainReady' = {Len(ready) + 1} /\ ready'[Len(ready) + 1] = r
  BY <1>1, <1>2, <1>3, ReadyAppend DEF AInv
<1>5. MainInv'
  BY <1>2, <1>3, <1>4 DEF AInv, MainInv
<1>6. GameInv' /\ PeerInv' /\ ArrivedOnce' /\ SessionMapExact'
  BY <1>3 DEF AInv, GameInv, PeerInv, ArrivedOnce, SessionMapExact
<1> QED BY <1>1, <1>5, <1>6 DEF AInv

LEMMA GameAcceptFails ==
  ASSUME AInv, AcceptFails("game")
  PROVE  AInv'
<1> DEFINE r == [port |-> "game", sess |-> NextOf("game"), ok |-> FALSE]
<1>1. "main" \in Port /\ "game" \in Port /\ AcceptorTypeOK' /\ r \in Handler
  BY FailTypes DEF Port
<1>2. /\ accepting'["game"] = Tail(accepting["game"]) /\ accepting'["main"] = accepting["main"]
      /\ accepting["game"] # <<>> /\ ready' = Append(ready, r)
      /\ UNCHANGED <<arrived, taken, peer, started, m_session_map>>
      /\ Newest' = Newest /\ Sessions' = Sessions /\ inVain' # {}
  BY <1>1 DEF AcceptFails, AInv, AcceptorTypeOK, Newest, Sessions
<1>3. MainReady' = MainReady /\ \A i \in MainReady : ready'[i] = ready[i]
  BY <1>1, <1>2, ReadyAppend DEF AInv
<1>4. MainInv'
  BY <1>2, <1>3 DEF AInv, MainInv
<1>5. GameInv'
  BY <1>2, GameQueueTail DEF GameInv
<1>6. PeerInv' /\ ArrivedOnce' /\ SessionMapExact'
  BY <1>2 DEF AInv, PeerInv, ArrivedOnce, SessionMapExact
<1> QED BY <1>1, <1>4, <1>5, <1>6 DEF AInv

-----------------------------------------------------------------------------
(* Handlers.  Those that offer no new session only shorten ready. *)
LEMMA ReadyShorter ==
  ASSUME AInv, ready # <<>>, ready' = Tail(ready), started'["main"] = started["main"],
         UNCHANGED <<arrived, taken, accepting, peer, m_session_map, inVain>>
  PROVE  MainInv' /\ GameInv' /\ PeerInv' /\ ArrivedOnce' /\ SessionMapExact'
<1>1. Newest' = Newest /\ Sessions' = Sessions
  BY DEF Newest, Sessions
<1>2. \A i \in MainReady' : i \in Nat \ {0} /\ i + 1 \in MainReady /\ ready'[i] = ready[i + 1]
  BY ReadyTail DEF AInv
<1>3. \A i, j \in MainReady' : i = j
  <2> TAKE i, j \in MainReady'
  <2>1. i \in Nat /\ j \in Nat /\ i + 1 = j + 1
    BY <1>2 DEF AInv, MainInv
  <2> QED BY <2>1
<1>4. MainInv'
  BY <1>1, <1>2, <1>3 DEF AInv, MainInv
<1>5. GameInv' /\ PeerInv' /\ ArrivedOnce' /\ SessionMapExact'
  BY <1>1 DEF AInv, GameInv, PeerInv, ArrivedOnce, SessionMapExact
<1> QED BY <1>4, <1>5

LEMMA OtherHandlersStep ==
  ASSUME AInv, HandleAcceptError \/ GameHandleAccept \/ GameHandleAcceptError
  PROVE  AInv'
<1>1. ready # <<>> /\ ready' = Tail(ready) /\ Head(ready) \in Handler
  BY ReadyTail DEF AInv, HandleAcceptError, GameHandleAccept, GameHandleAcceptError, HandlerOf
<1>2. UNCHANGED <<arrived, taken, accepting, peer, m_session_map, gone, inVain>>
  BY DEF HandleAcceptError, GameHandleAccept, GameHandleAcceptError
<1>3. started'["main"] = started["main"] /\ started' \in [Port -> SUBSET Sessions]
  <2>1. started \in [Port -> SUBSET Sessions] /\ Head(ready).sess \in Sessions
        /\ "main" \in Port /\ "game" \in Port
    BY <1>1 DEF AInv, AcceptorTypeOK, Handler, Port
  <2>2. CASE GameHandleAccept
    <3>1. started' = [started EXCEPT !["game"] = started["game"] \union {Head(ready).sess}]
      BY <2>2 DEF GameHandleAccept, Started
    <3> QED BY <2>1, <3>1
  <2>3. CASE HandleAcceptError \/ GameHandleAcceptError
    BY <2>1, <2>3 DEF HandleAcceptError, GameHandleAcceptError
  <2> QED BY <2>2, <2>3
<1>4. status' \in {"running", "exited", "undefined"}
  BY DEF AInv, AcceptorTypeOK, HandleAcceptError, GameHandleAccept, GameHandleAcceptError
<1>5. ready' \in Seq([port : Port, sess : Sessions, ok : BOOLEAN])
  BY <1>1, ReadyTail DEF AInv, Handler
<1>6. AcceptorTypeOK'
  BY <1>2, <1>3, <1>4, <1>5 DEF AInv, AcceptorTypeOK, Newest, Sessions
<1> QED BY <1>1, <1>2, <1>3, <1>6, ReadyShorter DEF AInv

(* The new session is accepted on the main port, and the next one offered. *)
LEMMA HandleAcceptStep ==
  ASSUME AInv, HandleAccept
  PROVE  AInv'
<1> DEFINE n == Newest
           c == peer["main"][n]
<1>1. "main" \in Port /\ "game" \in Port
  BY DEF Port
<1>2. ready # <<>> /\ ready' = Tail(ready) /\ Head(ready) = ready[1] /\ 1 \in MainReady /\ ready[1].ok
  BY ReadyTail DEF AInv, HandleAccept, HandlerOf, MainReady
<1>3. n \in Nat /\ n >= 1 /\ n \in Sessions /\ Sessions = 1 .. n /\ started["main"] = 1 .. n - 1
  BY <1>1 DEF AInv, AcceptorTypeOK, MainInv, Newest, Sessions
<1>4. /\ Head(ready).sess = n /\ taken["main"] = n /\ c # None
      /\ accepting["main"] = <<>>
  BY <1>2 DEF AInv, MainInv
<1>5. MainReady' = {}
  <2> SUFFICES ASSUME NEW i \in MainReady' PROVE FALSE
    OBVIOUS
  <2>1. i \in Nat \ {0} /\ i + 1 \in MainReady
    BY <1>2, ReadyTail DEF AInv
  <2>2. i + 1 = 1
    BY <1>2, <2>1 DEF AInv, MainInv
  <2> QED BY <2>1, <2>2
<1>6. UNCHANGED <<arrived, taken, gone, inVain>>
  BY DEF HandleAccept
<1>7. ready' \in Seq([port : Port, sess : Sessions, ok : BOOLEAN])
  BY <1>2, ReadyTail DEF AInv, Handler
<1>8. CASE c \in gone
  <2>1. UNCHANGED <<m_session_map, started, peer, accepting>> /\ status' = "exited"
    BY <1>4, <1>8 DEF HandleAccept
  <2>2. AcceptorTypeOK'
    BY <1>6, <1>7, <2>1 DEF AInv, AcceptorTypeOK, Newest, Sessions
  <2> QED BY <1>2, <1>6, <2>1, <2>2, ReadyShorter DEF AInv
<1>9. CASE c \notin gone
  <2>1. /\ m_session_map' = AddSession(c, n)
        /\ started' = [started EXCEPT !["main"] = started["main"] \union {n}]
        /\ peer' = [p \in Port |-> Append(peer[p], None)]
        /\ accepting' = [p \in Port |-> Append(accepting[p], n + 1)]
        /\ status' = status
    BY <1>4, <1>9 DEF HandleAccept, Started, Rearmed, NewSession
  <2> HIDE DEF n, c
  <2>2. ASSUME NEW p \in Port
        PROVE  /\ peer'[p] \in Seq(Client \union {None}) /\ Len(peer'[p]) = n + 1
               /\ \A k \in 1 .. n : peer'[p][k] = peer[p][k]
               /\ peer'[p][n + 1] = None
    <3>1. peer[p] \in Seq(Client \union {None}) /\ Len(peer[p]) = n
      BY DEF AInv, AcceptorTypeOK, Port, Newest, n
    <3> QED BY <1>3, <2>1, <3>1
  <2>3. Newest' = n + 1 /\ Sessions' = 1 .. n + 1 /\ Sessions \subseteq Sessions'
    BY <1>1, <1>3, <2>2 DEF Newest, Sessions
  <2>4. ASSUME NEW p \in Port
        PROVE  /\ accepting'[p] \in Seq(Sessions')
               /\ Len(accepting'[p]) = Len(accepting[p]) + 1 /\ Len(accepting[p]) \in Nat
               /\ \A i \in 1 .. Len(accepting[p]) : accepting'[p][i] = accepting[p][i]
               /\ accepting'[p][Len(accepting[p]) + 1] = n + 1
    <3>1. accepting[p] \in Seq(Sessions) /\ accepting'[p] = Append(accepting[p], n + 1)
      BY <2>1 DEF AInv, AcceptorTypeOK
    <3>2. accepting[p] \in Seq(Sessions') /\ n + 1 \in Sessions'
      BY <1>3, <2>3, <3>1, WiderSeq
    <3> HIDE DEF Sessions
    <3> QED BY <3>1, <3>2
  <2>5. started' \in [Port -> SUBSET Sessions'] /\ started'["main"] = 1 .. n
    <3>1. started \in [Port -> SUBSET Sessions'] /\ n \in Sessions'
      BY <1>3, <2>3 DEF AInv, AcceptorTypeOK
    <3>2. started["main"] \union {n} = 1 .. n
      BY <1>3
    <3> HIDE DEF Sessions
    <3> QED BY <1>1, <2>1, <3>1, <3>2
  <2>6. c \in Client /\ n <= Len(arrived["main"]) /\ c = arrived["main"][n]
    <3>1. c \in Client \union {None}
      BY <1>1, <1>3 DEF AInv, AcceptorTypeOK, c, Newest, n
    <3> QED BY <1>1, <1>3, <1>4, <3>1 DEF AInv, AcceptorTypeOK, PeerInv, c
  <2>7. c \notin DOMAIN m_session_map
    <3> SUFFICES ASSUME c \in DOMAIN m_session_map PROVE FALSE
      OBVIOUS
    <3> DEFINE k == m_session_map[c]
    <3>1. k \in 1 .. n - 1 /\ peer["main"][k] = c
      BY <1>3 DEF AInv, SessionMapExact
    <3>2. arrived["main"][k] = arrived["main"][n] /\ k \in 1 .. n /\ k # n
      BY <1>1, <1>3, <1>4, <2>6, <3>1 DEF AInv, PeerInv
    <3>3. arrived["main"] \in Seq(Client) /\ DOMAIN arrived["main"] = 1 .. Len(arrived["main"])
          /\ Len(arrived["main"]) \in Nat
      BY <1>1 DEF AInv, AcceptorTypeOK
    <3>4. k \in DOMAIN arrived["main"] /\ n \in DOMAIN arrived["main"]
      BY <1>3, <2>6, <3>2, <3>3
    <3> QED BY <1>1, <3>2, <3>4 DEF AInv, ArrivedOnce
  <2>8. /\ DOMAIN m_session_map' = DOMAIN m_session_map \union {c}
        /\ m_session_map'[c] = n
        /\ \A x \in DOMAIN m_session_map : m_session_map'[x] = m_session_map[x]
        /\ m_session_map' \in [DOMAIN m_session_map' -> Sessions']
    <3>1. /\ m_session_map \in [DOMAIN m_session_map -> Sessions]
          /\ n \in Sessions' /\ Sessions \subseteq Sessions'
      BY <1>3, <2>3 DEF AInv, AcceptorTypeOK
    <3>2. m_session_map' = [x \in DOMAIN m_session_map \union {c} |->
                             IF x \in DOMAIN m_session_map THEN m_session_map[x] ELSE n]
      BY <2>1 DEF AddSession
    <3> HIDE DEF Sessions
    <3> QED BY <2>7, <3>1, <3>2
  <2>9. AcceptorTypeOK'
    <3>1. peer' \in [Port -> Seq(Client \union {None})] /\ accepting' \in [Port -> Seq(Sessions')]
      BY <2>1, <2>2, <2>4
    <3>2. Len(peer'["game"]) = Newest'
      BY <1>1, <2>2, <2>3
    <3>3. ready' \in Seq([port : Port, sess : Sessions', ok : BOOLEAN])
      <4>1. [port : Port, sess : Sessions, ok : BOOLEAN] \subseteq [port : Port, sess : Sessions', ok : BOOLEAN]
        BY <2>3
      <4> QED BY <1>7, <4>1, WiderSeq
    <3>4. inVain' \subseteq Sessions' /\ DOMAIN m_session_map' \subseteq Client
      BY <1>6, <2>3, <2>6, <2>8 DEF AInv, AcceptorTypeOK
    <3> QED BY <1>6, <2>1, <2>5, <2>8, <3>1, <3>2, <3>3, <3>4 DEF AInv, AcceptorTypeOK
  <2>10. MainInv'
    <3>1. accepting'["main"] = <<n + 1>>
      <4>1. accepting'["main"] = Append(<<>>, n + 1)
        BY <1>1, <1>4, <2>1
      <4>2. Append(<<>>, n + 1) = <<n + 1>>
        BY <1>3
      <4> QED BY <4>1, <4>2
    <3> QED BY <1>3, <1>4, <1>5, <1>6, <2>3, <2>5, <3>1 DEF MainInv
  <2>11. GameInv'
    <3> DEFINE len == Len(accepting["game"])
    <3>1. /\ len \in Nat /\ Len(accepting'["game"]) = len + 1
          /\ \A i \in 1 .. len : accepting'["game"][i] = accepting["game"][i]
          /\ accepting'["game"][len + 1] = n + 1
          /\ DOMAIN accepting'["game"] = 1 .. len + 1
      BY <1>1, <2>4
    <3>2. \A i \in 1 .. len : accepting["game"][i] = n - len + i
      BY <1>1 DEF AInv, AcceptorTypeOK, GameInv, n
    <3>3. taken["game"] \in Nat /\ (inVain = {} => taken["game"] + len = n)
      BY <1>1 DEF AInv, AcceptorTypeOK, GameInv, n
    <3> HIDE DEF len
    <3>4. ASSUME NEW i \in DOMAIN accepting'["game"]
          PROVE  accepting'["game"][i] = Newest' - Len(accepting'["game"]) + i
      <4>1. CASE i \in 1 .. len
        <5>1. accepting'["game"][i] = n - len + i
          BY <3>1, <3>2, <4>1
        <5> QED BY <1>3, <2>3, <3>1, <4>1, <5>1
      <4>2. CASE i = len + 1
        BY <1>3, <2>3, <3>1, <4>2
      <4> QED BY <3>1, <4>1, <4>2
    <3>5. inVain' = {} => taken'["game"] + Len(accepting'["game"]) = Newest'
      <4>1. inVain' = inVain /\ taken' = taken
        BY <1>6
      <4>2. Len(accepting'["game"]) = len + 1 /\ Newest' = n + 1 /\ n \in Nat /\ len \in Nat
        BY <1>3, <2>3, <3>1
      <4> QED BY <3>3, <4>1, <4>2
    <3> QED BY <3>4, <3>5 DEF GameInv
  <2>12. PeerInv'
    <3> SUFFICES ASSUME NEW p \in Port, NEW k \in 1 .. n + 1, peer'[p][k] # None, p = "game" => inVain = {}
                 PROVE  k <= taken[p] /\ peer'[p][k] = arrived[p][k]
      BY <1>6, <2>3 DEF PeerInv
    <3>1. k \in 1 .. n /\ peer'[p][k] = peer[p][k]
      BY <1>3, <2>2
    <3> QED BY <1>3, <3>1 DEF AInv, PeerInv
  <2>13. ArrivedOnce'
    BY <1>6 DEF AInv, ArrivedOnce
  <2>14. SessionMapExact'
    <3>1. \A s \in 1 .. n : peer'["main"][s] = peer["main"][s]
      BY <1>1, <2>2
    <3>2. ASSUME NEW x \in DOMAIN m_session_map'
          PROVE  m_session_map'[x] \in started'["main"] /\ peer'["main"][m_session_map'[x]] = x
      <4>1. CASE x = c
        BY <1>3, <2>5, <2>8, <3>1, <4>1 DEF c
      <4>2. CASE x # c
        <5>1. m_session_map'[x] \in 1 .. n - 1 /\ peer["main"][m_session_map'[x]] = x
          BY <1>3, <2>8, <4>2 DEF AInv, SessionMapExact
        <5> QED BY <1>3, <2>5, <3>1, <5>1
      <4> QED BY <4>1, <4>2
    <3>3. ASSUME NEW s \in started'["main"]
          PROVE  peer'["main"][s] \in DOMAIN m_session_map' /\ m_session_map'[peer'["main"][s]] = s
      <4>1. CASE s = n
        BY <1>3, <2>8, <3>1, <4>1 DEF c
      <4>2. CASE s # n
        <5>1. s \in started["main"] /\ s \in 1 .. n
          BY <1>3, <2>5, <4>2
        <5> QED BY <2>8, <3>1, <5>1 DEF AInv, SessionMapExact
      <4> QED BY <4>1, <4>2
    <3> QED BY <3>2, <3>3 DEF SessionMapExact
  <2> QED BY <2>9, <2>10, <2>11, <2>12, <2>13, <2>14 DEF AInv
<1> QED BY <1>8, <1>9

-----------------------------------------------------------------------------
LEMMA InitAInv == Init => AInv
<1> SUFFICES ASSUME Init PROVE AInv
  OBVIOUS
<1>1. /\ arrived = [p \in Port |-> <<>>] /\ taken = [p \in Port |-> 0]
      /\ accepting = [p \in Port |-> <<1>>] /\ ready = <<>>
      /\ peer = [p \in Port |-> <<None>>] /\ started = [p \in Port |-> {}]
      /\ m_session_map = <<>> /\ gone = {} /\ inVain = {} /\ status = "running"
  BY DEF Init
<1>2. Newest = 1 /\ Sessions = {1} /\ DOMAIN m_session_map = {} /\ MainReady = {}
  BY <1>1 DEF Newest, Sessions, Port, MainReady
<1>3. <<1>> \in Seq(Sessions) /\ <<None>> \in Seq(Client \union {None})
  BY <1>2
<1>4. AcceptorTypeOK
  BY <1>1, <1>2, <1>3 DEF AcceptorTypeOK, Port
<1>5. MainInv /\ GameInv
  BY <1>1, <1>2 DEF MainInv, GameInv, Port
<1>6. PeerInv /\ ArrivedOnce /\ SessionMapExact
  BY <1>1, <1>2 DEF PeerInv, ArrivedOnce, SessionMapExact, Port
<1> QED BY <1>4, <1>5, <1>6 DEF AInv

LEMMA AInvStep == AInv /\ [Next]_vars => AInv'
<1> SUFFICES ASSUME AInv, [Next]_vars PROVE AInv'
  OBVIOUS
<1>1. CASE Environment
  <2>1. ASSUME NEW p \in Port, AcceptFails(p) PROVE AInv'
    BY <2>1, MainAcceptFails, GameAcceptFails DEF Port
  <2> QED BY <1>1, <2>1, ConnectStep, ResetStep DEF Environment
<1>2. CASE \E p \in Port : Accepted(p)
  BY <1>2, MainAccepted, GameAccepted DEF Port
<1>3. CASE Handlers
  BY <1>3, HandleAcceptStep, OtherHandlersStep DEF Handlers
<1>4. CASE UNCHANGED vars
  <2>1. AcceptorTypeOK'
    BY <1>4 DEF vars, AInv, AcceptorTypeOK, Newest, Sessions
  <2>2. MainInv' /\ GameInv'
    BY <1>4 DEF vars, AInv, MainInv, GameInv, MainReady, Newest
  <2>3. PeerInv' /\ ArrivedOnce' /\ SessionMapExact'
    BY <1>4 DEF vars, AInv, PeerInv, ArrivedOnce, SessionMapExact, Sessions
  <2> QED BY <2>1, <2>2, <2>3 DEF AInv
<1> QED BY <1>1, <1>2, <1>3, <1>4 DEF Next

LEMMA AcceptorInvariant == Spec => []AInv
BY InitAInv, AInvStep, PTL DEF Spec

(* Every session has a slot on both ports, and accepts and handlers are    *)
(* about sessions that exist. *)
THEOREM AcceptorTypeInvariant == Spec => []AcceptorTypeOK
<1>1. AInv => AcceptorTypeOK
  BY DEF AInv
<1> QED BY <1>1, AcceptorInvariant, PTL

(* The k-th session gets the k-th connections of the two ports, as long as *)
(* no accept on the game port fails. *)
THEOREM KthSessionKthConnections == Spec => []KthToKth
<1>1. AInv => KthToKth
  <2> SUFFICES ASSUME AInv, NEW p \in Port, NEW k \in Sessions, peer[p][k] # None,
                      p = "game" => inVain = {}
               PROVE  k <= Len(arrived[p]) /\ peer[p][k] = arrived[p][k]
    BY DEF KthToKth
  <2>1. k <= taken[p] /\ peer[p][k] = arrived[p][k]
    BY DEF AInv, PeerInv
  <2>2. taken[p] \in Nat /\ taken[p] <= Len(arrived[p]) /\ k \in Int /\ Len(arrived[p]) \in Nat
    BY DEF AInv, AcceptorTypeOK, Sessions
  <2> QED BY <2>1, <2>2
<1> QED BY <1>1, AcceptorInvariant, PTL

(* The game port is at most one session ahead of the main port. *)
THEOREM GameAtMostOneAhead == Spec => []GameAheadByOne
<1>1. AInv => GameAheadByOne
  BY DEF AInv, AcceptorTypeOK, MainInv, GameAheadByOne, Sessions, Newest
<1> QED BY <1>1, AcceptorInvariant, PTL

(* SessionMgr knows exactly the started sessions, each under its client:   *)
(* AddSession, whose result the server ignores, never refuses one. *)
THEOREM SessionMapIsExact == Spec => []SessionMapExact
<1>1. AInv => SessionMapExact
  BY DEF AInv
<1> QED BY <1>1, AcceptorInvariant, PTL
=============================================================================
