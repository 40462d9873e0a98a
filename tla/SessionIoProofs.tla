-------------------------- MODULE SessionIoProofs --------------------------
(***************************************************************************)
(* The two chains of a Session, for messages and buffers of any size and   *)
(* any number of packages and notifications: one reply at a time, replies  *)
(* whole and in order, and nothing torn while the client keeps up.         *)
(***************************************************************************)
EXTENDS SessionIo, FiniteSetTheorems, TLAPS

-----------------------------------------------------------------------------
(* The inductive invariant.                                                *)

(* A chain has a reply outstanding, waiting or posted, exactly when it     *)
(* writes one.                                                             *)
IsReply(w, c) == w.kind = "reply" /\ w.sock = c
None(c, ws) == Replies(c, ws) = {}
One(c, ws) == \E i : Replies(c, ws) = {i}

OutstandingIn(c, ch, ws, ps) ==
  IF ch = "reply" THEN \/ One(c, ws) /\ None(c, ps)
                       \/ None(c, ws) /\ One(c, ps)
                  ELSE None(c, ws) /\ None(c, ps)

(* The replies on the wire are whole and answer packages up to n; the last *)
(* one answers package n, and `sent' bytes of it are there.                *)
Finished(bytes, n) ==
  \A j \in Last(ReplyBytes(bytes)) : bytes[j].pos = Size /\ bytes[j].id <= n

Progress(bytes, n, sent) ==
  IF sent = 0
    THEN Finished(bytes, n - 1)
    ELSE \E j \in Last(ReplyBytes(bytes)) :
           bytes[j] = [kind |-> "reply", id |-> n, pos |-> sent]

InProgress(c, ws, bytes, n) ==
  \A i \in Replies(c, ws) : ws[i].ok => Progress(bytes, n, ws[i].sent)

(* RepliesWhole and IntactWhileKeepingUp, for the bytes of one connection. *)
Whole(bytes) ==
  \A i \in ReplyBytes(bytes) :
    LET byte == bytes[i]
        before == Last({j \in ReplyBytes(bytes) : j < i})
    IN  IF byte.pos > 1
          THEN \E j \in before : bytes[j] = [byte EXCEPT !.pos = @ - 1]
          ELSE \A j \in before : bytes[j].pos = Size /\ bytes[j].id < byte.id

Untorn(bytes) ==
  \A i \in DOMAIN bytes :
    /\ bytes[i].kind # "garbage"
    /\ bytes[i].pos > 1 => i > 1 /\ bytes[i - 1] = [bytes[i] EXCEPT !.pos = @ - 1]

(* While no write had to wait, those that succeeded went out at once.      *)
AtOnce(c, ps) ==
  \A i \in DOMAIN ps : ps[i].sock = c /\ ps[i].ok => ps[i].sent = ps[i].size

ChainInv(c) ==
  /\ OutstandingIn(c, chain[c], waiting[c], posted)
  /\ chain[c] # "reply" => Finished(wire[c], rsp[c])
  /\ InProgress(c, waiting[c], wire[c], rsp[c])
  /\ InProgress(c, posted, wire[c], rsp[c])

QuietInv(c) ==
  ~stalled[c] => waiting[c] = <<>> /\ AtOnce(c, posted) /\ Untorn(wire[c])

IoInv ==
  /\ SessionIoTypeOK
  /\ \A c \in Sock :
       /\ conn[c] = "closed" => chain[c] = "idle"
       /\ Whole(wire[c])
       /\ QuietInv(c)
       /\ ~deleted => ChainInv(c)

-----------------------------------------------------------------------------
(* Replies among the writes of a list.                                     *)
LEMMA RepliesAppend ==
  ASSUME NEW c \in Sock, NEW ws \in Seq(Writes), NEW w \in Writes
  PROVE  /\ IsReply(w, c) => Replies(c, Append(ws, w)) = Replies(c, ws) \union {Len(ws) + 1}
         /\ ~IsReply(w, c) => Replies(c, Append(ws, w)) = Replies(c, ws)
         /\ \A i \in Replies(c, ws) : Append(ws, w)[i] = ws[i]
<1>1. /\ DOMAIN Append(ws, w) = (1 .. Len(ws)) \union {Len(ws) + 1} /\ DOMAIN ws = 1 .. Len(ws)
      /\ \A i \in 1 .. Len(ws) : Append(ws, w)[i] = ws[i]
      /\ Append(ws, w)[Len(ws) + 1] = w
      /\ Len(ws) + 1 \notin DOMAIN ws
  OBVIOUS
<1> HIDE DEF Writes
<1> QED BY <1>1 DEF Replies, IsReply

LEMMA RepliesTail ==
  ASSUME NEW c \in Sock, NEW ws \in Seq(Writes), ws # <<>>
  PROVE  /\ IsReply(Head(ws), c) /\ One(c, ws) => None(c, Tail(ws))
         /\ ~IsReply(Head(ws), c) /\ One(c, ws) => One(c, Tail(ws))
         /\ None(c, ws) => None(c, Tail(ws)) /\ ~IsReply(Head(ws), c)
         /\ \A i \in Replies(c, Tail(ws)) : i + 1 \in Replies(c, ws) /\ Tail(ws)[i] = ws[i + 1]
<1>1. /\ DOMAIN ws = 1 .. Len(ws) /\ Len(ws) \in Nat \ {0}
      /\ DOMAIN Tail(ws) = 1 .. (Len(ws) - 1)
      /\ \A i \in 1 .. (Len(ws) - 1) : Tail(ws)[i] = ws[i + 1]
      /\ Head(ws) = ws[1]
  OBVIOUS
<1>2. \A i \in Replies(c, Tail(ws)) : /\ i + 1 \in Replies(c, ws) /\ Tail(ws)[i] = ws[i + 1]
                                      /\ i \in Nat \ {0}
  BY <1>1 DEF Replies
<1>3. \A i \in Replies(c, ws) : i \in Nat /\ (i = 1 \/ i - 1 \in Replies(c, Tail(ws)))
  BY <1>1 DEF Replies
<1>4. 1 \in Replies(c, ws) <=> IsReply(Head(ws), c)
  BY <1>1 DEF Replies, IsReply
<1>5. None(c, ws) => None(c, Tail(ws)) /\ ~IsReply(Head(ws), c)
  BY <1>2, <1>4 DEF None
<1>6. ASSUME NEW j, Replies(c, ws) = {j}
      PROVE  /\ IsReply(Head(ws), c) => Replies(c, Tail(ws)) = {}
             /\ ~IsReply(Head(ws), c) => Replies(c, Tail(ws)) = {j - 1}
  <2>1. CASE IsReply(Head(ws), c)
    <3>1. j = 1
      BY <1>4, <1>6, <2>1
    <3>2. \A i \in Replies(c, Tail(ws)) : i + 1 = 1 /\ i \in Nat \ {0}
      BY <1>2, <1>6, <3>1
    <3>3. Replies(c, Tail(ws)) = {}
      BY <3>2
    <3> QED BY <2>1, <3>3
  <2>2. CASE ~IsReply(Head(ws), c)
    <3>1. j \in Nat /\ j - 1 \in Replies(c, Tail(ws))
      BY <1>3, <1>4, <1>6, <2>2
    <3>2. \A i \in Replies(c, Tail(ws)) : i + 1 = j /\ i \in Nat
      BY <1>2, <1>6
    <3>3. \A i \in Replies(c, Tail(ws)) : i = j - 1
      BY <3>1, <3>2
    <3> QED BY <2>2, <3>1, <3>3
  <2> QED BY <2>1, <2>2
<1> QED BY <1>2, <1>5, <1>6 DEF One, None

(* The writes of ws follow those of ps, failed.                            *)
LEMMA FailedWrites ==
  ASSUME NEW ws \in Seq(Writes)
  PROVE  LET failed == [i \in DOMAIN ws |-> [ws[i] EXCEPT !.ok = FALSE]]
         IN  /\ failed \in Seq(Writes) /\ DOMAIN failed = DOMAIN ws
             /\ \A i \in DOMAIN ws : /\ failed[i].kind = ws[i].kind
                                     /\ failed[i].sock = ws[i].sock /\ ~failed[i].ok
<1> DEFINE failed == [i \in DOMAIN ws |-> [ws[i] EXCEPT !.ok = FALSE]]
<1>1. DOMAIN ws = 1 .. Len(ws) /\ Len(ws) \in Nat /\ \A i \in DOMAIN ws : ws[i] \in Writes
  OBVIOUS
<1>2. \A i \in DOMAIN ws : /\ failed[i] \in Writes /\ ~failed[i].ok
                           /\ failed[i].kind = ws[i].kind /\ failed[i].sock = ws[i].sock
  BY <1>1 DEF Writes
<1>3. failed \in Seq(Writes) /\ DOMAIN failed = DOMAIN ws
  BY <1>1, <1>2
<1> QED BY <1>2, <1>3

LEMMA Concatenated ==
  ASSUME NEW ps \in Seq(Writes), NEW xs \in Seq(Writes)
  PROVE  /\ ps \o xs \in Seq(Writes)
         /\ \A i \in DOMAIN ps : i \in DOMAIN (ps \o xs) /\ (ps \o xs)[i] = ps[i]
         /\ \A j \in DOMAIN xs : /\ Len(ps) + j \in DOMAIN (ps \o xs)
                                 /\ (ps \o xs)[Len(ps) + j] = xs[j]
         /\ \A i \in DOMAIN (ps \o xs) :
              i \notin DOMAIN ps => /\ i - Len(ps) \in DOMAIN xs
                                   /\ i = Len(ps) + (i - Len(ps))
                                   /\ (ps \o xs)[i] = xs[i - Len(ps)]
<1> DEFINE all == ps \o xs
           m == Len(ps)
<1>1. /\ all \in Seq(Writes) /\ m \in Nat /\ Len(xs) \in Nat
      /\ DOMAIN all = 1 .. (m + Len(xs)) /\ DOMAIN ps = 1 .. m /\ DOMAIN xs = 1 .. Len(xs)
      /\ \A i \in 1 .. m : all[i] = ps[i]
      /\ \A i \in 1 .. (m + Len(xs)) : i > m => all[i] = xs[i - m]
  OBVIOUS
<1> HIDE DEF all, m, Writes
<1>2. \A i \in DOMAIN all :
        i \notin DOMAIN ps => i - m \in DOMAIN xs /\ i = m + (i - m) /\ all[i] = xs[i - m]
  BY <1>1
<1>3. \A j \in DOMAIN xs : m + j \in DOMAIN all /\ all[m + j] = xs[j]
  <2> SUFFICES ASSUME NEW j \in DOMAIN xs PROVE m + j \in DOMAIN all /\ all[m + j] = xs[j]
    OBVIOUS
  <2>1. m + j \in 1 .. (m + Len(xs)) /\ m + j > m /\ (m + j) - m = j
    BY <1>1
  <2> QED BY <1>1, <2>1
<1>4. \A i \in DOMAIN ps : i \in DOMAIN all /\ all[i] = ps[i]
  BY <1>1
<1> QED BY <1>1, <1>2, <1>3, <1>4 DEF all, m

LEMMA RepliesFailed ==
  ASSUME NEW c \in Sock, NEW ps \in Seq(Writes), NEW ws \in Seq(Writes),
         NEW failed \in Seq(Writes), DOMAIN failed = DOMAIN ws,
         \A i \in DOMAIN ws : /\ failed[i].kind = ws[i].kind
                              /\ failed[i].sock = ws[i].sock /\ ~failed[i].ok
  PROVE  /\ None(c, ws) => Replies(c, ps \o failed) = Replies(c, ps)
         /\ None(c, ps) /\ One(c, ws) => One(c, ps \o failed)
         /\ \A i \in DOMAIN (ps \o failed) :
              \/ i \in DOMAIN ps /\ (ps \o failed)[i] = ps[i]
              \/ ~(ps \o failed)[i].ok
<1> DEFINE all == ps \o failed
           m == Len(ps)
<1>1. \A i \in DOMAIN ps : i \in DOMAIN all /\ all[i] = ps[i]
  BY Concatenated
<1>2. \A j \in DOMAIN ws : m + j \in DOMAIN all /\ all[m + j] = failed[j]
  BY Concatenated
<1>3. \A i \in DOMAIN all : i \notin DOMAIN ps =>
        i - m \in DOMAIN ws /\ i = m + (i - m) /\ all[i] = failed[i - m]
  BY Concatenated
<1> HIDE DEF all, m
<1>4. Replies(c, ws) = Replies(c, failed)
  BY DEF Replies
<1>5. \A i \in Replies(c, ps) : i \in Replies(c, all)
  BY <1>1 DEF Replies
<1>6. \A i \in Replies(c, all) :
        \/ i \in Replies(c, ps)
        \/ i - m \in Replies(c, ws) /\ i = m + (i - m)
  BY <1>1, <1>3 DEF Replies
<1>7. \A j \in Replies(c, ws) : m + j \in Replies(c, all)
  BY <1>2 DEF Replies
<1>8. None(c, ws) => Replies(c, all) = Replies(c, ps)
  BY <1>5, <1>6 DEF None
<1>9. ASSUME NEW j, Replies(c, ps) = {}, Replies(c, ws) = {j}
      PROVE  Replies(c, all) = {m + j}
  BY <1>6, <1>7, <1>9
<1>10. \A i \in DOMAIN all :
         \/ i \in DOMAIN ps /\ all[i] = ps[i]
         \/ ~all[i].ok
  BY <1>1, <1>3
<1> QED BY <1>8, <1>9, <1>10 DEF None, One, all

-----------------------------------------------------------------------------
(* Bytes put on the wire.                                                  *)
LEMMA OtherBytes ==
  ASSUME NEW bytes \in Seq(Bytes), NEW more \in Seq(Bytes),
         \A k \in DOMAIN more : more[k].kind # "reply"
  PROVE  /\ Whole(bytes) => Whole(bytes \o more)
         /\ \A n : Finished(bytes, n) => Finished(bytes \o more, n)
         /\ \A n, sent : Progress(bytes, n, sent) => Progress(bytes \o more, n, sent)
<1> DEFINE all == bytes \o more
<1>1. /\ DOMAIN all = 1 .. (Len(bytes) + Len(more)) /\ DOMAIN bytes = 1 .. Len(bytes)
      /\ DOMAIN more = 1 .. Len(more) /\ Len(bytes) \in Nat /\ Len(more) \in Nat
      /\ \A i \in 1 .. Len(bytes) : all[i] = bytes[i]
      /\ \A i \in DOMAIN all : i > Len(bytes) => all[i] = more[i - Len(bytes)]
  OBVIOUS
<1> HIDE DEF all, Bytes
<1>2. \A i \in DOMAIN all :
        \/ i \in DOMAIN bytes /\ all[i] = bytes[i]
        \/ i \notin DOMAIN bytes /\ all[i].kind # "reply"
  <2> SUFFICES ASSUME NEW i \in DOMAIN all, i \notin DOMAIN bytes PROVE all[i].kind # "reply"
    BY <1>1
  <2>1. i - Len(bytes) \in DOMAIN more /\ all[i] = more[i - Len(bytes)]
    BY <1>1
  <2> QED BY <2>1
<1>3. \A i \in DOMAIN bytes : i \in DOMAIN all
  BY <1>1
<1>4. ReplyBytes(all) = ReplyBytes(bytes) /\ \A i \in ReplyBytes(bytes) : all[i] = bytes[i]
  BY <1>2, <1>3 DEF ReplyBytes
<1>5. \A S \in SUBSET ReplyBytes(bytes) : \A j \in Last(S) : all[j] = bytes[j]
  BY <1>4 DEF Last
<1>6. \A i : {j \in ReplyBytes(all) : j < i} = {j \in ReplyBytes(bytes) : j < i}
  BY <1>4
<1>7. Whole(bytes) => Whole(all)
  <2> SUFFICES ASSUME Whole(bytes), NEW i \in ReplyBytes(bytes)
               PROVE  LET byte == all[i]
                          before == Last({j \in ReplyBytes(all) : j < i})
                      IN  IF byte.pos > 1
                            THEN \E j \in before : all[j] = [byte EXCEPT !.pos = @ - 1]
                            ELSE \A j \in before : all[j].pos = Size /\ all[j].id < byte.id
    BY <1>4 DEF Whole
  <2> DEFINE before == Last({j \in ReplyBytes(bytes) : j < i})
  <2>1. \A j \in before : all[j] = bytes[j]
    BY <1>5
  <2>2. all[i] = bytes[i] /\ before = Last({j \in ReplyBytes(all) : j < i})
    BY <1>4, <1>6
  <2>3. IF bytes[i].pos > 1
          THEN \E j \in before : bytes[j] = [bytes[i] EXCEPT !.pos = @ - 1]
          ELSE \A j \in before : bytes[j].pos = Size /\ bytes[j].id < bytes[i].id
    BY DEF Whole
  <2> HIDE DEF before
  <2> QED BY <2>1, <2>2, <2>3
<1>8. \A n : Finished(bytes, n) => Finished(all, n)
  BY <1>4, <1>5 DEF Finished
<1>9. \A n, sent : Progress(bytes, n, sent) => Progress(all, n, sent)
  BY <1>4, <1>5, <1>8 DEF Progress
<1> QED BY <1>7, <1>8, <1>9 DEF all

LEMMA ReplyGoesOn ==
  ASSUME NEW bytes \in Seq(Bytes), NEW id \in Nat, NEW sent \in Nat, NEW n \in Nat,
         Whole(bytes), Progress(bytes, id, sent)
  PROVE  LET more == [k \in 1 .. n |-> [kind |-> "reply", id |-> id, pos |-> sent + k]]
         IN  Whole(bytes \o more) /\ Progress(bytes \o more, id, sent + n)
<1> DEFINE more == [k \in 1 .. n |-> [kind |-> "reply", id |-> id, pos |-> sent + k]]
           all == bytes \o more
           l == Len(bytes)
           before(i) == {j \in ReplyBytes(all) : j < i}
<1>1. CASE n = 0
  <2>1. all = bytes /\ sent + n = sent
    BY <1>1
  <2> QED BY <2>1
<1>2. CASE n > 0
  <2>1. \A k \in 1 .. n : more[k] \in Bytes
    BY DEF Bytes
  <2>2. more \in Seq(Bytes) /\ Len(more) = n
    <3>1. more \in [1 .. n -> Bytes] /\ DOMAIN more = 1 .. n
      BY <2>1
    <3> HIDE DEF more
    <3> QED BY <3>1
  <2>3. \A k \in 1 .. n : more[k] = [kind |-> "reply", id |-> id, pos |-> sent + k]
    OBVIOUS
  <2> HIDE DEF more
  <2>4. /\ DOMAIN all = 1 .. (l + n) /\ DOMAIN bytes = 1 .. l /\ l \in Nat
        /\ \A i \in 1 .. l : all[i] = bytes[i]
        /\ \A k \in 1 .. n : all[l + k] = more[k]
    BY <2>2
  <2> HIDE DEF all, l
  <2>5. \A k \in 1 .. n : /\ l + k \in ReplyBytes(all) /\ all[l + k].kind = "reply"
                          /\ all[l + k].id = id /\ all[l + k].pos = sent + k
    <3> SUFFICES ASSUME NEW k \in 1 .. n
                 PROVE  /\ l + k \in ReplyBytes(all) /\ all[l + k].kind = "reply"
                        /\ all[l + k].id = id /\ all[l + k].pos = sent + k
      OBVIOUS
    <3>1. l + k \in DOMAIN all
      BY <2>4
    <3>2. all[l + k] = [kind |-> "reply", id |-> id, pos |-> sent + k]
      BY <2>3, <2>4
    <3> QED BY <3>1, <3>2 DEF ReplyBytes
  <2>6. \A i \in ReplyBytes(all) :
          \/ i \in ReplyBytes(bytes)
          \/ \E k \in 1 .. n : i = l + k
    <3> SUFFICES ASSUME NEW i \in ReplyBytes(all), i \notin 1 .. l
                 PROVE  \E k \in 1 .. n : i = l + k
      BY <2>4 DEF ReplyBytes
    <3>1. i - l \in 1 .. n /\ i = l + (i - l)
      BY <2>4 DEF ReplyBytes
    <3> QED BY <3>1
  <2>7. /\ \A i \in ReplyBytes(bytes) : i \in ReplyBytes(all) /\ all[i] = bytes[i] /\ i \in 1 .. l
    BY <2>4 DEF ReplyBytes
  <2>8. \A i \in ReplyBytes(bytes) : before(i) = {j \in ReplyBytes(bytes) : j < i}
    BY <2>4, <2>6, <2>7
  <2>9. before(l + 1) = ReplyBytes(bytes)
    BY <2>4, <2>6, <2>7
  <2>10. \A k \in 1 .. n : k > 1 => Last(before(l + k)) = {l + (k - 1)}
    <3> SUFFICES ASSUME NEW k \in 1 .. n, k > 1 PROVE Last(before(l + k)) = {l + (k - 1)}
      OBVIOUS
    <3>1. l + (k - 1) \in before(l + k)
      BY <2>4, <2>5
    <3>2. \A j \in before(l + k) : j \in Int /\ j <= l + (k - 1)
      BY <2>4 DEF ReplyBytes
    <3> HIDE DEF before
    <3>3. \A j \in Last(before(l + k)) : j \in Int /\ j <= l + (k - 1) /\ l + (k - 1) <= j
      BY <3>1, <3>2 DEF Last
    <3>4. l + (k - 1) \in Last(before(l + k))
      BY <3>1, <3>2 DEF Last
    <3> QED BY <2>4, <3>3, <3>4
  <2>11. l + n \in Last(ReplyBytes(all))
    <3>1. l + n \in ReplyBytes(all)
      BY <1>2, <2>5
    <3>2. \A j \in ReplyBytes(all) : j <= l + n
      BY <2>4 DEF ReplyBytes
    <3> QED BY <3>1, <3>2 DEF Last
  <2>12. Progress(all, id, sent + n)
    <3>1. all[l + n] = [kind |-> "reply", id |-> id, pos |-> sent + n]
      BY <1>2, <2>3, <2>4
    <3> QED BY <1>2, <2>11, <3>1 DEF Progress
  <2>13. ASSUME NEW i \in ReplyBytes(bytes)
         PROVE  IF all[i].pos > 1
                  THEN \E j \in Last(before(i)) : all[j] = [all[i] EXCEPT !.pos = @ - 1]
                  ELSE \A j \in Last(before(i)) : all[j].pos = Size /\ all[j].id < all[i].id
    <3>1. IF bytes[i].pos > 1
            THEN \E j \in Last(before(i)) : bytes[j] = [bytes[i] EXCEPT !.pos = @ - 1]
            ELSE \A j \in Last(before(i)) : bytes[j].pos = Size /\ bytes[j].id < bytes[i].id
      BY <2>8, <2>13 DEF Whole
    <3>2. \A j \in Last(before(i)) : all[j] = bytes[j]
      BY <2>7, <2>8, <2>13 DEF Last
    <3>3. all[i] = bytes[i]
      BY <2>7, <2>13
    <3> HIDE DEF before
    <3> QED BY <3>1, <3>2, <3>3
  <2>14. ASSUME NEW k \in 1 .. n
         PROVE  IF all[l + k].pos > 1
                  THEN \E j \in Last(before(l + k)) :
                         all[j] = [all[l + k] EXCEPT !.pos = @ - 1]
                  ELSE \A j \in Last(before(l + k)) :
                         all[j].pos = Size /\ all[j].id < all[l + k].id
    <3>0. all[l + k] = [kind |-> "reply", id |-> id, pos |-> sent + k]
      BY <2>3, <2>4
    <3>1. CASE k > 1
      <4>1. k - 1 \in 1 .. n /\ sent + (k - 1) = (sent + k) - 1 /\ sent + k > 1
        BY <3>1
      <4>2. all[l + (k - 1)] = [kind |-> "reply", id |-> id, pos |-> (sent + k) - 1]
        BY <2>3, <2>4, <4>1
      <4>3. l + (k - 1) \in Last(before(l + k))
        BY <2>10, <3>1
      <4> HIDE DEF before
      <4> QED BY <3>0, <4>1, <4>2, <4>3
    <3>2. k = 1 => Last(before(l + k)) = Last(ReplyBytes(bytes))
      BY <2>9
    <3> HIDE DEF before
    <3>3. CASE k = 1 /\ sent = 0
      <4>1. Finished(bytes, id - 1)
        BY <3>3 DEF Progress
      <4>2. \A j \in Last(ReplyBytes(bytes)) : all[j] = bytes[j] /\ bytes[j].id \in Nat
        <5>1. \A j \in DOMAIN bytes : bytes[j] \in Bytes
          BY <2>4
        <5>2. \A j \in DOMAIN bytes : bytes[j].id \in Nat
          BY <5>1 DEF Bytes
        <5> QED BY <2>7, <5>2 DEF Last, ReplyBytes
      <4>3. \A j \in Last(before(l + k)) : all[j].pos = Size /\ all[j].id < id
        BY <3>2, <3>3, <4>1, <4>2 DEF Finished
      <4> QED BY <3>0, <3>3, <4>3
    <3>4. CASE k = 1 /\ sent > 0
      <4>1. PICK j \in Last(ReplyBytes(bytes)) :
                   bytes[j] = [kind |-> "reply", id |-> id, pos |-> sent]
        BY <3>4 DEF Progress
      <4>2. all[j] = bytes[j]
        BY <2>7 DEF Last
      <4>3. sent + k > 1 /\ (sent + k) - 1 = sent
        BY <3>4
      <4>4. all[j] = [all[l + k] EXCEPT !.pos = @ - 1]
        BY <3>0, <4>1, <4>2, <4>3
      <4> QED BY <3>0, <3>2, <3>4, <4>3, <4>4
    <3> QED BY <3>1, <3>3, <3>4
  <2>15. Whole(all)
    <3> HIDE DEF before
    <3>1. \A i \in ReplyBytes(all) :
            IF all[i].pos > 1
              THEN \E j \in Last(before(i)) : all[j] = [all[i] EXCEPT !.pos = @ - 1]
              ELSE \A j \in Last(before(i)) : all[j].pos = Size /\ all[j].id < all[i].id
      BY <2>6, <2>13, <2>14
    <3> QED BY <3>1 DEF Whole, before
  <2> QED BY <2>12, <2>15 DEF all, more
<1> QED BY <1>1, <1>2

-----------------------------------------------------------------------------
(* Starting a write, and sending a part of it.                             *)
More(w, n, rspNow, inCall) == [k \in 1 .. n |-> Byte(w, k, rspNow, inCall)]
Sent(w, n) == [w EXCEPT !.sent = @ + n]

LEMMA FittingRange ==
  ASSUME SessionIoTypeOK, NEW w \in Writes
  PROVE  /\ Fitting(w) \in Nat
         /\ w.sent + Fitting(w) <= w.size
         /\ unread[w.sock] + Fitting(w) <= Buffer
         /\ w.sent \in Nat /\ w.size \in Nat /\ unread[w.sock] \in Nat /\ w.sock \in Sock
<1>1. w.sock \in Sock /\ w.sent \in Nat /\ w.size \in Nat /\ w.sent <= w.size
  BY SessionIoAssumption DEF Writes
<1>2. unread[w.sock] \in Nat /\ unread[w.sock] <= Buffer /\ Buffer \in Nat
  BY <1>1, SessionIoAssumption DEF SessionIoTypeOK
<1> QED BY <1>1, <1>2 DEF Fitting

LEMMA SentWrite ==
  ASSUME NEW w \in Writes, NEW n \in Nat, w.sent + n <= w.size
  PROVE  /\ Sent(w, n) \in Writes
         /\ Sent(w, n).sock = w.sock /\ Sent(w, n).kind = w.kind /\ Sent(w, n).ok = w.ok
         /\ Sent(w, n).sent = w.sent + n /\ Sent(w, n).size = w.size
<1>1. w.sent + n \in 0 .. Size
  BY SessionIoAssumption DEF Writes
<1> QED BY <1>1 DEF Writes, Sent

LEMMA FailedWrite ==
  ASSUME NEW w \in Writes
  PROVE  LET f == [w EXCEPT !.ok = FALSE]
         IN  f \in Writes /\ f.sock = w.sock /\ f.kind = w.kind /\ ~f.ok
BY DEF Writes

LEMMA MoreBytes ==
  ASSUME NEW w \in Writes, NEW n \in Nat, NEW rspNow \in [Sock -> Nat], NEW inCall \in BOOLEAN
  PROVE  /\ More(w, n, rspNow, inCall) \in Seq(Bytes)
         /\ Len(More(w, n, rspNow, inCall)) = n
         /\ DOMAIN More(w, n, rspNow, inCall) = 1 .. n
         /\ w.kind # "reply" => \A k \in 1 .. n : More(w, n, rspNow, inCall)[k].kind # "reply"
<1> DEFINE more == More(w, n, rspNow, inCall)
<1>1. /\ w.kind \in {"reply", "ntf"} /\ w.sent \in Nat /\ w.id \in Nat
      /\ w.sock \in Sock /\ rspNow[w.sock] \in Nat
  BY SessionIoAssumption DEF Writes
<1>2. ASSUME NEW k \in 1 .. n
      PROVE  /\ more[k] = Byte(w, k, rspNow, inCall)
             /\ more[k] \in Bytes
             /\ w.kind = "reply" =>
                  more[k] = [kind |-> "reply", id |-> rspNow[w.sock], pos |-> w.sent + k]
             /\ w.kind # "reply" => more[k].kind # "reply"
             /\ w.kind # "reply" /\ inCall =>
                  more[k] = [kind |-> "ntf", id |-> w.id, pos |-> w.sent + k]
  <2>1. more[k] = Byte(w, k, rspNow, inCall)
    BY DEF More
  <2>2. CASE w.kind = "reply"
    <3>1. more[k] = [kind |-> "reply", id |-> rspNow[w.sock], pos |-> w.sent + k]
      BY <2>1, <2>2 DEF Byte, RspOf
    <3> QED BY <1>1, <2>1, <2>2, <3>1 DEF Bytes
  <2>3. CASE w.kind = "ntf" /\ inCall
    <3>1. more[k] = [kind |-> "ntf", id |-> w.id, pos |-> w.sent + k]
      BY <2>1, <2>3 DEF Byte, LocalLives
    <3>2. w.sent + k \in Nat
      BY <1>1
    <3>3. more[k] \in Bytes /\ more[k].kind # "reply"
      BY <1>1, <3>1, <3>2 DEF Bytes
    <3> QED BY <2>1, <2>3, <3>1, <3>3
  <2>4. CASE w.kind = "ntf" /\ ~inCall
    <3>1. more[k] = Garbage
      BY <2>1, <2>4 DEF Byte, LocalLives
    <3> QED BY <1>1, <2>1, <2>4, <3>1 DEF Bytes, Garbage
  <2> QED BY <1>1, <2>2, <2>3, <2>4
<1>3. DOMAIN more = 1 .. n
  BY DEF More
<1>4. more \in [1 .. n -> Bytes]
  <2>1. \A k \in 1 .. n : Byte(w, k, rspNow, inCall) \in Bytes
    BY <1>2
  <2> QED BY <2>1 DEF More
<1> HIDE DEF more
<1>5. more \in Seq(Bytes) /\ Len(more) = n
  BY <1>3, <1>4
<1> QED BY <1>2, <1>3, <1>5 DEF more

LEMMA MoreOfReply ==
  ASSUME NEW w, NEW c, w.kind = "reply", w.sock = c, NEW n, NEW rspNow, NEW inCall
  PROVE  More(w, n, rspNow, inCall) =
           [k \in 1 .. n |-> [kind |-> "reply", id |-> rspNow[c], pos |-> w.sent + k]]
<1>1. \A k \in 1 .. n : Byte(w, k, rspNow, inCall) =
                        [kind |-> "reply", id |-> rspNow[c], pos |-> w.sent + k]
  BY DEF Byte, RspOf
<1> QED BY <1>1 DEF More

(* What is sent in the call of async_write itself is what was written.     *)
LEMMA MoreInCall ==
  ASSUME NEW w \in Writes, NEW n \in Nat, NEW rspNow \in [Sock -> Nat]
  PROVE  \E kind \in {"reply", "ntf"}, id \in Nat :
           \A k \in 1 .. n : More(w, n, rspNow, TRUE)[k] =
                               [kind |-> kind, id |-> id, pos |-> w.sent + k]
<1>1. /\ w.kind \in {"reply", "ntf"} /\ w.id \in Nat
      /\ w.sock \in Sock /\ rspNow[w.sock] \in Nat
  BY DEF Writes
<1>2. CASE w.kind = "reply"
  <2>1. \A k \in 1 .. n : More(w, n, rspNow, TRUE)[k] =
                            [kind |-> "reply", id |-> rspNow[w.sock], pos |-> w.sent + k]
    BY <1>2 DEF More, Byte, RspOf
  <2> QED BY <1>1, <2>1
<1>3. CASE w.kind = "ntf"
  <2>1. \A k \in 1 .. n : More(w, n, rspNow, TRUE)[k] =
                            [kind |-> "ntf", id |-> w.id, pos |-> w.sent + k]
    BY <1>3 DEF More, Byte, LocalLives
  <2> QED BY <1>1, <2>1
<1> QED BY <1>1, <1>2, <1>3

LEMMA SendShape ==
  ASSUME SessionIoTypeOK, NEW w \in Writes, NEW done \in Seq(Writes),
         NEW rspNow \in [Sock -> Nat], NEW inCall \in BOOLEAN,
         Send(w, rspNow, inCall, done)
  PROVE  /\ posted' = Append(done, Sent(w, Fitting(w)))
         /\ posted' \in Seq(Writes)
         /\ unread' \in [Sock -> 0 .. Buffer]
         /\ wire' \in [Sock -> Seq(Bytes)]
         /\ wire'[w.sock] = wire[w.sock] \o More(w, Fitting(w), rspNow, inCall)
         /\ \A c \in Sock : c # w.sock => wire'[c] = wire[c]
<1> DEFINE n == Fitting(w)
           more == More(w, n, rspNow, inCall)
<1>1. /\ n \in Nat /\ w.sent + n <= w.size /\ unread[w.sock] + n <= Buffer
      /\ w.sock \in Sock /\ unread[w.sock] \in Nat
  BY FittingRange
<1>2. /\ wire' = [wire EXCEPT ![w.sock] = @ \o more]
      /\ unread' = [unread EXCEPT ![w.sock] = @ + n]
      /\ posted' = Append(done, Sent(w, n))
  BY DEF Send, More, Sent
<1> HIDE DEF n
<1>3. Sent(w, n) \in Writes /\ more \in Seq(Bytes)
  BY <1>1, SentWrite, MoreBytes
<1> HIDE DEF more
<1>4. unread' \in [Sock -> 0 .. Buffer]
  <2>1. unread \in [Sock -> 0 .. Buffer] /\ unread[w.sock] + n \in 0 .. Buffer
    BY <1>1, SessionIoAssumption DEF SessionIoTypeOK
  <2> QED BY <1>1, <1>2, <2>1
<1>5. wire' \in [Sock -> Seq(Bytes)] /\ wire'[w.sock] = wire[w.sock] \o more
  <2>1. wire \in [Sock -> Seq(Bytes)]
    BY DEF SessionIoTypeOK
  <2>2. wire[w.sock] \o more \in Seq(Bytes)
    BY <1>1, <1>3, <2>1
  <2> QED BY <1>1, <1>2, <2>1, <2>2
<1>6. \A c \in Sock : c # w.sock => wire'[c] = wire[c]
  BY <1>1, <1>2 DEF SessionIoTypeOK
<1>7. posted' \in Seq(Writes)
  BY <1>2, <1>3
<1> QED BY <1>2, <1>4, <1>5, <1>6, <1>7 DEF n, more

(* Sending a part of the only reply outstanding on c.                      *)
LEMMA SendReply ==
  ASSUME SessionIoTypeOK, NEW c \in Sock, NEW w \in Writes, IsReply(w, c), NEW done \in Seq(Writes),
         NEW rspNow \in [Sock -> Nat], NEW inCall \in BOOLEAN,
         None(c, done), Progress(wire[c], rspNow[c], w.sent), Whole(wire[c]),
         Send(w, rspNow, inCall, done)
  PROVE  /\ One(c, posted')
         /\ InProgress(c, posted', wire'[c], rspNow[c])
         /\ Whole(wire'[c])
<1> DEFINE n == Fitting(w)
           more == More(w, n, rspNow, inCall)
<1>0. w.sock = c /\ w.kind = "reply"
  BY DEF IsReply
<1>1. n \in Nat /\ w.sent + n <= w.size /\ w.sent \in Nat
  BY FittingRange
<1>2. posted' = Append(done, Sent(w, n)) /\ wire'[c] = wire[c] \o more
  BY <1>0, SendShape
<1> HIDE DEF n
<1>3. /\ Sent(w, n) \in Writes /\ Sent(w, n).sent = w.sent + n
      /\ IsReply(Sent(w, n), c)
  BY <1>0, <1>1, SentWrite DEF IsReply
<1>4. more = [k \in 1 .. n |-> [kind |-> "reply", id |-> rspNow[c], pos |-> w.sent + k]]
  BY <1>0, MoreOfReply
<1>5. wire[c] \in Seq(Bytes) /\ rspNow[c] \in Nat
  BY DEF SessionIoTypeOK
<1> HIDE DEF more
<1>6. Whole(wire[c] \o more) /\ Progress(wire[c] \o more, rspNow[c], w.sent + n)
  BY <1>1, <1>4, <1>5, ReplyGoesOn
<1>7. Replies(c, posted') = {Len(done) + 1}
  BY <1>2, <1>3, RepliesAppend DEF None
<1>8. posted'[Len(done) + 1] = Sent(w, n)
  BY <1>2, <1>3
<1> QED BY <1>2, <1>3, <1>6, <1>7, <1>8 DEF One, InProgress

(* Sending anything else leaves c's replies alone.                         *)
LEMMA SendOther ==
  ASSUME SessionIoTypeOK, NEW c \in Sock, NEW w \in Writes, ~IsReply(w, c), NEW done \in Seq(Writes),
         NEW rspNow \in [Sock -> Nat], NEW inCall \in BOOLEAN,
         Send(w, rspNow, inCall, done)
  PROVE  /\ Replies(c, posted') = Replies(c, done)
         /\ \A i \in Replies(c, done) : posted'[i] = done[i]
         /\ Whole(wire[c]) => Whole(wire'[c])
         /\ \A n : Finished(wire[c], n) => Finished(wire'[c], n)
         /\ \A n, sent : Progress(wire[c], n, sent) => Progress(wire'[c], n, sent)
<1> DEFINE n == Fitting(w)
           more == More(w, n, rspNow, inCall)
<1>1. n \in Nat /\ w.sent + n <= w.size
  BY FittingRange
<1>2. /\ posted' = Append(done, Sent(w, n))
      /\ wire'[w.sock] = wire[w.sock] \o more
      /\ c # w.sock => wire'[c] = wire[c]
  BY SendShape
<1> HIDE DEF n
<1>3. Sent(w, n) \in Writes /\ ~IsReply(Sent(w, n), c)
  BY <1>1, SentWrite DEF IsReply
<1>4. Replies(c, posted') = Replies(c, done) /\ \A i \in Replies(c, done) : posted'[i] = done[i]
  BY <1>2, <1>3, RepliesAppend
<1>5. CASE c # w.sock
  BY <1>2, <1>4, <1>5
<1>6. CASE c = w.sock
  <2>1. more \in Seq(Bytes) /\ \A k \in DOMAIN more : more[k].kind # "reply"
    BY <1>1, <1>6, MoreBytes DEF IsReply
  <2>2. wire[c] \in Seq(Bytes)
    BY DEF SessionIoTypeOK
  <2> HIDE DEF more
  <2> QED BY <1>2, <1>4, <1>6, <2>1, <2>2, OtherBytes
<1> QED BY <1>5, <1>6

LEMMA StartTypes ==
  ASSUME SessionIoTypeOK, NEW w \in Writes, w.ok, NEW done \in Seq(Writes),
         NEW rspNow \in [Sock -> Nat], NEW inCall \in BOOLEAN,
         StartSome(w, rspNow, inCall, done)
  PROVE  /\ posted' \in Seq(Writes)
         /\ unread' \in [Sock -> 0 .. Buffer] /\ stalled' \in [Sock -> BOOLEAN]
         /\ waiting' \in [Sock -> Seq(Writes)] /\ wire' \in [Sock -> Seq(Bytes)]
         /\ \A c \in Sock : \A i \in DOMAIN waiting'[c] :
              waiting'[c][i].sock = c /\ waiting'[c][i].ok
<1>0. /\ w.sock \in Sock
      /\ unread \in [Sock -> 0 .. Buffer] /\ stalled \in [Sock -> BOOLEAN]
      /\ waiting \in [Sock -> Seq(Writes)] /\ wire \in [Sock -> Seq(Bytes)]
      /\ \A c \in Sock : \A i \in DOMAIN waiting[c] : waiting[c][i].sock = c /\ waiting[c][i].ok
  BY DEF SessionIoTypeOK, Writes
<1>1. CASE /\ posted' = Append(done, [w EXCEPT !.ok = FALSE])
           /\ UNCHANGED <<waiting, wire, unread, stalled>>
  <2>1. [w EXCEPT !.ok = FALSE] \in Writes
    BY FailedWrite
  <2> HIDE DEF Writes
  <2>2. posted' \in Seq(Writes)
    BY <1>1, <2>1
  <2> QED BY <1>0, <1>1, <2>2
<1>2. CASE /\ Send(w, rspNow, inCall, done)
           /\ stalled' = [stalled EXCEPT ![w.sock] = @ \/ w.sent + Fitting(w) < w.size]
           /\ UNCHANGED waiting
  <2>1. /\ posted' \in Seq(Writes) /\ unread' \in [Sock -> 0 .. Buffer]
        /\ wire' \in [Sock -> Seq(Bytes)]
    BY <1>2, SendShape
  <2>2. stalled' \in [Sock -> BOOLEAN]
    BY <1>0, <1>2
  <2> QED BY <1>0, <1>2, <2>1, <2>2
<1>3. CASE /\ waiting' = [waiting EXCEPT ![w.sock] = Append(@, w)]
           /\ stalled' = [stalled EXCEPT ![w.sock] = TRUE]
           /\ posted' = done
           /\ UNCHANGED <<wire, unread>>
  <2> HIDE DEF Writes
  <2>1. stalled' \in [Sock -> BOOLEAN]
    BY <1>0, <1>3
  <2>2. Append(waiting[w.sock], w) \in Seq(Writes)
    BY <1>0
  <2>3. waiting' \in [Sock -> Seq(Writes)]
    BY <1>0, <1>3, <2>2
  <2>4. ASSUME NEW c \in Sock, NEW i \in DOMAIN waiting'[c]
        PROVE  waiting'[c][i].sock = c /\ waiting'[c][i].ok
    <3>1. CASE c # w.sock
      <4>1. waiting'[c] = waiting[c]
        BY <1>0, <1>3, <3>1
      <4> QED BY <1>0, <2>4, <4>1
    <3>2. CASE c = w.sock
      <4>1. waiting'[c] = Append(waiting[c], w)
        BY <1>0, <1>3, <3>2
      <4>2. waiting[c] \in Seq(Writes)
        BY <1>0
      <4>3. (i \in DOMAIN waiting[c] /\ waiting'[c][i] = waiting[c][i]) \/ waiting'[c][i] = w
        BY <2>4, <4>1, <4>2
      <4> QED BY <1>0, <3>2, <4>3
    <3> QED BY <3>1, <3>2
  <2> QED BY <1>0, <1>3, <2>1, <2>3, <2>4
<1> QED BY <1>1, <1>2, <1>3 DEF StartSome

(* Starting the only reply outstanding on c, or going on with it.          *)
LEMMA StartReply ==
  ASSUME SessionIoTypeOK, NEW c \in Sock, NEW w \in Writes, IsReply(w, c), NEW done \in Seq(Writes),
         NEW rspNow \in [Sock -> Nat], NEW inCall \in BOOLEAN,
         None(c, waiting[c]), None(c, done),
         Progress(wire[c], rspNow[c], w.sent), Whole(wire[c]),
         StartSome(w, rspNow, inCall, done)
  PROVE  /\ OutstandingIn(c, "reply", waiting'[c], posted')
         /\ InProgress(c, waiting'[c], wire'[c], rspNow[c])
         /\ InProgress(c, posted', wire'[c], rspNow[c])
         /\ Whole(wire'[c])
<1>0. /\ w.sock = c /\ waiting[c] \in Seq(Writes)
      /\ waiting \in [Sock -> Seq(Writes)]
  BY DEF SessionIoTypeOK, IsReply
<1>1. CASE /\ posted' = Append(done, [w EXCEPT !.ok = FALSE])
           /\ UNCHANGED <<waiting, wire, unread, stalled>>
  <2> DEFINE f == [w EXCEPT !.ok = FALSE]
  <2>1. f \in Writes /\ IsReply(f, c) /\ ~f.ok
    BY FailedWrite DEF IsReply
  <2> HIDE DEF f
  <2>2. posted' = Append(done, f)
    BY <1>1 DEF f
  <2>3. Replies(c, posted') = {Len(done) + 1} /\ posted'[Len(done) + 1] = f
    BY <2>1, <2>2, RepliesAppend DEF None
  <2> QED BY <1>1, <2>1, <2>3 DEF OutstandingIn, One, None, InProgress
<1>2. CASE /\ Send(w, rspNow, inCall, done)
           /\ UNCHANGED waiting
  <2>1. /\ One(c, posted') /\ InProgress(c, posted', wire'[c], rspNow[c])
        /\ Whole(wire'[c])
    BY <1>2, SendReply
  <2> QED BY <1>2, <2>1 DEF OutstandingIn, None, InProgress
<1>3. CASE /\ waiting' = [waiting EXCEPT ![w.sock] = Append(@, w)]
           /\ posted' = done
           /\ UNCHANGED <<wire, unread>>
  <2>1. waiting'[c] = Append(waiting[c], w)
    BY <1>0, <1>3
  <2>2. /\ Replies(c, waiting'[c]) = {Len(waiting[c]) + 1}
        /\ waiting'[c][Len(waiting[c]) + 1] = w
    BY <1>0, <2>1, RepliesAppend DEF None
  <2> QED BY <1>3, <2>2 DEF OutstandingIn, One, None, InProgress
<1> QED BY <1>1, <1>2, <1>3 DEF StartSome

(* Starting any other write leaves c's replies alone.                      *)
LEMMA StartOther ==
  ASSUME SessionIoTypeOK, NEW c \in Sock, NEW w \in Writes, ~IsReply(w, c), NEW done \in Seq(Writes),
         NEW rspNow \in [Sock -> Nat], NEW inCall \in BOOLEAN,
         StartSome(w, rspNow, inCall, done)
  PROVE  /\ Whole(wire[c]) => Whole(wire'[c])
         /\ \A ch : OutstandingIn(c, ch, waiting[c], done)
                      => OutstandingIn(c, ch, waiting'[c], posted')
         /\ \A n : Finished(wire[c], n) => Finished(wire'[c], n)
         /\ \A n : InProgress(c, waiting[c], wire[c], n)
                      => InProgress(c, waiting'[c], wire'[c], n)
         /\ \A n : InProgress(c, done, wire[c], n) => InProgress(c, posted', wire'[c], n)
<1>0. /\ w.sock \in Sock /\ waiting[c] \in Seq(Writes)
      /\ waiting \in [Sock -> Seq(Writes)]
  BY DEF SessionIoTypeOK, Writes
<1>1. SUFFICES /\ Whole(wire[c]) => Whole(wire'[c])
               /\ \A n : Finished(wire[c], n) => Finished(wire'[c], n)
               /\ \A n, sent : Progress(wire[c], n, sent) => Progress(wire'[c], n, sent)
               /\ Replies(c, waiting'[c]) = Replies(c, waiting[c])
               /\ \A i \in Replies(c, waiting[c]) : waiting'[c][i] = waiting[c][i]
               /\ Replies(c, posted') = Replies(c, done)
               /\ \A i \in Replies(c, done) : posted'[i] = done[i]
  <2>1. \A ch : OutstandingIn(c, ch, waiting[c], done)
                  => OutstandingIn(c, ch, waiting'[c], posted')
    BY <1>1 DEF OutstandingIn, One, None
  <2> QED BY <1>1, <2>1 DEF InProgress
<1>2. CASE /\ posted' = Append(done, [w EXCEPT !.ok = FALSE])
           /\ UNCHANGED <<waiting, wire, unread, stalled>>
  <2> DEFINE f == [w EXCEPT !.ok = FALSE]
  <2>1. f \in Writes /\ ~IsReply(f, c)
    BY FailedWrite DEF IsReply
  <2> HIDE DEF f
  <2>2. posted' = Append(done, f)
    BY <1>2 DEF f
  <2>3. /\ Replies(c, posted') = Replies(c, done)
        /\ \A i \in Replies(c, done) : posted'[i] = done[i]
    <3>1. /\ Replies(c, Append(done, f)) = Replies(c, done)
          /\ \A i \in Replies(c, done) : Append(done, f)[i] = done[i]
      BY <2>1, RepliesAppend
    <3> QED BY <2>2, <3>1
  <2> QED BY <1>2, <2>3
<1>3. CASE Send(w, rspNow, inCall, done) /\ UNCHANGED waiting
  BY <1>3, SendOther
<1>4. CASE /\ waiting' = [waiting EXCEPT ![w.sock] = Append(@, w)]
           /\ posted' = done
           /\ UNCHANGED <<wire, unread>>
  <2>1. waiting'[c] = waiting[c] \/ waiting'[c] = Append(waiting[c], w)
    BY <1>0, <1>4
  <2>2. /\ Replies(c, waiting'[c]) = Replies(c, waiting[c])
        /\ \A i \in Replies(c, waiting[c]) : waiting'[c][i] = waiting[c][i]
    <3>1. CASE waiting'[c] = waiting[c]
      BY <3>1
    <3>2. CASE waiting'[c] = Append(waiting[c], w)
      <4>1. /\ Replies(c, Append(waiting[c], w)) = Replies(c, waiting[c])
            /\ \A i \in Replies(c, waiting[c]) : Append(waiting[c], w)[i] = waiting[c][i]
        BY <1>0, RepliesAppend
      <4> QED BY <3>2, <4>1
    <3> QED BY <2>1, <3>1, <3>2
  <2> QED BY <1>4, <2>2
<1> QED BY <1>2, <1>3, <1>4 DEF StartSome

-----------------------------------------------------------------------------
(* Quiet connections.                                                      *)
LEMMA AtOnceAppend ==
  ASSUME NEW c, NEW ps \in Seq(Writes), NEW w \in Writes, AtOnce(c, ps),
         w.sock = c /\ w.ok => w.sent = w.size
  PROVE  AtOnce(c, Append(ps, w))
<1>1. \A i \in DOMAIN Append(ps, w) :
        \/ i \in DOMAIN ps /\ Append(ps, w)[i] = ps[i]
        \/ Append(ps, w)[i] = w
  OBVIOUS
<1> QED BY <1>1 DEF AtOnce

LEMMA AtOnceTail ==
  ASSUME NEW c, NEW ps \in Seq(Writes), ps # <<>>, AtOnce(c, ps)
  PROVE  AtOnce(c, Tail(ps))
<1>1. \A i \in DOMAIN Tail(ps) : i + 1 \in DOMAIN ps /\ Tail(ps)[i] = ps[i + 1]
  OBVIOUS
<1> QED BY <1>1 DEF AtOnce

LEMMA UntornAppend ==
  ASSUME NEW bytes \in Seq(Bytes), NEW w \in Writes, NEW n \in Nat, w.sent = 0,
         NEW rspNow \in [Sock -> Nat], Untorn(bytes)
  PROVE  Untorn(bytes \o More(w, n, rspNow, TRUE))
<1> DEFINE more == More(w, n, rspNow, TRUE)
           all == bytes \o more
           l == Len(bytes)
<1>1. /\ more \in Seq(Bytes) /\ Len(more) = n
      /\ \A k \in 1 .. n : /\ more[k].kind # "garbage" /\ more[k].pos = k
                           /\ k > 1 => more[k - 1] = [more[k] EXCEPT !.pos = @ - 1]
  <2>1. more \in Seq(Bytes) /\ Len(more) = n
    <3>1. TRUE \in BOOLEAN
      OBVIOUS
    <3> QED BY <3>1, MoreBytes
  <2>2. PICK kind \in {"reply", "ntf"}, id \in Nat :
          \A k \in 1 .. n : more[k] = [kind |-> kind, id |-> id, pos |-> w.sent + k]
    BY MoreInCall
  <2> HIDE DEF more
  <2>3. \A k \in 1 .. n : more[k] = [kind |-> kind, id |-> id, pos |-> k]
    BY <2>2
  <2>4. ASSUME NEW k \in 1 .. n, k > 1
        PROVE  more[k - 1] = [more[k] EXCEPT !.pos = @ - 1]
    <3>1. k - 1 \in 1 .. n
      BY <2>4
    <3>2. /\ more[k - 1] = [kind |-> kind, id |-> id, pos |-> k - 1]
          /\ more[k] = [kind |-> kind, id |-> id, pos |-> k]
      BY <2>3, <3>1
    <3> QED BY <3>2
  <2> QED BY <2>1, <2>3, <2>4
<1> HIDE DEF more
<1>2. /\ DOMAIN all = 1 .. (l + n) /\ DOMAIN bytes = 1 .. l /\ l \in Nat
      /\ \A i \in 1 .. l : all[i] = bytes[i]
      /\ \A i \in DOMAIN all : i > l => all[i] = more[i - l]
  BY <1>1
<1> HIDE DEF all, l
<1>3. ASSUME NEW i \in DOMAIN all
      PROVE  /\ all[i].kind # "garbage"
             /\ all[i].pos > 1 => i > 1 /\ all[i - 1] = [all[i] EXCEPT !.pos = @ - 1]
  <2>1. CASE i \in 1 .. l
    <3>1. all[i] = bytes[i] /\ i \in DOMAIN bytes
      BY <1>2, <2>1
    <3>2. i > 1 => all[i - 1] = bytes[i - 1]
      BY <1>2, <2>1
    <3> QED BY <3>1, <3>2 DEF Untorn
  <2>2. CASE i \notin 1 .. l
    <3>1. i - l \in 1 .. n /\ all[i] = more[i - l] /\ i \in Nat
      BY <1>2, <2>2
    <3>2. i - l > 1 => i > 1 /\ all[i - 1] = more[(i - l) - 1]
      BY <1>2, <3>1
    <3> QED BY <1>1, <3>1, <3>2
  <2> QED BY <2>1, <2>2
<1>4. Untorn(all)
  BY <1>3 DEF Untorn
<1> QED BY <1>4 DEF all, more

(* A new write on a quiet connection goes out at once, or it is one no     *)
(* more.                                                                   *)
LEMMA StartQuiet ==
  ASSUME SessionIoTypeOK, NEW c \in Sock, NEW w \in Writes, w.sent = 0,
         NEW rspNow \in [Sock -> Nat], StartSome(w, rspNow, TRUE, posted), QuietInv(c)
  PROVE  QuietInv(c)'
<1> SUFFICES ASSUME ~stalled'[c]
             PROVE  waiting'[c] = <<>> /\ AtOnce(c, posted') /\ Untorn(wire'[c])
  BY DEF QuietInv
<1>0. /\ w.sock \in Sock /\ posted \in Seq(Writes) /\ wire[c] \in Seq(Bytes)
      /\ stalled \in [Sock -> BOOLEAN]
  BY DEF SessionIoTypeOK, Writes
<1>1. CASE /\ posted' = Append(posted, [w EXCEPT !.ok = FALSE])
           /\ UNCHANGED <<waiting, wire, unread, stalled>>
  <2> DEFINE f == [w EXCEPT !.ok = FALSE]
  <2>1. f \in Writes /\ ~f.ok
    BY FailedWrite
  <2> HIDE DEF f
  <2>2. posted' = Append(posted, f)
    BY <1>1 DEF f
  <2> QED BY <1>0, <1>1, <2>1, <2>2, AtOnceAppend DEF QuietInv
<1>2. CASE /\ Send(w, rspNow, TRUE, posted)
           /\ stalled' = [stalled EXCEPT ![w.sock] = @ \/ w.sent + Fitting(w) < w.size]
           /\ UNCHANGED waiting
  <2> DEFINE n == Fitting(w)
  <2>1. /\ n \in Nat /\ w.sent + n <= w.size /\ w.size \in Nat /\ w.sent \in Nat
    BY FittingRange
  <2>2. /\ posted' = Append(posted, Sent(w, n))
        /\ wire'[w.sock] = wire[w.sock] \o More(w, n, rspNow, TRUE)
        /\ c # w.sock => wire'[c] = wire[c]
    BY <1>0, <1>2, SendShape
  <2>3. ~stalled[c] /\ (c = w.sock => ~(w.sent + n < w.size))
    BY <1>0, <1>2
  <2> HIDE DEF n
  <2>4. /\ Sent(w, n) \in Writes /\ Sent(w, n).sock = w.sock
        /\ Sent(w, n).sent = w.sent + n /\ Sent(w, n).size = w.size
    BY <2>1, SentWrite
  <2>5. AtOnce(c, posted')
    BY <1>0, <2>1, <2>2, <2>3, <2>4, AtOnceAppend DEF QuietInv
  <2>6. Untorn(wire'[c])
    BY <1>0, <2>1, <2>2, <2>3, UntornAppend DEF QuietInv
  <2> QED BY <1>2, <2>3, <2>5, <2>6 DEF QuietInv
<1>3. CASE /\ waiting' = [waiting EXCEPT ![w.sock] = Append(@, w)]
           /\ stalled' = [stalled EXCEPT ![w.sock] = TRUE]
           /\ posted' = posted
           /\ UNCHANGED <<wire, unread>>
  <2>1. c # w.sock /\ ~stalled[c]
    BY <1>0, <1>3
  <2>2. waiting'[c] = waiting[c]
    BY <1>0, <1>3, <2>1 DEF SessionIoTypeOK
  <2> QED BY <1>3, <2>1, <2>2 DEF QuietInv
<1> QED BY <1>1, <1>2, <1>3 DEF StartSome

-----------------------------------------------------------------------------
(* Taking the oldest write off a list.                                     *)
LEMMA FirstIsReply ==
  ASSUME NEW c \in Sock, NEW ps \in Seq(Writes), ps # <<>>, IsReply(Head(ps), c)
  PROVE  /\ \A ch, ws : OutstandingIn(c, ch, ws, ps) =>
              ch = "reply" /\ None(c, ws) /\ None(c, Tail(ps))
         /\ \A ch, ws : OutstandingIn(c, ch, ps, ws) =>
              ch = "reply" /\ None(c, ws) /\ None(c, Tail(ps))
         /\ \A bytes, n : InProgress(c, ps, bytes, n) /\ Head(ps).ok =>
              Progress(bytes, n, Head(ps).sent)
<1>1. ~None(c, ps) /\ (One(c, ps) => None(c, Tail(ps)))
  BY RepliesTail
<1>2. 1 \in Replies(c, ps) /\ Head(ps) = ps[1]
  BY DEF Replies, IsReply
<1> QED BY <1>1, <1>2 DEF OutstandingIn, InProgress

LEMMA FirstIsOther ==
  ASSUME NEW c \in Sock, NEW ps \in Seq(Writes), ps # <<>>
  PROVE  /\ ~IsReply(Head(ps), c) =>
              /\ \A ch, ws : OutstandingIn(c, ch, ws, ps) => OutstandingIn(c, ch, ws, Tail(ps))
              /\ \A ch, ws : OutstandingIn(c, ch, ps, ws) => OutstandingIn(c, ch, Tail(ps), ws)
         /\ \A bytes, n : InProgress(c, ps, bytes, n) => InProgress(c, Tail(ps), bytes, n)
<1>1. /\ ~IsReply(Head(ps), c) /\ One(c, ps) => One(c, Tail(ps))
      /\ None(c, ps) => None(c, Tail(ps))
      /\ \A i \in Replies(c, Tail(ps)) : i + 1 \in Replies(c, ps) /\ Tail(ps)[i] = ps[i + 1]
  BY RepliesTail
<1>2. ~IsReply(Head(ps), c) =>
        /\ \A ch, ws : OutstandingIn(c, ch, ws, ps) => OutstandingIn(c, ch, ws, Tail(ps))
        /\ \A ch, ws : OutstandingIn(c, ch, ps, ws) => OutstandingIn(c, ch, Tail(ps), ws)
  BY <1>1 DEF OutstandingIn
<1> QED BY <1>1, <1>2 DEF InProgress

(* A reply that has been written out is the last on the wire.              *)
LEMMA ProgressDone ==
  ASSUME NEW bytes \in Seq(Bytes), NEW n \in Nat, NEW w \in Writes,
         w.sent = w.size, Progress(bytes, n, w.sent)
  PROVE  Finished(bytes, n)
<1>1. CASE w.sent = 0
  <2>1. \A j \in Last(ReplyBytes(bytes)) : bytes[j] \in Bytes /\ bytes[j].pos = Size
                                           /\ bytes[j].id <= n - 1
    BY <1>1 DEF Progress, Finished, Last, ReplyBytes
  <2>2. \A j \in Last(ReplyBytes(bytes)) : bytes[j].id \in Nat
    BY <2>1 DEF Bytes
  <2> QED BY <2>1, <2>2 DEF Finished
<1>2. CASE w.sent # 0
  <2>1. w.sent = Size
    BY <1>2 DEF Writes
  <2>2. PICK j \in Last(ReplyBytes(bytes)) :
               bytes[j] = [kind |-> "reply", id |-> n, pos |-> Size]
    BY <1>2, <2>1 DEF Progress
  <2>3. \A i \in Last(ReplyBytes(bytes)) : i = j
    BY DEF Last, ReplyBytes
  <2> QED BY <2>2, <2>3 DEF Finished
<1> QED BY <1>1, <1>2

-----------------------------------------------------------------------------
(* The steps.                                                              *)
LEMMA NewWrite ==
  ASSUME NEW c \in Sock, NEW kind \in {"reply", "ntf"}, NEW id \in Nat, NEW size \in {0, Size}
  PROVE  LET w == Write(c, kind, id, size)
         IN  /\ w \in Writes /\ w.sock = c /\ w.kind = kind /\ w.id = id
             /\ w.sent = 0 /\ w.size = size /\ w.ok
BY SessionIoAssumption DEF Write, Writes

LEMMA RspType ==
  ASSUME SessionIoTypeOK
  PROVE  rsp \in [Sock -> Nat] /\ rsp = received /\ posted \in Seq(Writes)
BY SessionIoAssumption DEF SessionIoTypeOK

LEMMA StartStep ==
  ASSUME IoInv, ~deleted, NEW c \in Sock, Start(c)
  PROVE  IoInv'
<1> USE DEF IoInv
<1>1. SessionIoTypeOK'
  BY DEF SessionIoTypeOK, Start
<1>2. ASSUME NEW d \in Sock
      PROVE  /\ (conn[d] = "closed" => chain[d] = "idle")'
             /\ Whole(wire[d])' /\ QuietInv(d)'
             /\ (~deleted => ChainInv(d))'
  <2>0. /\ UNCHANGED <<received, rsp, ntfs, waiting, posted, wire, unread, stalled, deleted>>
        /\ conn[c] = "closed"
        /\ conn' = [conn EXCEPT ![c] = "open"] /\ chain' = [chain EXCEPT ![c] = "read"]
        /\ DOMAIN conn = Sock /\ DOMAIN chain = Sock
    BY DEF Start, SessionIoTypeOK
  <2>1. Whole(wire[d])' /\ QuietInv(d)'
    BY <2>0 DEF QuietInv
  <2>2. CASE d = c
    <3>1. chain[c] = "idle" /\ chain'[c] = "read" /\ conn'[c] = "open"
      BY <2>0
    <3> QED BY <2>0, <2>1, <2>2, <3>1 DEF ChainInv, OutstandingIn
  <2>3. CASE d # c
    <3>1. chain'[d] = chain[d] /\ conn'[d] = conn[d]
      BY <2>0, <2>3
    <3> QED BY <2>0, <2>1, <3>1 DEF ChainInv
  <2> QED BY <2>2, <2>3
<1> QED BY <1>1, <1>2

LEMMA HandleReadStep ==
  ASSUME IoInv, ~deleted, NEW c \in Sock, HandleRead(c)
  PROVE  IoInv'
<1> USE DEF IoInv
<1>1. PICK size \in {0, Size} :
            StartSome(Write(c, "reply", received[c] + 1, size), rsp', TRUE, posted)
  BY DEF HandleRead
<1> DEFINE w == Write(c, "reply", received[c] + 1, size)
<1>2. /\ chain[c] = "read" /\ conn[c] = "open" /\ received[c] < MaxPkgs
      /\ received' = [received EXCEPT ![c] = @ + 1]
      /\ rsp' = [rsp EXCEPT ![c] = received[c] + 1]
      /\ chain' = [chain EXCEPT ![c] = "reply"]
      /\ UNCHANGED <<conn, ntfs, deleted>>
  BY DEF HandleRead, RspOf
<1>3. /\ rsp = received /\ received \in [Sock -> 0 .. MaxPkgs] /\ DOMAIN chain = Sock
      /\ posted \in Seq(Writes) /\ MaxPkgs \in Nat
  BY SessionIoAssumption DEF SessionIoTypeOK
<1>4. /\ received' \in [Sock -> 0 .. MaxPkgs] /\ rsp' = received'
      /\ rsp' \in [Sock -> Nat] /\ rsp'[c] - 1 = rsp[c]
      /\ received[c] + 1 \in Nat
  <2>1. received[c] \in Nat /\ received[c] + 1 \in 0 .. MaxPkgs
    BY <1>2, <1>3
  <2>2. received' \in [Sock -> 0 .. MaxPkgs]
    BY <1>2, <1>3, <2>1
  <2>3. rsp' = received'
    BY <1>2, <1>3
  <2>4. rsp'[c] = received[c] + 1 /\ rsp[c] = received[c]
    BY <1>2, <1>3
  <2> QED BY <1>3, <2>1, <2>2, <2>3, <2>4
<1>5. w \in Writes /\ w.sock = c /\ w.kind = "reply" /\ w.sent = 0 /\ w.ok
  BY <1>4, NewWrite
<1> HIDE DEF w
<1>6. StartSome(w, rsp', TRUE, posted)
  BY <1>1 DEF w
<1>7. SessionIoTypeOK'
  <2>1. /\ posted' \in Seq(Writes)
        /\ unread' \in [Sock -> 0 .. Buffer] /\ stalled' \in [Sock -> BOOLEAN]
        /\ waiting' \in [Sock -> Seq(Writes)] /\ wire' \in [Sock -> Seq(Bytes)]
        /\ \A d \in Sock : \A i \in DOMAIN waiting'[d] :
             waiting'[d][i].sock = d /\ waiting'[d][i].ok
    BY <1>3, <1>4, <1>5, <1>6, StartTypes
  <2>2. chain' \in [Sock -> {"idle", "read", "reply"}]
    BY <1>2 DEF SessionIoTypeOK
  <2> QED BY <1>2, <1>4, <2>1, <2>2 DEF SessionIoTypeOK
<1>8. ASSUME NEW d \in Sock
      PROVE  /\ (conn[d] = "closed" => chain[d] = "idle")'
             /\ Whole(wire[d])' /\ QuietInv(d)'
             /\ (~deleted => ChainInv(d))'
  <2>1. QuietInv(d)'
    BY <1>4, <1>5, <1>6, StartQuiet
  <2>2. CASE d = c
    <3>1. /\ None(c, waiting[c]) /\ None(c, posted) /\ Finished(wire[c], rsp[c])
          /\ Whole(wire[c])
      BY <1>2, <2>2 DEF ChainInv, OutstandingIn
    <3>2. Progress(wire[c], rsp'[c], w.sent)
      BY <1>4, <1>5, <3>1 DEF Progress
    <3>3. IsReply(w, c)
      BY <1>5 DEF IsReply
    <3>4. /\ OutstandingIn(c, "reply", waiting'[c], posted')
          /\ InProgress(c, waiting'[c], wire'[c], rsp'[c])
          /\ InProgress(c, posted', wire'[c], rsp'[c])
          /\ Whole(wire'[c])
      BY <1>3, <1>4, <1>5, <1>6, <3>1, <3>2, <3>3, StartReply
    <3>5. chain'[c] = "reply" /\ conn'[c] = "open"
      BY <1>2, <1>3
    <3> QED BY <2>1, <2>2, <3>4, <3>5 DEF ChainInv
  <2>3. CASE d # c
    <3>1. ~IsReply(w, d)
      BY <1>5, <2>3 DEF IsReply
    <3>2. chain'[d] = chain[d] /\ rsp'[d] = rsp[d] /\ conn'[d] = conn[d]
      BY <1>2, <1>3, <2>3
    <3>3. ChainInv(d) /\ Whole(wire[d]) /\ (conn[d] = "closed" => chain[d] = "idle")
      BY <2>3
    <3>4. /\ Whole(wire'[d])
          /\ OutstandingIn(d, chain[d], waiting'[d], posted')
          /\ Finished(wire[d], rsp[d]) => Finished(wire'[d], rsp[d])
          /\ InProgress(d, waiting'[d], wire'[d], rsp[d])
          /\ InProgress(d, posted', wire'[d], rsp[d])
      BY <1>3, <1>4, <1>5, <1>6, <3>1, <3>3, StartOther DEF ChainInv
    <3> QED BY <2>1, <3>2, <3>3, <3>4 DEF ChainInv
  <2> QED BY <2>2, <2>3
<1> QED BY <1>7, <1>8

(* A write that is not a reply on d leaves what is known of d's replies;   *)
(* `done' is posted, or what is left of it.                                *)
LEMMA OthersKept ==
  ASSUME IoInv, ~deleted, NEW d \in Sock, NEW w \in Writes, ~IsReply(w, d),
         NEW done \in Seq(Writes), NEW inCall \in BOOLEAN,
         StartSome(w, rsp, inCall, done),
         OutstandingIn(d, chain[d], waiting[d], done), InProgress(d, done, wire[d], rsp[d]),
         UNCHANGED <<conn, chain, rsp, deleted>>
  PROVE  /\ (conn[d] = "closed" => chain[d] = "idle")'
         /\ Whole(wire[d])' /\ ChainInv(d)'
<1>1. SessionIoTypeOK /\ rsp \in [Sock -> Nat] /\ ChainInv(d) /\ Whole(wire[d])
      /\ (conn[d] = "closed" => chain[d] = "idle")
  BY RspType DEF IoInv
<1>2. /\ Whole(wire'[d])
      /\ OutstandingIn(d, chain[d], waiting'[d], posted')
      /\ Finished(wire[d], rsp[d]) => Finished(wire'[d], rsp[d])
      /\ InProgress(d, waiting'[d], wire'[d], rsp[d])
      /\ InProgress(d, posted', wire'[d], rsp[d])
  BY <1>1, StartOther DEF ChainInv
<1> QED BY <1>1, <1>2 DEF ChainInv

LEMMA NotifyStep ==
  ASSUME IoInv, ~deleted, Notify
  PROVE  IoInv'
<1> USE DEF IoInv
<1> DEFINE w == Write("game", "ntf", ntfs + 1, Size)
<1>1. /\ ntfs < MaxNtfs /\ ntfs' = ntfs + 1
      /\ StartSome(w, rsp, TRUE, posted)
      /\ UNCHANGED <<conn, chain, received, rsp, deleted>>
  BY DEF Notify
<1>2. /\ ntfs \in 0 .. MaxNtfs /\ MaxNtfs \in Nat /\ posted \in Seq(Writes)
      /\ rsp \in [Sock -> Nat]
  BY RspType, SessionIoAssumption DEF SessionIoTypeOK
<1>3. ntfs + 1 \in Nat /\ ntfs' \in 0 .. MaxNtfs
  BY <1>1, <1>2
<1>4. w \in Writes /\ w.sent = 0 /\ w.ok /\ \A d \in Sock : ~IsReply(w, d)
  BY <1>3, NewWrite DEF IsReply, Sock
<1> HIDE DEF w
<1>5. SessionIoTypeOK'
  <2>1. /\ posted' \in Seq(Writes)
        /\ unread' \in [Sock -> 0 .. Buffer] /\ stalled' \in [Sock -> BOOLEAN]
        /\ waiting' \in [Sock -> Seq(Writes)] /\ wire' \in [Sock -> Seq(Bytes)]
        /\ \A d \in Sock : \A i \in DOMAIN waiting'[d] :
             waiting'[d][i].sock = d /\ waiting'[d][i].ok
    BY <1>1, <1>2, <1>4, StartTypes
  <2> QED BY <1>1, <1>3, <2>1 DEF SessionIoTypeOK
<1>6. ASSUME NEW d \in Sock
      PROVE  /\ (conn[d] = "closed" => chain[d] = "idle")'
             /\ Whole(wire[d])' /\ QuietInv(d)' /\ ChainInv(d)'
  <2>1. QuietInv(d)'
    BY <1>1, <1>2, <1>4, StartQuiet
  <2>2. ChainInv(d)
    OBVIOUS
  <2>3. OutstandingIn(d, chain[d], waiting[d], posted) /\ InProgress(d, posted, wire[d], rsp[d])
    BY <2>2 DEF ChainInv
  <2> QED BY <1>1, <1>2, <1>4, <2>1, <2>3, OthersKept
<1> QED BY <1>5, <1>6

LEMMA ContinueStep ==
  ASSUME IoInv, ~deleted, Continue
  PROVE  IoInv'
<1> USE DEF IoInv
<1> DEFINE w == Head(posted)
           done == Tail(posted)
<1>1. /\ posted # <<>> /\ w.ok /\ w.sent < w.size
      /\ StartSome(w, rsp, FALSE, done)
      /\ UNCHANGED <<conn, chain, received, rsp, ntfs, deleted>>
  BY DEF Continue
<1>2. posted \in Seq(Writes) /\ rsp \in [Sock -> Nat]
  BY RspType
<1>3. w \in Writes /\ done \in Seq(Writes) /\ w = posted[1] /\ 1 \in DOMAIN posted
  BY <1>1, <1>2
<1>4. w.sock \in Sock /\ w.sent \in Nat /\ w.size \in Nat
  BY <1>3, SessionIoAssumption DEF Writes
<1> HIDE DEF w, done
<1>5. SessionIoTypeOK'
  <2>1. /\ posted' \in Seq(Writes)
        /\ unread' \in [Sock -> 0 .. Buffer] /\ stalled' \in [Sock -> BOOLEAN]
        /\ waiting' \in [Sock -> Seq(Writes)] /\ wire' \in [Sock -> Seq(Bytes)]
        /\ \A d \in Sock : \A i \in DOMAIN waiting'[d] :
             waiting'[d][i].sock = d /\ waiting'[d][i].ok
    BY <1>1, <1>2, <1>3, StartTypes
  <2> QED BY <1>1, <2>1 DEF SessionIoTypeOK
<1>6. ASSUME NEW d \in Sock PROVE QuietInv(d)'
  <2>1. CASE d = w.sock
    <3>1. stalled[d]
      BY <1>1, <1>3, <1>4, <2>1 DEF QuietInv, AtOnce
    <3>2. stalled'[d]
      <4>1. \/ stalled' = stalled
            \/ stalled' = [stalled EXCEPT ![d] = @ \/ w.sent + Fitting(w) < w.size]
            \/ stalled' = [stalled EXCEPT ![d] = TRUE]
        BY <1>1, <2>1 DEF StartSome
      <4>2. stalled \in [Sock -> BOOLEAN] /\ stalled[d] = TRUE
        BY <3>1 DEF SessionIoTypeOK
      <4>3. CASE stalled' = [stalled EXCEPT ![d] = @ \/ w.sent + Fitting(w) < w.size]
        <5>1. (stalled[d] \/ w.sent + Fitting(w) < w.size) = TRUE
          BY <4>2
        <5> QED BY <4>2, <4>3, <5>1
      <4> QED BY <4>1, <4>2, <4>3
    <3> QED BY <3>2 DEF QuietInv
  <2>2. CASE d # w.sock
    <3>1. /\ stalled'[d] = stalled[d] /\ waiting'[d] = waiting[d] /\ wire'[d] = wire[d]
      <4>1. Send(w, rsp, FALSE, done) => wire'[d] = wire[d]
        BY <1>2, <1>3, <2>2, SendShape
      <4>2. Send(w, rsp, FALSE, done) \/ wire' = wire
        BY <1>1 DEF StartSome
      <4>3. /\ stalled \in [Sock -> BOOLEAN] /\ DOMAIN waiting = Sock
            /\ \/ stalled' = stalled
               \/ \E b : stalled' = [stalled EXCEPT ![w.sock] = b]
            /\ \/ waiting' = waiting
               \/ \E b : waiting' = [waiting EXCEPT ![w.sock] = b]
        BY <1>1 DEF StartSome, SessionIoTypeOK
      <4>4. stalled'[d] = stalled[d] /\ waiting'[d] = waiting[d]
        BY <1>4, <2>2, <4>3
      <4> QED BY <4>1, <4>2, <4>4
    <3>2. AtOnce(d, posted) => AtOnce(d, posted')
      <4>1. AtOnce(d, posted) => AtOnce(d, done)
        BY <1>1, <1>2, AtOnceTail DEF done
      <4>2. \/ posted' = done
            \/ \E f \in Writes : posted' = Append(done, f) /\ f.sock = w.sock
        <5>1. [w EXCEPT !.ok = FALSE] \in Writes /\ [w EXCEPT !.ok = FALSE].sock = w.sock
          BY <1>3, FailedWrite
        <5>2. Sent(w, Fitting(w)) \in Writes /\ Sent(w, Fitting(w)).sock = w.sock
          BY <1>3, FittingRange, SentWrite
        <5>3. Send(w, rsp, FALSE, done) => posted' = Append(done, Sent(w, Fitting(w)))
          BY <1>2, <1>3, SendShape
        <5> QED BY <1>1, <5>1, <5>2, <5>3 DEF StartSome
      <4>3. CASE posted' = done
        BY <4>1, <4>3
      <4>4. ASSUME NEW f \in Writes, posted' = Append(done, f), f.sock = w.sock
            PROVE  AtOnce(d, posted) => AtOnce(d, posted')
        BY <1>3, <2>2, <4>1, <4>4, AtOnceAppend
      <4> QED BY <4>2, <4>3, <4>4
    <3> QED BY <3>1, <3>2 DEF QuietInv
  <2> QED BY <2>1, <2>2
<1>7. ASSUME NEW d \in Sock
      PROVE  /\ (conn[d] = "closed" => chain[d] = "idle")'
             /\ Whole(wire[d])' /\ ChainInv(d)'
  <2>0. /\ OutstandingIn(d, chain[d], waiting[d], posted)
        /\ InProgress(d, posted, wire[d], rsp[d]) /\ Whole(wire[d])
    BY DEF ChainInv
  <2>1. CASE IsReply(w, d)
    <3>1. chain[d] = "reply" /\ None(d, waiting[d]) /\ None(d, done)
          /\ Progress(wire[d], rsp[d], w.sent)
      BY <1>1, <1>2, <2>0, <2>1, FirstIsReply DEF w, done
    <3>2. /\ OutstandingIn(d, "reply", waiting'[d], posted')
          /\ InProgress(d, waiting'[d], wire'[d], rsp[d])
          /\ InProgress(d, posted', wire'[d], rsp[d])
          /\ Whole(wire'[d])
      BY <1>1, <1>2, <1>3, <2>0, <2>1, <3>1, StartReply
    <3> QED BY <1>1, <3>1, <3>2 DEF ChainInv
  <2>2. CASE ~IsReply(w, d)
    <3>1. OutstandingIn(d, chain[d], waiting[d], done) /\ InProgress(d, done, wire[d], rsp[d])
      BY <1>1, <1>2, <2>0, <2>2, FirstIsOther DEF w, done
    <3> QED BY <1>1, <1>3, <2>2, <3>1, OthersKept
  <2> QED BY <2>1, <2>2
<1> QED BY <1>5, <1>6, <1>7

LEMMA HandleWriteStep ==
  ASSUME IoInv, ~deleted, HandleWrite
  PROVE  IoInv'
<1> USE DEF IoInv
<1> DEFINE w == Head(posted)
           done == Tail(posted)
<1>1. /\ posted # <<>> /\ (w.ok => w.sent = w.size)
      /\ chain' = IF w.ok /\ w.kind = "reply" THEN [chain EXCEPT ![w.sock] = "read"] ELSE chain
      /\ deleted' = (~w.ok /\ w.kind = "reply")
      /\ posted' = done
      /\ UNCHANGED <<conn, received, rsp, ntfs, waiting, wire, unread, stalled>>
  BY DEF HandleWrite, Rearms, AfterReply
<1>2. posted \in Seq(Writes) /\ rsp \in [Sock -> Nat] /\ DOMAIN chain = Sock
  BY RspType DEF SessionIoTypeOK
<1>3. w \in Writes /\ done \in Seq(Writes)
  BY <1>1, <1>2
<1>4. w.sock \in Sock
  BY <1>3 DEF Writes
<1> HIDE DEF w, done
<1>5. SessionIoTypeOK'
  <2>1. chain' \in [Sock -> {"idle", "read", "reply"}] /\ deleted' \in BOOLEAN
    BY <1>1 DEF SessionIoTypeOK
  <2> QED BY <1>1, <1>3, <2>1 DEF SessionIoTypeOK
<1>6. ASSUME NEW d \in Sock
      PROVE  /\ (conn[d] = "closed" => chain[d] = "idle")'
             /\ Whole(wire[d])' /\ QuietInv(d)'
             /\ (~deleted => ChainInv(d))'
  <2>0. /\ OutstandingIn(d, chain[d], waiting[d], posted)
        /\ InProgress(d, posted, wire[d], rsp[d]) /\ Whole(wire[d])
        /\ InProgress(d, waiting[d], wire[d], rsp[d])
        /\ chain[d] # "reply" => Finished(wire[d], rsp[d])
    BY DEF ChainInv
  <2>1. QuietInv(d)'
    <3>1. AtOnce(d, posted) => AtOnce(d, done)
      BY <1>1, <1>2, AtOnceTail DEF done
    <3> QED BY <1>1, <3>1 DEF QuietInv
  <2>2. Whole(wire[d])'
    BY <1>1
  <2>3. CASE IsReply(w, d)
    <3>1. chain[d] = "reply" /\ None(d, waiting[d]) /\ None(d, done)
          /\ (w.ok => Progress(wire[d], rsp[d], w.sent))
      BY <1>1, <1>2, <2>0, <2>3, FirstIsReply DEF w, done
    <3>2. conn[d] # "closed"
      BY <3>1
    <3>3. CASE ~w.ok
      <4>1. deleted'
        BY <1>1, <2>3, <3>3 DEF IsReply
      <4> QED BY <1>1, <2>1, <2>2, <3>2, <4>1
    <3>4. CASE w.ok
      <4>1. chain'[d] = "read"
        BY <1>1, <1>2, <2>3, <3>4 DEF IsReply
      <4>2. wire[d] \in Seq(Bytes) /\ rsp[d] \in Nat
        BY <1>2 DEF SessionIoTypeOK
      <4>3. Finished(wire[d], rsp[d])
        BY <1>1, <1>3, <3>1, <3>4, <4>2, ProgressDone
      <4>4. ChainInv(d)'
        BY <1>1, <3>1, <4>1, <4>3 DEF ChainInv, OutstandingIn, InProgress, None
      <4> QED BY <1>1, <2>1, <2>2, <3>2, <4>4
    <3> QED BY <3>3, <3>4
  <2>4. CASE ~IsReply(w, d)
    <3>1. OutstandingIn(d, chain[d], waiting[d], done) /\ InProgress(d, done, wire[d], rsp[d])
      BY <1>1, <1>2, <2>0, <2>4, FirstIsOther DEF w, done
    <3>2. chain'[d] = chain[d]
      BY <1>1, <1>2, <2>4 DEF IsReply
    <3>3. ChainInv(d)'
      BY <1>1, <2>0, <3>1, <3>2 DEF ChainInv
    <3> QED BY <1>1, <2>1, <2>2, <3>2, <3>3
  <2> QED BY <2>3, <2>4
<1> QED BY <1>5, <1>6

LEMMA WritableStep ==
  ASSUME IoInv, ~deleted, NEW c \in Sock, Writable(c)
  PROVE  IoInv'
<1> USE DEF IoInv
<1> DEFINE w == Head(waiting[c])
           rest == Tail(waiting[c])
<1>1. /\ waiting[c] # <<>>
      /\ Send(w, rsp, FALSE, posted)
      /\ waiting' = [waiting EXCEPT ![c] = rest]
      /\ UNCHANGED <<conn, chain, received, rsp, ntfs, stalled, deleted>>
  BY DEF Writable
<1>2. /\ posted \in Seq(Writes) /\ rsp \in [Sock -> Nat]
      /\ waiting \in [Sock -> Seq(Writes)]
      /\ \A d \in Sock : \A i \in DOMAIN waiting[d] : waiting[d][i].sock = d /\ waiting[d][i].ok
  BY RspType DEF SessionIoTypeOK
<1>3. /\ w \in Writes /\ rest \in Seq(Writes) /\ w = waiting[c][1] /\ 1 \in DOMAIN waiting[c]
      /\ \A i \in DOMAIN rest : i + 1 \in DOMAIN waiting[c] /\ rest[i] = waiting[c][i + 1]
  <2>1. waiting[c] \in Seq(Writes)
    BY <1>2
  <2> QED BY <1>1, <2>1
<1>4. w.sock = c /\ w.ok
  BY <1>2, <1>3
<1> HIDE DEF w, rest
<1>5. SessionIoTypeOK'
  <2>1. /\ posted' \in Seq(Writes) /\ unread' \in [Sock -> 0 .. Buffer]
        /\ wire' \in [Sock -> Seq(Bytes)]
    BY <1>1, <1>2, <1>3, SendShape
  <2>2. waiting' \in [Sock -> Seq(Writes)]
    BY <1>1, <1>2, <1>3
  <2>3. ASSUME NEW d \in Sock, NEW i \in DOMAIN waiting'[d]
        PROVE  waiting'[d][i].sock = d /\ waiting'[d][i].ok
    <3>1. CASE d = c
      <4>1. waiting'[d] = rest
        BY <1>1, <1>2, <3>1
      <4> QED BY <1>2, <1>3, <2>3, <3>1, <4>1
    <3>2. CASE d # c
      <4>1. waiting'[d] = waiting[d]
        BY <1>1, <1>2, <3>2
      <4> QED BY <1>2, <2>3, <4>1
    <3> QED BY <3>1, <3>2
  <2> QED BY <1>1, <2>1, <2>2, <2>3 DEF SessionIoTypeOK
<1>6. ASSUME NEW d \in Sock PROVE QuietInv(d)'
  <2>1. CASE d = c
    <3>1. stalled[d]
      BY <1>1, <2>1 DEF QuietInv
    <3> QED BY <1>1, <3>1 DEF QuietInv
  <2>2. CASE d # c
    <3>1. /\ wire'[d] = wire[d] /\ waiting'[d] = waiting[d]
          /\ posted' = Append(posted, Sent(w, Fitting(w)))
      <4>1. /\ \A e \in Sock : e # w.sock => wire'[e] = wire[e]
            /\ posted' = Append(posted, Sent(w, Fitting(w)))
        BY <1>1, <1>2, <1>3, SendShape
      <4>2. waiting'[d] = waiting[d]
        BY <1>1, <1>2, <2>2
      <4> QED BY <1>4, <2>2, <4>1, <4>2
    <3>2. Sent(w, Fitting(w)) \in Writes /\ Sent(w, Fitting(w)).sock # d
      BY <1>3, <1>4, <2>2, FittingRange, SentWrite
    <3>3. AtOnce(d, posted) => AtOnce(d, posted')
      BY <1>2, <3>1, <3>2, AtOnceAppend
    <3> QED BY <1>1, <3>1, <3>3 DEF QuietInv
  <2> QED BY <2>1, <2>2
<1>7. ASSUME NEW d \in Sock
      PROVE  Whole(wire[d])' /\ ChainInv(d)'
  <2>0. /\ OutstandingIn(d, chain[d], waiting[d], posted) /\ Whole(wire[d])
        /\ InProgress(d, posted, wire[d], rsp[d])
        /\ InProgress(d, waiting[d], wire[d], rsp[d])
        /\ chain[d] # "reply" => Finished(wire[d], rsp[d])
    BY DEF ChainInv
  <2>1. CASE IsReply(w, d)
    <3>1. d = c /\ waiting'[d] = rest
      BY <1>1, <1>2, <1>4, <2>1 DEF IsReply
    <3>2. /\ chain[d] = "reply" /\ None(d, posted) /\ None(d, rest)
          /\ Progress(wire[d], rsp[d], w.sent)
      <4>1. waiting[d] \in Seq(Writes) /\ waiting[d] # <<>> /\ w = Head(waiting[d])
            /\ rest = Tail(waiting[d])
        BY <1>1, <1>2, <3>1 DEF w, rest
      <4> QED BY <1>4, <2>0, <2>1, <4>1, FirstIsReply
    <3>3. /\ One(d, posted') /\ InProgress(d, posted', wire'[d], rsp[d]) /\ Whole(wire'[d])
      BY <1>1, <1>2, <1>3, <2>0, <2>1, <3>2, SendReply
    <3> QED BY <1>1, <3>1, <3>2, <3>3 DEF ChainInv, OutstandingIn, InProgress, None
  <2>2. CASE ~IsReply(w, d)
    <3>1. /\ OutstandingIn(d, chain[d], waiting'[d], posted)
          /\ InProgress(d, waiting'[d], wire[d], rsp[d])
      <4>1. CASE d = c
        <5>1. waiting[d] \in Seq(Writes) /\ waiting[d] # <<>> /\ w = Head(waiting[d])
              /\ waiting'[d] = Tail(waiting[d])
          BY <1>1, <1>2, <4>1 DEF w, rest
        <5> QED BY <2>0, <2>2, <5>1, FirstIsOther
      <4>2. CASE d # c
        <5>1. waiting'[d] = waiting[d]
          BY <1>1, <1>2, <4>2
        <5> QED BY <2>0, <5>1
      <4> QED BY <4>1, <4>2
    <3>2. /\ Replies(d, posted') = Replies(d, posted)
          /\ \A i \in Replies(d, posted) : posted'[i] = posted[i]
          /\ Whole(wire[d]) => Whole(wire'[d])
          /\ \A n : Finished(wire[d], n) => Finished(wire'[d], n)
          /\ \A n, sent : Progress(wire[d], n, sent) => Progress(wire'[d], n, sent)
      BY <1>1, <1>2, <1>3, <2>2, SendOther
    <3>3. OutstandingIn(d, chain[d], waiting'[d], posted')
      BY <3>1, <3>2 DEF OutstandingIn, One, None
    <3>4. InProgress(d, waiting'[d], wire'[d], rsp[d]) /\ InProgress(d, posted', wire'[d], rsp[d])
      BY <2>0, <3>1, <3>2 DEF InProgress
    <3> QED BY <1>1, <2>0, <3>2, <3>3, <3>4 DEF ChainInv
  <2> QED BY <2>1, <2>2
<1> QED BY <1>1, <1>5, <1>6, <1>7

LEMMA ClientReadsStep ==
  ASSUME IoInv, NEW c \in Sock, ClientReads(c)
  PROVE  IoInv'
<1> USE DEF IoInv
<1>1. /\ unread' = [unread EXCEPT ![c] = 0]
      /\ UNCHANGED <<conn, chain, received, rsp, ntfs, waiting, posted, wire, stalled, deleted>>
  BY DEF ClientReads
<1>2. unread' \in [Sock -> 0 .. Buffer]
  BY <1>1, SessionIoAssumption DEF SessionIoTypeOK
<1>3. SessionIoTypeOK'
  BY <1>1, <1>2 DEF SessionIoTypeOK
<1>4. \A d \in Sock : QuietInv(d)' /\ (ChainInv(d) => ChainInv(d)')
  BY <1>1 DEF QuietInv, ChainInv
<1> QED BY <1>1, <1>3, <1>4

LEMMA HandleReadErrorStep ==
  ASSUME IoInv, NEW c \in Sock, HandleReadError(c)
  PROVE  IoInv'
<1> USE DEF IoInv
<1>1. /\ deleted' = TRUE
      /\ UNCHANGED <<conn, chain, received, rsp, ntfs, waiting, posted, wire, unread, stalled>>
  BY DEF HandleReadError
<1>2. SessionIoTypeOK'
  BY <1>1 DEF SessionIoTypeOK
<1>3. \A d \in Sock : QuietInv(d)'
  BY <1>1 DEF QuietInv
<1> QED BY <1>1, <1>2, <1>3

LEMMA LoseStep ==
  ASSUME IoInv, ~deleted, NEW c \in Sock, Lose(c)
  PROVE  IoInv'
<1> USE DEF IoInv
<1> DEFINE failed == [i \in DOMAIN waiting[c] |-> [waiting[c][i] EXCEPT !.ok = FALSE]]
           all == posted \o failed
<1>1. /\ conn[c] = "open" /\ conn' = [conn EXCEPT ![c] = "lost"]
      /\ posted' = all
      /\ waiting' = [waiting EXCEPT ![c] = <<>>]
      /\ UNCHANGED <<chain, received, rsp, ntfs, wire, unread, stalled, deleted>>
  BY DEF Lose
<1>2. /\ posted \in Seq(Writes) /\ conn \in [Sock -> {"closed", "open", "lost"}]
      /\ waiting \in [Sock -> Seq(Writes)] /\ waiting[c] \in Seq(Writes)
      /\ \A d \in Sock : \A i \in DOMAIN waiting[d] : waiting[d][i].sock = d /\ waiting[d][i].ok
  BY RspType DEF SessionIoTypeOK
<1>3. ASSUME NEW d \in Sock
      PROVE  /\ all \in Seq(Writes)
             /\ None(d, waiting[c]) => Replies(d, all) = Replies(d, posted)
             /\ None(d, posted) /\ One(d, waiting[c]) => One(d, all)
             /\ \A i \in DOMAIN all :
                  \/ i \in DOMAIN posted /\ all[i] = posted[i]
                  \/ ~all[i].ok
  <2>1. /\ failed \in Seq(Writes) /\ DOMAIN failed = DOMAIN waiting[c]
        /\ \A i \in DOMAIN waiting[c] :
             /\ failed[i].kind = waiting[c][i].kind
             /\ failed[i].sock = waiting[c][i].sock /\ ~failed[i].ok
    BY <1>2, FailedWrites
  <2> HIDE DEF failed
  <2>2. all \in Seq(Writes)
    BY <1>2, <2>1, Concatenated
  <2> QED BY <1>2, <2>1, <2>2, RepliesFailed
<1> HIDE DEF all
<1>4. SessionIoTypeOK'
  <2>1. conn' \in [Sock -> {"closed", "open", "lost"}] /\ posted' \in Seq(Writes)
    BY <1>1, <1>2, <1>3
  <2>2. waiting' \in [Sock -> Seq(Writes)]
    BY <1>1, <1>2
  <2>3. \A d \in Sock : waiting'[d] = waiting[d] \/ waiting'[d] = <<>>
    BY <1>1, <1>2
  <2>4. \A d \in Sock : \A i \in DOMAIN waiting'[d] :
          waiting'[d][i].sock = d /\ waiting'[d][i].ok
    BY <1>2, <2>3
  <2> QED BY <1>1, <2>1, <2>2, <2>4 DEF SessionIoTypeOK
<1>5. ASSUME NEW d \in Sock
      PROVE  /\ (conn[d] = "closed" => chain[d] = "idle")'
             /\ Whole(wire[d])' /\ QuietInv(d)' /\ ChainInv(d)'
  <2>0. /\ OutstandingIn(d, chain[d], waiting[d], posted)
        /\ InProgress(d, posted, wire[d], rsp[d])
        /\ InProgress(d, waiting[d], wire[d], rsp[d])
    BY DEF ChainInv
  <2>1. (conn[d] = "closed" => chain[d] = "idle")'
    BY <1>1, <1>2
  <2>2. waiting'[d] = (IF d = c THEN <<>> ELSE waiting[d])
    BY <1>1, <1>2
  <2>3. QuietInv(d)'
    <3>1. AtOnce(d, posted) => AtOnce(d, posted')
      BY <1>1, <1>3 DEF AtOnce
    <3> QED BY <1>1, <2>2, <3>1 DEF QuietInv
  <2>4. OutstandingIn(d, chain[d], waiting'[d], posted')
    <3>1. CASE d = c
      <4>1. None(d, waiting'[d])
        BY <2>2, <3>1 DEF None, Replies
      <4> QED BY <1>1, <1>3, <2>0, <3>1, <4>1 DEF OutstandingIn, None, One
    <3>2. CASE d # c
      <4>1. None(d, waiting[c])
        BY <1>2, <3>2 DEF None, Replies
      <4> QED BY <1>1, <1>3, <2>0, <2>2, <3>2, <4>1 DEF OutstandingIn, None, One
    <3> QED BY <3>1, <3>2
  <2>5. InProgress(d, waiting'[d], wire[d], rsp[d])
    BY <2>0, <2>2 DEF InProgress, Replies
  <2>6. InProgress(d, posted', wire[d], rsp[d])
    BY <1>1, <1>3, <2>0 DEF InProgress, Replies
  <2> QED BY <1>1, <2>1, <2>3, <2>4, <2>5, <2>6 DEF ChainInv
<1> QED BY <1>4, <1>5

-----------------------------------------------------------------------------
LEMMA IoInvInit == Init => IoInv
<1> SUFFICES ASSUME Init PROVE IoInv
  OBVIOUS
<1>1. SessionIoTypeOK
  <2>1. <<>> \in Seq(Writes) /\ <<>> \in Seq(Bytes)
    OBVIOUS
  <2>2. 0 \in 0 .. MaxPkgs /\ 0 \in 0 .. MaxNtfs /\ 0 \in 0 .. Buffer
    BY SessionIoAssumption
  <2> HIDE DEF Writes, Bytes
  <2>3. \A c \in Sock : DOMAIN waiting[c] = {}
    BY DEF Init
  <2> QED BY <2>1, <2>2, <2>3 DEF Init, SessionIoTypeOK
<1>2. ASSUME NEW c \in Sock
      PROVE  Whole(wire[c]) /\ QuietInv(c) /\ ChainInv(c)
  <2>1. /\ wire[c] = <<>> /\ waiting[c] = <<>> /\ posted = <<>>
        /\ chain[c] = "idle" /\ rsp[c] = 0
    BY <1>2 DEF Init
  <2>2. ReplyBytes(wire[c]) = {} /\ Replies(c, posted) = {} /\ Replies(c, waiting[c]) = {}
    BY <2>1 DEF ReplyBytes, Replies
  <2> QED BY <2>1, <2>2 DEF Whole, QuietInv, ChainInv, OutstandingIn, None, Finished, Last,
                            InProgress, AtOnce, Untorn
<1> QED BY <1>1, <1>2 DEF IoInv, Init

LEMMA IoInvStep == IoInv /\ [Next]_vars => IoInv'
<1> SUFFICES ASSUME IoInv, [Next]_vars PROVE IoInv'
  OBVIOUS
<1>1. CASE UNCHANGED vars
  BY <1>1 DEF vars, IoInv, SessionIoTypeOK, QuietInv, ChainInv
<1>2. CASE Next
  BY <1>2, StartStep, HandleReadStep, HandleReadErrorStep, WritableStep, ClientReadsStep,
     LoseStep, NotifyStep, ContinueStep, HandleWriteStep DEF Next, Handlers
<1> QED BY <1>1, <1>2

LEMMA IoInvariant == Spec => []IoInv
BY IoInvInit, IoInvStep, PTL DEF Spec

(* Writes wait on the socket they are for and are never longer than what   *)
(* was written, the kernel holds no more than its buffer (session.cpp 37,  *)
(* 79, 207; game.cpp 138).                                                 *)
THEOREM IoTypeInvariant == Spec => []SessionIoTypeOK
BY IoInvariant, PTL DEF IoInv

(* A chain that writes has exactly one reply outstanding, any other none,  *)
(* so that m_rsp and m_game_rsp have one user at a time (session.cpp 62).  *)
THEOREM OneReply == Spec => []OneReplyAtATime
<1>1. IoInv => OneReplyAtATime
  <2> SUFFICES ASSUME IoInv, NEW c \in Sock, ~deleted
               PROVE  Cardinality(Replies(c, waiting[c])) + Cardinality(Replies(c, posted))
                        = (IF chain[c] = "reply" THEN 1 ELSE 0)
    BY DEF OneReplyAtATime
  <2>1. OutstandingIn(c, chain[c], waiting[c], posted)
    BY DEF IoInv, ChainInv
  <2>2. \A ws : None(c, ws) => Cardinality(Replies(c, ws)) = 0
    BY FS_EmptySet DEF None
  <2>3. \A ws : One(c, ws) => Cardinality(Replies(c, ws)) = 1
    BY FS_Singleton DEF One
  <2> QED BY <2>1, <2>2, <2>3 DEF OutstandingIn
<1> QED BY <1>1, IoInvariant, PTL

(* However writes are cut and whatever the games write in between, the     *)
(* replies a client gets are whole and in order (session.cpp 62, 207).     *)
THEOREM RepliesAreWhole == Spec => []RepliesWhole
<1>1. IoInv => RepliesWhole
  BY DEF IoInv, Whole, RepliesWhole
<1> QED BY <1>1, IoInvariant, PTL

(* While no write had to wait, nothing on the wire is torn or taken from a *)
(* string that is gone (game.cpp 138, session.cpp 207).                    *)
THEOREM IntactUntilStalled == Spec => []IntactWhileKeepingUp
<1>1. IoInv => IntactWhileKeepingUp
  BY DEF IoInv, QuietInv, Untorn, IntactWhileKeepingUp
<1> QED BY <1>1, IoInvariant, PTL
=============================================================================
