--------------------------- MODULE PkgBufferProofs ---------------------------
(***************************************************************************)
(* What a package is read as, for every set of messages, every size of the *)
(* buffer and every way TCP cuts and joins what the client wrote.          *)
(***************************************************************************)
EXTENDS PkgBuffer, SequenceTheorems, FiniteSetTheorems, TLAPS

(* The bytes of the connection and of the buffer. *)
Letter == {<<c, i>> : c \in Commands, i \in 1 .. 3} \cup {<<"ROOM">>, <<"GAME">>}
Text == Letter \cup {Sep} \cup {Digit(d) : d \in 0 .. 9}
Byte == Text \cup {Nul, Junk}

(* A message without its terminator. *)
Body(m) == Bytes(m, <<>>)

-----------------------------------------------------------------------------
(* What is done for a package, as a function of the message it holds. *)
Done(m) ==
  CASE m.cmd = "UPDATEGAME" -> [cmd |-> m.cmd, arg |-> Body(m)]
    [] m.cmd = "CREATEROOM" /\ m_rid # 0 -> [cmd |-> "already in a room", arg |-> <<>>]
    [] OTHER -> m

PkgTypeOK ==
  /\ sent \in Seq(Messages)
  /\ stream \in Seq(Seq(Byte)) /\ Len(stream) <= Len(sent)
  /\ m_pkg \in [1 .. MAX_PKG_SIZE -> Byte]
  /\ fill \in {Nul, Junk} /\ ends \in {<<Nul>>, <<>>}

(* The history of reads: a sequence, each of them beginning in a message   *)
(* that was sent; and the room, which the first CREATEROOM among them made.*)
HandledInv ==
  /\ Len(handled) \in Nat /\ handled = [i \in 1 .. Len(handled) |-> handled[i]]
  /\ \A i \in 1 .. Len(handled) : handled[i].first \in 1 .. Len(sent)
  /\ m_rid # 0 <=> \E i \in 1 .. Len(handled) : handled[i].did.cmd = "CREATEROOM"

(* While each read is one message, the i-th read is the i-th message.      *)
InStep ==
  OneByOne =>
    /\ Len(handled) + Len(stream) = Len(sent)
    /\ \A i \in 1 .. Len(handled) : handled[i].first = i

(* The length of the last message read, when each read is one message. *)
LastLen == IF Len(handled) = 0 THEN 0 ELSE Len(Bytes(sent[Len(handled)], ends))

(* As long as none is shorter than the one before, the buffer is still     *)
(* untouched behind the last.                                              *)
CleanBehind ==
  fill = Nul /\ NeverShorter /\ OneByOne =>
    \A j \in 1 .. MAX_PKG_SIZE : j > LastLen => m_pkg[j] = Nul

PkgInv ==
  /\ PkgTypeOK
  /\ HandledInv
  /\ InStep
  /\ CleanBehind
  /\ FirstMessageWins
  /\ AsSentIfNeverShorter

-----------------------------------------------------------------------------
(* Bytes of different kinds differ. *)
LEMMA BytesDiffer ==
  /\ \A b \in Text : b # Nul /\ b # Junk
  /\ \A d : Digit(d)[1] = "digit" /\ Digit(d)[2] = d
  /\ Sep[1] # "digit" /\ Nul[1] # "digit" /\ Junk[1] # "digit"
  /\ \A c, e \in Commands : \A i, j \in 1 .. 3 : <<c, i>> = <<e, j>> => c = e /\ i = j
  /\ \A c \in Commands : \A i \in 1 .. 3 :
       /\ <<c, i>> # <<"ROOM">> /\ <<c, i>> # <<"GAME">> /\ <<c, i>> # Sep
       /\ \A d : <<c, i>> # Digit(d)
<1>1. Commands = {"CREATEROOM", "LISTROOM", "JOINROOM", "STARTGAME", "UPDATEGAME"}
  BY DEF Commands, Stem
<1>2. \A b \in Text : b # Nul /\ b # Junk
  <2>1. \A c \in Commands : \A i \in 1 .. 3 : <<c, i>>[1] # Nul[1] /\ <<c, i>>[1] # Junk[1]
    BY <1>1 DEF Nul, Junk
  <2>2. \A d : Digit(d)[1] # Nul[1] /\ Digit(d)[1] # Junk[1]
    BY DEF Nul, Junk, Digit
  <2>3. <<"ROOM">>[1] # Nul[1] /\ <<"ROOM">>[1] # Junk[1] /\ <<"GAME">>[1] # Nul[1]
        /\ <<"GAME">>[1] # Junk[1] /\ Sep[1] # Nul[1] /\ Sep[1] # Junk[1]
    BY DEF Nul, Junk, Sep
  <2> QED BY <2>1, <2>2, <2>3 DEF Text, Letter
<1>3. \A d : Digit(d)[1] = "digit" /\ Digit(d)[2] = d
  BY DEF Digit
<1>4. Sep[1] # "digit" /\ Nul[1] # "digit" /\ Junk[1] # "digit"
  BY DEF Sep, Nul, Junk
<1>5. \A c, e \in Commands : \A i, j \in 1 .. 3 : <<c, i>> = <<e, j>> => c = e /\ i = j
  OBVIOUS
<1>6. ASSUME NEW c \in Commands, NEW i \in 1 .. 3
      PROVE  /\ <<c, i>> # <<"ROOM">> /\ <<c, i>> # <<"GAME">> /\ <<c, i>> # Sep
             /\ \A d : <<c, i>> # Digit(d)
  <2>1. <<c, i>>[1] = c /\ c # "ROOM" /\ c # "GAME" /\ c # "separator" /\ c # "digit"
    BY <1>1
  <2>2. <<"ROOM">>[1] = "ROOM" /\ <<"GAME">>[1] = "GAME" /\ Sep[1] = "separator"
    BY DEF Sep
  <2> QED BY <2>1, <2>2, <1>3
<1> QED BY <1>2, <1>3, <1>4, <1>5, <1>6

LEMMA KeywordIs ==
  ASSUME NEW c \in Commands
  PROVE  /\ Keyword(c) \in Seq(Letter) /\ Stem[c] \in 1 .. 3
         /\ Len(Keyword(c)) = Stem[c] + 1
         /\ \A i \in 1 .. Stem[c] : Keyword(c)[i] = <<c, i>>
         /\ Keyword(c)[Stem[c] + 1] \in {<<"ROOM">>, <<"GAME">>}
<1> DEFINE stem == [i \in 1 .. Stem[c] |-> <<c, i>>]
           tail == <<Tail1(c)>>
<1>1. Stem[c] \in 1 .. 3
  BY DEF Commands, Stem
<1>2. Tail1(c) \in {<<"ROOM">>, <<"GAME">>} /\ Tail1(c) \in Letter
  BY DEF Tail1, Letter
<1>3. \A i \in 1 .. Stem[c] : <<c, i>> \in Letter
  BY <1>1 DEF Letter
<1>4. stem \in Seq(Letter) /\ Len(stem) = Stem[c] /\ \A i \in 1 .. Stem[c] : stem[i] = <<c, i>>
  <2> DEFINE n == Stem[c]
  <2>1. n \in Nat
    BY <1>1
  <2>2. \A i \in 1 .. n : <<c, i>> \in Letter
    BY <1>3
  <2> HIDE DEF n
  <2>3. [i \in 1 .. n |-> <<c, i>>] \in Seq(Letter) /\ Len([i \in 1 .. n |-> <<c, i>>]) = n
        /\ \A i \in 1 .. n : [j \in 1 .. n |-> <<c, j>>][i] = <<c, i>>
    BY <2>1, <2>2
  <2> QED BY <2>3 DEF n
<1>5. tail \in Seq(Letter) /\ Len(tail) = 1 /\ tail[1] = Tail1(c)
  BY <1>2
<1>6. Keyword(c) = stem \o tail
  BY DEF Keyword
<1> HIDE DEF stem, tail
<1>7. stem \o tail \in Seq(Letter) /\ Len(stem \o tail) = Len(stem) + Len(tail)
      /\ \A i \in 1 .. Len(stem) + Len(tail) :
           (stem \o tail)[i] = IF i <= Len(stem) THEN stem[i] ELSE tail[i - Len(stem)]
  BY ONLY <1>4, <1>5, ConcatProperties
<1>8. \A i \in 1 .. Stem[c] + 1 : Keyword(c)[i] = IF i <= Stem[c] THEN stem[i] ELSE tail[i - Stem[c]]
  BY <1>4, <1>5, <1>6, <1>7
<1>9. Keyword(c)[Stem[c] + 1] = Tail1(c)
  BY <1>1, <1>5, <1>8
<1>10. \A i \in 1 .. Stem[c] : Keyword(c)[i] = <<c, i>>
  BY <1>1, <1>4, <1>8
<1> QED BY <1>1, <1>2, <1>4, <1>5, <1>6, <1>7, <1>9, <1>10

(* The keyword, and if there is an argument the separator and its digits. *)
LEMMA BodyIs ==
  ASSUME NEW m \in Messages
  PROVE  /\ m.cmd \in Commands /\ m.arg \in Seq(0 .. 9)
         /\ Body(m) \in Seq(Text)
         /\ \A e \in {<<Nul>>, <<>>} : Bytes(m, e) = Body(m) \o e
         /\ Len(Body(m)) = IF m.arg = <<>> THEN Stem[m.cmd] + 1 ELSE Stem[m.cmd] + 2 + Len(m.arg)
         /\ \A i \in 1 .. Stem[m.cmd] + 1 : Body(m)[i] = Keyword(m.cmd)[i]
         /\ m.arg # <<>> =>
              /\ Body(m)[Stem[m.cmd] + 2] = Sep
              /\ \A i \in 1 .. Len(m.arg) : Body(m)[Stem[m.cmd] + 2 + i] = Digit(m.arg[i])
<1> DEFINE key == Keyword(m.cmd)
           digits == [i \in DOMAIN m.arg |-> Digit(m.arg[i])]
           args == IF m.arg = <<>> THEN <<>> ELSE <<Sep>> \o digits
           s == Stem[m.cmd] + 1
           n == Len(m.arg)
<1>1. m.cmd \in Commands /\ m.arg \in Seq(0 .. 9)
  BY PkgAssumption DEF Commands, Stem
<1>2. /\ key \in Seq(Text) /\ Len(key) = s /\ s \in Nat
  <2>1. key \in Seq(Letter) /\ Len(key) = s /\ Stem[m.cmd] \in 1 .. 3
    BY <1>1, KeywordIs
  <2>2. Letter \subseteq Text
    BY DEF Text
  <2> HIDE DEF key
  <2> QED BY <2>1, <2>2
<1>3. n \in Nat /\ (n = 0 <=> m.arg = <<>>) /\ DOMAIN m.arg = 1 .. n
  BY <1>1
<1>4. digits \in Seq(Text) /\ Len(digits) = n /\ \A i \in 1 .. n : digits[i] = Digit(m.arg[i])
  <2>1. \A i \in 1 .. n : Digit(m.arg[i]) \in Text
    BY <1>1 DEF Text
  <2>2. digits = [i \in 1 .. n |-> Digit(m.arg[i])]
    BY <1>3
  <2> HIDE DEF n, digits
  <2> QED BY <1>3, <2>1, <2>2
<1>5. args \in Seq(Text)
      /\ (m.arg = <<>> => Len(args) = 0)
      /\ (m.arg # <<>> => /\ Len(args) = 1 + n /\ args[1] = Sep
                          /\ \A i \in 1 .. n : args[1 + i] = Digit(m.arg[i]))
  <2>1. <<Sep>> \in Seq(Text) /\ Len(<<Sep>>) = 1 /\ <<Sep>>[1] = Sep
    BY DEF Text
  <2> DEFINE sp == <<Sep>>
  <2> HIDE DEF digits, sp, n
  <2>2. sp \in Seq(Text) /\ Len(sp) = 1 /\ sp[1] = Sep
    BY <2>1 DEF sp
  <2>3. /\ sp \o digits \in Seq(Text)
        /\ Len(sp \o digits) = Len(sp) + Len(digits)
        /\ \A i \in 1 .. Len(sp) + Len(digits) :
             (sp \o digits)[i] = IF i <= Len(sp) THEN sp[i] ELSE digits[i - Len(sp)]
    BY ONLY <2>2, <1>4, ConcatProperties
  <2>4. \A i \in 1 .. 1 + n :
          (sp \o digits)[i] = IF i <= 1 THEN sp[i] ELSE digits[i - 1]
    BY <2>2, <2>3, <1>4
  <2>5. (sp \o digits)[1] = Sep
    BY <2>2, <2>4, <1>3
  <2>6. ASSUME NEW i \in 1 .. n PROVE (sp \o digits)[1 + i] = Digit(m.arg[i])
    <3>1. 1 + i \in 1 .. 1 + n /\ ~(1 + i <= 1) /\ (1 + i) - 1 = i
      BY <1>3
    <3> QED BY <3>1, <2>4, <1>4
  <2>7. m.arg # <<>> => args = sp \o digits
    BY DEF sp
  <2>8. m.arg = <<>> => args = <<>>
    OBVIOUS
  <2> HIDE DEF args
  <2>9. CASE m.arg = <<>>
    BY <2>8, <2>9
  <2>10. CASE m.arg # <<>>
    <3>1. Len(args) = 1 + n /\ args \in Seq(Text)
      BY <2>2, <2>3, <2>7, <2>10, <1>4
    <3>2. args[1] = Sep /\ \A i \in 1 .. n : args[1 + i] = Digit(m.arg[i])
      BY <2>5, <2>6, <2>7, <2>10
    <3> QED BY <3>1, <3>2, <2>10
  <2> QED BY <2>9, <2>10
<1> HIDE DEF key, args, digits, n, s
<1>6. /\ key \o args \in Seq(Text)
      /\ Len(key \o args) = Len(key) + Len(args)
      /\ \A i \in 1 .. Len(key) + Len(args) :
           (key \o args)[i] = IF i <= Len(key) THEN key[i] ELSE args[i - Len(key)]
  BY ONLY <1>2, <1>5, ConcatProperties
<1>7. \A e : Bytes(m, e) = (key \o args) \o e
  BY DEF Bytes, key, args, digits
<1>8. Body(m) = key \o args
  BY <1>6, <1>7, ConcatEmptySeq DEF Body
<1>9. \A i \in 1 .. s : Body(m)[i] = key[i]
  BY <1>2, <1>5, <1>6, <1>8
<1>10. ASSUME m.arg # <<>>
       PROVE  /\ Body(m)[s + 1] = Sep
              /\ \A i \in 1 .. n : Body(m)[s + 1 + i] = Digit(m.arg[i])
  <2>1. Len(args) = 1 + n /\ n \in Nat /\ Len(args) \in Nat
    BY <1>3, <1>5, <1>10
  <2>2. \A i \in 1 .. 1 + n : Body(m)[s + i] = args[i]
    <3> SUFFICES ASSUME NEW i \in 1 .. 1 + n PROVE Body(m)[s + i] = args[i]
      OBVIOUS
    <3>1. s + i \in 1 .. s + (1 + n) /\ ~(s + i <= s) /\ (s + i) - s = i
      BY <1>2, <2>1
    <3> QED BY <3>1, <1>2, <1>6, <1>8, <2>1
  <2>3. 1 \in 1 .. 1 + n /\ \A i \in 1 .. n : 1 + i \in 1 .. 1 + n /\ s + (1 + i) = s + 1 + i
    BY <1>2, <2>1
  <2> QED BY <2>2, <2>3, <1>5, <1>10
<1>11. Stem[m.cmd] \in Nat /\ s + 1 = Stem[m.cmd] + 2 /\ s = Stem[m.cmd] + 1
  BY <1>1, KeywordIs DEF s
<1>12. Len(Body(m)) = IF m.arg = <<>> THEN s ELSE s + 1 + n
  <2>1. Len(Body(m)) = s + Len(args)
    BY <1>2, <1>6, <1>8
  <2>2. m.arg # <<>> => Len(args) = 1 + n
    BY <1>5
  <2>3. m.arg = <<>> => Len(args) = 0
    BY <1>5
  <2>4. s \in Nat /\ n \in Nat
    BY <1>2, <1>3
  <2> QED BY <2>1, <2>2, <2>3, <2>4
<1>13. \A e \in {<<Nul>>, <<>>} : Bytes(m, e) = Body(m) \o e
  BY <1>7, <1>8
<1> QED
  BY <1>1, <1>6, <1>8, <1>9, <1>10, <1>11, <1>12, <1>13 DEF key, n

(* A whole message holds its own keyword and no other. *)
LEMMA FindsOnly ==
  ASSUME NEW m \in Messages, NEW c \in Commands
  PROVE  Finds(Body(m), c) <=> c = m.cmd
<1> DEFINE b == Body(m)
           s == Stem[c]
<1>1. /\ m.cmd \in Commands /\ b \in Seq(Text) /\ Len(b) \in Nat
      /\ Len(b) >= Stem[m.cmd] + 1
      /\ \A i \in 1 .. Stem[m.cmd] + 1 : b[i] = Keyword(m.cmd)[i]
  <2>1. m.cmd \in Commands /\ m.arg \in Seq(0 .. 9) /\ b \in Seq(Text)
        /\ Len(b) = (IF m.arg = <<>> THEN Stem[m.cmd] + 1 ELSE Stem[m.cmd] + 2 + Len(m.arg))
        /\ \A i \in 1 .. Stem[m.cmd] + 1 : b[i] = Keyword(m.cmd)[i]
    BY BodyIs
  <2>2. Stem[m.cmd] \in 1 .. 3
    BY <2>1, KeywordIs
  <2> HIDE DEF b
  <2>3. Len(b) >= Stem[m.cmd] + 1
    BY <2>1, <2>2
  <2> QED BY <2>1, <2>3
<1>2. /\ Keyword(c) \in Seq(Letter) /\ s \in 1 .. 3 /\ Len(Keyword(c)) = s + 1
      /\ Keyword(c)[1] = <<c, 1>>
  BY KeywordIs
<1>3. ASSUME NEW j \in 1 .. Len(b), b[j] = <<c, 1>> PROVE c = m.cmd
  <2>1. /\ Stem[m.cmd] \in 1 .. 3
        /\ \A i \in 1 .. Stem[m.cmd] : Keyword(m.cmd)[i] = <<m.cmd, i>>
        /\ Keyword(m.cmd)[Stem[m.cmd] + 1] \in {<<"ROOM">>, <<"GAME">>}
    BY <1>1, KeywordIs
  <2>2. CASE j <= Stem[m.cmd]
    <3>1. b[j] = <<m.cmd, j>> /\ j \in 1 .. 3
      BY <1>1, <2>1, <2>2
    <3> QED BY <1>1, <1>3, <3>1, BytesDiffer
  <2>3. CASE j = Stem[m.cmd] + 1
    <3>1. b[j] \in {<<"ROOM">>, <<"GAME">>}
      BY <1>1, <2>1, <2>3
    <3> QED BY <1>3, <3>1, BytesDiffer
  <2>4. CASE j > Stem[m.cmd] + 1
    <3>1. m.arg # <<>> /\ Len(b) = Stem[m.cmd] + 2 + Len(m.arg) /\ m.arg \in Seq(0 .. 9)
      BY <1>1, <2>1, <2>4, BodyIs
    <3>2. b[Stem[m.cmd] + 2] = Sep
          /\ \A i \in 1 .. Len(m.arg) : b[Stem[m.cmd] + 2 + i] = Digit(m.arg[i])
      BY <3>1, BodyIs
    <3>3. b[j] = Sep \/ \E d : b[j] = Digit(d)
      <4>1. CASE j = Stem[m.cmd] + 2
        BY <4>1, <3>2
      <4>2. CASE j # Stem[m.cmd] + 2
        <5> DEFINE q == Stem[m.cmd] + 2
                   i == j - q
        <5>1. q \in Nat /\ Len(m.arg) \in Nat /\ j > q - 1 /\ j # q /\ j \in Nat
          BY <2>1, <2>4, <4>2, <3>1
        <5>2. j <= q + Len(m.arg)
          BY <3>1
        <5> HIDE DEF q
        <5>3. i \in 1 .. Len(m.arg) /\ q + i = j
          BY <5>1, <5>2
        <5> HIDE DEF i
        <5> QED BY <5>3, <3>2 DEF q
      <4> QED BY <4>1, <4>2
    <3> QED BY <1>3, <3>3, BytesDiffer
  <2> QED BY <2>1, <2>2, <2>3, <2>4
<1>4. ASSUME Finds(b, c) PROVE c = m.cmd
  <2> HIDE DEF b, s
  <2>1. PICK k \in 0 .. Len(b) - (s + 1) : SubSeq(b, k + 1, k + (s + 1)) = Keyword(c)
    BY <1>2, <1>4 DEF Finds
  <2>2. k + 1 \in 1 .. Len(b) /\ k + (s + 1) \in 1 .. Len(b) /\ 1 \in 1 .. (k + (s + 1)) - (k + 1) + 1
        /\ (k + 1) + 1 - 1 = k + 1 /\ k + 1 \in Int /\ k + (s + 1) \in Int
    BY <1>1, <1>2
  <2>3. \A i \in k + 1 .. k + (s + 1) : b[i] \in Text
    BY <1>1, <2>2
  <2>4. SubSeq(b, k + 1, k + (s + 1))[1] = b[k + 1]
    BY <2>2, <2>3, SubSeqProperties
  <2> QED BY <1>2, <1>3, <2>1, <2>2, <2>4
<1>5. ASSUME c = m.cmd PROVE Finds(b, c)
  <2> HIDE DEF b, s
  <2>1. SubSeq(b, 0 + 1, 0 + (s + 1)) \in Seq(Text)
        /\ Len(SubSeq(b, 0 + 1, 0 + (s + 1))) = s + 1
        /\ \A i \in 1 .. s + 1 : SubSeq(b, 0 + 1, 0 + (s + 1))[i] = b[i]
    BY <1>1, <1>2, <1>5 DEF s
  <2>2. Keyword(c) \in Seq(Text)
    BY <1>2 DEF Text
  <2>3. SubSeq(b, 0 + 1, 0 + (s + 1)) = Keyword(c)
    BY <2>1, <2>2, <1>1, <1>2, <1>5, SeqEqual DEF s
  <2>4. 0 \in 0 .. Len(b) - (s + 1)
    BY <1>1, <1>2, <1>5 DEF s
  <2> QED BY <2>3, <2>4, <1>2 DEF Finds
<1> QED BY <1>4, <1>5

LEMMA MinIs ==
  ASSUME NEW I \in SUBSET Nat, NEW n \in I, \A i \in I : n <= i
  PROVE  Min(I) = n
<1>1. \A x \in I : (\A y \in I : x =< y) => x = n
  OBVIOUS
<1> QED BY <1>1 DEF Min

LEMMA CommandIs ==
  ASSUME NEW m \in Messages
  PROVE  CommandOf(Body(m)) = m.cmd
<1> DEFINE I == {i \in 1 .. Len(Branches) : Finds(Body(m), Branches[i])}
<1>1. m.cmd \in Commands
  BY BodyIs
<1>2. /\ Len(Branches) = 5 /\ \A i \in 1 .. 5 : Branches[i] \in Commands
      /\ \A i, j \in 1 .. 5 : Branches[i] = Branches[j] => i = j
      /\ \A c \in Commands : \E i \in 1 .. 5 : Branches[i] = c
  BY DEF Branches, Commands, Stem
<1>3. I = {i \in 1 .. 5 : Branches[i] = m.cmd}
  BY <1>2, FindsOnly
<1>4. PICK n \in 1 .. 5 : Branches[n] = m.cmd
  BY <1>1, <1>2
<1>5. I \in SUBSET Nat /\ n \in I /\ \A i \in I : n <= i
  BY <1>2, <1>3, <1>4
<1> HIDE DEF I
<1>6. Min(I) = n
  BY <1>5, MinIs
<1>7. CommandOf(Body(m)) = LET k == IF I # {} THEN Min(I) ELSE 0 IN IF k = 0 THEN "none" ELSE Branches[k]
  BY DEF CommandOf, SelectInSeq, I
<1>8. (IF I # {} THEN Min(I) ELSE 0) = n /\ n # 0
  BY <1>4, <1>5, <1>6
<1> QED BY <1>4, <1>7, <1>8

(* substr and stoi give back the digits of the argument. *)
LEMMA NumberIs ==
  ASSUME NEW m \in Messages, m.arg # <<>>
  PROVE  Stoi(ArgOf(Body(m), m.cmd)) = m.arg
<1> DEFINE b == Body(m)
           n == Len(m.arg)
           q == Stem[m.cmd] + 2
           s == ArgOf(b, m.cmd)
<1>1. m.cmd \in Commands /\ m.arg \in Seq(0 .. 9) /\ n \in Nat /\ b \in Seq(Text)
  BY BodyIs
<1>2. q \in Nat /\ q > 0 /\ Len(Keyword(m.cmd)) + 2 = q + 1
  BY <1>1, KeywordIs
<1>3. Len(b) = q + n /\ \A i \in 1 .. n : b[q + i] = Digit(m.arg[i])
  BY BodyIs
<1>4. s = SubSeq(b, q + 1, q + n)
  BY <1>2, <1>3 DEF ArgOf
<1> HIDE DEF b, n, q, s
<1>5. /\ Len(s) = n /\ s \in Seq(Text)
      /\ \A i \in 1 .. n : s[i] = b[q + i]
  <2>1. \A i \in q + 1 .. q + n : b[i] \in Text
    BY <1>1, <1>2, <1>3
  <2>2. q + 1 \in Int /\ q + n \in Int
    BY <1>1, <1>2
  <2>3. /\ SubSeq(b, q + 1, q + n) \in Seq(Text)
        /\ Len(SubSeq(b, q + 1, q + n)) = IF q + 1 <= q + n THEN (q + n) - (q + 1) + 1 ELSE 0
        /\ \A i \in 1 .. (q + n) - (q + 1) + 1 : SubSeq(b, q + 1, q + n)[i] = b[(q + 1) + i - 1]
    BY ONLY <2>1, <2>2, SubSeqProperties
  <2>4. (q + n) - (q + 1) + 1 = n /\ (q + 1 <= q + n <=> n # 0)
    BY <1>1, <1>2
  <2>5. \A i \in 1 .. n : (q + 1) + i - 1 = q + i
    BY <1>1, <1>2
  <2>6. Len(s) = n
    BY <1>4, <2>3, <2>4, <1>1
  <2>7. \A i \in 1 .. n : s[i] = b[q + i]
    BY <1>4, <2>3, <2>4, <2>5
  <2> QED BY <1>4, <2>3, <2>6, <2>7
<1>6. \A i \in 1 .. n : s[i][1] = "digit" /\ s[i][2] = m.arg[i]
  BY <1>3, <1>5, BytesDiffer
<1> DEFINE J == {i \in 1 .. Len(s) : s[i][1] # "digit"}
           k == IF J # {} THEN Min(J) ELSE 0
           ds == IF k = 0 THEN s ELSE SubSeq(s, 1, k - 1)
<1>7. J = {}
  BY <1>5, <1>6
<1>8. Stoi(s) = [i \in DOMAIN ds |-> ds[i][2]]
  BY DEF Stoi, SelectInSeq, J, k, ds
<1>9. ds = s /\ DOMAIN s = 1 .. n /\ DOMAIN m.arg = 1 .. n
  BY <1>1, <1>5, <1>7 DEF n
<1> HIDE DEF ds, k, J
<1>10. Stoi(s) = [i \in 1 .. n |-> m.arg[i]]
  BY <1>6, <1>8, <1>9
<1>11. m.arg = [i \in 1 .. n |-> m.arg[i]]
  BY <1>1, <1>9
<1> QED BY <1>10, <1>11 DEF s, b

(* A package that is one message is done as the client meant it. *)
LEMMA MessageDone ==
  ASSUME NEW m \in Messages
  PROVE  HandlePkg(Body(m)) = Done(m)
<1>1. CommandOf(Body(m)) = m.cmd
  BY CommandIs
<1>2. m = [cmd |-> m.cmd, arg |-> m.arg]
      /\ \/ m.cmd \in {"CREATEROOM", "JOINROOM", "STARTGAME"} /\ m.arg # <<>>
         \/ m.cmd = "LISTROOM" /\ m.arg = <<>>
         \/ m.cmd = "UPDATEGAME"
  BY PkgAssumption
<1>3. m.arg # <<>> => Stoi(ArgOf(Body(m), m.cmd)) = m.arg
  BY NumberIs
<1>4. CASE m.cmd = "CREATEROOM" /\ m_rid # 0
  BY <1>1, <1>4 DEF HandlePkg, Done
<1>5. CASE m.cmd = "LISTROOM"
  BY <1>1, <1>2, <1>5 DEF HandlePkg, Done
<1>6. CASE m.cmd = "UPDATEGAME"
  BY <1>1, <1>6 DEF HandlePkg, Done
<1>7. CASE m.cmd \in {"CREATEROOM", "JOINROOM", "STARTGAME"} /\ ~(m.cmd = "CREATEROOM" /\ m_rid # 0)
  <2>1. m.arg # <<>>
    BY <1>2, <1>7
  <2>2. HandlePkg(Body(m)) = [cmd |-> m.cmd, arg |-> m.arg]
    BY <1>1, <1>3, <1>7, <2>1 DEF HandlePkg
  <2>3. Done(m) = m
    BY <1>7 DEF Done
  <2> QED BY <1>2, <2>2, <2>3
<1> QED BY <1>2, <1>4, <1>5, <1>6, <1>7

(* The buffer read as a string: what is before its first NUL. *)
LEMMA StringIs ==
  ASSUME NEW buf \in Seq(Byte), NEW body \in Seq(Text),
         Len(body) < Len(buf), \A i \in 1 .. Len(body) : buf[i] = body[i],
         buf[Len(body) + 1] = Nul
  PROVE  CString(buf) = body
<1> DEFINE I == {i \in 1 .. Len(buf) : buf[i] = Nul}
           n == Len(body) + 1
<1>1. Len(body) \in Nat /\ Len(buf) \in Nat /\ n \in 1 .. Len(buf) /\ n - 1 = Len(body)
  OBVIOUS
<1>2. n \in I
  BY <1>1
<1>3. ASSUME NEW i \in I PROVE n <= i
  <2>1. i \in 1 .. Len(buf) /\ buf[i] = Nul
    OBVIOUS
  <2>2. i \in 1 .. Len(body) => buf[i] \in Text
    OBVIOUS
  <2>3. ~(i \in 1 .. Len(body))
    BY <2>1, <2>2, BytesDiffer
  <2> QED BY <1>1, <2>1, <2>3
<1>4. I \in SUBSET Nat
  OBVIOUS
<1>5. CString(buf) = LET k == IF I # {} THEN Min(I) ELSE 0
                     IN  IF k = 0 THEN Append(buf, Junk) ELSE SubSeq(buf, 1, k - 1)
  BY DEF CString, SelectInSeq
<1> HIDE DEF I
<1>6. (IF I # {} THEN Min(I) ELSE 0) = n /\ n # 0
  BY <1>1, <1>2, <1>3, <1>4, MinIs
<1>7. CString(buf) = SubSeq(buf, 1, Len(body))
  BY <1>1, <1>5, <1>6
<1>8. \A i \in 1 .. Len(body) : buf[i] \in Text
  OBVIOUS
<1>9. /\ SubSeq(buf, 1, Len(body)) \in Seq(Text)
      /\ Len(SubSeq(buf, 1, Len(body))) = Len(body)
      /\ \A i \in 1 .. Len(body) : SubSeq(buf, 1, Len(body))[i] = buf[i]
  BY <1>1, <1>8
<1>10. SubSeq(buf, 1, Len(body)) = body
  BY <1>9, SeqEqual
<1> QED BY <1>7, <1>10

-----------------------------------------------------------------------------
(* Induction over a set of numbers.  A number t that is not in S would     *)
(* leave the finite set of those up to t that are not in S closed under    *)
(* subtraction of 1, which maps it into itself without t.                  *)
LEMMA SetInduction ==
  ASSUME NEW S, 0 \in S, \A k \in Nat : k \in S => k + 1 \in S
  PROVE  \A k \in Nat : k \in S
<1> SUFFICES ASSUME NEW t \in Nat, t \notin S PROVE FALSE
  OBVIOUS
<1> DEFINE T == {k \in 0 .. t : k \notin S}
           down == [k \in T |-> k - 1]
<1>1. IsFiniteSet(T) /\ IsFiniteSet(T \ {t}) /\ Cardinality(T \ {t}) = Cardinality(T) - 1
      /\ Cardinality(T) \in Nat
  <2>1. IsFiniteSet(0 .. t)
    BY FS_Interval
  <2>2. IsFiniteSet(T)
    BY <2>1, FS_Subset
  <2>3. t \in T
    OBVIOUS
  <2> HIDE DEF T
  <2> QED BY <2>2, <2>3, FS_RemoveElement, FS_CardinalityType
<1>2. ASSUME NEW k \in T PROVE k - 1 \in T \ {t}
  <2>1. k \in 0 .. t /\ k \notin S /\ k # 0
    OBVIOUS
  <2>2. k - 1 \in Nat /\ (k - 1) + 1 = k /\ k - 1 \in 0 .. t /\ k - 1 # t
    BY <2>1
  <2>3. k - 1 \notin S
    BY <2>1, <2>2
  <2> QED BY <2>2, <2>3
<1>3. down \in Injection(T, T \ {t})
  <2>1. \A k \in T : k \in Int
    OBVIOUS
  <2>2. down \in [T -> T \ {t}]
    BY <1>2
  <2> HIDE DEF T
  <2>3. \A j, k \in T : down[j] = down[k] => j = k
    BY <2>1
  <2> QED BY <2>2, <2>3 DEF Injection, IsInjective
<1>4. Cardinality(T) <= Cardinality(T) - 1
  <2> HIDE DEF T, down
  <2> QED BY <1>1, <1>3, FS_Injection
<1> QED BY <1>1, <1>4


(* FirstBytes is defined for each number of messages up to the last: by    *)
(* induction, a function that obeys the recursion up to k of them is       *)
(* continued by one.                                                       *)
Recursion(g, k) == IF k = 0 THEN <<>> ELSE g[k - 1] \o stream[k]

LEMMA FirstEquation ==
  ASSUME stream \in Seq(Seq(Byte))
  PROVE  \A k \in 0 .. Len(stream) : FirstBytes[k] = Recursion(FirstBytes, k)
<1> DEFINE n == Len(stream)
           Obeys(g, k) == g = [t \in 0 .. n |-> g[t]] /\ \A t \in 0 .. n : t <= k => g[t] = Recursion(g, t)
           S == {k \in Nat : \E g : Obeys(g, k)}
<1>1. n \in Nat
  OBVIOUS
<1> HIDE DEF n
<1>2. 0 \in S
  <2> DEFINE g == [t \in 0 .. n |-> <<>>]
  <2>1. \A t \in 0 .. n : t <= 0 => g[t] = <<>> /\ t = 0
    BY <1>1
  <2>2. Obeys(g, 0)
    BY <2>1 DEF Recursion
  <2> HIDE DEF Obeys
  <2> QED BY <2>2
<1>3. ASSUME NEW k \in Nat, k \in S PROVE k + 1 \in S
  <2>1. PICK g : Obeys(g, k)
    BY <1>3
  <2> DEFINE h == [t \in 0 .. n |-> IF t = k + 1 THEN (g[k] \o stream[t]) ELSE g[t]]
  <2>2. ASSUME NEW t \in 0 .. n, t <= k + 1 PROVE h[t] = Recursion(h, t)
    <3>1. CASE t = k + 1
      <4>1. k \in 0 .. n /\ k # k + 1 /\ t # 0 /\ t - 1 = k
        BY <1>1, <2>2, <3>1
      <4>2. h[k] = g[k] /\ h[t] = (g[k] \o stream[t])
        BY <3>1, <4>1
      <4> HIDE DEF h
      <4> QED BY <4>1, <4>2 DEF Recursion
    <3>2. CASE t # k + 1
      <4>1. t <= k /\ (t # 0 => t - 1 \in 0 .. n /\ t - 1 # k + 1)
        BY <1>1, <2>2, <3>2
      <4>2. h[t] = g[t] /\ (t # 0 => h[t - 1] = g[t - 1])
        BY <3>2, <4>1
      <4>3. g[t] = Recursion(g, t)
        BY <2>1, <4>1
      <4> HIDE DEF h
      <4> QED BY <4>2, <4>3 DEF Recursion
    <3> QED BY <3>1, <3>2
  <2>3. h = [t \in 0 .. n |-> h[t]]
    OBVIOUS
  <2>4. Obeys(h, k + 1)
    BY <2>2, <2>3
  <2> HIDE DEF Obeys, h
  <2> QED BY <2>4
<1>4. n \in S
  <2> HIDE DEF S
  <2> QED BY <1>1, <1>2, <1>3, SetInduction
<1>5. PICK g : Obeys(g, n)
  BY <1>4
<1>6. g = [t \in 0 .. n |-> Recursion(g, t)]
  <2>1. g = [t \in 0 .. n |-> g[t]]
    BY <1>5
  <2>2. \A t \in 0 .. n : g[t] = Recursion(g, t)
    BY <1>1, <1>5
  <2>3. [t \in 0 .. n |-> g[t]] = [t \in 0 .. n |-> Recursion(g, t)]
    BY <2>2
  <2> QED BY <2>1, <2>3
<1>7. FirstBytes = [t \in 0 .. n |-> Recursion(FirstBytes, t)]
  BY <1>6 DEF FirstBytes, Recursion, n
<1>8. \A k \in 0 .. n : FirstBytes[k] = [t \in 0 .. n |-> Recursion(FirstBytes, t)][k]
  BY <1>7
<1> QED BY <1>8 DEF n

(* Whole messages, and what comes first of them. *)
LEMMA FirstIs ==
  ASSUME stream \in Seq(Seq(Byte)), NEW whole \in 0 .. Len(stream)
  PROVE  /\ FirstBytes[whole] \in Seq(Byte)
         /\ whole = 0 => FirstBytes[whole] = <<>>
         /\ whole = 1 => FirstBytes[whole] = stream[1]
         /\ whole > 0 => /\ Len(stream[1]) <= Len(FirstBytes[whole])
                         /\ \A i \in 1 .. Len(stream[1]) : FirstBytes[whole][i] = stream[1][i]
<1> DEFINE n == Len(stream)
           first == stream[1]
           Starts(s) == Len(first) <= Len(s) /\ \A i \in 1 .. Len(first) : s[i] = first[i]
           P(k) == FirstBytes[k] \in Seq(Byte) /\ Starts(FirstBytes[k])
           S == {k \in Nat : k + 1 <= n => P(k + 1)}
<1>1. n \in Nat /\ \A k \in 1 .. n : stream[k] \in Seq(Byte)
  OBVIOUS
<1>2. \A k \in 0 .. n : FirstBytes[k] = Recursion(FirstBytes, k)
  BY FirstEquation
<1>3. FirstBytes[0] = <<>>
  BY <1>1, <1>2 DEF Recursion
<1>4. n >= 1 => FirstBytes[1] = stream[1]
  <2> SUFFICES ASSUME n >= 1 PROVE FirstBytes[1] = stream[1]
    OBVIOUS
  <2> HIDE DEF n
  <2>0. 1 \in 0 .. n /\ 1 # 0 /\ 1 - 1 = 0
    BY <1>1
  <2>1. FirstBytes[1] = <<>> \o stream[1]
    <3>1. FirstBytes[1] = Recursion(FirstBytes, 1)
      BY <1>2, <2>0
    <3>2. Recursion(FirstBytes, 1) = FirstBytes[0] \o stream[1]
      BY <2>0, Zenon DEF Recursion
    <3> QED BY <3>1, <3>2, <1>3
  <2>2. stream[1] \in Seq(Byte)
    BY <1>1
  <2> QED BY <2>1, <2>2, ConcatEmptySeq
<1> HIDE DEF n, first
<1>5. 0 \in S
  BY <1>1, <1>4 DEF first
<1>6. ASSUME NEW k \in Nat, k \in S PROVE k + 1 \in S
  <2> SUFFICES ASSUME (k + 1) + 1 <= n PROVE P((k + 1) + 1)
    OBVIOUS
  <2> DEFINE s == FirstBytes[k + 1]
             t == stream[(k + 1) + 1]
  <2>1. s \in Seq(Byte) /\ Starts(s)
    BY <1>1, <1>6
  <2>2. (k + 1) + 1 \in 1 .. n /\ (k + 1) + 1 \in 0 .. n /\ (k + 1) + 1 # 0 /\ ((k + 1) + 1) - 1 = k + 1
    BY <1>1
  <2>3. FirstBytes[(k + 1) + 1] = s \o t
    BY <1>2, <2>2 DEF Recursion
  <2>4. t \in Seq(Byte) /\ first \in Seq(Byte)
    BY <1>1, <2>2 DEF first
  <2> HIDE DEF s, t
  <2>5. /\ s \o t \in Seq(Byte)
        /\ Len(s \o t) = Len(s) + Len(t)
        /\ \A i \in 1 .. Len(s) + Len(t) : (s \o t)[i] = IF i <= Len(s) THEN s[i] ELSE t[i - Len(s)]
    BY ONLY <2>1, <2>4, ConcatProperties
  <2>6. Len(s) \in Nat /\ Len(t) \in Nat /\ Len(first) \in Nat
    BY <2>1, <2>4
  <2>7. Starts(s \o t)
    BY <2>1, <2>5, <2>6
  <2> QED BY <2>3, <2>5, <2>7
<1>7. \A k \in Nat : k \in S
  <2> HIDE DEF S
  <2> QED BY <1>5, <1>6, SetInduction
<1>8. ASSUME whole > 0 PROVE P(whole)
  <2>1. whole - 1 \in Nat /\ (whole - 1) + 1 = whole /\ whole <= n
    BY <1>1, <1>8 DEF n
  <2>2. whole - 1 \in S
    BY <2>1, <1>7
  <2> QED BY <2>1, <2>2
<1>9. whole = 0 \/ whole > 0
  BY <1>1
<1>10. whole = 1 => n >= 1
  BY <1>1 DEF n
<1>11. whole = 0 => FirstBytes[whole] = <<>> /\ FirstBytes[whole] \in Seq(Byte)
  <2>1. <<>> \in Seq(Byte)
    BY EmptySeq
  <2> QED BY <2>1, <1>3
<1> QED BY <1>3, <1>4, <1>8, <1>9, <1>10, <1>11 DEF first

-----------------------------------------------------------------------------
(* The histories only grow. *)
LEMMA GrowsBy ==
  ASSUME NEW h, Len(h) \in Nat, h = [i \in 1 .. Len(h) |-> h[i]], NEW x
  PROVE  /\ Len(Append(h, x)) = Len(h) + 1
         /\ Append(h, x) = [i \in 1 .. Len(h) + 1 |-> Append(h, x)[i]]
         /\ \A i \in 1 .. Len(h) : Append(h, x)[i] = h[i]
         /\ Append(h, x)[Len(h) + 1] = x
<1> DEFINE n == Len(h)
           R == {h[i] : i \in 1 .. n} \cup {x}
<1>1. h \in Seq(R)
  <2>1. \A i \in 1 .. n : h[i] \in R
    OBVIOUS
  <2>2. n \in Nat /\ h = [i \in 1 .. n |-> h[i]]
    OBVIOUS
  <2> HIDE DEF n, R
  <2> QED BY <2>1, <2>2
<1>2. x \in R
  OBVIOUS
<1> HIDE DEF R
<1>3. /\ Append(h, x) \in Seq(R) /\ Len(Append(h, x)) = Len(h) + 1
      /\ \A i \in 1 .. Len(h) : Append(h, x)[i] = h[i]
      /\ Append(h, x)[Len(h) + 1] = x
  BY <1>1, <1>2, AppendProperties
<1>4. \A s \in Seq(R) : s = [i \in 1 .. Len(s) |-> s[i]]
  OBVIOUS
<1>5. Append(h, x) = [i \in 1 .. Len(h) + 1 |-> Append(h, x)[i]]
  BY <1>3, <1>4
<1> QED BY <1>3, <1>5

(* The bytes of a read, and of what is left of the stream. *)
Chunk(whole, part) ==
  FirstBytes[whole] \o (IF part = 0 THEN <<>> ELSE SubSeq(stream[whole + 1], 1, part))

LEMMA ChunkIs ==
  ASSUME stream \in Seq(Seq(Byte)), NEW whole \in 0 .. Len(stream), NEW part \in Nat,
         part # 0 => whole < Len(stream) /\ part < Len(stream[whole + 1])
  PROVE  /\ Chunk(whole, part) \in Seq(Byte)
         /\ part = 0 => Chunk(whole, part) = FirstBytes[whole]
<1> DEFINE f == FirstBytes[whole]
           t == SubSeq(stream[whole + 1], 1, part)
<1>1. f \in Seq(Byte)
  BY FirstIs
<1>2. part = 0 => Chunk(whole, part) = f
  BY <1>1, ConcatEmptySeq DEF Chunk
<1>3. part # 0 => Chunk(whole, part) \in Seq(Byte)
  <2> SUFFICES ASSUME part # 0 PROVE f \o t \in Seq(Byte)
    BY DEF Chunk
  <2>1. whole + 1 \in 1 .. Len(stream) /\ stream[whole + 1] \in Seq(Byte)
    OBVIOUS
  <2>2. \A i \in 1 .. part : stream[whole + 1][i] \in Byte
    BY <2>1
  <2>3. t \in Seq(Byte)
    BY <2>2, SubSeqProperties
  <2> HIDE DEF f, t
  <2> QED BY <1>1, <2>3, ConcatProperties
<1> QED BY <1>1, <1>2, <1>3

LEMMA RestIs ==
  ASSUME stream \in Seq(Seq(Byte)), NEW whole \in 0 .. Len(stream), NEW part \in Nat,
         part # 0 => whole < Len(stream) /\ part < Len(stream[whole + 1]),
         HandleRead(whole, part)
  PROVE  stream' \in Seq(Seq(Byte)) /\ Len(stream') = Len(stream) - whole
<1> DEFINE rest == SubSeq(stream, whole + 1, Len(stream))
<1>1. /\ stream' = IF part = 0 THEN rest ELSE [rest EXCEPT ![1] = SubSeq(@, part + 1, Len(@))]
  BY DEF HandleRead
<1>2. rest \in Seq(Seq(Byte)) /\ Len(rest) = Len(stream) - whole
      /\ (part # 0 => rest[1] = stream[whole + 1])
  <2>1. \A i \in whole + 1 .. Len(stream) : stream[i] \in Seq(Byte)
    OBVIOUS
  <2>2. /\ rest \in Seq(Seq(Byte))
        /\ Len(rest) = IF whole + 1 <= Len(stream) THEN Len(stream) - (whole + 1) + 1 ELSE 0
        /\ \A i \in 1 .. Len(stream) - (whole + 1) + 1 : rest[i] = stream[whole + 1 + i - 1]
    BY <2>1, SubSeqProperties
  <2>3. Len(rest) = Len(stream) - whole
    BY <2>2
  <2>4. part # 0 => 1 \in 1 .. Len(stream) - (whole + 1) + 1 /\ whole + 1 + 1 - 1 = whole + 1
    OBVIOUS
  <2> HIDE DEF rest
  <2> QED BY <2>2, <2>3, <2>4
<1> HIDE DEF rest
<1>3. ASSUME part # 0
      PROVE  /\ [rest EXCEPT ![1] = SubSeq(@, part + 1, Len(@))] \in Seq(Seq(Byte))
             /\ Len([rest EXCEPT ![1] = SubSeq(@, part + 1, Len(@))]) = Len(rest)
  <2> DEFINE tail == SubSeq(rest[1], part + 1, Len(rest[1]))
  <2>1. 1 \in 1 .. Len(rest) /\ rest[1] \in Seq(Byte)
    BY <1>2, <1>3
  <2>2. \A i \in part + 1 .. Len(rest[1]) : rest[1][i] \in Byte
    BY <2>1
  <2>3. Len(rest[1]) \in Int /\ part + 1 \in Int
    BY <2>1
  <2>4. tail \in Seq(Byte)
    BY <2>2, <2>3, SubSeqProperties
  <2>5. [rest EXCEPT ![1] = SubSeq(@, part + 1, Len(@))] = [rest EXCEPT ![1] = tail]
    OBVIOUS
  <2> HIDE DEF tail
  <2>6. [rest EXCEPT ![1] = tail] \in Seq(Seq(Byte)) /\ Len([rest EXCEPT ![1] = tail]) = Len(rest)
    BY ONLY <1>2, <2>1, <2>4, ExceptSeq
  <2> QED BY <2>5, <2>6
<1> QED BY <1>1, <1>2, <1>3

-----------------------------------------------------------------------------
(* A read: what it leaves behind, and what it adds to the history. *)
LEMMA ReadIs ==
  ASSUME PkgTypeOK, HandledInv, NEW whole \in 0 .. Len(stream), NEW part \in Nat,
         part # 0 => whole < Len(stream) /\ part < Len(stream[whole + 1]),
         HandleRead(whole, part)
  PROVE  /\ PkgTypeOK' /\ HandledInv' /\ UNCHANGED client
         /\ Len(stream') = Len(stream) - whole
         /\ Len(handled') = Len(handled) + 1
         /\ \A i \in 1 .. Len(handled) : handled'[i] = handled[i]
         /\ handled'[Len(handled) + 1].count = whole
         /\ handled'[Len(handled) + 1].first = Len(sent) - Len(stream) + 1
         /\ Len(sent) - Len(stream) + 1 \in 1 .. Len(sent)
         /\ handled'[Len(handled) + 1].did = HandlePkg(CString(m_pkg'))
         /\ handled'[Len(handled) + 1].uncut =>
              /\ whole > 0 /\ stream[1] = Bytes(sent[Len(sent) - Len(stream) + 1], ends)
              /\ stream[1] \in Seq(Byte) /\ Len(stream[1]) <= MAX_PKG_SIZE
              /\ \A i \in 1 .. Len(stream[1]) : m_pkg'[i] = stream[1][i]
              /\ whole = 1 => \A j \in 1 .. MAX_PKG_SIZE : j > Len(stream[1]) => m_pkg'[j] = m_pkg[j]
<1> DEFINE chunk == Chunk(whole, part)
           k == Len(handled)
           first == Len(sent) - Len(stream) + 1
           did == HandlePkg(CString(Overlay(m_pkg, chunk)))
           uncut == part = 0 /\ stream[1] = Bytes(sent[first], ends)
           x == [did |-> did, first |-> first, count |-> whole, uncut |-> uncut]
<1>1. /\ Len(chunk) \in 1 .. MAX_PKG_SIZE
      /\ m_pkg' = Overlay(m_pkg, chunk)
      /\ handled' = Append(handled, x)
      /\ m_rid' = IF did.cmd = "CREATEROOM" THEN 1 ELSE m_rid
      /\ sent' = sent /\ fill' = fill /\ ends' = ends
  BY DEF HandleRead, Chunk, client
<1>2. /\ sent \in Seq(Messages) /\ stream \in Seq(Seq(Byte)) /\ Len(stream) <= Len(sent)
      /\ m_pkg \in [1 .. MAX_PKG_SIZE -> Byte] /\ MAX_PKG_SIZE \in Nat
  BY PkgAssumption DEF PkgTypeOK
<1>3. k \in Nat /\ handled = [i \in 1 .. k |-> handled[i]]
  BY DEF HandledInv
<1>4. stream' \in Seq(Seq(Byte)) /\ Len(stream') = Len(stream) - whole
  BY <1>2, RestIs
<1>5. chunk \in Seq(Byte) /\ (part = 0 => chunk = FirstBytes[whole])
  BY <1>2, ChunkIs
<1>6. Len(stream) \in Nat /\ Len(sent) \in Nat /\ Len(stream) > 0 /\ (part = 0 => whole > 0)
  <2>1. part = 0 => whole > 0
    <3> SUFFICES ASSUME part = 0, whole = 0 PROVE FALSE
      BY <1>2
    <3>1. chunk = <<>>
      BY <1>2, <1>5, FirstIs
    <3> HIDE DEF chunk
    <3> QED BY <1>1, <3>1
  <2> QED BY <2>1, <1>2
<1>7. first \in 1 .. Len(sent)
  BY <1>2, <1>6
<1>8. /\ m_pkg' \in [1 .. MAX_PKG_SIZE -> Byte]
      /\ \A j \in 1 .. MAX_PKG_SIZE : m_pkg'[j] = IF j \in 1 .. Len(chunk) THEN chunk[j] ELSE m_pkg[j]
  <2> HIDE DEF chunk
  <2>1. m_pkg' = [j \in 1 .. MAX_PKG_SIZE |-> IF j \in 1 .. Len(chunk) THEN chunk[j] ELSE m_pkg[j]]
    BY <1>1, <1>2, <1>5 DEF Overlay
  <2>2. \A j \in 1 .. Len(chunk) : chunk[j] \in Byte
    BY <1>5
  <2> QED BY <1>2, <2>1, <2>2
<1>9. PkgTypeOK'
  <2>1. Len(stream') <= Len(sent')
    BY <1>1, <1>2, <1>4, <1>6
  <2> QED BY <1>1, <1>2, <1>4, <1>8, <2>1 DEF PkgTypeOK
<1>10. /\ Len(handled') = k + 1 /\ handled' = [i \in 1 .. k + 1 |-> handled'[i]]
       /\ \A i \in 1 .. k : handled'[i] = handled[i]
       /\ handled'[k + 1] = x
  <2> HIDE DEF x
  <2> QED BY <1>1, <1>3, GrowsBy DEF k
<1>11. x.did = did /\ x.first = first /\ x.count = whole /\ (x.uncut <=> uncut)
  <2> HIDE DEF did, first, uncut
  <2> QED OBVIOUS
<1>12. did = HandlePkg(CString(m_pkg'))
  BY <1>1
<1>13. HandledInv'
  <2> HIDE DEF x, did, first, uncut, chunk
  <2>1. \A i \in 1 .. k + 1 : i \in 1 .. k \/ i = k + 1
    BY <1>3
  <2>2. \A i \in 1 .. k + 1 : handled'[i].first \in 1 .. Len(sent')
    BY <1>1, <1>7, <1>10, <1>11, <2>1 DEF HandledInv
  <2>3. m_rid' # 0 <=> m_rid # 0 \/ did.cmd = "CREATEROOM"
    BY <1>1
  <2>4. (\E i \in 1 .. k + 1 : handled'[i].did.cmd = "CREATEROOM")
        <=> (\E i \in 1 .. k : handled[i].did.cmd = "CREATEROOM") \/ did.cmd = "CREATEROOM"
    <3>1. \A i \in 1 .. k : i \in 1 .. k + 1 /\ handled'[i].did = handled[i].did
      BY <1>3, <1>10
    <3>2. handled'[k + 1].did = did /\ k + 1 \in 1 .. k + 1
      BY <1>3, <1>10, <1>11
    <3> QED BY <2>1, <3>1, <3>2
  <2>5. m_rid # 0 <=> \E i \in 1 .. k : handled[i].did.cmd = "CREATEROOM"
    BY DEF HandledInv
  <2>6. Len(handled') = k + 1 /\ k + 1 \in Nat /\ handled' = [i \in 1 .. k + 1 |-> handled'[i]]
    BY <1>3, <1>10
  <2> QED BY <2>2, <2>3, <2>4, <2>5, <2>6 DEF HandledInv
<1>14. ASSUME uncut
       PROVE  /\ whole > 0 /\ stream[1] = Bytes(sent[first], ends)
              /\ stream[1] \in Seq(Byte) /\ Len(stream[1]) <= MAX_PKG_SIZE
              /\ \A i \in 1 .. Len(stream[1]) : m_pkg'[i] = stream[1][i]
              /\ whole = 1 => \A j \in 1 .. MAX_PKG_SIZE : j > Len(stream[1]) => m_pkg'[j] = m_pkg[j]
  <2>1. /\ whole > 0 /\ part = 0 /\ stream[1] = Bytes(sent[first], ends)
        /\ stream[1] \in Seq(Byte) /\ chunk = FirstBytes[whole]
    BY <1>2, <1>5, <1>6, <1>14
  <2>2. /\ Len(stream[1]) <= Len(FirstBytes[whole])
        /\ \A i \in 1 .. Len(stream[1]) : FirstBytes[whole][i] = stream[1][i]
        /\ whole = 1 => FirstBytes[whole] = stream[1]
    BY <1>2, <2>1, FirstIs
  <2> HIDE DEF chunk, first
  <2>3. Len(stream[1]) \in Nat /\ Len(chunk) \in Nat
    BY <2>1, <1>5
  <2>4. Len(stream[1]) <= MAX_PKG_SIZE
    BY <1>1, <1>2, <2>1, <2>2, <2>3
  <2>5. \A i \in 1 .. Len(stream[1]) : m_pkg'[i] = stream[1][i]
    BY <1>1, <1>2, <1>8, <2>1, <2>2, <2>3
  <2>6. whole = 1 => \A j \in 1 .. MAX_PKG_SIZE : j > Len(stream[1]) => m_pkg'[j] = m_pkg[j]
    BY <1>8, <2>1, <2>2, <2>3
  <2> QED BY <2>1, <2>4, <2>5, <2>6
<1>15. UNCHANGED client
  BY <1>1 DEF client
<1> HIDE DEF x, did, first, uncut, chunk
<1>16. handled'[k + 1].did = HandlePkg(CString(m_pkg')) /\ handled'[k + 1].count = whole
       /\ handled'[k + 1].first = first /\ (handled'[k + 1].uncut <=> uncut)
  BY <1>10, <1>11, <1>12
<1> QED BY <1>4, <1>7, <1>9, <1>10, <1>13, <1>14, <1>15, <1>16 DEF first, k

-----------------------------------------------------------------------------
LEMMA EndedIs ==
  ASSUME NEW m \in Messages, NEW e \in {<<Nul>>, <<>>}
  PROVE  /\ Body(m) \in Seq(Text) /\ Len(Body(m)) \in Nat
         /\ Bytes(m, e) \in Seq(Byte) /\ Len(Bytes(m, e)) = Len(Body(m)) + Len(e)
         /\ \A i \in 1 .. Len(Body(m)) : Bytes(m, e)[i] = Body(m)[i]
         /\ e = <<Nul>> => Len(e) = 1 /\ Bytes(m, e)[Len(Body(m)) + 1] = Nul
         /\ e = <<>> => Len(e) = 0
<1> DEFINE b == Body(m)
<1>1. b \in Seq(Text) /\ Bytes(m, e) = b \o e
  BY BodyIs
<1> HIDE DEF b
<1>2. b \in Seq(Byte) /\ e \in Seq(Byte)
  <2>1. Text \subseteq Byte /\ Nul \in Byte
    BY DEF Byte
  <2>2. b \in Seq(Byte)
    BY <1>1, <2>1
  <2>3. <<Nul>> \in Seq(Byte) /\ <<>> \in Seq(Byte)
    BY <2>1
  <2>4. e \in Seq(Byte)
    BY <2>3
  <2> QED BY <2>2, <2>4
<1>3. /\ b \o e \in Seq(Byte) /\ Len(b \o e) = Len(b) + Len(e)
      /\ \A i \in 1 .. Len(b) + Len(e) : (b \o e)[i] = IF i <= Len(b) THEN b[i] ELSE e[i - Len(b)]
  BY ONLY <1>2, ConcatProperties
<1>4. Len(b) \in Nat /\ Len(e) \in Nat
  BY <1>2
<1>5. \A i \in 1 .. Len(b) : (b \o e)[i] = b[i]
  BY <1>3, <1>4
<1>6. ASSUME e = <<Nul>> PROVE Len(e) = 1 /\ (b \o e)[Len(b) + 1] = Nul
  <2>1. Len(e) = 1 /\ e[1] = Nul
    BY <1>6
  <2>2. Len(b) + 1 \in 1 .. Len(b) + Len(e) /\ ~(Len(b) + 1 <= Len(b)) /\ (Len(b) + 1) - Len(b) = 1
    BY <1>4, <2>1
  <2> QED BY <1>3, <2>1, <2>2
<1>7. e = <<>> => Len(e) = 0
  OBVIOUS
<1> QED BY <1>1, <1>3, <1>4, <1>5, <1>6, <1>7 DEF b

(* A message alone in the buffer, up to a NUL, is done as it was meant. *)
LEMMA ReadAsSent ==
  ASSUME PkgTypeOK, PkgTypeOK', NEW m \in Messages,
         Len(Body(m)) < MAX_PKG_SIZE, m_pkg'[Len(Body(m)) + 1] = Nul,
         \A i \in 1 .. Len(Bytes(m, ends)) : m_pkg'[i] = Bytes(m, ends)[i]
  PROVE  HandlePkg(CString(m_pkg')) = Done(m)
<1> DEFINE b == Body(m)
<1>1. ends \in {<<Nul>>, <<>>} /\ m_pkg' \in [1 .. MAX_PKG_SIZE -> Byte] /\ MAX_PKG_SIZE \in Nat
  BY PkgAssumption DEF PkgTypeOK
<1>2. /\ b \in Seq(Text) /\ Len(b) \in Nat
      /\ Len(Bytes(m, ends)) = Len(b) + Len(ends)
      /\ \A i \in 1 .. Len(b) : Bytes(m, ends)[i] = b[i]
  BY <1>1, EndedIs
<1> HIDE DEF b
<1>3. m_pkg' \in Seq(Byte) /\ Len(m_pkg') = MAX_PKG_SIZE
  BY <1>1
<1>4. Len(ends) \in Nat
  BY <1>1
<1>5. \A i \in 1 .. Len(b) : m_pkg'[i] = b[i]
  BY <1>2, <1>4
<1>6. CString(m_pkg') = b
  BY <1>2, <1>3, <1>5, StringIs DEF b
<1> QED BY <1>6, MessageDone DEF b

(* What was meant by a message depends on the reads before it only. *)
LEMMA MeantKept ==
  ASSUME HandledInv, NEW m,
         \A i \in 1 .. Len(handled) : handled'[i] = handled[i]
  PROVE  /\ \A i \in 1 .. Len(handled) + 1 : Meant(m, i)' = Meant(m, i)
         /\ Meant(m, Len(handled) + 1) = Done(m)
<1> DEFINE k == Len(handled)
<1>1. k \in Nat /\ (m_rid # 0 <=> \E i \in 1 .. k : handled[i].did.cmd = "CREATEROOM")
  BY DEF HandledInv
<1>2. ASSUME NEW i \in 1 .. k + 1 PROVE Meant(m, i)' = Meant(m, i)
  <2>1. \A j \in 1 .. i - 1 : j \in 1 .. k
    BY <1>1
  <2>2. \A j \in 1 .. i - 1 : handled'[j].did.cmd = handled[j].did.cmd
    BY <2>1
  <2>3. (\E j \in 1 .. i - 1 : handled'[j].did.cmd = m.cmd)
        <=> (\E j \in 1 .. i - 1 : handled[j].did.cmd = m.cmd)
    BY <2>2
  <2> DEFINE G == \E j \in 1 .. i - 1 : handled'[j].did.cmd = m.cmd
             F == \E j \in 1 .. i - 1 : handled[j].did.cmd = m.cmd
             M(E) == CASE m.cmd = "UPDATEGAME" -> [cmd |-> m.cmd, arg |-> Bytes(m, <<>>)]
                       [] m.cmd = "CREATEROOM" /\ E -> [cmd |-> "already in a room", arg |-> <<>>]
                       [] OTHER -> m
  <2>4. Meant(m, i)' = M(G) /\ Meant(m, i) = M(F)
    BY DEF Meant
  <2>5. G <=> F
    BY <2>3
  <2> HIDE DEF G, F
  <2>6. M(G) = M(F)
    BY <2>5
  <2> QED BY <2>4, <2>6
<1>3. Meant(m, k + 1) = Done(m)
  <2>1. (k + 1) - 1 = k
    BY <1>1
  <2>2. (m.cmd = "CREATEROOM" /\ \E j \in 1 .. (k + 1) - 1 : handled[j].did.cmd = m.cmd)
        <=> (m.cmd = "CREATEROOM" /\ m_rid # 0)
    BY <1>1, <2>1
  <2> HIDE DEF k
  <2> QED BY <2>2 DEF Meant, Done, Body
<1> QED BY <1>2, <1>3

-----------------------------------------------------------------------------
(* A message sent adds to the end of what was sent and of the stream.      *)
LEMMA SentIs ==
  ASSUME PkgTypeOK, HandledInv, NEW m \in Messages, ClientSends(m)
  PROVE  /\ PkgTypeOK' /\ HandledInv'
         /\ Len(sent') = Len(sent) + 1 /\ Len(stream') = Len(stream) + 1
         /\ \A i \in 1 .. Len(sent) : sent'[i] = sent[i]
         /\ UNCHANGED <<m_pkg, m_rid, handled, fill, ends>>
<1>1. /\ sent' = Append(sent, m) /\ stream' = Append(stream, Bytes(m, ends))
      /\ UNCHANGED <<m_pkg, m_rid, handled, fill, ends>>
  BY DEF ClientSends
<1>2. /\ sent \in Seq(Messages) /\ stream \in Seq(Seq(Byte)) /\ Len(stream) <= Len(sent)
      /\ ends \in {<<Nul>>, <<>>}
  BY DEF PkgTypeOK
<1>3. Bytes(m, ends) \in Seq(Byte)
  BY <1>2, EndedIs
<1>4. /\ sent' \in Seq(Messages) /\ Len(sent') = Len(sent) + 1
      /\ \A i \in 1 .. Len(sent) : sent'[i] = sent[i]
  BY <1>1, <1>2, AppendProperties
<1>5. stream' \in Seq(Seq(Byte)) /\ Len(stream') = Len(stream) + 1
  BY <1>1, <1>2, <1>3, AppendProperties
<1>6. PkgTypeOK'
  <2>1. Len(stream') <= Len(sent')
    BY <1>2, <1>4, <1>5
  <2> QED BY <1>1, <1>4, <1>5, <2>1 DEF PkgTypeOK
<1>7. HandledInv'
  <2>1. \A f \in 1 .. Len(sent) : f \in 1 .. Len(sent')
    BY <1>2, <1>4
  <2> QED BY <1>1, <2>1 DEF HandledInv
<1> QED BY <1>1, <1>4, <1>5, <1>6, <1>7

LEMMA PkgInit == Init => PkgInv
<1> SUFFICES ASSUME Init PROVE PkgInv
  OBVIOUS
<1>1. /\ sent = <<>> /\ stream = <<>> /\ handled = <<>> /\ m_rid = 0
      /\ fill \in {Nul, Junk} /\ ends \in {<<Nul>>, <<>>}
      /\ m_pkg = [i \in 1 .. MAX_PKG_SIZE |-> fill]
  BY DEF Init
<1>2. PkgTypeOK
  <2>1. fill \in Byte
    BY <1>1 DEF Byte
  <2> QED BY <1>1, <2>1 DEF PkgTypeOK
<1>3. Len(handled) = 0 /\ handled = [i \in 1 .. 0 |-> handled[i]] /\ DOMAIN handled = {}
  BY <1>1
<1>4. HandledInv
  BY <1>1, <1>3 DEF HandledInv
<1>5. InStep
  BY <1>1, <1>3 DEF InStep
<1>6. CleanBehind
  BY <1>1, PkgAssumption DEF CleanBehind
<1>7. FirstMessageWins /\ AsSentIfNeverShorter
  BY <1>3 DEF FirstMessageWins, AsSentIfNeverShorter
<1> QED BY <1>2, <1>4, <1>5, <1>6, <1>7 DEF PkgInv

LEMMA PkgSend ==
  ASSUME PkgInv, NEW m \in Messages, ClientSends(m)
  PROVE  PkgInv'
<1> DEFINE k == Len(handled)
<1>1. PkgTypeOK /\ HandledInv /\ InStep /\ CleanBehind /\ FirstMessageWins /\ AsSentIfNeverShorter
  BY DEF PkgInv
<1>2. /\ PkgTypeOK' /\ HandledInv'
      /\ Len(sent') = Len(sent) + 1 /\ Len(stream') = Len(stream) + 1
      /\ \A i \in 1 .. Len(sent) : sent'[i] = sent[i]
      /\ m_pkg' = m_pkg /\ handled' = handled /\ fill' = fill /\ ends' = ends
  BY <1>1, SentIs
<1>3. /\ k \in Nat /\ DOMAIN handled = 1 .. k
      /\ Len(sent) \in Nat /\ Len(stream) \in Nat /\ DOMAIN sent = 1 .. Len(sent)
      /\ DOMAIN sent' = 1 .. Len(sent) + 1
  <2>1. k \in Nat /\ DOMAIN handled = 1 .. k
    BY <1>1 DEF HandledInv
  <2>2. Len(sent) \in Nat /\ Len(stream) \in Nat /\ DOMAIN sent = 1 .. Len(sent)
    BY <1>1 DEF PkgTypeOK
  <2>3. sent' \in Seq(Messages)
    BY <1>2 DEF PkgTypeOK
  <2> QED BY <2>1, <2>2, <2>3, <1>2
<1>4. OneByOne' <=> OneByOne
  BY <1>2 DEF OneByOne
<1>5. NeverShorter' => NeverShorter
  <2>1. \A i \in 1 .. Len(sent) : i \in 1 .. Len(sent) + 1
    BY <1>3
  <2> QED BY <1>2, <1>3, <2>1 DEF NeverShorter
<1>6. NoneFills' => NoneFills
  <2>1. \A i \in 1 .. Len(sent) : i \in 1 .. Len(sent) + 1
    BY <1>3
  <2> QED BY <1>2, <1>3, <2>1 DEF NoneFills
<1>7. InStep'
  BY <1>1, <1>2, <1>3, <1>4 DEF InStep
<1>8. OneByOne => k <= Len(sent)
  BY <1>1, <1>3 DEF InStep
<1>9. ASSUME NEW i, NEW f, sent'[f] = sent[f]
      PROVE  Meant(sent[f], i)' = Meant(sent[f], i)
  BY <1>2, <1>9 DEF Meant
<1>10. OneByOne => \A i \in 1 .. k : sent'[i] = sent[i]
  BY <1>2, <1>3, <1>8
<1>11. CleanBehind'
  <2> SUFFICES ASSUME fill = Nul, NeverShorter, OneByOne, NEW j \in 1 .. MAX_PKG_SIZE, j > LastLen'
               PROVE  m_pkg[j] = Nul
    BY <1>2, <1>4, <1>5 DEF CleanBehind
  <2>1. LastLen' = LastLen
    BY <1>2, <1>3, <1>10 DEF LastLen
  <2> QED BY <1>1, <2>1 DEF CleanBehind
<1>12. FirstMessageWins'
  <2>1. \A i \in 1 .. k : handled[i].first \in 1 .. Len(sent)
    BY <1>1 DEF HandledInv
  <2>2. \A i \in 1 .. k : sent'[handled[i].first] = sent[handled[i].first]
    BY <1>2, <2>1
  <2> SUFFICES ASSUME ends = <<Nul>>, NEW i \in 1 .. k, handled[i].uncut
               PROVE  handled'[i].did = Meant(sent[handled[i].first], i)'
    BY <1>2, <1>3 DEF FirstMessageWins
  <2>3. handled[i].did = Meant(sent[handled[i].first], i)
    BY <1>1, <1>3 DEF FirstMessageWins
  <2>4. sent'[handled'[i].first] = sent[handled[i].first]
    BY <1>2, <2>2
  <2>5. Meant(sent[handled[i].first], i)' = Meant(sent[handled[i].first], i)
    BY <1>2, <2>4 DEF Meant
  <2> QED BY <1>2, <2>3, <2>5
<1>13. AsSentIfNeverShorter'
  <2> SUFFICES ASSUME fill = Nul, NeverShorter, NoneFills, OneByOne, NEW i \in 1 .. k
               PROVE  handled[i].did = Meant(sent[i], i)'
    BY <1>2, <1>3, <1>4, <1>5, <1>6 DEF AsSentIfNeverShorter
  <2>1. handled[i].did = Meant(sent[i], i)
    BY <1>1, <1>3 DEF AsSentIfNeverShorter
  <2> QED BY <1>9, <1>10, <2>1
<1> QED BY <1>2, <1>7, <1>11, <1>12, <1>13, <1>1 DEF PkgInv

LEMMA PkgRead ==
  ASSUME PkgInv, NEW whole \in 0 .. Len(stream), NEW part \in Nat,
         part # 0 => whole < Len(stream) /\ part < Len(stream[whole + 1]),
         HandleRead(whole, part)
  PROVE  PkgInv'
<1> DEFINE k == Len(handled)
           first == Len(sent) - Len(stream) + 1
           msg == sent[first]
<1>1. PkgTypeOK /\ HandledInv /\ InStep /\ CleanBehind /\ FirstMessageWins /\ AsSentIfNeverShorter
  BY DEF PkgInv
<1>2. /\ PkgTypeOK' /\ HandledInv' /\ sent' = sent /\ fill' = fill /\ ends' = ends
      /\ Len(stream') = Len(stream) - whole
      /\ Len(handled') = k + 1
      /\ \A i \in 1 .. k : handled'[i] = handled[i]
      /\ handled'[k + 1].count = whole
      /\ handled'[k + 1].first = first /\ first \in 1 .. Len(sent)
      /\ handled'[k + 1].did = HandlePkg(CString(m_pkg'))
      /\ handled'[k + 1].uncut =>
           /\ whole > 0 /\ stream[1] = Bytes(msg, ends)
           /\ stream[1] \in Seq(Byte) /\ Len(stream[1]) <= MAX_PKG_SIZE
           /\ \A i \in 1 .. Len(stream[1]) : m_pkg'[i] = stream[1][i]
           /\ whole = 1 => \A j \in 1 .. MAX_PKG_SIZE : j > Len(stream[1]) => m_pkg'[j] = m_pkg[j]
  BY <1>1, ReadIs DEF client
<1> HIDE DEF first, msg
<1>3. /\ k \in Nat /\ DOMAIN handled = 1 .. k /\ DOMAIN handled' = 1 .. k + 1
      /\ Len(sent) \in Nat /\ Len(stream) \in Nat /\ sent \in Seq(Messages)
      /\ DOMAIN sent = 1 .. Len(sent)
      /\ ends \in {<<Nul>>, <<>>} /\ MAX_PKG_SIZE \in Nat
  <2>1. k \in Nat /\ DOMAIN handled = 1 .. k
    BY <1>1 DEF HandledInv
  <2>2. DOMAIN handled' = 1 .. k + 1
    BY <1>2 DEF HandledInv
  <2> QED BY <1>1, <2>1, <2>2, PkgAssumption DEF PkgTypeOK
<1>4. \A i \in 1 .. k + 1 : i \in 1 .. k \/ i = k + 1
  BY <1>3
<1>5. msg \in Messages
  BY <1>2, <1>3 DEF msg
<1>6. OneByOne' => OneByOne /\ handled'[k + 1].uncut /\ whole = 1
  <2>1. \A i \in 1 .. k : i \in 1 .. k + 1
    BY <1>3
  <2>2. k + 1 \in 1 .. k + 1
    BY <1>3
  <2> QED BY <1>2, <1>3, <2>1, <2>2 DEF OneByOne
<1>7. NeverShorter' <=> NeverShorter
  BY <1>2 DEF NeverShorter
<1>8. NoneFills' <=> NoneFills
  BY <1>2 DEF NoneFills
<1>9. OneByOne' => first = k + 1 /\ k + Len(stream) = Len(sent)
  BY <1>1, <1>3, <1>6 DEF InStep, first
<1>10. InStep'
  <2> SUFFICES ASSUME OneByOne'
               PROVE  /\ (k + 1) + (Len(stream) - whole) = Len(sent)
                      /\ \A i \in 1 .. k + 1 : handled'[i].first = i
    BY <1>2 DEF InStep
  <2>1. \A i \in 1 .. k : handled'[i].first = i
    BY <1>1, <1>2, <1>6 DEF InStep
  <2>2. handled'[k + 1].first = k + 1
    BY <1>2, <1>9
  <2>3. k \in Nat /\ Len(stream) \in Nat /\ k + Len(stream) = Len(sent) /\ whole = 1
    BY <1>3, <1>6, <1>9
  <2> HIDE DEF k
  <2>4. (k + 1) + (Len(stream) - whole) = Len(sent)
    BY <2>3
  <2> QED BY <1>4, <2>1, <2>2, <2>4
<1>11. /\ \A i \in 1 .. k + 1 : \A x \in Messages : Meant(x, i)' = Meant(x, i)
       /\ Meant(msg, k + 1) = Done(msg)
  BY <1>1, <1>2, MeantKept
(* What is behind the message read is what was behind the one before. *)
<1>12. ASSUME fill = Nul, NeverShorter, OneByOne', NEW j \in 1 .. MAX_PKG_SIZE, j > Len(Bytes(msg, ends))
       PROVE  m_pkg'[j] = Nul
  <2>1. Len(Bytes(msg, ends)) \in Nat
    BY <1>3, <1>5, EndedIs
  <2>2. LastLen <= Len(Bytes(msg, ends))
    <3>1. CASE k = 0
      BY <2>1, <3>1 DEF LastLen
    <3>2. CASE k # 0
      <4>1. k \in 1 .. Len(sent) /\ first \in 1 .. Len(sent) /\ k < first
        BY <1>2, <1>3, <1>9, <1>12, <3>2
      <4>2. LastLen = Len(Bytes(sent[k], ends))
        BY <3>2 DEF LastLen
      <4>3. Len(Bytes(sent[k], ends)) <= Len(Bytes(sent[first], ends))
        BY <1>3, <1>12, <4>1 DEF NeverShorter
      <4> QED BY <4>2, <4>3 DEF msg
    <3> QED BY <3>1, <3>2
  <2>3. LastLen \in Nat
    <3>1. CASE k = 0
      BY <3>1 DEF LastLen
    <3>2. CASE k # 0
      <4>1. sent[k] \in Messages
        BY <1>2, <1>3, <1>9, <1>12, <3>2
      <4> QED BY <1>3, <4>1, <3>2, EndedIs DEF LastLen
    <3> QED BY <3>1, <3>2
  <2>4. j > LastLen
    BY <1>12, <2>1, <2>2, <2>3
  <2>5. m_pkg[j] = Nul
    BY <1>1, <1>6, <1>12, <2>4 DEF CleanBehind
  <2> QED BY <1>2, <1>6, <1>12, <2>5
<1>13. CleanBehind'
  <2> SUFFICES ASSUME fill = Nul, NeverShorter, OneByOne', NEW j \in 1 .. MAX_PKG_SIZE, j > LastLen'
               PROVE  m_pkg'[j] = Nul
    BY <1>2, <1>7 DEF CleanBehind
  <2>1. LastLen' = Len(Bytes(msg, ends))
    BY <1>2, <1>3, <1>9 DEF LastLen, msg
  <2> QED BY <1>12, <2>1
<1>14. ASSUME handled'[k + 1].uncut,
              Len(Body(msg)) < MAX_PKG_SIZE, m_pkg'[Len(Body(msg)) + 1] = Nul
       PROVE  handled'[k + 1].did = Meant(msg, k + 1)
  <2>1. \A i \in 1 .. Len(Bytes(msg, ends)) : m_pkg'[i] = Bytes(msg, ends)[i]
    BY <1>2, <1>14
  <2> QED BY <1>1, <1>2, <1>5, <1>11, <1>14, <2>1, ReadAsSent
<1>15. FirstMessageWins'
  <2> SUFFICES ASSUME ends = <<Nul>>, NEW i \in 1 .. k + 1, handled'[i].uncut
               PROVE  handled'[i].did = Meant(sent[handled[i].first], i)'
    BY <1>2, <1>3 DEF FirstMessageWins
  <2>1. PICK x \in Messages : x = sent[handled'[i].first]
    <3>1. handled'[i].first \in 1 .. Len(sent)
      BY <1>2 DEF HandledInv
    <3> QED BY <3>1, <1>3
  <2>2. Meant(sent[handled[i].first], i)' = Meant(x, i)'
    BY <1>2, <2>1 DEF Meant
  <2>3. Meant(x, i)' = Meant(x, i)
    BY <1>11
  <2>4. CASE i \in 1 .. k
    <3>1. handled'[i] = handled[i]
      BY <1>2, <2>4
    <3>2. handled[i].did = Meant(sent[handled[i].first], i)
      BY <1>1, <1>2, <1>3, <2>4, <3>1 DEF FirstMessageWins
    <3>3. sent[handled[i].first] = x
      BY <2>1, <3>1
    <3> QED BY <2>2, <2>3, <3>1, <3>2, <3>3
  <2>5. CASE i = k + 1
    <3>1. x = msg /\ handled'[k + 1].uncut
      BY <1>2, <2>1, <2>5 DEF msg
    <3>2. /\ Len(Bytes(msg, ends)) = Len(Body(msg)) + 1 /\ Len(Body(msg)) \in Nat
          /\ Bytes(msg, ends)[Len(Body(msg)) + 1] = Nul
      BY <1>2, <1>3, <1>5, EndedIs
    <3>3. /\ Len(Bytes(msg, ends)) <= MAX_PKG_SIZE
          /\ \A j \in 1 .. Len(Bytes(msg, ends)) : m_pkg'[j] = Bytes(msg, ends)[j]
      BY <1>2, <3>1
    <3>4. Len(Body(msg)) < MAX_PKG_SIZE
      BY <1>3, <3>2, <3>3
    <3>5. m_pkg'[Len(Body(msg)) + 1] = Nul
      BY <3>2, <3>3
    <3> QED BY <1>14, <2>2, <2>3, <2>5, <3>1, <3>4, <3>5
  <2> QED BY <1>4, <2>4, <2>5
<1>16. AsSentIfNeverShorter'
  <2> SUFFICES ASSUME fill = Nul, NeverShorter, NoneFills, OneByOne', NEW i \in 1 .. k + 1
               PROVE  handled'[i].did = Meant(sent[i], i)'
    BY <1>2, <1>3, <1>7, <1>8 DEF AsSentIfNeverShorter
  <2>1. PICK x \in Messages : x = sent[i]
    <3>1. i \in 1 .. Len(sent)
      BY <1>2, <1>3, <1>9
    <3> QED BY <3>1, <1>3
  <2>2. Meant(sent[i], i)' = Meant(x, i)'
    BY <1>2, <2>1 DEF Meant
  <2>3. Meant(x, i)' = Meant(x, i)
    BY <1>11
  <2>4. CASE i \in 1 .. k
    <3>1. handled[i].did = Meant(sent[i], i)
      BY <1>1, <1>3, <1>6, <2>4 DEF AsSentIfNeverShorter
    <3> QED BY <1>2, <2>1, <2>2, <2>3, <2>4, <3>1
  <2>5. CASE i = k + 1
    <3>1. x = msg /\ handled'[k + 1].uncut /\ first = k + 1
      BY <1>6, <1>9, <2>1, <2>5 DEF msg
    <3>2. /\ Len(Bytes(msg, ends)) = Len(Body(msg)) + Len(ends) /\ Len(Body(msg)) \in Nat
          /\ ends = <<Nul>> => Len(ends) = 1 /\ Bytes(msg, ends)[Len(Body(msg)) + 1] = Nul
          /\ ends = <<>> => Len(ends) = 0
      BY <1>3, <1>5, EndedIs
    <3>3. \A j \in 1 .. Len(Bytes(msg, ends)) : m_pkg'[j] = Bytes(msg, ends)[j]
      BY <1>2, <3>1
    <3>4. Len(Body(msg)) < MAX_PKG_SIZE
      BY <1>2, <1>3, <3>1 DEF NoneFills, Body, msg
    <3>5. m_pkg'[Len(Body(msg)) + 1] = Nul
      <4>1. CASE ends = <<Nul>>
        BY <3>2, <3>3, <4>1
      <4>2. CASE ends = <<>>
        <5>1. Len(Body(msg)) + 1 \in 1 .. MAX_PKG_SIZE /\ Len(Body(msg)) + 1 > Len(Bytes(msg, ends))
          BY <1>3, <3>2, <3>4, <4>2
        <5> QED BY <1>12, <5>1
      <4> QED BY <1>3, <4>1, <4>2
    <3> QED BY <1>14, <2>2, <2>3, <2>5, <3>1, <3>4, <3>5
  <2> QED BY <1>4, <2>4, <2>5
<1> QED BY <1>2, <1>10, <1>13, <1>15, <1>16 DEF PkgInv

LEMMA PkgNext == PkgInv /\ [Next]_vars => PkgInv'
<1> SUFFICES ASSUME PkgInv, [Next]_vars PROVE PkgInv'
  OBVIOUS
<1>1. CASE \E m \in Messages : ClientSends(m)
  BY <1>1, PkgSend
<1>2. ASSUME NEW whole \in 0 .. Len(stream), HandleRead(whole, 0) PROVE PkgInv'
  BY <1>2, PkgRead
<1>3. ASSUME NEW whole \in 0 .. Len(stream), whole < Len(stream),
             NEW part \in 1 .. Len(stream[whole + 1]) - 1, HandleRead(whole, part)
      PROVE  PkgInv'
  <2>1. stream[whole + 1] \in Seq(Byte)
    BY <1>3 DEF PkgInv, PkgTypeOK
  <2>2. part \in Nat /\ part < Len(stream[whole + 1])
    BY <2>1
  <2> QED BY <1>3, <2>2, PkgRead
<1>4. CASE UNCHANGED vars
  <2>1. /\ sent' = sent /\ stream' = stream /\ m_pkg' = m_pkg /\ m_rid' = m_rid
        /\ handled' = handled /\ fill' = fill /\ ends' = ends
    BY <1>4 DEF vars
  <2>2. /\ OneByOne' <=> OneByOne
        /\ NeverShorter' <=> NeverShorter
        /\ NoneFills' <=> NoneFills
        /\ LastLen' = LastLen
    BY <2>1 DEF OneByOne, NeverShorter, NoneFills, LastLen
  <2>3. PkgTypeOK' /\ HandledInv'
    BY <2>1 DEF PkgInv, PkgTypeOK, HandledInv
  <2>4. InStep' /\ CleanBehind'
    BY <2>1, <2>2 DEF PkgInv, InStep, CleanBehind
  <2>5. FirstMessageWins'
    <3>1. FirstMessageWins' <=> FirstMessageWins
      BY <2>1 DEF FirstMessageWins, Meant
    <3> QED BY <3>1 DEF PkgInv
  <2>6. AsSentIfNeverShorter'
    <3>1. AsSentIfNeverShorter' <=> AsSentIfNeverShorter
      BY <2>1, <2>2 DEF AsSentIfNeverShorter, Meant
    <3> QED BY <3>1 DEF PkgInv
  <2> QED BY <2>3, <2>4, <2>5, <2>6 DEF PkgInv
<1> QED BY <1>1, <1>2, <1>3, <1>4 DEF Next

(* The inductive invariant. *)
THEOREM PackageInvariant == Spec => []PkgInv
<1> QED BY PkgInit, PkgNext, PTL DEF Spec

(* A client that ends its messages with a NUL is understood whenever a     *)
(* read begins and ends between messages, whatever the buffer held before. *)
THEOREM FirstOfEachRead == Spec => []FirstMessageWins
<1>1. PkgInv => FirstMessageWins
  BY DEF PkgInv
<1> QED BY <1>1, PackageInvariant, PTL

(* One that does not is understood under the conditions the property       *)
(* names: the bytes behind a message are then still those of a new buffer. *)
THEOREM LongerAndLonger == Spec => []AsSentIfNeverShorter
<1>1. PkgInv => AsSentIfNeverShorter
  BY DEF PkgInv
<1> QED BY <1>1, PackageInvariant, PTL
=============================================================================
