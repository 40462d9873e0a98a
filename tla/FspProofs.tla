------------------------------ MODULE FspProofs ------------------------------
(***************************************************************************)
(* Frames and actions.  AddFrame never stores a frame, whatever the sizes  *)
(* in common_def.h; and the loop that erases players from the list it      *)
(* walks through asks each of them once, for every number of players,      *)
(* every capacity of the caches and every number of actions to pick.       *)
(***************************************************************************)
EXTENDS Fsp, SequenceTheorems, FiniteSetTheorems, TLAPS

LEMMA FrameTypeStep == FrameTypeOK /\ [StoreNext]_storeVars => FrameTypeOK'
<1> SUFFICES ASSUME FrameTypeOK, [StoreNext]_storeVars PROVE FrameTypeOK'
  OBVIOUS
<1> USE FrameAssumption DEF FrameTypeOK
<1>1. CASE AddAction
  BY <1>1 DEF AddAction, FrameFull
<1>2. CASE SetNeedSend
  BY <1>2 DEF SetNeedSend
<1>3. CASE FrameClear
  BY <1>3 DEF FrameClear, EmptyFrame
<1>4. CASE NextFrame
  <2> DEFINE n == frame.m_frame_id + 1
  <2>1. n \in 0 .. MaxFrameId /\ 0 \in 0 .. kMaxActionNumInOneFrame
    BY <1>4 DEF NextFrame
  <2>2. frame' = [frame EXCEPT !.m_frame_id = n, !.m_action_count = 0] /\ ret' = 0
    BY <1>4 DEF NextFrame
  <2> HIDE DEF n
  <2> QED BY <2>1, <2>2
<1>5. ASSUME NEW id \in 0 .. MaxFrameId, SetFrameId(id) PROVE FrameTypeOK'
  BY <1>5 DEF SetFrameId
<1>6. CASE AddFrame
  BY <1>6 DEF AddFrame, StoreFrame
<1>7. CASE StoreClear
  BY <1>7 DEF StoreClear
<1>8. CASE UNCHANGED storeVars
  BY <1>8 DEF storeVars
<1> QED BY <1>1, <1>2, <1>3, <1>4, <1>5, <1>6, <1>7, <1>8 DEF StoreNext

(* The collected frame stays within its array. *)
THEOREM FrameTypeInvariant == StoreSpec => []FrameTypeOK
<1>1. StoreInit => FrameTypeOK
  BY FrameAssumption DEF StoreInit, FrameTypeOK, EmptyFrame
<1> QED BY <1>1, FrameTypeStep, PTL DEF StoreSpec

(* With nothing stored, a frame that does not exceed a segment is refused  *)
(* for not starting one, and a frame that does for being too large.        *)
LEMMA NothingAccepted ==
  ASSUME FrameTypeOK, NothingStored
  PROVE  ~Accepts(ByteSize(frame))
<1>1. ByteSize(frame) \in Nat
  <2>1. frame.m_action_count \in Nat
    BY FrameAssumption DEF FrameTypeOK
  <2> QED BY <2>1, FrameAssumption DEF ByteSize
<1>2. ~Merges /\ LastSegment = 0 /\ m_used = 0
  BY DEF NothingStored, Merges, LastSegment
<1> QED BY <1>1, <1>2, FrameAssumption DEF Accepts, StartsSegment

(* The store stays empty for ever. *)
THEOREM StoreStaysEmpty == StoreSpec => []NothingStored
<1>1. StoreInit => NothingStored
  BY DEF StoreInit, NothingStored
<1>2. FrameTypeOK /\ NothingStored /\ [StoreNext]_storeVars => NothingStored'
  <2> SUFFICES ASSUME FrameTypeOK, NothingStored, [StoreNext]_storeVars PROVE NothingStored'
    OBVIOUS
  <2>1. CASE UNCHANGED store
    BY <2>1 DEF store, NothingStored
  <2>2. CASE AddFrame
    BY <2>1, <2>2, NothingAccepted DEF AddFrame
  <2>3. CASE StoreClear
    BY <2>3 DEF StoreClear, NothingStored
  <2> QED BY <2>1, <2>2, <2>3
          DEF StoreNext, AddAction, SetNeedSend, FrameClear, NextFrame, SetFrameId, storeVars
<1> QED BY <1>1, <1>2, FrameTypeInvariant, PTL DEF StoreSpec

(* And so the reading side has nothing for anybody (frame_mgr.cpp 96).     *)
THEOREM ReadersGetNothing == StoreSpec => []NothingRead
<1>1. NothingStored => NothingRead
  <2> SUFFICES ASSUME NothingStored, NEW id \in Nat, NEW used \in Nat,
                      GetFrameBufBegin(id, used) # NULL
               PROVE  LET buf == GetFrameBufBegin(id, used)
                      IN  GetFrameBufEnd(buf) = buf /\ GetFrameCntOfSegment(buf) = 0
    BY DEF NothingRead
  <2>1. GetFrameBufBegin(id, used) = 0
    BY DEF NothingStored, GetFrameBufBegin
  <2>2. FitsOne(0)
    BY FrameAssumption DEF NothingStored, FitsOne
  <2>3. GetFrameBufEnd(0) = 0 /\ GetFrameCntOfSegment(0) = 0
    BY <2>2 DEF NothingStored, GetFrameBufEnd, GetFrameCntOfSegment
  <2> QED BY <2>1, <2>3
<1> QED BY <1>1, StoreStaysEmpty, PTL

-----------------------------------------------------------------------------
(* Induction over a set of numbers.  A number t that is not in S would     *)
(* leave the finite set of those up to t that are not in S closed under    *)
(* subtraction of 1, which maps it into itself without t.                  *)
LEMMA SetInduction ==
  ASSUME NEW S, 0 \in S, \A k \in Nat : k \in S => k + 1 \in S
  PROVE  \A k \in Nat : k \in S
<1> SUFFICES ASSUME NEW t \in Nat, t \notin S PROVE FALSE
  OBVIOUS
<1> DEFINE T == {k \in 0 .. t : k \notin S}
           down == [k \in T |-> k - 1]
<1>1. IsFiniteSet(T) /\ IsFiniteSet(T \ {t}) /\ Cardinality(T \ {t}) = Cardinality(T) - 1
      /\ Cardinality(T) \in Nat
  <2>1. IsFiniteSet(0 .. t)
    BY FS_Interval
  <2>2. IsFiniteSet(T)
    BY <2>1, FS_Subset
  <2>3. t \in T
    OBVIOUS
  <2> HIDE DEF T
  <2> QED BY <2>2, <2>3, FS_RemoveElement, FS_CardinalityType
<1>2. ASSUME NEW k \in T PROVE k - 1 \in T \ {t}
  <2>1. k \in 0 .. t /\ k \notin S /\ k # 0
    OBVIOUS
  <2>2. k - 1 \in Nat /\ (k - 1) + 1 = k /\ k - 1 \in 0 .. t /\ k - 1 # t
    BY <2>1
  <2>3. k - 1 \notin S
    BY <2>1, <2>2
  <2> QED BY <2>2, <2>3
<1>3. down \in Injection(T, T \ {t})
  <2>1. \A k \in T : k \in Int
    OBVIOUS
  <2>2. down \in [T -> T \ {t}]
    BY <1>2
  <2> HIDE DEF T
  <2>3. \A j, k \in T : down[j] = down[k] => j = k
    BY <2>1
  <2> QED BY <2>2, <2>3 DEF Injection, IsInjective
<1>4. Cardinality(T) <= Cardinality(T) - 1
  <2> HIDE DEF T, down
  <2> QED BY <1>1, <1>3, FS_Injection
<1> QED BY <1>1, <1>4

-----------------------------------------------------------------------------
(* The loop is defined for each number of turns up to the last: by         *)
(* induction, a function that obeys the recursion up to k turns is         *)
(* continued by one turn.                                                  *)
Recursion(g, turns) == IF turns = 0 THEN NobodyAsked ELSE Turn(g[turns - 1])

LEMMA LoopEquation ==
  ASSUME m_player_list \in Seq(Session)
  PROVE  \A k \in 0 .. Len(m_player_list) : PickLoop[k] = Recursion(PickLoop, k)
<1> DEFINE n == Len(m_player_list)
           Obeys(g, k) == g = [t \in 0 .. n |-> g[t]] /\ \A t \in 0 .. n : t <= k => g[t] = Recursion(g, t)
           S == {k \in Nat : \E g : Obeys(g, k)}
<1>1. n \in Nat
  OBVIOUS
<1> HIDE DEF n
<1>2. 0 \in S
  <2> DEFINE g == [t \in 0 .. n |-> NobodyAsked]
  <2>1. \A t \in 0 .. n : t <= 0 => g[t] = NobodyAsked /\ t = 0
    BY <1>1
  <2>2. Obeys(g, 0)
    BY <2>1 DEF Recursion
  <2> HIDE DEF Obeys
  <2> QED BY <2>2
<1>3. ASSUME NEW k \in Nat, k \in S PROVE k + 1 \in S
  <2>1. PICK g : Obeys(g, k)
    BY <1>3
  <2> DEFINE h == [t \in 0 .. n |-> IF t = k + 1 THEN Turn(g[k]) ELSE g[t]]
  <2>2. ASSUME NEW t \in 0 .. n, t <= k + 1 PROVE h[t] = Recursion(h, t)
    <3>1. CASE t = k + 1
      <4>1. k \in 0 .. n /\ k # k + 1 /\ t # 0 /\ t - 1 = k
        BY <1>1, <2>2, <3>1
      <4>2. h[k] = g[k] /\ h[t] = Turn(g[k])
        BY <3>1, <4>1
      <4> HIDE DEF h
      <4> QED BY <4>1, <4>2 DEF Recursion
    <3>2. CASE t # k + 1
      <4>1. t <= k /\ (t # 0 => t - 1 \in 0 .. n /\ t - 1 # k + 1)
        BY <1>1, <2>2, <3>2
      <4>2. h[t] = g[t] /\ (t # 0 => h[t - 1] = g[t - 1])
        BY <3>2, <4>1
      <4>3. g[t] = Recursion(g, t)
        BY <2>1, <4>1
      <4> HIDE DEF h
      <4> QED BY <4>2, <4>3 DEF Recursion
    <3> QED BY <3>1, <3>2
  <2>3. h = [t \in 0 .. n |-> h[t]]
    OBVIOUS
  <2>4. Obeys(h, k + 1)
    BY <2>2, <2>3
  <2> HIDE DEF Obeys, h
  <2> QED BY <2>4
<1>4. n \in S
  <2> HIDE DEF S
  <2> QED BY <1>1, <1>2, <1>3, SetInduction
<1>5. PICK g : Obeys(g, n)
  BY <1>4
<1>6. g = [t \in 0 .. n |-> Recursion(g, t)]
  <2>1. g = [t \in 0 .. n |-> g[t]]
    BY <1>5
  <2>2. \A t \in 0 .. n : g[t] = Recursion(g, t)
    BY <1>1, <1>5
  <2>3. [t \in 0 .. n |-> g[t]] = [t \in 0 .. n |-> Recursion(g, t)]
    BY <2>2
  <2> QED BY <2>1, <2>3
<1>7. PickLoop = [t \in 0 .. n |-> Recursion(PickLoop, t)]
  BY <1>6 DEF PickLoop, Recursion, n
<1>8. \A k \in 0 .. n : PickLoop[k] = [t \in 0 .. n |-> Recursion(PickLoop, t)][k]
  BY <1>7
<1> QED BY <1>8 DEF n

LEMMA Erased ==
  ASSUME NEW S, NEW list \in Seq(S), NEW it \in 1 .. Len(list)
  PROVE  /\ EraseAt(list, it) \in Seq(S) /\ Len(EraseAt(list, it)) = Len(list) - 1
         /\ \A j \in it .. Len(list) - 1 : EraseAt(list, it)[j] = list[j + 1]
<1> DEFINE front == SubSeq(list, 1, it - 1)
           back == SubSeq(list, it + 1, Len(list))
<1>1. Len(list) \in Nat /\ it \in Nat /\ it >= 1 /\ it <= Len(list)
  OBVIOUS
<1>2. front \in Seq(S) /\ Len(front) = it - 1
  BY <1>1
<1>3. /\ back \in Seq(S) /\ Len(back) = Len(list) - it
      /\ \A j \in 1 .. Len(list) - it : back[j] = list[it + j]
  BY <1>1
<1> HIDE DEF front, back
<1>4. /\ front \o back \in Seq(S) /\ Len(front \o back) = Len(list) - 1
      /\ \A j \in it .. Len(list) - 1 : (front \o back)[j] = back[j - (it - 1)]
  <2>1. front \in Seq(S) /\ back \in Seq(S)
    BY <1>2, <1>3
  <2>2. /\ front \o back \in Seq(S) /\ Len(front \o back) = Len(front) + Len(back)
        /\ \A j \in 1 .. Len(front) + Len(back) :
             (front \o back)[j] = IF j <= Len(front) THEN front[j] ELSE back[j - Len(front)]
    BY ONLY <2>1, ConcatProperties
  <2>3. \A j \in it .. Len(list) - 1 : j \in 1 .. Len(front) + Len(back) /\ ~(j <= it - 1)
    BY <1>1, <1>2, <1>3
  <2> QED BY <1>1, <1>2, <1>3, <2>2, <2>3
<1>5. ASSUME NEW j \in it .. Len(list) - 1
      PROVE  back[j - (it - 1)] = list[j + 1]
  <2>1. j - (it - 1) \in 1 .. Len(list) - it /\ it + (j - (it - 1)) = j + 1
    BY <1>1
  <2> QED BY <1>3, <2>1
<1> QED BY <1>4, <1>5 DEF EraseAt, front, back

(* How much a player gives that is asked. *)
Gives(s) ==
  IF Len(m_action_cache[s]) < kPickActionEveryPlayer
    THEN Len(m_action_cache[s]) ELSE kPickActionEveryPlayer

(* After k turns the iterator is on player k + 1, whoever was erased, and  *)
(* the first k players have given.                                         *)
Asked(loop, k) ==
  LET n == Len(m_player_list) IN
    /\ loop.list \in Seq(Session) /\ loop.it \in Nat \ {0}
    /\ Len(loop.list) + 1 = loop.it + (n - k)
    /\ \A j \in 1 .. n - k : loop.list[loop.it + (j - 1)] = m_player_list[k + j]
    /\ loop.taken = [s \in Session |->
                       IF \E i \in 1 .. k : m_player_list[i] = s THEN Gives(s) ELSE 0]

LEMMA AskedFirst ==
  ASSUME m_player_list \in Seq(Session)
  PROVE  Asked(NobodyAsked, 0)
<1>1. /\ NobodyAsked.list = m_player_list /\ NobodyAsked.it = 1
      /\ NobodyAsked.taken = [s \in Session |-> 0]
  BY DEF NobodyAsked
<1>2. Len(m_player_list) \in Nat
  OBVIOUS
<1>3. \A i \in 1 .. 0 : FALSE
  OBVIOUS
<1>4. [s \in Session |-> 0] =
        [s \in Session |-> IF \E i \in 1 .. 0 : m_player_list[i] = s THEN Gives(s) ELSE 0]
  BY <1>3
<1>5. \A j \in 1 .. Len(m_player_list) - 0 : 1 + (j - 1) = 0 + j
  BY <1>2
<1> QED BY <1>1, <1>2, <1>4, <1>5 DEF Asked

LEMMA AskedNext ==
  ASSUME m_player_list \in Seq(Session), NEW k \in Nat, k < Len(m_player_list),
         NEW loop, Asked(loop, k)
  PROVE  Asked(Turn(loop), k + 1)
<1> DEFINE n == Len(m_player_list)
           s == m_player_list[k + 1]
           erase == Len(m_action_cache[s]) < kPickActionEveryPlayer
           list == IF erase THEN EraseAt(loop.list, loop.it) ELSE loop.list
           it == IF erase THEN loop.it ELSE loop.it + 1
           taken == [loop.taken EXCEPT ![s] = Gives(s)]
<1>1. /\ loop.list \in Seq(Session) /\ loop.it \in Nat \ {0} /\ n \in Nat /\ Len(loop.list) \in Nat
      /\ Len(loop.list) + 1 = loop.it + (n - k)
      /\ \A j \in 1 .. n - k : loop.list[loop.it + (j - 1)] = m_player_list[k + j]
  BY DEF Asked
<1>2. loop.it \in 1 .. Len(loop.list) /\ loop.list[loop.it] = s
  <2>1. 1 \in 1 .. n - k /\ loop.it + (1 - 1) = loop.it /\ loop.it <= Len(loop.list)
    BY <1>1
  <2> QED BY <1>1, <2>1
<1>3. Turn(loop) = [list |-> list, it |-> it, taken |-> taken]
  <2>1. ~(loop.it > Len(loop.list))
    BY <1>1, <1>2
  <2> QED BY <1>2, <2>1 DEF Turn, NextPlayer, Gives
<1>4. s \in Session
  BY <1>1
<1> HIDE DEF n, s
<1>5. /\ list \in Seq(Session) /\ it \in Nat \ {0}
      /\ Len(list) + 1 = it + (n - (k + 1))
      /\ \A j \in 1 .. n - (k + 1) : list[it + (j - 1)] = m_player_list[(k + 1) + j]
  <2>1. ASSUME NEW j \in 1 .. n - (k + 1)
        PROVE  /\ j + 1 \in 1 .. n - k /\ loop.it + ((j + 1) - 1) = loop.it + j
               /\ k + (j + 1) = (k + 1) + j
               /\ loop.it + (j - 1) \in loop.it .. Len(loop.list) - 1
               /\ (loop.it + (j - 1)) + 1 = loop.it + j
               /\ (loop.it + 1) + (j - 1) = loop.it + j
    BY <1>1
  <2>2. ASSUME NEW j \in 1 .. n - (k + 1)
        PROVE  loop.list[loop.it + j] = m_player_list[(k + 1) + j]
    BY <1>1, <2>1
  <2>3. CASE erase
    <3> DEFINE rest == EraseAt(loop.list, loop.it)
    <3>1. list = rest /\ it = loop.it
      BY <2>3
    <3>0. /\ rest \in Seq(Session) /\ Len(rest) = Len(loop.list) - 1
          /\ \A j \in loop.it .. Len(loop.list) - 1 : rest[j] = loop.list[j + 1]
      <4>1. loop.list \in Seq(Session) /\ loop.it \in 1 .. Len(loop.list)
        BY <1>1, <1>2
      <4> QED BY ONLY <4>1, Erased
    <3> HIDE DEF list, it, rest
    <3>2. /\ list \in Seq(Session) /\ Len(list) = Len(loop.list) - 1
          /\ \A j \in loop.it .. Len(loop.list) - 1 : list[j] = loop.list[j + 1]
      BY <3>0, <3>1
    <3>3. ASSUME NEW j \in 1 .. n - (k + 1) PROVE list[it + (j - 1)] = m_player_list[(k + 1) + j]
      <4>1. list[loop.it + (j - 1)] = loop.list[(loop.it + (j - 1)) + 1]
        BY <2>1, <3>2
      <4> QED BY <2>1, <2>2, <3>1, <4>1
    <3>4. Len(list) + 1 = it + (n - (k + 1))
      BY <1>1, <3>1, <3>2
    <3> QED BY <1>1, <3>1, <3>2, <3>3, <3>4
  <2>4. CASE ~erase
    <3>1. list = loop.list /\ it = loop.it + 1
      BY <2>4
    <3> HIDE DEF list, it
    <3>2. Len(list) + 1 = it + (n - (k + 1)) /\ it \in Nat \ {0}
      BY <1>1, <3>1
    <3>3. ASSUME NEW j \in 1 .. n - (k + 1) PROVE list[it + (j - 1)] = m_player_list[(k + 1) + j]
      BY <2>1, <2>2, <3>1
    <3> QED BY <1>1, <3>1, <3>2, <3>3
  <2> QED BY <2>3, <2>4
<1>6. taken = [p \in Session |->
                 IF \E i \in 1 .. k + 1 : m_player_list[i] = p THEN Gives(p) ELSE 0]
  <2>1. loop.taken = [p \in Session |->
                        IF \E i \in 1 .. k : m_player_list[i] = p THEN Gives(p) ELSE 0]
    BY DEF Asked
  <2>2. \A i : i \in 1 .. k + 1 <=> i \in 1 .. k \/ i = k + 1
    OBVIOUS
  <2>3. ASSUME NEW p \in Session
        PROVE  (\E i \in 1 .. k + 1 : m_player_list[i] = p) <=>
                 (p = s \/ \E i \in 1 .. k : m_player_list[i] = p)
    BY <2>2 DEF s
  <2>4. ASSUME NEW p \in Session
        PROVE  taken[p] = IF \E i \in 1 .. k + 1 : m_player_list[i] = p THEN Gives(p) ELSE 0
    BY <1>4, <2>1, <2>3
  <2>5. taken = [p \in Session |-> taken[p]]
    BY <2>1
  <2> HIDE DEF taken
  <2>6. [p \in Session |-> taken[p]] =
          [p \in Session |-> IF \E i \in 1 .. k + 1 : m_player_list[i] = p THEN Gives(p) ELSE 0]
    BY <2>4
  <2> QED BY <2>5, <2>6
<1> HIDE DEF list, it, taken
<1>7. /\ Turn(loop).list = list /\ Turn(loop).it = it /\ Turn(loop).taken = taken
  BY <1>3
<1> QED BY <1>5, <1>6, <1>7 DEF Asked, n

(* The loop ends, and everybody has been asked. *)
LEMMA LoopAsksAll ==
  ASSUME m_player_list \in Seq(Session)
  PROVE  Asked(PickLoop[Len(m_player_list)], Len(m_player_list))
<1> DEFINE n == Len(m_player_list)
           S == {k \in Nat : k <= n => Asked(PickLoop[k], k)}
<1>1. n \in Nat
  OBVIOUS
<1>2. \A k \in 0 .. n : PickLoop[k] = Recursion(PickLoop, k)
  BY LoopEquation
<1>3. 0 \in S
  <2>1. PickLoop[0] = NobodyAsked
    BY <1>1, <1>2 DEF Recursion
  <2> QED BY <2>1, AskedFirst
<1>4. ASSUME NEW k \in Nat, k \in S PROVE k + 1 \in S
  <2> SUFFICES ASSUME k + 1 <= n PROVE Asked(PickLoop[k + 1], k + 1)
    OBVIOUS
  <2>1. k < n /\ k <= n /\ k + 1 \in 0 .. n /\ k + 1 # 0 /\ (k + 1) - 1 = k
    BY <1>1
  <2>2. PickLoop[k + 1] = Turn(PickLoop[k])
    BY <1>2, <2>1 DEF Recursion
  <2>3. Asked(PickLoop[k], k)
    BY <1>4, <2>1
  <2> QED BY <2>1, <2>2, <2>3, AskedNext
<1>5. n \in S
  <2> HIDE DEF S
  <2> QED BY <1>1, <1>3, <1>4, SetInduction
<1> QED BY <1>1, <1>5

-----------------------------------------------------------------------------
(* What FspCalculateFrame leaves of each cache. *)
LEMMA Picked ==
  ASSUME FspTypeOK, FspCalculateFrame
  PROVE  \E taken \in [Session -> Nat] :
           /\ m_action_cache' = [s \in Session |-> PopActions(m_action_cache[s], taken[s])]
           /\ m_max_cache_size' =
                [s \in Session |-> IF taken[s] = 0 THEN m_max_cache_size[s]
                                   ELSE HighWater(m_max_cache_size[s], Len(m_action_cache[s]))]
           /\ \A s \in Session : taken[s] <= Len(m_action_cache[s])
           /\ ~FrameFull => taken = [s \in Session |->
                                      IF \E i \in DOMAIN m_player_list : m_player_list[i] = s
                                        THEN Gives(s) ELSE 0]
<1> DEFINE n == Len(m_player_list)
           loop == IF FrameFull THEN NobodyAsked ELSE PickLoop[n]
           all == [s \in Session |-> IF \E i \in DOMAIN m_player_list : m_player_list[i] = s
                                      THEN Gives(s) ELSE 0]
           none == [s \in Session |-> 0]
<1>1. /\ m_action_cache' = [s \in Session |-> PopActions(m_action_cache[s], loop.taken[s])]
      /\ m_max_cache_size' =
           [s \in Session |-> IF loop.taken[s] = 0 THEN m_max_cache_size[s]
                              ELSE HighWater(m_max_cache_size[s], Len(m_action_cache[s]))]
  BY DEF FspCalculateFrame
<1>2. m_player_list \in Seq(Session) /\ DOMAIN m_player_list = 1 .. n
  BY DEF FspTypeOK
<1>3. loop.taken = (IF FrameFull THEN none ELSE all)
  <2>1. FrameFull => loop.taken = none
    BY DEF NobodyAsked
  <2>2. ~FrameFull => loop.taken = all
    BY <1>2, LoopAsksAll DEF Asked
  <2> QED BY <2>1, <2>2
<1>4. ASSUME NEW s \in Session
      PROVE  Gives(s) \in Nat /\ Gives(s) <= Len(m_action_cache[s]) /\ Len(m_action_cache[s]) \in Nat
  BY FspAssumption DEF FspTypeOK, Gives
<1>5. /\ none \in [Session -> Nat] /\ \A s \in Session : none[s] <= Len(m_action_cache[s])
      /\ all \in [Session -> Nat] /\ \A s \in Session : all[s] <= Len(m_action_cache[s])
  BY <1>4
<1> DEFINE taken == loop.taken
<1>6. taken \in [Session -> Nat] /\ \A s \in Session : taken[s] <= Len(m_action_cache[s])
  <2> HIDE DEF loop, none, all
  <2> QED BY <1>3, <1>5
<1>7. ~FrameFull => taken = all
  BY <1>3
<1> HIDE DEF loop
<1> QED BY <1>1, <1>6, <1>7

(* What is left after n actions were popped. *)
LEMMA Popped ==
  ASSUME NEW cache \in Seq(Action), NEW n \in Nat, n <= Len(cache)
  PROVE  /\ PopActions(cache, n) \in Seq(Action)
         /\ Len(PopActions(cache, n)) = Len(cache) - n
         /\ n = Len(cache) => PopActions(cache, n) = <<>>
<1>1. PopActions(cache, n) \in Seq(Action) /\ Len(PopActions(cache, n)) = Len(cache) - n
  BY DEF PopActions
<1>2. n = Len(cache) => Len(PopActions(cache, n)) = 0
  BY <1>1
<1> QED BY <1>1, <1>2

LEMMA FspTypeStep == FspTypeOK /\ [Next]_vars => FspTypeOK'
<1> SUFFICES ASSUME FspTypeOK, [Next]_vars PROVE FspTypeOK'
  OBVIOUS
<1> USE FspAssumption
<1>1. FrameTypeOK /\ m_action_cache \in [Session -> Seq(Action)] /\ m_max_cache_size \in [Session -> Nat]
  BY DEF FspTypeOK
<1>2. FrameTypeOK'
  <2>1. [StoreNext]_storeVars
    BY DEF Next, vars, FspHandleActionPkg, FspCalculateFrame
  <2> QED BY <1>1, <2>1, FrameTypeStep
<1>3. m_player_list' = m_player_list
  BY DEF Next, vars, fspVars, FspHandleActionPkg, FspCalculateFrame
<1>4. CASE UNCHANGED fspVars
  BY <1>2, <1>4 DEF FspTypeOK, fspVars
<1>5. ASSUME NEW s \in Session, FspHandleActionPkg(s) PROVE FspTypeOK'
  <2>1. PICK a \in Action : m_action_cache' = [m_action_cache EXCEPT ![s] = Pushed(@, a)]
    BY <1>5 DEF FspHandleActionPkg
  <2>2. Pushed(m_action_cache[s], a) \in Seq(Action) /\ Len(Pushed(m_action_cache[s], a)) <= Cap
    BY DEF Pushed, FspTypeOK
  <2>3. m_max_cache_size' = m_max_cache_size
    BY <1>5 DEF FspHandleActionPkg
  <2> QED BY <1>1, <1>2, <1>3, <2>1, <2>2, <2>3 DEF FspTypeOK
<1>6. CASE FspCalculateFrame
  <2>1. PICK taken \in [Session -> Nat] :
          /\ m_action_cache' = [s \in Session |-> PopActions(m_action_cache[s], taken[s])]
          /\ m_max_cache_size' =
               [s \in Session |-> IF taken[s] = 0 THEN m_max_cache_size[s]
                                  ELSE HighWater(m_max_cache_size[s], Len(m_action_cache[s]))]
          /\ \A s \in Session : taken[s] <= Len(m_action_cache[s])
    BY <1>6, Picked
  <2>2. ASSUME NEW s \in Session
        PROVE  /\ m_action_cache'[s] \in Seq(Action) /\ Len(m_action_cache'[s]) <= Cap
               /\ m_max_cache_size'[s] \in Nat
    <3>1. m_action_cache[s] \in Seq(Action) /\ Len(m_action_cache[s]) <= Cap /\ m_max_cache_size[s] \in Nat
      BY DEF FspTypeOK
    <3>2. m_action_cache'[s] = PopActions(m_action_cache[s], taken[s])
      BY <2>1
    <3>3. Len(m_action_cache'[s]) = Len(m_action_cache[s]) - taken[s] /\ m_action_cache'[s] \in Seq(Action)
      BY <2>1, <3>1, <3>2, Popped
    <3>4. m_max_cache_size'[s] \in Nat
      BY <2>1, <3>1 DEF HighWater
    <3> QED BY <3>1, <3>3, <3>4
  <2>3. m_action_cache' \in [Session -> Seq(Action)] /\ m_max_cache_size' \in [Session -> Nat]
    BY <2>1, <2>2
  <2> QED BY <1>2, <1>3, <2>2, <2>3 DEF FspTypeOK
<1> QED BY <1>4, <1>5, <1>6 DEF Next, vars

(* Frames and caches stay within their arrays, whatever is queued and      *)
(* whenever a frame is calculated.                                         *)
THEOREM FspTypeInvariant == Spec => []FspTypeOK
<1>1. Init => FspTypeOK
  <2> SUFFICES ASSUME Init PROVE FspTypeOK
    OBVIOUS
  <2>1. FrameTypeOK
    BY FrameAssumption DEF Init, StoreInit, FrameTypeOK, EmptyFrame
  <2>2. m_player_list \in Seq(Session) /\ Distinct(m_player_list)
    BY FspAssumption DEF Init
  <2>3. /\ m_action_cache \in [Session -> Seq(Action)]
        /\ \A s \in Session : Len(m_action_cache[s]) <= Cap
        /\ m_max_cache_size \in [Session -> Nat]
    BY FspAssumption DEF Init
  <2> QED BY <2>1, <2>2, <2>3 DEF FspTypeOK
<1> QED BY <1>1, FspTypeStep, PTL DEF Spec

(* With actions queued and picked in between, still nothing is stored.     *)
THEOREM NothingStoredBesideFsp == Spec => []NothingStored
<1>1. Init => StoreInit
  BY DEF Init
<1>2. [Next]_vars => [StoreNext]_storeVars
  BY DEF Next, vars, FspHandleActionPkg, FspCalculateFrame
<1> QED BY <1>1, <1>2, StoreStaysEmpty, PTL DEF Spec, StoreSpec

LEMMA PickedFromAll ==
  ASSUME FspTypeOK, FspCalculateFrame, ~FrameFull, NEW s \in Session
  PROVE  LET given == Len(m_action_cache[s]) - Len(m_action_cache'[s]) IN
           /\ m_action_cache'[s] = SubSeq(m_action_cache[s], given + 1, Len(m_action_cache[s]))
           /\ \/ given = kPickActionEveryPlayer
              \/ given < kPickActionEveryPlayer /\ m_action_cache'[s] = <<>>
              \/ given = 0 /\ \A i \in DOMAIN m_player_list : m_player_list[i] # s
<1>1. PICK taken \in [Session -> Nat] :
        /\ m_action_cache' = [p \in Session |-> PopActions(m_action_cache[p], taken[p])]
        /\ \A p \in Session : taken[p] <= Len(m_action_cache[p])
        /\ taken = [p \in Session |-> IF \E i \in DOMAIN m_player_list : m_player_list[i] = p
                                      THEN Gives(p) ELSE 0]
  BY Picked
<1> DEFINE given == Len(m_action_cache[s]) - Len(m_action_cache'[s])
<1>2. m_action_cache[s] \in Seq(Action) /\ Len(m_action_cache[s]) \in Nat /\ taken[s] \in Nat
  BY DEF FspTypeOK
<1>3. m_action_cache'[s] = PopActions(m_action_cache[s], taken[s])
  BY <1>1
<1>4. given = taken[s]
  <2>1. taken[s] <= Len(m_action_cache[s])
    BY <1>1
  <2>2. Len(PopActions(m_action_cache[s], taken[s])) = Len(m_action_cache[s]) - taken[s]
    BY <1>2, <2>1, Popped
  <2> QED BY <1>2, <1>3, <2>2
<1>5. m_action_cache'[s] = SubSeq(m_action_cache[s], given + 1, Len(m_action_cache[s]))
  BY <1>3, <1>4 DEF PopActions
<1>6. CASE \A i \in DOMAIN m_player_list : m_player_list[i] # s
  BY <1>1, <1>4, <1>5, <1>6
<1>7. CASE \E i \in DOMAIN m_player_list : m_player_list[i] = s
  <2>1. taken[s] = Gives(s)
    BY <1>1, <1>7
  <2>2. CASE Len(m_action_cache[s]) < kPickActionEveryPlayer
    <3>1. taken[s] = Len(m_action_cache[s]) /\ m_action_cache'[s] = <<>>
      BY <1>2, <1>3, <2>1, <2>2, Popped DEF Gives
    <3> QED BY <1>4, <1>5, <2>2, <3>1
  <2>3. CASE ~(Len(m_action_cache[s]) < kPickActionEveryPlayer)
    BY <1>4, <1>5, <2>1, <2>3 DEF Gives
  <2> QED BY <2>2, <2>3
<1> QED BY <1>6, <1>7

(* Erasing while iterating skips nobody, for every list of players.        *)
THEOREM NobodySkipped == Spec => PicksFromEveryone
<1>1. FspTypeOK /\ [Next]_vars =>
        [FspCalculateFrame /\ ~FrameFull =>
           \A s \in Session :
             LET given == Len(m_action_cache[s]) - Len(m_action_cache'[s]) IN
               /\ m_action_cache'[s] = SubSeq(m_action_cache[s], given + 1, Len(m_action_cache[s]))
               /\ \/ given = kPickActionEveryPlayer
                  \/ given < kPickActionEveryPlayer /\ m_action_cache'[s] = <<>>
                  \/ given = 0 /\ \A i \in DOMAIN m_player_list : m_player_list[i] # s]_vars
  BY PickedFromAll
<1> QED BY <1>1, FspTypeInvariant, PTL DEF Spec, PicksFromEveryone
=============================================================================
