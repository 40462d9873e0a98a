---------------------------- MODULE HelperProofs ----------------------------
(***************************************************************************)
(* The parts that others are built from.  RingQueue is a bounded FIFO for  *)
(* every capacity and every element type; and what the helpers compute,    *)
(* for every argument their types allow, and where they differ from what   *)
(* their names and comments say.                                           *)
(***************************************************************************)
EXTENDS RingQueue, TimeHelper, NumberHelper, DrawOne, SequenceTheorems, TLAPS

-----------------------------------------------------------------------------
(* The two uses of % in ring_queue.h, without it. *)
LEMMA SuccCases ==
  ASSUME NEW i \in Slots
  PROVE  Succ(i) = (IF i = Cap THEN 0 ELSE i + 1) /\ Succ(i) \in Slots
BY CapAssumption DEF Succ, Slots

LEMMA SizeRange ==
  ASSUME RingTypeOK
  PROVE  /\ Size \in 0 .. Cap
         /\ Empty <=> Size = 0
         /\ Full <=> Size = Cap
<1>0. head \in 0 .. Cap /\ tail \in 0 .. Cap /\ Cap \in Nat \ {0}
  BY CapAssumption DEF RingTypeOK, Slots
<1>1. Size \in 0 .. Cap /\ (Empty <=> Size = 0)
  BY <1>0 DEF Size, Empty
<1>2. Full <=> Size = Cap
  BY <1>0, SuccCases DEF Size, Full, Slots
<1> QED BY <1>1, <1>2

(* RingQueue(): the indices start inside the array. *)
THEOREM RingTypeInvariant == Spec => []RingTypeOK
<1>1. Init => RingTypeOK
  BY CapAssumption DEF Init, Void, RingTypeOK, Slots
<1>2. RingTypeOK /\ [Next]_vars => RingTypeOK'
  <2> SUFFICES ASSUME RingTypeOK, [Next]_vars PROVE RingTypeOK'
    OBVIOUS
  <2> USE CapAssumption
  <2>1. ASSUME NEW e \in T, Push(e) PROVE RingTypeOK'
    BY <2>1, SuccCases DEF Push, RingTypeOK
  <2>2. CASE Pop
    BY <2>2, SuccCases DEF Pop, Void, RingTypeOK
  <2>3. CASE Clear
    BY <2>3 DEF Clear, Void, RingTypeOK, Slots
  <2>4. CASE UNCHANGED vars
    BY <2>4 DEF vars, RingTypeOK
  <2> QED BY <2>1, <2>2, <2>3, <2>4 DEF Next
<1> QED BY <1>1, <1>2, PTL DEF Spec

-----------------------------------------------------------------------------
(* The abstract queue, slot by slot. *)
ContentsAsSeq ==
  /\ Contents \in Seq(T) /\ Len(Contents) = Size /\ Size \in 0 .. Cap
  /\ \A i \in 1 .. Size : Contents[i] = storage[SlotAt(i - 1)]

LEMMA ContentsIsSeq == RingTypeOK => ContentsAsSeq
<1> SUFFICES ASSUME RingTypeOK PROVE ContentsAsSeq
  OBVIOUS
<1>1. Size \in 0 .. Cap /\ Size \in Nat
  BY SizeRange, CapAssumption
<1>2. \A i \in 1 .. Size : SlotAt(i - 1) \in Slots
  BY <1>1, CapAssumption DEF SlotAt, Slots, RingTypeOK
<1>3. \A i \in 1 .. Size : storage[SlotAt(i - 1)] \in T
  BY <1>2 DEF RingTypeOK
<1> QED BY <1>1, <1>3 DEF Contents, ContentsAsSeq

(* push appends at the abstract tail, and writes no slot in use. *)
LEMMA PushAppends ==
  ASSUME RingTypeOK, RingTypeOK', NEW e \in T, Push(e), ~Full
  PROVE  Contents' = Append(Contents, e)
<1> USE CapAssumption
<1>0. ContentsAsSeq /\ ContentsAsSeq'
  <2>1. RingTypeOK' => ContentsAsSeq'
    BY ContentsIsSeq, PTL
  <2> QED BY <2>1, ContentsIsSeq
<1>1. /\ head' = head /\ tail' = Succ(tail)
      /\ storage' = [storage EXCEPT ![tail] = e]
  BY DEF Push
<1>2. Size < Cap /\ Size \in Nat
  BY SizeRange DEF Full
<1>3. Size' = Size + 1
  <2>1. Succ(tail) = IF tail = Cap THEN 0 ELSE tail + 1
    BY SuccCases DEF RingTypeOK
  <2> QED BY <1>1, <1>2, <2>1 DEF Size, RingTypeOK, Slots
<1>4. SlotAt(Size) = tail
  BY <1>2 DEF SlotAt, Size, RingTypeOK, Slots
<1>5. \A i \in 0 .. Size - 1 : SlotAt(i) # tail /\ SlotAt(i) \in Slots
  BY <1>2 DEF SlotAt, Size, RingTypeOK, Slots
<1>6. \A i : SlotAt(i)' = SlotAt(i)
  BY <1>1 DEF SlotAt
<1>7. \A i \in 1 .. Size : Contents'[i] = Contents[i]
  <2> SUFFICES ASSUME NEW i \in 1 .. Size PROVE Contents'[i] = Contents[i]
    OBVIOUS
  <2>1. Contents'[i] = storage'[SlotAt(i - 1)]
    BY <1>0, <1>2, <1>3, <1>6 DEF ContentsAsSeq
  <2>2. SlotAt(i - 1) # tail /\ SlotAt(i - 1) \in Slots
    BY <1>2, <1>5
  <2>3. storage'[SlotAt(i - 1)] = storage[SlotAt(i - 1)]
    BY <1>1, <2>2 DEF RingTypeOK
  <2> QED BY <1>0, <2>1, <2>3 DEF ContentsAsSeq
<1>8. Contents'[Size + 1] = e
  <2>1. Contents'[Size + 1] = storage'[SlotAt(Size)]
    BY <1>0, <1>2, <1>3, <1>6 DEF ContentsAsSeq
  <2> QED BY <1>1, <1>4, <2>1 DEF RingTypeOK
<1>9. Contents \in Seq(T) /\ Len(Contents) = Size
  BY <1>0 DEF ContentsAsSeq
<1>10. Contents' \in Seq(T) /\ Len(Contents') = Size + 1
  BY <1>0, <1>3 DEF ContentsAsSeq
<1>11. \A i \in 1 .. Size + 1 : Contents'[i] = Append(Contents, e)[i]
  BY <1>2, <1>7, <1>8, <1>9, AppendProperties
<1> QED BY <1>2, <1>9, <1>10, <1>11, AppendProperties, SeqEqual

(* pop removes the abstract head. *)
LEMMA PopRemovesHead ==
  ASSUME RingTypeOK, RingTypeOK', Pop, ~Empty
  PROVE  Contents # <<>> /\ Contents' = Tail(Contents)
<1> USE CapAssumption
<1>0. ContentsAsSeq /\ ContentsAsSeq'
  <2>1. RingTypeOK' => ContentsAsSeq'
    BY ContentsIsSeq, PTL
  <2> QED BY <2>1, ContentsIsSeq
<1>1. head' = Succ(head) /\ tail' = tail /\ storage' = storage
  BY DEF Pop
<1>2. Size \in 1 .. Cap /\ Size \in Nat
  BY SizeRange DEF Empty
<1>a. head' = IF head = Cap THEN 0 ELSE head + 1
  BY <1>1, SuccCases DEF RingTypeOK
<1>3. Size' = Size - 1
  BY <1>1, <1>2, <1>a DEF Size, RingTypeOK, Slots, Empty
<1>4. \A i \in 0 .. Size - 2 : SlotAt(i)' = SlotAt(i + 1)
  BY <1>2, <1>a DEF SlotAt, Size, RingTypeOK, Slots
<1>5. Contents \in Seq(T) /\ Len(Contents) = Size /\ Contents # <<>>
  BY <1>0, <1>2 DEF ContentsAsSeq
<1>6. Contents' \in Seq(T) /\ Len(Contents') = Size - 1
  BY <1>0, <1>3 DEF ContentsAsSeq
<1>7. \A i \in 1 .. Size - 1 : Contents'[i] = Contents[i + 1]
  <2> SUFFICES ASSUME NEW i \in 1 .. Size - 1 PROVE Contents'[i] = Contents[i + 1]
    OBVIOUS
  <2>1. Contents'[i] = storage[SlotAt(i - 1)']
    BY <1>0, <1>1, <1>2, <1>3 DEF ContentsAsSeq
  <2>2. SlotAt(i - 1)' = SlotAt(i)
    BY <1>2, <1>4
  <2> QED BY <1>0, <1>2, <2>1, <2>2 DEF ContentsAsSeq
<1>8. /\ Tail(Contents) \in Seq(T) /\ Len(Tail(Contents)) = Size - 1
      /\ \A i \in 1 .. Size - 1 : Tail(Contents)[i] = Contents[i + 1]
  BY <1>5, HeadTailProperties
<1> QED BY <1>2, <1>5, <1>6, <1>7, <1>8, SeqEqual

(* back() finds the last element wherever tail_ is. *)
THEOREM BackIsLastInvariant == Spec => []BackIsLast
<1>1. RingTypeOK => BackIsLast
  <2> SUFFICES ASSUME RingTypeOK, ~Empty PROVE Back = Contents[Len(Contents)]
    BY DEF BackIsLast
  <2> USE CapAssumption
  <2>1. Size \in 1 .. Cap
    BY SizeRange DEF Empty
  <2>2. Contents[Len(Contents)] = storage[SlotAt(Size - 1)]
    BY <2>1, ContentsIsSeq DEF ContentsAsSeq
  <2>3. (tail + Cap) % (Cap + 1) = IF tail = 0 THEN Cap ELSE tail - 1
    <3>1. CASE tail = 0
      BY <3>1
    <3>2. CASE tail # 0
      <4>1. tail + Cap = (tail - 1) + 1 * (Cap + 1) /\ tail - 1 \in 0 .. Cap
        BY <3>2 DEF RingTypeOK, Slots
      <4> QED BY <3>2, <4>1 DEF RingTypeOK, Slots
    <3> QED BY <3>1, <3>2
  <2>4. SlotAt(Size - 1) = IF tail = 0 THEN Cap ELSE tail - 1
    BY <2>1 DEF SlotAt, Size, RingTypeOK, Slots
  <2> QED BY <2>2, <2>3, <2>4 DEF Back
<1> QED BY <1>1, RingTypeInvariant, PTL

(* The ring of cap + 1 slots is a first-in first-out queue of cap elements *)
(* that refuses exactly the pushes beyond cap.                             *)
THEOREM RingImplementsFifo == Spec => ImplementsFifo
<1> USE CapAssumption
<1>1. Init => Fifo!Init
  <2> SUFFICES ASSUME Init PROVE Fifo!Init
    OBVIOUS
  <2>1. Size = 0 /\ RingTypeOK
    BY DEF Init, Size, RingTypeOK, Slots
  <2>2. Contents = <<>>
    BY <2>1, ContentsIsSeq DEF ContentsAsSeq
  <2> QED BY <2>2 DEF Init, Fifo!Init, Void, Fifo!Void
<1>2. RingTypeOK /\ RingTypeOK' /\ [Next]_vars => [Fifo!Next]_(Fifo!vars)
  <2> SUFFICES ASSUME RingTypeOK, RingTypeOK', [Next]_vars PROVE [Fifo!Next]_(Fifo!vars)
    OBVIOUS
  <2>0. Contents \in Seq(T) /\ Len(Contents) = Size /\ Size \in 0 .. Cap
    BY ContentsIsSeq DEF ContentsAsSeq
  <2>1. ASSUME NEW e \in T, Push(e) PROVE Fifo!Push(e)
    <3>1. CASE ~Full
      <4>1. Len(Contents) < Cap
        BY <2>0, <3>1, SizeRange
      <4>2. Contents' = Append(Contents, e)
        BY <2>1, <3>1, PushAppends
      <4> QED BY <2>1, <3>1, <4>1, <4>2 DEF Fifo!Push, Push
    <3>2. CASE Full
      <4>1. Len(Contents) = Cap
        BY <2>0, <3>2, SizeRange
      <4>2. Contents' = Contents /\ ret' = StorageFull
        BY <2>1, <3>2 DEF Push, Contents, Size, SlotAt
      <4> QED BY <4>1, <4>2 DEF Fifo!Push, Fifo!StorageFull, StorageFull
    <3> QED BY <3>1, <3>2
  <2>2. CASE Pop
    <3>1. CASE Empty
      <4>1. Contents = <<>>
        BY <2>0, <3>1, SizeRange
      <4>2. Contents' = Contents
        BY <2>2, <3>1 DEF Pop, Contents, Size, SlotAt
      <4> QED BY <2>2, <4>1, <4>2 DEF Fifo!Pop, Pop, Fifo!Next, Void, Fifo!Void
    <3>2. CASE ~Empty
      BY <2>2, <3>2, PopRemovesHead DEF Fifo!Pop, Pop, Fifo!Next, Void, Fifo!Void
    <3> QED BY <3>1, <3>2
  <2>3. CASE Clear
    <3>1. Size' = 0
      BY <2>3 DEF Clear, Size
    <3>2. Contents' = <<>>
      <4>1. RingTypeOK' => ContentsAsSeq'
        BY ContentsIsSeq, PTL
      <4> QED BY <3>1, <4>1 DEF ContentsAsSeq
    <3> QED BY <2>3, <3>2 DEF Clear, Fifo!Clear, Fifo!Next, Void, Fifo!Void
  <2>4. CASE UNCHANGED vars
    BY <2>4 DEF vars, Fifo!vars, Contents, Size, SlotAt
  <2> QED BY <2>1, <2>2, <2>3, <2>4 DEF Next, Fifo!Next
<1> QED BY <1>1, <1>2, RingTypeInvariant, PTL DEF Spec, ImplementsFifo, Fifo!Spec

-----------------------------------------------------------------------------
LEMMA QuotBounds ==
  ASSUME NEW a \in Int
  PROVE  /\ Quot(a, 1000) \in Int
         /\ a >= 0 => 1000 * Quot(a, 1000) <= a /\ a <= 1000 * Quot(a, 1000) + 999
         /\ a < 0 => a <= 1000 * Quot(a, 1000) /\ 1000 * Quot(a, 1000) <= a + 999
BY SMT DEF Quot

(* msbetween of two timespecs: swapping the times negates the result. *)
THEOREM BetweenAntisymmetric ==
  ASSUME NEW t1 \in Timespec, NEW t2 \in Timespec
  PROVE  msbetween(t2, t1) = -msbetween(t1, t2)
<1> DEFINE u == UsecOf(t1, t2)
           v == UsecOf(t2, t1)
<1>1. Quot(u, 1000) \in Int /\ Quot(v, 1000) \in Int
  <2>1. \A t, w \in Timespec : t.tv_nsec - w.tv_nsec \in Int /\ t.tv_sec - w.tv_sec \in Int
    BY SMT DEF Timespec, Below
  <2>2. \A t, w \in Timespec : UsecOf(t, w) \in Int
    <3> TAKE t, w \in Timespec
    <3> DEFINE n == t.tv_nsec - w.tv_nsec
    <3>1. n \in Int
      BY <2>1
    <3> HIDE DEF n
    <3>2. Quot(n, 1000) \in Int
      BY SMT, <3>1, QuotBounds
    <3>3. Quot(t.tv_nsec - w.tv_nsec, 1000) \in Int
      BY <3>2 DEF n
    <3> QED BY SMT, <2>1, <3>3 DEF UsecOf
  <2>3. u \in Int /\ v \in Int
    BY <2>2
  <2> HIDE DEF u, v
  <2> QED BY SMT, <2>3, QuotBounds
<1>2. CASE LessSpec(t1, t2)
  <2>1. ~LessSpec(t2, t1)
    BY SMT, <1>2 DEF LessSpec, Timespec, Below
  <2>2. msbetween(t1, t2) = -Quot(v, 1000) /\ msbetween(t2, t1) = Quot(v, 1000)
    BY <1>2, <2>1 DEF msbetween
  <2> HIDE DEF v
  <2> QED BY SMT, <1>1, <2>2
<1>3. CASE LessSpec(t2, t1)
  <2>1. ~LessSpec(t1, t2)
    BY SMT, <1>3 DEF LessSpec, Timespec, Below
  <2>2. msbetween(t1, t2) = Quot(u, 1000) /\ msbetween(t2, t1) = -Quot(u, 1000)
    BY <1>3, <2>1 DEF msbetween
  <2> HIDE DEF u
  <2> QED BY SMT, <1>1, <2>2
<1>4. CASE ~LessSpec(t1, t2) /\ ~LessSpec(t2, t1)
  <2>1. t1.tv_sec = t2.tv_sec /\ t1.tv_nsec = t2.tv_nsec
    BY SMT, <1>4 DEF LessSpec, Timespec, Below
  <2>2. u = 0 /\ v = 0
    BY SMT, <2>1 DEF UsecOf, Quot, Timespec, Below
  <2>3. Quot(0, 1000) = 0
    BY SMT DEF Quot
  <2>4. msbetween(t1, t2) = Quot(u, 1000) /\ msbetween(t2, t1) = Quot(v, 1000)
    BY <1>4 DEF msbetween
  <2> HIDE DEF u, v
  <2> QED BY SMT, <2>2, <2>3, <2>4
<1> QED BY <1>2, <1>3, <1>4

(* It is exact to a millisecond: at most one too few, and, because the     *)
(* nanoseconds are rounded first, less than a microsecond too many.        *)
THEOREM BetweenAccurate ==
  ASSUME NEW t1 \in Timespec, NEW t2 \in Timespec, ~LessSpec(t1, t2)
  PROVE  /\ msbetween(t1, t2) \in Nat
         /\ 1000000 * msbetween(t1, t2) <= Nsec(t1) - Nsec(t2) + 999
         /\ Nsec(t1) - Nsec(t2) < 1000000 * msbetween(t1, t2) + 1000000
<1> DEFINE s == t1.tv_sec - t2.tv_sec
           n == t1.tv_nsec - t2.tv_nsec
           q == Quot(n, 1000)
           u == UsecOf(t1, t2)
           m == Quot(u, 1000)
<1>1. s \in Nat /\ n \in Int /\ (s = 0 => n >= 0) /\ -999999999 <= n
  BY SMT DEF LessSpec, Timespec, Below
<1>2. q \in Int /\ (n >= 0 => 1000 * q <= n /\ n <= 1000 * q + 999)
                /\ (n < 0 => n <= 1000 * q /\ 1000 * q <= n + 999)
  <2>1. n \in Int
    BY <1>1
  <2> HIDE DEF n
  <2> QED BY SMT, <2>1, QuotBounds
<1>3. u = s * 1000000 + q
  BY SMT DEF UsecOf
<1>4. Nsec(t1) - Nsec(t2) = s * 1000000000 + n
  BY SMT DEF Nsec, Timespec, Below
<1>5. msbetween(t1, t2) = m
  BY SMT DEF msbetween
<1> HIDE DEF s, n, q, u
<1>6. u \in Int /\ u >= 0
  BY SMT, <1>1, <1>2, <1>3
<1>7. m \in Int /\ 1000 * m <= u /\ u <= 1000 * m + 999
  BY SMT, <1>6, QuotBounds
<1> HIDE DEF m
<1> QED BY SMT, <1>1, <1>2, <1>3, <1>4, <1>5, <1>6, <1>7

(* The timeval version is not: of a later and an earlier time it drops the *)
(* microseconds (util.cpp 300 subtracts t1.tv_usec from itself), so two    *)
(* times almost a second apart are 0 apart one way and -999 the other.     *)
THEOREM BetweenDropsMicroseconds ==
  /\ \A t1, t2 \in Timeval :
       ~LessVal(t1, t2) => msbetweenVal(t1, t2) = 1000 * (t1.tv_sec - t2.tv_sec)
  /\ LET t == [tv_sec |-> 1, tv_usec |-> 0]
         v == [tv_sec |-> 1, tv_usec |-> 999999]
     IN  msbetweenVal(v, t) = 0 /\ msbetweenVal(t, v) = -999
<1>1. ASSUME NEW t1 \in Timeval, NEW t2 \in Timeval, ~LessVal(t1, t2)
      PROVE  msbetweenVal(t1, t2) = 1000 * (t1.tv_sec - t2.tv_sec)
  <2> DEFINE s == t1.tv_sec - t2.tv_sec
  <2>1. s \in Nat /\ t1.tv_usec \in Nat
    BY SMT, <1>1 DEF LessVal, Timeval, Below
  <2>2. msbetweenVal(t1, t2) = Quot(s * 1000000 + t1.tv_usec - t1.tv_usec, 1000)
    BY SMT, <1>1 DEF msbetweenVal
  <2> HIDE DEF s
  <2>3. s * 1000000 + t1.tv_usec - t1.tv_usec = 1000 * (1000 * s)
    BY SMT, <2>1
  <2>4. Quot(1000 * (1000 * s), 1000) = 1000 * s
    BY SMT, <2>1 DEF Quot
  <2> QED BY SMT, <2>2, <2>3, <2>4 DEF s
<1>2. LET t == [tv_sec |-> 1, tv_usec |-> 0]
          v == [tv_sec |-> 1, tv_usec |-> 999999]
      IN  msbetweenVal(v, t) = 0 /\ msbetweenVal(t, v) = -999
  BY SMT DEF msbetweenVal, LessVal, Quot
<1> QED BY SMT, <1>1, <1>2

-----------------------------------------------------------------------------
(* GetCurWeek turns on Mondays at midnight, UTC+8, and nowhere else. *)
THEOREM WeekTurnsOnMonday ==
  ASSUME NEW t \in Nat
  PROVE  GetCurWeek(t + 1) =
           IF (t + 1 + 28800 + 3 * 86400) % 604800 = 0 THEN GetCurWeek(t) + 1 ELSE GetCurWeek(t)
BY SMT DEF GetCurWeek, TimeNow, Quot, ONE_HOUR_SECOND, ONE_DAY_SECOND, ONE_WEEK_SECOND

(* isSameWeek does not agree with it: its weeks turn on Thursdays at       *)
(* midnight UTC.  (The class says that all of it minds the time zone.)     *)
THEOREM SameWeekIsAnother ==
  /\ \E t1, t2 \in Nat : GetCurWeek(t1) = GetCurWeek(t2) /\ ~isSameWeek(t1, t2)
  /\ \E t1, t2 \in Nat : GetCurWeek(t1) # GetCurWeek(t2) /\ isSameWeek(t1, t2)
<1> USE DEF GetCurWeek, isSameWeek, TimeNow, Quot,
            ONE_HOUR_SECOND, ONE_DAY_SECOND, ONE_WEEK_SECOND
<1>1. GetCurWeek(604799) = GetCurWeek(604800) /\ ~isSameWeek(604799, 604800)
  BY SMT
<1>2. GetCurWeek(316799) # GetCurWeek(316800) /\ isSameWeek(316799, 316800)
  BY SMT
<1> QED BY SMT, <1>1, <1>2

(* Hours are 0 to 23, and a day is over after its hour 23. *)
THEOREM HoursOfADay ==
  ASSUME NEW t \in Nat
  PROVE  /\ GetCurHour(t) \in 0 .. 23
         /\ GetCurDay(t + 1) # GetCurDay(t) => GetCurHour(t) = 23 /\ GetCurHour(t + 1) = 0
BY SMT DEF GetCurHour, GetCurDay, TimeNow, Quot, ONE_HOUR_SECOND, ONE_DAY_SECOND

(* IsSameDay: with days that start at a given hour, two seconds in a row   *)
(* are of different days exactly when the second one is that hour, local   *)
(* time.                                                                   *)
THEOREM DayStartsAtItsHour ==
  ASSUME NEW t \in Nat, t >= 86400, NEW start \in 0 .. 23
  PROVE  IsSameDay(t, t + 1, start) <=> TimeNow(t + 1) % 86400 # start * 3600
<1> DEFINE d == t + 28800 - start * 3600
<1>1. d \in Nat /\ start * 3600 \in Nat /\ start * 3600 < 86400
  BY SMT
<1>2. IsSameDay(t, t + 1, start) <=> d \div 86400 = (d + 1) \div 86400
  <2>1. /\ TimeNow(t) - start * ONE_HOUR_SECOND = d
        /\ TimeNow(t + 1) - start * ONE_HOUR_SECOND = d + 1
    BY SMT DEF TimeNow, ONE_HOUR_SECOND
  <2> HIDE DEF d
  <2> QED BY SMT, <1>1, <2>1 DEF IsSameDay, Quot, ONE_DAY_SECOND
<1>3. d \div 86400 = (d + 1) \div 86400 <=> (d + 1) % 86400 # 0
  <2> HIDE DEF d
  <2> QED BY SMT, <1>1
<1>4. TimeNow(t + 1) = d + 1 + start * 3600
  BY SMT DEF TimeNow, ONE_HOUR_SECOND
<1> HIDE DEF d
<1>5. (d + 1) % 86400 = 0 <=> (d + 1 + start * 3600) % 86400 = start * 3600
  BY SMT, <1>1
<1> QED BY <1>2, <1>3, <1>4, <1>5

(* RefreshTimeZone finds every offset of -11 to 11 whole hours at any hour *)
(* of the day; at 12, east or west, it says 12 or -12 by the time of day.  *)
THEOREM TimeZoneRight ==
  ASSUME NEW z \in -12 .. 12, NEW gmt \in 0 .. 23
  PROVE  TimeZone((gmt + z) % 24, gmt) =
           IF z \in -11 .. 11 THEN z ELSE IF gmt < 12 THEN 12 ELSE -12
BY SMT DEF TimeZone

(* IsLeapYear, given what GetCurYear returns, is right except for the      *)
(* years divisible by 400 and those 100 before them.                       *)
THEOREM LeapYearSince1900 ==
  ASSUME NEW year \in Nat, year >= 1900
  PROVE  (IsLeapYear(year - 1900) = ((year % 4 = 0 /\ year % 100 # 0) \/ year % 400 = 0))
           = (year % 400 \notin {0, 300})
BY SMT DEF IsLeapYear

(* RefreshTime: what the server takes for the time is the real time and    *)
(* the distance, exactly, in all three units, as long as that is not       *)
(* before 1970.                                                            *)
THEOREM RefreshedApart ==
  ASSUME NEW usec \in Nat, NEW distance \in Int, usec + distance * 1000000 >= 0
  PROVE  LET z == Refreshed(usec, distance)
         IN  /\ z.time_ = z.realTime_ + distance
             /\ z.msec_ = z.realmsec_ + distance * 1000
             /\ z.usec_ = z.realUsec_ + distance * 1000000
BY SMT DEF Refreshed, Quot

-----------------------------------------------------------------------------
(* The types, and that the last lap did not end in the future, carry the   *)
(* accuracy of one msbetween over to the sum of them.                      *)
CounterInv ==
  /\ now \in Timespec /\ last_time_ \in Timespec /\ started \in Timespec
  /\ laps \in Nat /\ total \in Nat
  /\ ~LessSpec(now, last_time_)
  /\ Drift

LEMMA NsecInt ==
  ASSUME NEW t \in Timespec
  PROVE  Nsec(t) \in Nat
BY SMT DEF Nsec, Timespec, Below

LEMMA CounterInvStep == CounterInv /\ [CounterNext]_counterVars => CounterInv'
<1> SUFFICES ASSUME CounterInv, [CounterNext]_counterVars
             PROVE  CounterInv'
  OBVIOUS
<1>1. CASE TimePasses
  <2>1. ~LessSpec(now', last_time_)
    BY SMT, <1>1 DEF CounterInv, TimePasses, LessSpec, Timespec, Below
  <2> QED BY <1>1, <2>1 DEF CounterInv, TimePasses, Drift
<1>2. CASE MsToPrevTime
  <2> DEFINE m == msbetween(now, last_time_)
             a == Nsec(now)
             b == Nsec(last_time_)
             c == Nsec(started)
  <2>1. m \in Nat /\ 1000000 * m <= a - b + 999 /\ a - b < 1000000 * m + 1000000
    BY BetweenAccurate DEF CounterInv
  <2>2. a \in Nat /\ b \in Nat /\ c \in Nat
    BY NsecInt DEF CounterInv
  <2>3. 1000000 * total <= b - c + 999 * laps /\ b - c <= 1000000 * total + 999999 * laps
    BY DEF CounterInv, Drift
  <2>4. total' = total + m /\ laps' = laps + 1 /\ total \in Nat /\ laps \in Nat
    BY <1>2 DEF MsToPrevTime, CounterInv
  <2>5. now' = now /\ started' = started /\ last_time_' = now
    BY <1>2 DEF MsToPrevTime
  <2>6. Drift' = (/\ 1000000 * total' <= a - c + 999 * laps'
                  /\ a - c <= 1000000 * total' + 999999 * laps')
    BY <2>5 DEF Drift
  <2>7. ~LessSpec(now, now)
    BY SMT DEF LessSpec, CounterInv, Timespec, Below
  <2> HIDE DEF m, a, b, c
  <2>8. /\ 1000000 * total' <= a - c + 999 * laps'
        /\ a - c <= 1000000 * total' + 999999 * laps'
    BY SMT, <2>1, <2>2, <2>3, <2>4
  <2>9. total' \in Nat /\ laps' \in Nat
    BY SMT, <2>1, <2>4
  <2> QED BY <2>5, <2>6, <2>7, <2>8, <2>9 DEF CounterInv
<1>3. CASE UNCHANGED counterVars
  BY <1>3 DEF CounterInv, Drift, counterVars
<1> QED BY <1>1, <1>2, <1>3 DEF CounterNext

(* TimeCounter drifts by less than a millisecond a lap, however long it    *)
(* runs. *)
THEOREM CounterDrift == CounterSpec => []Drift
<1>1. CounterInit => CounterInv
  <2> SUFFICES ASSUME CounterInit PROVE CounterInv
    OBVIOUS
  <2>1. ~LessSpec(now, now)
    BY SMT DEF CounterInit, LessSpec, Timespec, Below
  <2>2. Nsec(now) \in Nat
    BY NsecInt DEF CounterInit
  <2>3. Drift
    BY SMT, <2>2 DEF Drift, CounterInit
  <2> QED BY SMT, <2>1, <2>3 DEF CounterInit, CounterInv
<1>2. CounterInv => Drift
  BY DEF CounterInv
<1> QED BY <1>1, <1>2, CounterInvStep, PTL DEF CounterSpec

-----------------------------------------------------------------------------
(* uadd_ok, of two unsigned ints: the exact sum is one, too. *)
THEOREM UnsignedSumFits ==
  ASSUME NEW x \in Uint, NEW y \in Uint
  PROVE  uadd_ok(x, y) <=> x + y \in Uint
BY SMT DEF uadd_ok, ToUint, Uint, UintMod

(* usub_ok, which adds the complement: the exact difference is one, too,   *)
(* y = 0 included, whose complement is itself. *)
THEOREM UnsignedDifferenceFits ==
  ASSUME NEW x \in Uint, NEW y \in Uint
  PROVE  usub_ok(x, y) <=> x - y \in Uint
BY SMT DEF usub_ok, uadd_ok, ToUint, Uint, UintMod

(* tadd_ok, with an addition that wraps: the exact sum is an int. *)
THEOREM SignedSumFits ==
  ASSUME NEW x \in Int32, NEW y \in Int32
  PROVE  tadd_ok(x, y) <=> x + y \in Int32
BY SMT DEF tadd_ok, ToInt, Int32, UintMod, IntMax, IntMin

(* uadd_ok of an unsigned and a signed int, INT_MIN, whose abs is itself,  *)
(* included. *)
THEOREM MixedSumFits ==
  ASSUME NEW x \in Uint, NEW y \in Int32
  PROVE  uadd_ok_int(x, y) <=> x + y \in Uint
<1>1. CASE y >= 0
  BY SMT, <1>1 DEF uadd_ok_int, uadd_ok, ToUint, Uint, Int32, UintMod, IntMax, IntMin
<1>2. CASE y < 0
  BY SMT, <1>2 DEF uadd_ok_int, usub_ok, uadd_ok, Abs32, ToUint, ToInt, Uint, Int32, UintMod, IntMax, IntMin
<1> QED BY <1>1, <1>2 DEF Int32

(* ARandRange stays in a .. b and reaches both ends, if the range has less *)
(* than 2^31 numbers.                                                      *)
THEOREM DrawInRange ==
  ASSUME NEW a \in Int32, NEW b \in Int32, a < b, b - a < IntMax
  PROVE  /\ \A r \in Nat : r <= RAND_MAX =>
              a <= ARandRange(a, b, r) /\ ARandRange(a, b, r) <= b
         /\ ARandRange(a, b, 0) = a
         /\ ARandRange(a, b, RAND_MAX) = b
<1> DEFINE n == b + 1 - a
<1>1. n \in Nat /\ n > 1 /\ n <= 2147483647 /\ a \in Int /\ b = a + n - 1
  BY SMT DEF Int32, IntMax, IntMin
<1>2. ToInt(ToInt(b + 1) - a) = n
  BY SMT DEF ToInt, Int32, UintMod, IntMax, IntMin
<1>3. \A k \in 0 .. n - 1 : ToInt(a + k) = a + k
  BY SMT DEF ToInt, Int32, UintMod, IntMax, IntMin
<1>4. \A r \in Nat : ARandRange(a, b, r) = ToInt(a + ((n * r) \div 2147483648))
  <2> TAKE r \in Nat
  <2>1. ARandRange(a, b, r) = ToInt(a + ((n * r) \div (RAND_MAX + 1)))
    BY SMT, <1>1, <1>2 DEF ARandRange
  <2> QED BY SMT, <2>1 DEF RAND_MAX
<1> HIDE DEF n
<1>5. ASSUME NEW r \in Nat, r <= 2147483647
      PROVE  (n * r) \div 2147483648 \in 0 .. n - 1
  <2> DEFINE p == n * r
  <2>1. p \in Nat /\ p <= n * 2147483647
    BY SMT, <1>1, <1>5
  <2> HIDE DEF p
  <2>2. p \div 2147483648 \in 0 .. n - 1
    BY SMT, <1>1, <2>1
  <2> QED BY <2>2 DEF p
<1>6. ASSUME NEW r \in Nat, r <= RAND_MAX
      PROVE  a <= ARandRange(a, b, r) /\ ARandRange(a, b, r) <= b
  <2> DEFINE k == (n * r) \div 2147483648
  <2>1. k \in 0 .. n - 1
    BY SMT, <1>5, <1>6 DEF RAND_MAX
  <2>2. ARandRange(a, b, r) = ToInt(a + k)
    BY <1>4
  <2> HIDE DEF k
  <2>3. ToInt(a + k) = a + k
    BY <1>3, <2>1
  <2> QED BY SMT, <1>1, <2>1, <2>2, <2>3
<1>7. ARandRange(a, b, 0) = a
  <2>1. (n * 0) \div 2147483648 = 0
    BY SMT, <1>1
  <2>2. ToInt(a + 0) = a + 0
    BY SMT, <1>1, <1>3
  <2> QED BY SMT, <1>1, <1>4, <2>1, <2>2
<1>8. ARandRange(a, b, RAND_MAX) = b
  <2>1. (n * 2147483647) \div 2147483648 = n - 1
    BY SMT, <1>1
  <2>2. ToInt(a + (n - 1)) = a + (n - 1)
    BY SMT, <1>1, <1>3
  <2>3. ARandRange(a, b, 2147483647) = ToInt(a + ((n * 2147483647) \div 2147483648))
    BY SMT, <1>4
  <2>4. ARandRange(a, b, 2147483647) = a + (n - 1)
    BY <2>1, <2>2, <2>3
  <2> QED BY SMT, <1>1, <2>4 DEF RAND_MAX
<1> QED BY <1>6, <1>7, <1>8

(* Of a wider one the count overflows, and a draw from -1 .. 2^31 - 2 can  *)
(* give a number below -1.                                                 *)
THEOREM WideDrawOutOfRange == ARandRange(-1, IntMax - 1, RAND_MAX) = IntMin
BY SMT DEF ARandRange, ToInt, UintMod, IntMax, IntMin, RAND_MAX

-----------------------------------------------------------------------------
(* RandomOne.  The sum is 0 exactly as long as only weights of 0 have been *)
(* seen: the first other weight is the whole sum, and is taken for sure.   *)
DrawInv ==
  /\ weight \in Seq(Nat)
  /\ seen \in 0 .. Len(weight)
  /\ total_weight \in Nat
  /\ idx \in Nat
  /\ total_weight = 0 => \A j \in 1 .. seen : weight[j] = 0
  /\ total_weight > 0 => idx \in 1 .. seen /\ weight[idx] > 0

LEMMA DrawStep == DrawInv /\ [DrawNext]_drawVars => DrawInv'
<1> SUFFICES ASSUME DrawInv, [DrawNext]_drawVars
             PROVE  DrawInv'
  OBVIOUS
<1>1. CASE DrawNext
  <2> DEFINE w == weight[seen + 1]
  <2>1. /\ seen \in Nat /\ seen + 1 \in 1 .. Len(weight) /\ seen' = seen + 1
        /\ weight' = weight /\ w \in Nat /\ total_weight' = total_weight + w
    BY <1>1 DEF DrawNext, DrawInv
  <2>2. \A j \in 1 .. seen' : j \in 1 .. seen \/ j = seen + 1
    BY <2>1
  <2>3. PICK hit \in Hits(w, total_weight + w) : idx' = IF hit THEN seen + 1 ELSE idx
    BY <1>1 DEF DrawNext
  <2>4. total_weight' = 0 => \A j \in 1 .. seen' : weight[j] = 0
    <3> HAVE total_weight' = 0
    <3>1. total_weight = 0 /\ w = 0
      BY <2>1 DEF DrawInv
    <3> QED BY <2>2, <3>1 DEF DrawInv
  <2>5. total_weight' > 0 => idx' \in 1 .. seen' /\ weight[idx'] > 0
    <3> HAVE total_weight' > 0
    <3>1. CASE hit
      <4>1. idx' = seen + 1 /\ w > 0
        BY <2>1, <2>3, <3>1 DEF Hits
      <4> QED BY <2>1, <4>1
    <3>2. CASE ~hit
      <4>1. idx' = idx /\ ~(w > 0 /\ w = total_weight + w)
        BY <2>3, <3>2 DEF Hits
      <4>2. total_weight > 0
        BY <2>1, <4>1 DEF DrawInv
      <4> QED BY <2>1, <4>1, <4>2 DEF DrawInv
    <3> QED BY <3>1, <3>2
  <2>6. idx' \in Nat
    BY <2>1, <2>3 DEF DrawInv
  <2> QED BY <2>1, <2>4, <2>5, <2>6 DEF DrawInv
<1>2. CASE UNCHANGED drawVars
  BY <1>2 DEF DrawInv, drawVars
<1> QED BY <1>1, <1>2

(* The promise in the comment of RandomOne (rand_util.h 54). *)
THEOREM NeverZeroDrawn == DrawSpec => []NeverZero
<1>1. DrawInit => DrawInv
  BY DEF DrawInit, DrawInv
<1>2. DrawInv => NeverZero
  BY DEF DrawInv, NeverZero
<1> QED BY <1>1, <1>2, DrawStep, PTL DEF DrawSpec
=============================================================================
