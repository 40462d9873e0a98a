----------------------------- MODULE RingQueue -----------------------------
(***************************************************************************)
(* RingQueue<T, cap> of src/src/ring_queue.h: a fixed array of cap + 1     *)
(* slots, one of which always stays free so that head_ = tail_ can only    *)
(* mean "empty".  Session keeps its state and action caches in it.         *)
(***************************************************************************)
EXTENDS Integers, Sequences

CONSTANTS T,       (* the element type            *)
          Cap      (* the template parameter cap  *)

ASSUME CapAssumption == Cap \in Nat \ {0}

VARIABLES head,    (* head_ : index of the first element                 *)
          tail,    (* tail_ : index of the first free slot               *)
          storage, (* storage_ : the cap + 1 slots                       *)
          ret      (* what the last call returned (Void from pop, clear)  *)

vars == <<head, tail, storage, ret>>

Slots == 0 .. Cap
StorageFull == -1                                   \* kErrStorageFull
Void == 1                                           \* "returns nothing"

-----------------------------------------------------------------------------
(* Broken variants, each standing for a plausible slip in ring_queue.h. *)
Succ_NoWrap(i) == i + 1
Back_Plain == storage[IF tail = 0 THEN 0 ELSE tail - 1]
Full_AllSlots == FALSE

Succ(i) == (i + 1) % (Cap + 1)

Empty == head = tail
Full == Succ(tail) = head
Size == IF head <= tail THEN tail - head ELSE tail + Cap + 1 - head
Front == storage[head]
Back == storage[(tail + Cap) % (Cap + 1)]

-----------------------------------------------------------------------------
(* The constructor leaves storage_ uninitialised: any contents. *)
Init ==
  /\ head = 0 /\ tail = 0
  /\ storage \in [Slots -> T]
  /\ ret = Void

Push(e) ==
  \/ /\ ~Full
     /\ storage' = [storage EXCEPT ![tail] = e]
     /\ tail' = Succ(tail)
     /\ ret' = 0
     /\ UNCHANGED head
  \/ /\ Full
     /\ ret' = StorageFull
     /\ UNCHANGED <<head, tail, storage>>

Pop ==
  /\ head' = IF Empty THEN head ELSE Succ(head)
  /\ ret' = Void
  /\ UNCHANGED <<tail, storage>>

Clear ==
  /\ head' = 0 /\ tail' = 0
  /\ ret' = Void
  /\ UNCHANGED storage

Next == (\E e \in T : Push(e)) \/ Pop \/ Clear

Spec == Init /\ [][Next]_vars

-----------------------------------------------------------------------------
(* Indices never leave the array. *)
RingTypeOK ==
  /\ head \in Slots /\ tail \in Slots
  /\ storage \in [Slots -> T]
  /\ ret \in {0, StorageFull, Void}

(* The queue a user sees: Size slots read circularly from head_. *)
SlotAt(i) == IF head + i <= Cap THEN head + i ELSE head + i - (Cap + 1)
Contents == [i \in 1 .. Size |-> storage[SlotAt(i - 1)]]

(* back() returns the element pushed last, across the wrap of tail_: the   *)
(* duplicate filter of Session::FspHandleActionPkg compares against it.    *)
BackIsLast == ~Empty => Back = Contents[Len(Contents)]

(* The ring behaves as a bounded FIFO: no element is lost, duplicated or   *)
(* reordered by the wrap-around, push fails exactly when Cap are stored,   *)
(* and a failed push changes nothing.                                      *)
Fifo == INSTANCE BoundedFifo WITH q <- Contents
ImplementsFifo == Fifo!Spec
=============================================================================
