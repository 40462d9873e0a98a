----------------------------- MODULE FrameStore -----------------------------
(***************************************************************************)
(* Frame and the frame half of FrameMgr, the store behind frame            *)
(* synchronisation (Fsp): frames are collected one at a time and appended  *)
(* to one buffer, which is cut into segments of at most kUdpSegmentSize    *)
(* bytes.  Game::FrameTick has its Fsp calls commented out; the module     *)
(* models what these classes do for a caller that follows their interface. *)
(***************************************************************************)
EXTENDS Integers, Sequences

CONSTANTS kMaxActionNumInOneFrame, kUdpSegmentSize, kMaxFrameBufInGame,
          FrameHead,   (* offsetof(SendFrame, actions)          *)
          ActionSize,  (* sizeof(SendAction)                    *)
          MaxFrameId   (* bound: the ids given to frames        *)

ASSUME FrameAssumption ==
  /\ kMaxActionNumInOneFrame \in Nat /\ MaxFrameId \in Nat
  /\ kUdpSegmentSize \in Nat /\ kMaxFrameBufInGame \in Nat
  /\ FrameHead \in Nat /\ ActionSize \in Nat

VARIABLES
  frame,                  (* the Frame being collected                       *)
  m_used,                 (* FrameMgr: bytes used                            *)
  m_frame_buf,            (* offset -> the frame serialised there            *)
  m_last_frame_pos,       (* offset of the last frame                        *)
  m_max_frame_id,
  m_total_frame_store,
  m_is_prev_frame_empty,
  segments,               (* m_frame_segment_arr, m_frame_segment_cnt long,  *)
                          (* with the frame counts beside the offsets        *)
  ret                     (* what the last call returned                     *)

store == <<m_used, m_frame_buf, m_last_frame_pos, m_max_frame_id,
           m_total_frame_store, m_is_prev_frame_empty, segments>>
storeVars == <<frame, store, ret>>

-----------------------------------------------------------------------------
(* Broken variants, each standing for a plausible change of the code. *)
FrameFull_OffByOne == frame.m_action_count > kMaxActionNumInOneFrame

-----------------------------------------------------------------------------
(* Frame *)
EmptyFrame == [m_frame_id |-> 0, m_action_count |-> 0, m_is_need_send |-> FALSE]
IsEmpty(f) == ~f.m_is_need_send /\ f.m_action_count = 0
FrameFull == frame.m_action_count >= kMaxActionNumInOneFrame
ByteSize(f) == FrameHead + ActionSize * f.m_action_count

AddAction ==
  /\ IF FrameFull
       THEN ret' = -1 /\ UNCHANGED frame
       ELSE ret' = 0 /\ frame' = [frame EXCEPT !.m_action_count = @ + 1]
  /\ UNCHANGED store

SetFrameId(id) == frame' = [frame EXCEPT !.m_frame_id = id] /\ ret' = 0 /\ UNCHANGED store
SetNeedSend == frame' = [frame EXCEPT !.m_is_need_send = TRUE] /\ ret' = 0 /\ UNCHANGED store
FrameClear == frame' = EmptyFrame /\ ret' = 0 /\ UNCHANGED store

(* operator++ : the next frame, without the actions of this one. *)
NextFrame ==
  /\ frame.m_frame_id < MaxFrameId
  /\ frame' = [frame EXCEPT !.m_frame_id = @ + 1, !.m_action_count = 0]
  /\ ret' = 0
  /\ UNCHANGED store

-----------------------------------------------------------------------------
(* FrameMgr::AddFrame *)
Put(f, k, v) == [x \in DOMAIN f \union {k} |-> IF x = k THEN v ELSE f[x]]

BufferFull(size) == m_used + size >= kMaxFrameBufInGame
Merges == m_is_prev_frame_empty /\ IsEmpty(frame)
LastSegment == IF segments = <<>> THEN 0 ELSE segments[Len(segments)].pos
StartsSegment(size, last) == m_used + size - last > kUdpSegmentSize

(* A merged frame needs no segment; another must fit one and start one.    *)
Accepts(size) ==
  /\ ~BufferFull(size)
  /\ Merges \/ (size < kUdpSegmentSize /\ StartsSegment(size, LastSegment))

(* SerializeToArray and the bookkeeping around it.  An empty frame after   *)
(* an empty one gives its id to that one, and is stored as well.           *)
StoreFrame(size) ==
  LET id == frame.m_frame_id
      renamed == IF Merges THEN [m_frame_buf EXCEPT ![m_last_frame_pos].frame_id = id]
                           ELSE m_frame_buf
  IN  /\ m_frame_buf' = Put(renamed, m_used,
                            [frame_id |-> id, action_len |-> frame.m_action_count])
      /\ segments' = IF Merges THEN segments
                     ELSE Append(segments, [pos |-> m_used, cnt |-> m_total_frame_store])
      /\ m_total_frame_store' = m_total_frame_store + 1
      /\ m_last_frame_pos' = m_used
      /\ m_used' = m_used + size
      /\ m_is_prev_frame_empty' = IsEmpty(frame)
      /\ m_max_frame_id' = id
      /\ ret' = 0

AddFrame ==
  /\ IF Accepts(ByteSize(frame))
       THEN StoreFrame(ByteSize(frame))
       ELSE ret' = -1 /\ UNCHANGED store
  /\ UNCHANGED frame

StoreClear ==
  /\ m_used' = 0 /\ m_frame_buf' = <<>> /\ m_last_frame_pos' = 0
  /\ m_max_frame_id' = 0 /\ m_total_frame_store' = 0
  /\ m_is_prev_frame_empty' = FALSE /\ segments' = <<>>
  /\ ret' = 0
  /\ UNCHANGED frame

StoreInit ==
  /\ frame = EmptyFrame
  /\ m_used = 0 /\ m_frame_buf = <<>> /\ m_last_frame_pos = 0
  /\ m_max_frame_id = 0 /\ m_total_frame_store = 0
  /\ m_is_prev_frame_empty = FALSE /\ segments = <<>>
  /\ ret = 0

StoreNext ==
  \/ AddAction \/ SetNeedSend \/ FrameClear \/ NextFrame
  \/ \E id \in 0 .. MaxFrameId : SetFrameId(id)
  \/ AddFrame \/ StoreClear

StoreSpec == StoreInit /\ [][StoreNext]_storeVars

-----------------------------------------------------------------------------
(* The reading side: positions in m_frame_buf, or NULL, for a client that  *)
(* has the frames up to max_frame_id, `used' bytes of them.                *)
NULL == -1
kMaxSegmentSize == (2 * kMaxFrameBufInGame) \div kUdpSegmentSize

GetFrameBufBegin(max_frame_id, used) ==
  CASE used < m_used                                      -> used
    [] used = m_used /\ max_frame_id # m_max_frame_id     -> m_last_frame_pos
    [] OTHER                                              -> NULL

(* The first segment that starts behind buf; a rest that fits one segment  *)
(* is not cut.                                                             *)
SegmentsBehind(buf) ==
  {i \in DOMAIN segments : i <= kMaxSegmentSize /\ segments[i].pos > buf}
NextSegment(buf) ==
  segments[CHOOSE i \in SegmentsBehind(buf) : \A j \in SegmentsBehind(buf) : i <= j]
FitsOne(buf) == m_used - buf <= kUdpSegmentSize

GetFrameBufEnd(buf) ==
  CASE FitsOne(buf)                                -> m_used
    [] ~FitsOne(buf) /\ SegmentsBehind(buf) # {}   -> NextSegment(buf).pos
    [] OTHER                                       -> buf

GetFrameCntOfSegment(buf) ==
  CASE FitsOne(buf)                                -> m_total_frame_store
    [] ~FitsOne(buf) /\ SegmentsBehind(buf) # {}   -> NextSegment(buf).cnt
    [] OTHER                                       -> 0

-----------------------------------------------------------------------------
(* A frame never holds more actions than its array has room for.           *)
FrameTypeOK ==
  /\ frame \in [m_frame_id : 0 .. MaxFrameId,
                m_action_count : 0 .. kMaxActionNumInOneFrame,
                m_is_need_send : BOOLEAN]
  /\ ret \in {0, -1}

(* frame_mgr.h:28, on AddFrame: "add the newly collected frame" (in        *)
(* Chinese).  So a frame that is smaller than a segment, and for which     *)
(* there is room in the buffer, is stored and becomes the latest one.      *)
AddFrameStores ==
  [][/\ AddFrame
     /\ ~BufferFull(ByteSize(frame)) /\ ByteSize(frame) < kUdpSegmentSize
     => /\ ret' = 0
        /\ m_total_frame_store' = m_total_frame_store + 1
        /\ m_max_frame_id' = frame.m_frame_id]_storeVars

(* It is not: the first frame would have to be both smaller and larger     *)
(* than a segment to be taken, so no frame ever is, whatever the caller    *)
(* does; the merging branch and the segments are never reached.            *)
NothingStored ==
  /\ m_used = 0 /\ m_frame_buf = <<>> /\ m_last_frame_pos = 0
  /\ m_total_frame_store = 0 /\ m_max_frame_id = 0
  /\ ~m_is_prev_frame_empty /\ segments = <<>>

(* What a client is sent then: no position, or an empty range with no    *)
(* frames in it, whatever it says it has.                                  *)
NothingRead ==
  \A max_frame_id, used \in Nat :
    LET buf == GetFrameBufBegin(max_frame_id, used) IN
      buf # NULL => GetFrameBufEnd(buf) = buf /\ GetFrameCntOfSegment(buf) = 0
=============================================================================
