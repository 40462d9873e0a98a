---------------------------- MODULE FixedMemPool ----------------------------
(***************************************************************************)
(* util::ShmInit and FixedMemPool: a shared memory segment, which outlives *)
(* the process, holding a header and blocks of one size.  Blocks are first *)
(* carved off one after the other; freed blocks form a list linked through *)
(* their next fields and are used again before more is carved.  The        *)
(* segment refers to its blocks by their offsets from the header, since    *)
(* each process may have it mapped elsewhere; callers use addresses, which *)
(* are size_t and wrap.  What users write into their nodes is left out;    *)
(* one process at a time uses the segment.                                 *)
(***************************************************************************)
EXTENDS Integers, Sequences, FiniteSets

CONSTANTS max_node_num, node_size,  (* the arguments of every Init           *)
          HeadSize,                 (* sizeof(MemHeader)                     *)
          kNodeOffset,              (* offsetof(AllocBlock, node)            *)
          AddressSpace,             (* how many values a size_t has          *)
          Addresses                 (* where shmat may map the segment       *)

ASSUME PoolAssumption ==
  /\ max_node_num \in Nat \ {0} /\ node_size \in Nat \ {0}
  /\ HeadSize \in Nat \ {0} /\ HeadSize % 8 = 0 /\ kNodeOffset = 8

VARIABLES
  exist,    (* the segment exists                                            *)
  process,  (* "none", "mapped" (ShmInit done) or "pool" (Init succeeded)    *)
  mem,      (* where the process has the segment mapped: m_header            *)
  header,   (* in the segment: the MemHeader                                 *)
  next,     (* in the segment: block offset -> AllocBlock::next              *)
  ret       (* what the last call of the pool returned: 0 (also for NULL),   *)
            (* -1, or a node, given as the offset of its block               *)

vars == <<exist, process, mem, header, next, ret>>

Address == 0 .. AddressSpace - 1
Size_t(n) == n % AddressSpace
kInvalidPointer == Size_t(-1)

GetBlockSize == ((node_size + kNodeOffset + 7) \div 8) * 8
GetAllocSize == HeadSize + max_node_num * GetBlockSize
Block(i) == HeadSize + i * GetBlockSize
Blocks == {Block(i) : i \in 0 .. max_node_num - 1}

(* The segment does not reach the last addresses (on a 64-bit machine it   *)
(* is in the lower half), so its own addresses and sizes never wrap.       *)
ASSUME AddressAssumption ==
  /\ AddressSpace \in Nat /\ GetAllocSize < AddressSpace
  /\ Addresses \subseteq Nat
  /\ \A a \in Addresses : a + GetAllocSize + GetBlockSize < AddressSpace

(* What ShmInit's memset leaves. *)
ZeroHeader ==
  [max_size |-> 0, max_node_num |-> 0, used_size |-> 0, used_node_num |-> 0,
   node_size |-> 0, block_size |-> 0, free_list_offset |-> 0]

-----------------------------------------------------------------------------
(* Broken variants, each standing for a plausible slip in the code. *)
AfterFree_Forgotten(pos) == kInvalidPointer
Fits_OffByOne == header.used_size <= header.max_size
IsUsedBlock_AnyCarved(block) ==
  /\ mem + HeadSize <= block /\ block < mem + header.used_size
  /\ (block - mem) % header.block_size = HeadSize % header.block_size
AllocFreed_NotMarked ==
  /\ header.free_list_offset # kInvalidPointer
  /\ header' = [header EXCEPT !.free_list_offset = next[@]]
  /\ ret' = header.free_list_offset
  /\ UNCHANGED next
WalkEnds_AtHole(pos) == pos >= header.used_size \/ next[pos] # 0

-----------------------------------------------------------------------------
(* The first process creates the segment, a later one finds it; each has   *)
(* it mapped somewhere.                                                    *)
ShmInit ==
  /\ process = "none"
  /\ process' = "mapped" /\ exist' = TRUE /\ mem' \in Addresses
  /\ UNCHANGED ret
  /\ \/ exist /\ UNCHANGED <<header, next>>
     \/ ~exist /\ header' = ZeroHeader /\ next' = [b \in Blocks |-> 0]

(* shmat fails with the address -1, which is not NULL: the memset, or the  *)
(* first access of a caller that found an old segment, ends the process.   *)
(* A new segment, zeroed by the system, stays.  When shmget fails, ShmInit *)
(* returns NULL and nothing has happened.                                  *)
ShmInitFails ==
  /\ process = "none" /\ ~exist
  /\ exist' = TRUE
  /\ header' = ZeroHeader /\ next' = [b \in Blocks |-> 0]
  /\ UNCHANGED <<process, mem, ret>>

ShmDelete ==
  /\ process = "none" /\ exist
  /\ exist' = FALSE
  /\ UNCHANGED <<process, mem, header, next, ret>>

(* The process ends, by itself or by a crash between two calls. *)
Exit ==
  /\ process # "none"
  /\ process' = "none" /\ mem' = 0
  /\ UNCHANGED <<exist, header, next, ret>>

(* Init without check_header sets every field of the header but node_size. *)
InitHeader(h) ==
  [h EXCEPT !.max_size = GetAllocSize, !.max_node_num = max_node_num,
            !.used_size = HeadSize, !.used_node_num = 0,
            !.block_size = GetBlockSize, !.free_list_offset = kInvalidPointer]

CheckHeader ==
  /\ header.node_size = node_size /\ header.block_size = GetBlockSize
  /\ header.max_node_num = max_node_num /\ header.max_size = GetAllocSize
  /\ HeadSize + header.used_node_num * header.block_size = header.used_size
  /\ header.used_size <= GetAllocSize

InitNew ==
  /\ process = "mapped"
  /\ header' = InitHeader(header)
  /\ process' = "pool" /\ ret' = 0
  /\ UNCHANGED <<exist, mem, next>>

InitCheckHeader ==
  /\ process = "mapped"
  /\ process' = IF CheckHeader THEN "pool" ELSE process
  /\ ret' = IF CheckHeader THEN 0 ELSE -1
  /\ UNCHANGED <<exist, mem, header, next>>

-----------------------------------------------------------------------------
(* Addresses, of nodes and of blocks, and offsets. *)
GetBlock(node) == Size_t(node - kNodeOffset)
GetOffsetFromHead(block) == Size_t(block - mem)
GetAddrOfOffset(pos) == mem + pos
m_data == mem + HeadSize

(* Meant: a block boundary in the carved part.  But the sum wraps.         *)
IsValidBlock(block) ==
  /\ block >= m_data
  /\ Size_t(block + header.block_size) <= Size_t(mem + header.used_size)
  /\ GetOffsetFromHead(block) % header.block_size = HeadSize % header.block_size

(* A block that passes for valid because its end wraps begins at one of    *)
(* the last addresses, where nobody has memory: reading its next field     *)
(* ends the process.  GetBlock(NULL) may be one.                           *)
Faults(block) ==
  IsValidBlock(block) /\ block + header.block_size >= AddressSpace

IsUsedBlock(block) ==
  IsValidBlock(block) /\ next[GetOffsetFromHead(block)] = 0

Fits == header.used_size + header.block_size <= header.max_size

(* GetFreeBlock takes the first block off the free list; Alloc looks at it *)
(* only afterwards.                                                        *)
AllocFreed ==
  LET p == header.free_list_offset
      valid == IsValidBlock(GetAddrOfOffset(p))
  IN
    /\ p # kInvalidPointer
    /\ header' = [header EXCEPT !.free_list_offset = next[p]]
    /\ next' = IF valid THEN [next EXCEPT ![p] = 0] ELSE next
    /\ ret' = IF valid THEN p ELSE 0

AllocCarved ==
  LET p == header.used_size IN
    /\ header.free_list_offset = kInvalidPointer /\ Fits
    /\ header' = [header EXCEPT !.used_size = @ + header.block_size,
                                !.used_node_num = @ + 1]
    /\ next' = [next EXCEPT ![p] = 0]
    /\ ret' = p

AllocFails ==
  /\ header.free_list_offset = kInvalidPointer /\ ~Fits
  /\ ret' = 0
  /\ UNCHANGED <<header, next>>

Alloc ==
  /\ process = "pool"
  /\ AllocFreed \/ AllocCarved \/ AllocFails
  /\ UNCHANGED <<exist, process, mem>>

(* LinkFreeBlock: what the freed block points to. *)
AfterFree(pos) == header.free_list_offset

(* Free refuses what it does not take for a node in use.                   *)
FreeAnswers(block) ==
  /\ ~Faults(block)
  /\ \/ /\ IsUsedBlock(block)
        /\ LET pos == GetOffsetFromHead(block) IN
             /\ next' = [next EXCEPT ![pos] = AfterFree(pos)]
             /\ header' = [header EXCEPT !.free_list_offset = pos]
        /\ ret' = 0
     \/ /\ ~IsUsedBlock(block)
        /\ ret' = -1
        /\ UNCHANGED <<header, next>>
  /\ UNCHANGED <<exist, process, mem>>

FreeCrashes(block) ==
  /\ Faults(block)
  /\ process' = "none" /\ mem' = 0
  /\ UNCHANGED <<exist, header, next, ret>>

(* Callers may pass any address: NULL, a node twice, one of a process that *)
(* had the segment mapped elsewhere, or a pointer that never was a node.   *)
Free(node) ==
  /\ process = "pool"
  /\ FreeAnswers(GetBlock(node)) \/ FreeCrashes(GetBlock(node))

Init ==
  /\ exist = FALSE /\ process = "none" /\ mem = 0
  /\ header = ZeroHeader /\ next = [b \in Blocks |-> 0]
  /\ ret = 0

Next ==
  \/ ShmInit \/ ShmInitFails \/ ShmDelete \/ Exit \/ InitNew \/ InitCheckHeader
  \/ Alloc \/ (\E node \in Address : Free(node))

Spec == Init /\ [][Next]_vars

-----------------------------------------------------------------------------
(* GetNextBlock and GetNextUsedBlock from the first block on: what a user  *)
(* sees who walks through the pool with GetNextNode.  Blocks are given by  *)
(* their offsets.                                                          *)
NextBlock(pos) == pos + header.block_size
WalkEnds(pos) == ~IsValidBlock(GetAddrOfOffset(pos))

WalkFrom[pos \in 0 .. GetAllocSize] ==
  IF WalkEnds(pos) THEN <<>>
  ELSE (IF next[pos] = 0 THEN <<pos>> ELSE <<>>) \o WalkFrom[NextBlock(pos)]

Walk == WalkFrom[HeadSize]

Carved == {b \in Blocks : b < header.used_size}
Used == {b \in Carved : next[b] = 0}

(* A pool in use has carved a whole number of blocks, counted right and no *)
(* more than the segment has room for; a free list leads from block to     *)
(* block; the header never gets a node size (see ReattachSucceeds).        *)
MemHeader ==
  [max_size : Nat, max_node_num : Nat, used_size : Nat, used_node_num : Nat,
   node_size : {0}, block_size : Nat, free_list_offset : Nat]

PoolTypeOK ==
  /\ exist \in BOOLEAN /\ process \in {"none", "mapped", "pool"}
  /\ IF process = "none" THEN mem = 0 ELSE exist /\ mem \in Addresses
  /\ header \in MemHeader
  /\ next \in [Blocks -> Blocks \union {0, kInvalidPointer}]
  /\ ret \in Blocks \union {0, -1}
  /\ process = "pool" =>
       /\ header.max_size = GetAllocSize /\ header.block_size = GetBlockSize
       /\ header.used_node_num \in 0 .. max_node_num
       /\ header.used_size = Block(header.used_node_num)

(* Whatever is allocated, freed, freed twice or freed by any address, the  *)
(* free list runs exactly once through every carved block not in use: it   *)
(* has no cycle and loses no block.                                        *)
FreeListExact ==
  process = "pool" =>
    \E list \in [1 .. Cardinality(Carved \ Used) -> Carved \ Used] :
      /\ \A b \in Carved \ Used : \E i \in DOMAIN list : list[i] = b
      /\ header.free_list_offset =
           (IF list = <<>> THEN kInvalidPointer ELSE list[1])
      /\ \A i \in DOMAIN list :
           next[list[i]] = (IF i = Len(list) THEN kInvalidPointer ELSE list[i + 1])

(* Walking the pool shows the nodes in use, each once, whatever holes      *)
(* frees have left between them.                                           *)
WalkShowsUsed ==
  process = "pool" =>
    /\ \A i, j \in DOMAIN Walk : i < j => Walk[i] < Walk[j]
    /\ Used = {Walk[i] : i \in DOMAIN Walk}

(* Of all addresses, NULL and those of another process included, Free      *)
(* takes back exactly those of the nodes in use.  At any other it returns  *)
(* an error or, where the block Faults, ends the process.                  *)
FreeTakesUsed ==
  process = "pool" =>
    \A node \in Address :
      LET block == GetBlock(node) IN
        ~Faults(block) /\ IsUsedBlock(block)
          <=> node \in {mem + b + kNodeOffset : b \in Used}

(* The pool never hands out a node in use, a call of Free that returns has *)
(* taken back one node in use or none and says which, one that does not    *)
(* return has taken back none, and the pool is exhausted only when all     *)
(* max_node_num nodes are in use.                                          *)
Pool == INSTANCE NodePool WITH
          Nodes <- Blocks, used <- IF exist THEN Used ELSE {}
ImplementsPool == Pool!Spec

-----------------------------------------------------------------------------
(* fixed_mem_pool.cpp:12, "init head": Init sets up the header, so a later *)
(* process that maps the same segment and passes the same arguments with   *)
(* check_header takes the pool over.                                       *)
ReattachSucceeds ==
  [][InitCheckHeader /\ header.max_size # 0 => process' = "pool"]_vars
=============================================================================
