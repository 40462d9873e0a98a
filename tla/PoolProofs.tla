----------------------------- MODULE PoolProofs -----------------------------
(***************************************************************************)
(* The free list of the pool, for any number and size of nodes, wherever   *)
(* the segment is mapped, and any sequence of allocations, frees of any    *)
(* address, exits and attachments; and that the pool implements NodePool.  *)
(***************************************************************************)
EXTENDS FixedMemPool, FiniteSetTheorems, TLAPS

(* The carved blocks that are not in use. *)
FreeBlocks == Carved \ Used

(* list runs once through S, each block pointing to the one after it.      *)
Linked(n, list, S, first, nx) ==
  /\ list \in [1 .. n -> S]
  /\ \A i, j \in 1 .. n : list[i] = list[j] => i = j
  /\ \A b \in S : \E i \in 1 .. n : list[i] = b
  /\ first = (IF n = 0 THEN kInvalidPointer ELSE list[1])
  /\ \A i \in 1 .. n : nx[list[i]] = (IF i = n THEN kInvalidPointer ELSE list[i + 1])

ChainInv ==
  process = "pool" =>
    \E n \in Nat : \E list \in [1 .. n -> FreeBlocks] :
      Linked(n, list, FreeBlocks, header.free_list_offset, next)

PInv == PoolTypeOK /\ ChainInv

-----------------------------------------------------------------------------
(* Offsets.  Blocks are spaced by the block size, which is at least 8. *)
LEMMA Product ==
  ASSUME NEW a \in Nat, NEW b \in Nat, NEW c \in Nat, c > 0
  PROVE  /\ a * c \in Nat /\ (a + 1) * c = a * c + c
         /\ a < b <=> a * c < b * c
<1>1. a * c \in Nat /\ b * c \in Nat /\ (a + 1) * c = a * c + c
  OBVIOUS
<1>2. ASSUME a < b PROVE a * c < b * c
  <2>1. b * c - a * c = (b - a) * c
    OBVIOUS
  <2>2. (b - a) * c > 0
    BY <1>2
  <2> QED BY <1>1, <2>1, <2>2
<1>3. ASSUME b <= a PROVE b * c <= a * c
  <2>1. a * c - b * c = (a - b) * c
    OBVIOUS
  <2>2. (a - b) * c >= 0
    BY <1>3
  <2> QED BY <1>1, <2>1, <2>2
<1> QED BY <1>1, <1>2, <1>3

LEMMA Sizes ==
  /\ GetBlockSize \in Nat /\ GetBlockSize >= 8
  /\ HeadSize \in Nat /\ HeadSize > 0 /\ max_node_num \in Nat /\ max_node_num > 0
  /\ GetAllocSize = Block(max_node_num)
<1>1. GetBlockSize \in Nat /\ GetBlockSize >= 8
  BY PoolAssumption DEF GetBlockSize
<1> QED BY <1>1, PoolAssumption DEF GetAllocSize, Block

LEMMA BlockOffsets ==
  ASSUME NEW i \in Nat, NEW j \in Nat
  PROVE  /\ Block(i) \in Nat /\ Block(i) >= HeadSize /\ Block(i) > 0
         /\ Block(i + 1) = Block(i) + GetBlockSize
         /\ i < j <=> Block(i) < Block(j)
         /\ i = j <=> Block(i) = Block(j)
<1> DEFINE s == GetBlockSize
<1>1. s \in Nat /\ s > 0 /\ HeadSize \in Nat /\ HeadSize > 0
  BY Sizes
<1>2. /\ Block(i) = HeadSize + i * s /\ Block(j) = HeadSize + j * s
      /\ Block(i + 1) = HeadSize + (i + 1) * s
  BY DEF Block
<1> HIDE DEF s
<1>3. /\ i * s \in Nat /\ j * s \in Nat /\ (i + 1) * s = i * s + s
      /\ i < j <=> i * s < j * s
      /\ j < i <=> j * s < i * s
  BY <1>1, Product
<1>4. Block(i) \in Nat /\ Block(i) >= HeadSize /\ Block(i) > 0
  BY <1>1, <1>2, <1>3
<1>5. Block(i + 1) = Block(i) + s
  BY <1>1, <1>2, <1>3
<1>6. (i < j <=> Block(i) < Block(j)) /\ (i = j <=> Block(i) = Block(j))
  BY <1>1, <1>2, <1>3
<1> QED BY <1>4, <1>5, <1>6 DEF s

(* Remainders: a block boundary is one at which the remainder is that of   *)
(* the first block. *)
LEMMA OneRemainder ==
  ASSUME NEW b \in Nat, b > 0, NEW q \in Int, NEW r \in 0 .. b - 1,
         NEW u \in Int, NEW v \in 0 .. b - 1, q * b + r = u * b + v
  PROVE  r = v
<1>1. ASSUME NEW x \in Int, NEW y \in Int, x < y PROVE x * b + b <= y * b
  <2>1. y * b - x * b = (y - x) * b
    OBVIOUS
  <2>2. (y - x) * b >= b
    BY <1>1
  <2>3. x * b \in Int /\ y * b \in Int
    OBVIOUS
  <2> QED BY <2>1, <2>2, <2>3
<1>2. q * b \in Int /\ u * b \in Int
  OBVIOUS
<1>3. CASE q < u
  <2>1. q * b + b <= u * b
    BY <1>1, <1>3
  <2> QED BY <1>2, <2>1
<1>4. CASE u < q
  <2>1. u * b + b <= q * b
    BY <1>1, <1>4
  <2> QED BY <1>2, <2>1
<1>5. CASE q = u
  BY <1>2, <1>5
<1> QED BY <1>3, <1>4, <1>5

LEMMA Remainders ==
  ASSUME NEW b \in Nat, b > 1, NEW h \in Nat, NEW i \in Nat
  PROVE  (h + i * b) % b = h % b
<1>1. ASSUME NEW x \in Nat
      PROVE  x % b \in 0 .. b - 1 /\ x \div b \in Int /\ x = (x \div b) * b + (x % b)
  OBVIOUS
<1>2. i * b \in Nat /\ h + i * b \in Nat
  OBVIOUS
<1>3. (h + i * b) % b = h % b
  <2> DEFINE q == (h + i * b) \div b
             r == (h + i * b) % b
             u == (h \div b) + i
             v == h % b
  <2>1. /\ q \in Int /\ r \in 0 .. b - 1 /\ h + i * b = q * b + r
        /\ h \div b \in Int /\ v \in 0 .. b - 1 /\ h = (h \div b) * b + v
    BY <1>1, <1>2
  <2>2. u \in Int /\ u * b = (h \div b) * b + i * b
    BY <2>1
  <2>3. (h \div b) * b \in Int
    BY <2>1
  <2> HIDE DEF q, r, u, v
  <2>4. q * b + r = u * b + v
    BY <2>1, <2>2, <2>3, <1>2
  <2>5. q \in Int /\ u \in Int /\ r \in 0 .. b - 1 /\ v \in 0 .. b - 1
    BY <2>1, <2>2
  <2>6. r = v
    BY <2>4, <2>5, OneRemainder
  <2> QED BY <2>6 DEF r, v
<1> QED BY <1>3

(* Sizes and addresses are numbers below AddressSpace, and a difference or *)
(* a sum of two wraps at most once. *)
LEMMA Wraps ==
  ASSUME NEW n \in Int, AddressSpace > 0
  PROVE  /\ 0 <= n /\ n < AddressSpace => Size_t(n) = n
         /\ -AddressSpace <= n /\ n < 0 => Size_t(n) = n + AddressSpace
         /\ AddressSpace <= n /\ n < 2 * AddressSpace => Size_t(n) = n - AddressSpace
<1> DEFINE b == AddressSpace
           q == n \div b
           r == n % b
<1>1. b \in Nat /\ b > 0
  BY AddressAssumption
<1>2. q \in Int /\ r \in 0 .. b - 1 /\ n = q * b + r
  <2> HIDE DEF b
  <2> QED BY <1>1
<1>3. Size_t(n) = r
  BY DEF Size_t
<1> HIDE DEF b, q, r
<1>4. ASSUME NEW u \in Int, NEW v \in 0 .. b - 1, n = u * b + v PROVE r = v
  BY <1>1, <1>2, <1>4, OneRemainder
<1>5. ASSUME 0 <= n, n < b PROVE r = n
  <2>1. n \in 0 .. b - 1 /\ n = 0 * b + n
    BY <1>1, <1>5
  <2> QED BY <2>1, <1>4
<1>6. ASSUME -b <= n, n < 0 PROVE r = n + b
  <2>1. n + b \in 0 .. b - 1 /\ n = (-1) * b + (n + b) /\ -1 \in Int
    BY <1>1, <1>6
  <2> QED BY <2>1, <1>4
<1>7. ASSUME b <= n, n < 2 * b PROVE r = n - b
  <2>1. n - b \in 0 .. b - 1 /\ n = 1 * b + (n - b)
    BY <1>1, <1>7
  <2> QED BY <2>1, <1>4
<1> QED BY <1>3, <1>5, <1>6, <1>7 DEF b

LEMMA Space ==
  /\ AddressSpace \in Nat /\ GetAllocSize \in Nat /\ 0 < GetAllocSize
  /\ GetAllocSize < AddressSpace
  /\ kInvalidPointer = AddressSpace - 1
  /\ kInvalidPointer \in Nat /\ kInvalidPointer # 0
  /\ \A a \in Addresses : a \in Nat /\ a + GetAllocSize + GetBlockSize < AddressSpace
<1>1. GetAllocSize \in Nat /\ GetAllocSize > 0
  BY Sizes, BlockOffsets
<1>2. AddressSpace \in Nat /\ GetAllocSize < AddressSpace
  BY AddressAssumption
<1>3. -1 \in Int /\ AddressSpace > 0 /\ -AddressSpace <= -1
  BY <1>1, <1>2
<1>4. Size_t(-1) = -1 + AddressSpace
  BY <1>3, Wraps
<1>5. /\ kInvalidPointer = AddressSpace - 1
      /\ kInvalidPointer \in Nat /\ kInvalidPointer # 0
  BY <1>1, <1>2, <1>4 DEF kInvalidPointer
<1> QED BY <1>1, <1>2, <1>5, AddressAssumption

LEMMA BlocksAreNat ==
  ASSUME NEW b \in Blocks
  PROVE  b \in Nat /\ b >= HeadSize /\ b > 0 /\ b < GetAllocSize /\ b # kInvalidPointer
<1>1. PICK i \in 0 .. max_node_num - 1 : b = Block(i)
  BY DEF Blocks
<1>2. i \in Nat /\ max_node_num \in Nat /\ i < max_node_num
  BY <1>1, Sizes
<1>3. Block(i) < Block(max_node_num)
  BY <1>2, BlockOffsets
<1>4. b \in Nat /\ b >= HeadSize /\ b > 0 /\ b < GetAllocSize
  BY <1>1, <1>2, <1>3, Sizes, BlockOffsets
<1> QED BY <1>4, Space

(* What has been carved, by number. *)
LEMMA CarvedBlocks ==
  ASSUME PoolTypeOK, process = "pool"
  PROVE  /\ Carved \subseteq Blocks
         /\ \A i \in 0 .. max_node_num - 1 : Block(i) \in Carved <=> i < header.used_node_num
<1>1. header.used_node_num \in Nat /\ header.used_size = Block(header.used_node_num)
  BY Sizes DEF PoolTypeOK
<1>2. ASSUME NEW i \in 0 .. max_node_num - 1
      PROVE  Block(i) \in Carved <=> i < header.used_node_num
  <2>1. Block(i) \in Blocks /\ i \in Nat
    BY Sizes DEF Blocks
  <2> QED BY <1>1, <2>1, BlockOffsets DEF Carved
<1> QED BY <1>2 DEF Carved

-----------------------------------------------------------------------------
(* Taking the first block off a list, and putting one in front of it. *)
LEMMA Pop ==
  ASSUME NEW n \in Nat, NEW S, NEW list \in [1 .. n -> S], NEW first, NEW nx, NEW ny,
         kInvalidPointer \notin S, first # kInvalidPointer,
         Linked(n, list, S, first, nx),
         \A b \in S : b # first => ny[b] = nx[b]
  PROVE  /\ first \in S
         /\ \E m \in Nat : \E rest \in [1 .. m -> S \ {first}] :
              Linked(m, rest, S \ {first}, nx[first], ny)
<1>1. n # 0 /\ first = list[1] /\ 1 \in 1 .. n
  BY DEF Linked
<1>2. first \in S
  BY <1>1
<1> DEFINE m == n - 1
           rest == [i \in 1 .. m |-> list[i + 1]]
<1>3. /\ m \in Nat
      /\ \A i \in 1 .. m : i + 1 \in 1 .. n /\ i + 1 # 1 /\ (i = m <=> i + 1 = n)
      /\ \A i \in 1 .. n : i # 1 => i - 1 \in 1 .. m /\ (i - 1) + 1 = i
      /\ m = 0 <=> 1 = n
      /\ m # 0 => 1 \in 1 .. m
  BY <1>1
<1>4. \A i \in 1 .. m : rest[i] = list[i + 1]
  OBVIOUS
<1> HIDE DEF m
<1>5. \A i \in 1 .. m : list[i + 1] \in S \ {first}
  <2> TAKE i \in 1 .. m
  <2>1. i + 1 \in 1 .. n /\ i + 1 # 1
    BY <1>3
  <2>2. list[i + 1] # list[1]
    BY <2>1, <1>1 DEF Linked
  <2> QED BY <2>1, <2>2, <1>1
<1>6. rest \in [1 .. m -> S \ {first}]
  BY <1>5
<1> HIDE DEF rest
<1>7. ASSUME NEW i \in 1 .. m, NEW j \in 1 .. m, rest[i] = rest[j] PROVE i = j
  <2>1. i + 1 \in 1 .. n /\ j + 1 \in 1 .. n /\ list[i + 1] = list[j + 1]
    BY <1>3, <1>4, <1>7
  <2>2. i + 1 = j + 1
    BY <2>1 DEF Linked
  <2> QED BY <2>2
<1>8. ASSUME NEW b \in S \ {first} PROVE \E i \in 1 .. m : rest[i] = b
  <2>1. PICK i \in 1 .. n : list[i] = b
    BY DEF Linked
  <2>2. i # 1
    BY <2>1, <1>1
  <2>3. i - 1 \in 1 .. m /\ rest[i - 1] = b
    BY <2>1, <2>2, <1>3, <1>4
  <2> QED BY <2>3
<1>9. nx[first] = (IF m = 0 THEN kInvalidPointer ELSE rest[1])
  <2>1. nx[first] = (IF 1 = n THEN kInvalidPointer ELSE list[1 + 1])
    BY <1>1 DEF Linked
  <2>2. m # 0 => rest[1] = list[1 + 1]
    BY <1>3, <1>4
  <2> QED BY <2>1, <2>2, <1>3
<1>10. ASSUME NEW i \in 1 .. m
       PROVE  ny[rest[i]] = (IF i = m THEN kInvalidPointer ELSE rest[i + 1])
  <2>1. i + 1 \in 1 .. n /\ (i = m <=> i + 1 = n) /\ rest[i] = list[i + 1]
    BY <1>3, <1>4
  <2>2. ny[rest[i]] = nx[list[i + 1]]
    BY <2>1, <1>5
  <2>3. nx[list[i + 1]] = (IF i + 1 = n THEN kInvalidPointer ELSE list[(i + 1) + 1])
    BY <2>1 DEF Linked
  <2>4. i # m => i + 1 \in 1 .. m
    BY <1>3
  <2>5. i # m => rest[i + 1] = list[(i + 1) + 1]
    BY <2>4, <1>4
  <2> QED BY <2>1, <2>2, <2>3, <2>5
<1>11. Linked(m, rest, S \ {first}, nx[first], ny)
  BY <1>6, <1>7, <1>8, <1>9, <1>10 DEF Linked
<1> QED BY <1>2, <1>3, <1>6, <1>11

LEMMA Push ==
  ASSUME NEW n \in Nat, NEW S, NEW list \in [1 .. n -> S], NEW first, NEW nx, NEW ny,
         NEW p, p \notin S,
         Linked(n, list, S, first, nx),
         ny[p] = first, \A b \in S : ny[b] = nx[b]
  PROVE  \E m \in Nat : \E longer \in [1 .. m -> S \union {p}] :
           Linked(m, longer, S \union {p}, p, ny)
<1> DEFINE m == n + 1
           longer == [i \in 1 .. m |-> IF i = 1 THEN p ELSE list[i - 1]]
<1>1. /\ m \in Nat /\ m # 0 /\ 1 \in 1 .. m
      /\ \A i \in 1 .. m : i # 1 => i - 1 \in 1 .. n
      /\ \A i \in 1 .. m : i # m => i + 1 \in 1 .. m /\ i + 1 # 1 /\ (i + 1) - 1 = i
      /\ \A i \in 1 .. n : i + 1 \in 1 .. m /\ i + 1 # 1 /\ (i + 1) - 1 = i
      /\ \A i \in 1 .. m : i = m <=> i - 1 = n
      /\ n = 0 <=> 1 = m
  OBVIOUS
<1>2. /\ longer[1] = p
      /\ \A i \in 1 .. m : i # 1 => longer[i] = list[i - 1]
  BY <1>1
<1>3. longer \in [1 .. m -> S \union {p}]
  BY <1>1
<1> HIDE DEF m, longer
<1>4. \A i \in 1 .. m : i # 1 => longer[i] \in S
  BY <1>1, <1>2
<1>5. ASSUME NEW i \in 1 .. m, NEW j \in 1 .. m, longer[i] = longer[j] PROVE i = j
  <2>1. i = 1 <=> j = 1
    BY <1>2, <1>4, <1>5
  <2>2. CASE i # 1
    <3>1. i - 1 \in 1 .. n /\ j - 1 \in 1 .. n /\ list[i - 1] = list[j - 1]
      BY <2>1, <2>2, <1>1, <1>2, <1>5
    <3>2. i - 1 = j - 1
      BY <3>1 DEF Linked
    <3> QED BY <3>2
  <2> QED BY <2>1, <2>2
<1>6. ASSUME NEW b \in S \union {p} PROVE \E i \in 1 .. m : longer[i] = b
  <2>1. CASE b = p
    BY <2>1, <1>1, <1>2
  <2>2. CASE b \in S
    <3>1. PICK i \in 1 .. n : list[i] = b
      BY <2>2 DEF Linked
    <3>2. i + 1 \in 1 .. m /\ longer[i + 1] = b
      BY <3>1, <1>1, <1>2
    <3> QED BY <3>2
  <2> QED BY <2>1, <2>2
<1>7. ASSUME NEW i \in 1 .. m
      PROVE  ny[longer[i]] = (IF i = m THEN kInvalidPointer ELSE longer[i + 1])
  <2>0. i # m => longer[i + 1] = list[i]
    BY <1>1, <1>2
  <2>1. CASE i = 1
    <3>1. ny[longer[i]] = (IF n = 0 THEN kInvalidPointer ELSE list[1])
      BY <2>1, <1>2 DEF Linked
    <3> QED BY <3>1, <2>0, <2>1, <1>1
  <2>2. CASE i # 1
    <3>1. i - 1 \in 1 .. n /\ longer[i] = list[i - 1] /\ longer[i] \in S
      BY <2>2, <1>1, <1>2, <1>4
    <3>2. nx[list[i - 1]] = (IF i - 1 = n THEN kInvalidPointer ELSE list[(i - 1) + 1])
      BY <3>1 DEF Linked
    <3>3. (i - 1) + 1 = i
      OBVIOUS
    <3> QED BY <3>1, <3>2, <3>3, <2>0, <1>1
  <2> QED BY <2>1, <2>2
<1>8. Linked(m, longer, S \union {p}, p, ny)
  BY <1>1, <1>2, <1>3, <1>5, <1>6, <1>7 DEF Linked
<1> QED BY <1>1, <1>3, <1>8
-----------------------------------------------------------------------------
(* Which addresses the pool takes for valid.  IsValidBlock, as it is meant *)
(* and by offset: *)
ValidOffset(p) ==
  /\ p >= HeadSize
  /\ p + header.block_size <= header.used_size
  /\ p % header.block_size = HeadSize % header.block_size

LEMMA UsedSize ==
  ASSUME PoolTypeOK, process = "pool"
  PROVE  /\ header.used_size \in Nat /\ header.used_size <= GetAllocSize
         /\ header.block_size \in Nat /\ header.block_size > 0
<1> DEFINE k == header.used_node_num
<1>1. /\ k \in Nat /\ max_node_num \in Nat /\ k <= max_node_num
      /\ header.used_size = Block(k)
  BY Sizes DEF PoolTypeOK
<1> HIDE DEF k
<1>2. Block(k) \in Nat /\ Block(max_node_num) \in Nat /\ ~(Block(max_node_num) < Block(k))
  BY <1>1, BlockOffsets
<1>3. header.block_size \in Nat /\ header.block_size > 0
  BY Sizes DEF PoolTypeOK
<1> QED BY <1>1, <1>2, <1>3, Sizes

LEMMA ValidOffsets ==
  ASSUME PoolTypeOK, process = "pool", NEW p \in 0 .. GetAllocSize
  PROVE  /\ IsValidBlock(GetAddrOfOffset(p)) <=> ValidOffset(p)
         /\ GetOffsetFromHead(GetAddrOfOffset(p)) = p
         /\ ~Faults(GetAddrOfOffset(p))
<1> DEFINE s == header.block_size
           u == header.used_size
<1>1. /\ mem \in Nat /\ mem + GetAllocSize + s < AddressSpace /\ s \in Nat
      /\ GetAllocSize \in Nat /\ AddressSpace \in Nat /\ HeadSize \in Nat
  BY Space, Sizes DEF PoolTypeOK
<1>2. u \in Nat /\ u <= GetAllocSize
  BY UsedSize
<1> HIDE DEF s, u
<1>3. p \in Nat /\ p <= GetAllocSize
  BY <1>1
<1>4. /\ Size_t(mem + p + s) = mem + p + s /\ Size_t(mem + u) = mem + u
      /\ Size_t(p) = p
  BY <1>1, <1>2, <1>3, Wraps
<1>5. GetAddrOfOffset(p) = mem + p /\ (mem + p) - mem = p /\ mem + p \in Nat
  BY <1>1, <1>3 DEF GetAddrOfOffset
<1>6. GetOffsetFromHead(mem + p) = p
  BY <1>4, <1>5 DEF GetOffsetFromHead
<1>7. IsValidBlock(mem + p) <=> ValidOffset(p)
  <2>1. mem + p >= m_data <=> p >= HeadSize
    BY <1>1, <1>3 DEF m_data
  <2>2. mem + p + s <= mem + u <=> p + s <= u
    BY <1>1, <1>2, <1>3
  <2> QED BY <1>4, <1>6, <2>1, <2>2 DEF IsValidBlock, ValidOffset, s, u
<1>8. ~Faults(mem + p)
  BY <1>1, <1>3 DEF Faults, s
<1> QED BY <1>5, <1>6, <1>7, <1>8

LEMMA ValidIsCarved ==
  ASSUME PoolTypeOK, process = "pool", NEW p \in Nat
  PROVE  ValidOffset(p) <=> p \in Carved
<1> DEFINE k == header.used_node_num
           s == GetBlockSize
<1>1. /\ k \in 0 .. max_node_num /\ k \in Nat /\ header.used_size = Block(k)
      /\ header.block_size = s
  BY Sizes DEF PoolTypeOK
<1>2. s \in Nat /\ s > 1 /\ HeadSize \in Nat /\ max_node_num \in Nat
  BY Sizes
<1>3. \A i \in Nat : /\ Block(i) = HeadSize + i * s /\ Block(i) \in Nat
                     /\ Block(i + 1) = Block(i) + s
  BY BlockOffsets DEF Block
<1>4. \A i \in 0 .. max_node_num - 1 : Block(i) \in Carved <=> i < k
  BY CarvedBlocks
<1> HIDE DEF k, s
<1>5. ASSUME NEW i \in Nat PROVE Block(i) + s <= Block(k) <=> i < k
  <2>1. k < i + 1 <=> Block(k) < Block(i + 1)
    BY <1>1, BlockOffsets
  <2>2. Block(k) \in Nat /\ Block(i + 1) \in Nat /\ Block(i + 1) = Block(i) + s
    BY <1>1, <1>3
  <2> QED BY <2>1, <2>2, <1>1
<1>6. ASSUME p \in Carved PROVE ValidOffset(p)
  <2>1. PICK i \in 0 .. max_node_num - 1 : p = Block(i)
    BY <1>6 DEF Carved, Blocks
  <2>2. i \in Nat /\ i < k
    BY <1>2, <1>4, <1>6, <2>1
  <2>3. p + s <= Block(k) /\ p >= HeadSize
    BY <2>1, <2>2, <1>5, BlockOffsets
  <2>4. p % s = HeadSize % s
    <3>1. (HeadSize + i * s) % s = HeadSize % s
      BY <2>2, <1>2, Remainders
    <3> QED BY <3>1, <2>1, <2>2, <1>3
  <2> QED BY <2>3, <2>4, <1>1 DEF ValidOffset
<1>7. ASSUME ValidOffset(p) PROVE p \in Carved
  <2> DEFINE q == p \div s
             v == HeadSize \div s
             r == p % s
  <2>1. p >= HeadSize /\ p + s <= Block(k) /\ p % s = HeadSize % s
    BY <1>1, <1>7 DEF ValidOffset
  <2>2. /\ q \in Int /\ v \in Int /\ r \in 0 .. s - 1
        /\ p = q * s + r /\ HeadSize = v * s + r
    BY <1>2, <2>1
  <2> HIDE DEF q, v, r
  <2>3. p - HeadSize = (q - v) * s
    <3>1. (q - v) * s = q * s - v * s /\ q * s \in Int /\ v * s \in Int
      BY <1>2, <2>2
    <3> QED BY <3>1, <1>2, <2>2
  <2>4. q - v \in Nat
    <3>1. ASSUME q - v < 0 PROVE FALSE
      <4>1. (q - v) * s < 0
        BY <3>1, <1>2, <2>2
      <4> QED BY <4>1, <1>2, <2>1, <2>3
    <3> QED BY <3>1, <2>2
  <2>5. PICK i \in Nat : i = q - v
    BY <2>4
  <2>6. p = Block(i)
    <3>1. i * s \in Nat /\ p - HeadSize = i * s
      BY <1>2, <2>3, <2>5
    <3> QED BY <3>1, <1>2, <1>3
  <2>7. i < k
    BY <2>1, <2>6, <1>5
  <2>8. i \in 0 .. max_node_num - 1
    BY <2>7, <1>1, <1>2
  <2> QED BY <2>6, <2>7, <2>8, <1>4
<1> QED BY <1>6, <1>7

(* An address below the header has an offset beyond the segment, one that  *)
(* passes because its end wraps faults: the others that are taken for      *)
(* valid are those of the carved blocks. *)
LEMMA ValidAddresses ==
  ASSUME PoolTypeOK, process = "pool", NEW block \in Address
  PROVE  IsValidBlock(block) /\ ~Faults(block) <=> GetOffsetFromHead(block) \in Carved
<1> DEFINE o == GetOffsetFromHead(block)
           s == header.block_size
<1>1. /\ mem \in Nat /\ mem + GetAllocSize + s < AddressSpace /\ s \in Nat
      /\ GetAllocSize \in Nat /\ AddressSpace \in Nat /\ HeadSize \in Nat
      /\ block \in Nat /\ block < AddressSpace
  BY Space, Sizes DEF PoolTypeOK, Address
<1>2. \A b \in Carved : b \in Nat /\ b < GetAllocSize
  BY BlocksAreNat DEF Carved
<1> HIDE DEF s
<1>3. CASE block < mem
  <2>1. ~IsValidBlock(block)
    BY <1>1, <1>3 DEF IsValidBlock, m_data
  <2>2. o = (block - mem) + AddressSpace
    <3>1. block - mem \in Int /\ -AddressSpace <= block - mem /\ block - mem < 0
      BY <1>1, <1>3
    <3> QED BY <3>1, <1>1, Wraps DEF GetOffsetFromHead
  <2> HIDE DEF o
  <2>3. o > GetAllocSize
    BY <1>1, <1>3, <2>2
  <2>4. o \notin Carved
    BY <1>1, <1>2, <2>2, <2>3
  <2> QED BY <2>1, <2>4 DEF o
<1>4. CASE block >= mem
  <2>1. o = block - mem /\ o \in Nat
    <3>1. block - mem \in Int /\ 0 <= block - mem /\ block - mem < AddressSpace
      BY <1>1, <1>4
    <3> QED BY <3>1, <1>1, Wraps DEF GetOffsetFromHead
  <2> HIDE DEF o
  <2>2. block = GetAddrOfOffset(o)
    BY <1>1, <2>1 DEF GetAddrOfOffset
  <2>3. ASSUME IsValidBlock(block), ~Faults(block) PROVE o \in Carved
    <3>1. block + s < AddressSpace
      BY <1>1, <2>3 DEF Faults, s
    <3>2. header.used_size \in Nat /\ header.used_size <= GetAllocSize
      BY UsedSize
    <3>3. Size_t(block + s) = block + s /\ Size_t(mem + header.used_size) = mem + header.used_size
      BY <1>1, <3>1, <3>2, Wraps
    <3>4. /\ block >= mem + HeadSize
          /\ block + s <= mem + header.used_size
          /\ o % s = HeadSize % s
      BY <2>3, <3>3 DEF IsValidBlock, m_data, o, s
    <3>5. o >= HeadSize /\ o + s <= header.used_size
      BY <1>1, <2>1, <3>2, <3>4
    <3>6. ValidOffset(o)
      BY <3>4, <3>5 DEF ValidOffset, s
    <3> QED BY <2>1, <3>6, ValidIsCarved
  <2>4. ASSUME o \in Carved PROVE IsValidBlock(block) /\ ~Faults(block)
    <3>1. o \in 0 .. GetAllocSize
      BY <1>1, <1>2, <2>4
    <3>2. ValidOffset(o)
      BY <2>1, <2>4, ValidIsCarved
    <3> QED BY <2>2, <3>1, <3>2, ValidOffsets
  <2> QED BY <2>3, <2>4 DEF o
<1> QED BY <1>1, <1>3, <1>4

(* The blocks of nodes are addresses, and of the pool's own nodes those    *)
(* with the right offsets. *)
LEMMA OffsetOfNode ==
  ASSUME PoolTypeOK, process = "pool", NEW node \in Address
  PROVE  /\ GetBlock(node) \in Address
         /\ \A b \in Blocks :
              GetOffsetFromHead(GetBlock(node)) = b <=> node = mem + b + kNodeOffset
<1> DEFINE block == GetBlock(node)
           o == GetOffsetFromHead(block)
<1>1. /\ mem \in Nat /\ mem + GetAllocSize + GetBlockSize < AddressSpace
      /\ GetBlockSize \in Nat /\ GetBlockSize >= 8
      /\ GetAllocSize \in Nat /\ AddressSpace \in Nat
      /\ node \in Nat /\ node < AddressSpace /\ kNodeOffset = 8
  BY Space, Sizes, PoolAssumption DEF PoolTypeOK, Address
<1>2. ASSUME NEW b \in Blocks PROVE b \in Nat /\ b < GetAllocSize
  BY BlocksAreNat
<1>3. CASE node < 8
  <2>1. block = (node - 8) + AddressSpace
    <3>1. node - 8 \in Int /\ -AddressSpace <= node - 8 /\ node - 8 < 0
      BY <1>1, <1>3
    <3> QED BY <3>1, <1>1, Wraps DEF GetBlock
  <2> HIDE DEF block
  <2>2. o = (node - 8) + AddressSpace - mem
    <3>1. block - mem \in Int /\ 0 <= block - mem /\ block - mem < AddressSpace
      BY <1>1, <1>3, <2>1
    <3> QED BY <3>1, <2>1, <1>1, Wraps DEF GetOffsetFromHead
  <2> HIDE DEF o
  <2>3. block \in Address
    BY <1>1, <1>3, <2>1 DEF Address
  <2>4. ASSUME NEW b \in Blocks PROVE o # b /\ node # mem + b + kNodeOffset
    BY <1>1, <1>2, <1>3, <2>2
  <2> QED BY <2>3, <2>4 DEF o, block
<1>4. CASE node >= 8
  <2>1. block = node - 8
    <3>1. node - 8 \in Int /\ 0 <= node - 8 /\ node - 8 < AddressSpace
      BY <1>1, <1>4
    <3> QED BY <3>1, <1>1, Wraps DEF GetBlock
  <2> HIDE DEF block
  <2>2. block \in Address /\ block \in Nat
    BY <1>1, <1>4, <2>1 DEF Address
  <2>3. CASE block >= mem
    <3>1. o = block - mem
      <4>1. block - mem \in Int /\ 0 <= block - mem /\ block - mem < AddressSpace
        BY <1>1, <2>1, <2>2, <2>3
      <4> QED BY <4>1, <1>1, Wraps DEF GetOffsetFromHead
    <3> HIDE DEF o
    <3>2. ASSUME NEW b \in Blocks PROVE o = b <=> node = mem + b + kNodeOffset
      BY <1>1, <1>2, <2>1, <3>1
    <3> QED BY <2>2, <3>2 DEF o, block
  <2>4. CASE block < mem
    <3>1. o = (block - mem) + AddressSpace
      <4>1. block - mem \in Int /\ -AddressSpace <= block - mem /\ block - mem < 0
        BY <1>1, <2>1, <2>2, <2>4
      <4> QED BY <4>1, <1>1, Wraps DEF GetOffsetFromHead
    <3> HIDE DEF o
    <3>2. ASSUME NEW b \in Blocks PROVE o # b /\ node # mem + b + kNodeOffset
      BY <1>1, <1>2, <2>1, <2>2, <2>4, <3>1
    <3> QED BY <2>2, <3>2 DEF o, block
  <2> QED BY <1>1, <2>2, <2>3, <2>4
<1> QED BY <1>1, <1>3, <1>4

(* So Free takes an address for that of a node in use when it is one. *)
LEMMA UsedAddresses ==
  ASSUME PoolTypeOK, process = "pool", NEW block \in Address, ~Faults(block)
  PROVE  IsUsedBlock(block) <=> GetOffsetFromHead(block) \in Used
BY ValidAddresses DEF IsUsedBlock, Used
-----------------------------------------------------------------------------
(* The invariant, action by action. *)
LEMMA InitPInv == Init => PInv
<1> SUFFICES ASSUME Init PROVE PInv
  OBVIOUS
<1>1. header \in MemHeader
  BY DEF Init, ZeroHeader, MemHeader
<1>2. next \in [Blocks -> Blocks \union {0, kInvalidPointer}]
  BY DEF Init
<1> QED BY <1>1, <1>2 DEF Init, PInv, PoolTypeOK, ChainInv

LEMMA ShmInitStep == PInv /\ (ShmInit \/ ShmInitFails) => PInv'
<1> SUFFICES ASSUME PInv, ShmInit \/ ShmInitFails PROVE PInv'
  OBVIOUS
<1>1. header' \in MemHeader
  BY DEF PInv, PoolTypeOK, ShmInit, ShmInitFails, ZeroHeader, MemHeader
<1>2. next' \in [Blocks -> Blocks \union {0, kInvalidPointer}]
  BY DEF PInv, PoolTypeOK, ShmInit, ShmInitFails
<1>3. /\ exist' = TRUE /\ ret' = ret /\ process' \in {"none", "mapped"}
      /\ IF process' = "none" THEN mem' = 0 ELSE mem' \in Addresses
  BY DEF ShmInit, ShmInitFails, PInv, PoolTypeOK
<1>4. ret \in Blocks \union {0, -1}
  BY DEF PInv, PoolTypeOK
<1>5. process' # "pool"
  BY <1>3
<1>6. PoolTypeOK'
  BY <1>1, <1>2, <1>3, <1>4, <1>5 DEF PoolTypeOK
<1> QED BY <1>5, <1>6 DEF PInv, ChainInv

LEMMA LeaveStep == PInv /\ (ShmDelete \/ Exit \/ InitCheckHeader) => PInv'
<1> SUFFICES ASSUME PInv, ShmDelete \/ Exit \/ InitCheckHeader PROVE PInv'
  OBVIOUS
<1>1. ~CheckHeader
  BY PoolAssumption DEF CheckHeader, PInv, PoolTypeOK, MemHeader
<1>2. /\ process' # "pool" /\ process' \in {"none", "mapped"}
      /\ exist' \in BOOLEAN
      /\ IF process' = "none" THEN mem' = 0 ELSE exist' /\ mem' \in Addresses
      /\ header' = header /\ next' = next /\ ret' \in {ret, -1}
  BY <1>1 DEF ShmDelete, Exit, InitCheckHeader, PInv, PoolTypeOK
<1> QED BY <1>2 DEF PInv, PoolTypeOK, ChainInv

(* With the list as it is before the step, the first block of a list that  *)
(* is not empty is not in use. *)
LEMMA NoMarkers ==
  PInv => /\ kInvalidPointer \notin FreeBlocks /\ 0 \notin FreeBlocks
          /\ FreeBlocks \subseteq Carved /\ Carved \subseteq Blocks
<1>1. FreeBlocks \subseteq Carved /\ Carved \subseteq Blocks
  BY DEF FreeBlocks, Carved
<1> QED BY <1>1, BlocksAreNat

LEMMA InitNewStep ==
  ASSUME PInv, InitNew
  PROVE  PInv' /\ Carved' = {}
<1>1. /\ header \in MemHeader /\ header' = InitHeader(header)
      /\ next' = next /\ process' = "pool" /\ exist' = exist /\ exist /\ ret' = 0
      /\ mem' = mem /\ mem \in Addresses
  BY DEF PInv, PoolTypeOK, InitNew
<1>2. /\ header'.max_size = GetAllocSize /\ header'.block_size = GetBlockSize
      /\ header'.used_node_num = 0 /\ header'.used_size = HeadSize
      /\ header'.free_list_offset = kInvalidPointer
      /\ header' \in [max_size : {GetAllocSize}, max_node_num : {max_node_num},
                      used_size : {HeadSize}, used_node_num : {0}, node_size : {0},
                      block_size : {GetBlockSize}, free_list_offset : {kInvalidPointer}]
  BY <1>1 DEF InitHeader, MemHeader
<1>3. /\ GetAllocSize \in Nat /\ GetBlockSize \in Nat /\ HeadSize \in Nat
      /\ Block(0) = HeadSize /\ kInvalidPointer \in Nat
  BY Sizes, BlockOffsets, Space DEF Block
<1>4. header' \in MemHeader
  BY <1>2, <1>3, Sizes DEF MemHeader
<1>5. PoolTypeOK'
  BY <1>1, <1>2, <1>3, <1>4, Sizes DEF PInv, PoolTypeOK
<1>6. Carved' = {} /\ FreeBlocks' = {}
  <2>1. ASSUME NEW b \in Blocks PROVE ~(b < HeadSize)
    <3>1. PICK i \in 0 .. max_node_num - 1 : b = Block(i)
      BY DEF Blocks
    <3>2. i \in Nat
      BY Sizes
    <3> QED BY <3>1, <3>2, <1>3, BlockOffsets
  <2> QED BY <1>2, <2>1 DEF FreeBlocks, Carved
<1>7. ChainInv'
  <2> DEFINE list == [i \in 1 .. 0 |-> 0]
  <2>1. list \in [1 .. 0 -> {}]
    OBVIOUS
  <2>2. Linked(0, list, {}, kInvalidPointer, next')
    BY <2>1 DEF Linked
  <2> HIDE DEF list
  <2>3. header'.free_list_offset = kInvalidPointer
    BY <1>2
  <2>4. Linked(0, list, FreeBlocks', header'.free_list_offset, next')
    BY <1>6, <2>2, <2>3
  <2>5. 0 \in Nat /\ list \in [1 .. 0 -> FreeBlocks']
    BY <1>6, <2>1
  <2> QED BY <2>4, <2>5 DEF ChainInv
<1> QED BY <1>5, <1>6, <1>7 DEF PInv
(* An allocation hands out a block that was not in use. *)
LEMMA AllocFreedStep ==
  ASSUME PInv, process = "pool", AllocFreed, UNCHANGED <<exist, process, mem>>
  PROVE  PInv' /\ ret' \in Blocks \ Used /\ Used' = Used \union {ret'}
<1> DEFINE p == header.free_list_offset
<1>1a. p # kInvalidPointer /\ header' = [header EXCEPT !.free_list_offset = next[p]]
  BY DEF AllocFreed
<1>2. /\ header \in MemHeader /\ next \in [Blocks -> Blocks \union {0, kInvalidPointer}]
  BY DEF PInv, PoolTypeOK
<1>3a. PICK n \in Nat : \E list \in [1 .. n -> FreeBlocks] :
        Linked(n, list, FreeBlocks, p, next)
  BY DEF PInv, ChainInv
<1>3. PICK list \in [1 .. n -> FreeBlocks] :
        Linked(n, list, FreeBlocks, p, next)
  BY <1>3a
<1>4. kInvalidPointer \notin FreeBlocks
  BY NoMarkers
<1>0. p \in FreeBlocks
  <2>1. n # 0 /\ 1 \in 1 .. n /\ p = list[1]
    BY <1>1a, <1>3 DEF Linked
  <2> QED BY <2>1
<1>0a. IsValidBlock(GetAddrOfOffset(p))
  <2>1. p \in Nat /\ p \in 0 .. GetAllocSize /\ p \in Carved
    BY <1>0, NoMarkers, BlocksAreNat, Space
  <2> HIDE DEF p
  <2>2. ValidOffset(p)
    BY <2>1, ValidIsCarved DEF PInv
  <2> QED BY <2>1, <2>2, ValidOffsets DEF PInv
<1>1. /\ p # kInvalidPointer /\ header' = [header EXCEPT !.free_list_offset = next[p]]
      /\ next' = [next EXCEPT ![p] = 0] /\ ret' = p
  BY <1>0a DEF AllocFreed
<1> HIDE DEF p
<1>5. \A b \in FreeBlocks : b # p => next'[b] = next[b]
  BY <1>1, <1>2, NoMarkers
<1>6. /\ p \in FreeBlocks
      /\ \E m \in Nat : \E rest \in [1 .. m -> FreeBlocks \ {p}] :
           Linked(m, rest, FreeBlocks \ {p}, next[p], next')
  <2>1. p # kInvalidPointer
    BY <1>1
  <2> QED BY <2>1, <1>3, <1>4, <1>5, Pop
<1>7. p \in Carved /\ p \in Blocks /\ p \notin Used /\ next[p] # 0 /\ p \in Nat
  BY <1>6, NoMarkers, BlocksAreNat DEF FreeBlocks, Used
<1>8. next[p] \in Nat
  <2>1. \A b \in Blocks \union {0, kInvalidPointer} : b \in Nat
    BY BlocksAreNat, Space
  <2>2. next[p] \in Blocks \union {0, kInvalidPointer}
    BY <1>2, <1>7
  <2> QED BY <2>1, <2>2
<1>9. /\ header' \in MemHeader /\ header'.free_list_offset = next[p]
      /\ header'.max_size = header.max_size /\ header'.block_size = header.block_size
      /\ header'.used_node_num = header.used_node_num /\ header'.used_size = header.used_size
  BY <1>1, <1>2, <1>8 DEF MemHeader
<1>10. /\ next' \in [Blocks -> Blocks \union {0, kInvalidPointer}]
       /\ next'[p] = 0 /\ \A b \in Blocks : b # p => next'[b] = next[b]
  BY <1>1, <1>2, <1>7
<1>11. Carved' = Carved
  BY <1>9 DEF Carved
<1>12. Used' = Used \union {p}
  <2>1. Used' = {b \in Carved : next'[b] = 0}
    BY <1>11 DEF Used
  <2>2. Carved \subseteq Blocks
    BY DEF Carved
  <2> QED BY <2>1, <2>2, <1>7, <1>10 DEF Used
<1>13. FreeBlocks' = FreeBlocks \ {p}
  BY <1>11, <1>12 DEF FreeBlocks
<1>14. PoolTypeOK'
  BY <1>1, <1>7, <1>9, <1>10 DEF PInv, PoolTypeOK
<1>15. ChainInv'
  BY <1>6, <1>9, <1>13 DEF ChainInv
<1> QED BY <1>1, <1>7, <1>12, <1>14, <1>15 DEF PInv

LEMMA AllocCarvedStep ==
  ASSUME PInv, process = "pool", AllocCarved, UNCHANGED <<exist, process, mem>>
  PROVE  PInv' /\ ret' \in Blocks \ Used /\ Used' = Used \union {ret'}
<1> DEFINE p == header.used_size
           k == header.used_node_num
<1>1. /\ header.free_list_offset = kInvalidPointer /\ Fits
      /\ header' = [header EXCEPT !.used_size = p + header.block_size,
                                  !.used_node_num = k + 1]
      /\ next' = [next EXCEPT ![p] = 0] /\ ret' = p
  BY DEF AllocCarved
<1>2. /\ header \in MemHeader /\ next \in [Blocks -> Blocks \union {0, kInvalidPointer}]
      /\ k \in 0 .. max_node_num /\ p = Block(k)
      /\ header.block_size = GetBlockSize /\ header.max_size = Block(max_node_num)
  BY Sizes DEF PInv, PoolTypeOK
<1>3a. PICK n \in Nat : \E list \in [1 .. n -> FreeBlocks] :
        Linked(n, list, FreeBlocks, kInvalidPointer, next)
  BY <1>1 DEF PInv, ChainInv
<1>3. PICK list \in [1 .. n -> FreeBlocks] :
        Linked(n, list, FreeBlocks, kInvalidPointer, next)
  BY <1>3a
<1>4. p + header.block_size <= header.max_size
  BY <1>1 DEF Fits
<1> HIDE DEF p, k
<1>5. k \in Nat /\ max_node_num \in Nat
  BY <1>2, Sizes
<1>6. Block(k + 1) = p + GetBlockSize /\ Block(k + 1) \in Nat /\ p \in Nat /\ p > 0
  BY <1>2, <1>5, BlockOffsets
<1>7. k < max_node_num
  <2>1. ~(Block(max_node_num) < Block(k + 1))
    <3>1. Block(max_node_num) \in Nat
      BY <1>5, BlockOffsets
    <3> QED BY <3>1, <1>2, <1>4, <1>6
  <2>2. k + 1 \in Nat
    BY <1>5
  <2>3. ~(max_node_num < k + 1)
    BY <2>1, <2>2, <1>5, BlockOffsets
  <2> QED BY <2>3, <1>5
<1>8. k \in 0 .. max_node_num - 1 /\ k + 1 \in 0 .. max_node_num
  BY <1>5, <1>7
<1>9. p \in Blocks
  BY <1>2, <1>8 DEF Blocks
<1>10. p \notin Carved
  BY <1>6 DEF Carved, p
<1>11. /\ header' \in MemHeader /\ header'.free_list_offset = kInvalidPointer
       /\ header'.max_size = header.max_size /\ header'.block_size = header.block_size
       /\ header'.used_node_num = k + 1 /\ header'.used_size = Block(k + 1)
  <2>1. p + header.block_size = Block(k + 1) /\ Block(k + 1) \in Nat /\ k + 1 \in Nat
    BY <1>2, <1>5, <1>6
  <2> QED BY <2>1, <1>1, <1>2 DEF MemHeader
<1>12. /\ next' \in [Blocks -> Blocks \union {0, kInvalidPointer}]
       /\ next'[p] = 0 /\ \A b \in Blocks : b # p => next'[b] = next[b]
  BY <1>1, <1>2, <1>9
<1>13. Carved' = Carved \union {p}
  <2>1. ASSUME NEW b \in Blocks PROVE b < Block(k + 1) <=> (b < p \/ b = p)
    <3>1. PICK i \in 0 .. max_node_num - 1 : b = Block(i)
      BY DEF Blocks
    <3>2. i \in Nat /\ k + 1 \in Nat
      BY <1>5
    <3>3. i < k + 1 <=> (i < k \/ i = k)
      BY <3>2, <1>5
    <3>4. /\ i < k + 1 <=> b < Block(k + 1)
          /\ i < k <=> b < p
          /\ i = k <=> b = p
      BY <3>1, <3>2, <1>2, <1>5, BlockOffsets
    <3> QED BY <3>3, <3>4
  <2>2. Carved' = {b \in Blocks : b < Block(k + 1)}
    BY <1>11 DEF Carved
  <2>3. Carved = {b \in Blocks : b < p}
    BY DEF Carved, p
  <2> QED BY <2>1, <2>2, <2>3, <1>9
<1>14. Used' = Used \union {p}
  <2>1. Used' = {b \in Carved \union {p} : next'[b] = 0}
    BY <1>13 DEF Used
  <2>2. Carved \subseteq Blocks
    BY DEF Carved
  <2> QED BY <2>1, <2>2, <1>9, <1>10, <1>12 DEF Used
<1>15. p \notin Used
  BY <1>10 DEF Used
<1>16. FreeBlocks' = FreeBlocks
  BY <1>10, <1>13, <1>14, <1>15 DEF FreeBlocks
<1>17. Linked(n, list, FreeBlocks, kInvalidPointer, next')
  <2>1. n = 0
    BY <1>3, NoMarkers DEF Linked
  <2> QED BY <2>1, <1>3 DEF Linked
<1>18. ChainInv'
  <2>1. Linked(n, list, FreeBlocks', header'.free_list_offset, next')
    BY <1>11, <1>16, <1>17
  <2>2. list \in [1 .. n -> FreeBlocks']
    BY <1>16, <1>3
  <2> QED BY <2>1, <2>2 DEF ChainInv
<1>19. PoolTypeOK'
  BY <1>1, <1>2, <1>8, <1>9, <1>11, <1>12 DEF PInv, PoolTypeOK
<1> QED BY <1>1, <1>9, <1>14, <1>15, <1>18, <1>19 DEF PInv

(* The pool is exhausted when every block is in use. *)
LEMMA AllocFailsStep ==
  ASSUME PInv, process = "pool", AllocFails, UNCHANGED <<exist, process, mem>>
  PROVE  PInv' /\ Used = Blocks /\ Used' = Used /\ ret' = 0
<1> DEFINE k == header.used_node_num
<1>1. /\ header.free_list_offset = kInvalidPointer /\ ~Fits
      /\ header' = header /\ next' = next /\ ret' = 0
  BY DEF AllocFails
<1>2. /\ k \in 0 .. max_node_num /\ header.used_size = Block(k)
      /\ header.block_size = GetBlockSize /\ header.max_size = Block(max_node_num)
  BY Sizes DEF PInv, PoolTypeOK
<1> HIDE DEF k
<1>3. k = max_node_num
  <2>1. k \in Nat /\ max_node_num \in Nat
    BY <1>2, Sizes
  <2>2. /\ Block(k + 1) = Block(k) + GetBlockSize
        /\ Block(k + 1) \in Nat /\ Block(max_node_num) \in Nat
    BY <2>1, BlockOffsets
  <2>3. Block(max_node_num) < Block(k + 1)
    BY <2>2, <1>1, <1>2 DEF Fits
  <2>4. max_node_num < k + 1
    BY <2>1, <2>3, BlockOffsets
  <2> QED BY <2>1, <2>4, <1>2
<1>4. Blocks \subseteq Carved
  <2> SUFFICES ASSUME NEW b \in Blocks PROVE b \in Carved
    OBVIOUS
  <2>1. PICK i \in 0 .. max_node_num - 1 : b = Block(i)
    BY DEF Blocks
  <2>2. i < max_node_num
    BY Sizes
  <2> QED BY <2>1, <2>2, <1>3, CarvedBlocks DEF PInv, k
<1>5. FreeBlocks = {}
  <2>1a. PICK n \in Nat : \E list \in [1 .. n -> FreeBlocks] :
          Linked(n, list, FreeBlocks, kInvalidPointer, next)
    BY <1>1 DEF PInv, ChainInv
  <2>1. PICK list \in [1 .. n -> FreeBlocks] :
          Linked(n, list, FreeBlocks, kInvalidPointer, next)
    BY <2>1a
  <2>2. n = 0
    BY <2>1, NoMarkers DEF Linked
  <2> QED BY <2>1, <2>2 DEF Linked
<1>6. Used = Blocks
  BY <1>4, <1>5 DEF FreeBlocks, Used, Carved
<1>7. Used' = Used /\ Carved' = Carved /\ FreeBlocks' = FreeBlocks
  BY <1>1 DEF Used, Carved, FreeBlocks
<1>8. PoolTypeOK'
  BY <1>1 DEF PInv, PoolTypeOK
<1>9. ChainInv'
  BY <1>1, <1>7 DEF PInv, ChainInv
<1> QED BY <1>1, <1>6, <1>7, <1>8, <1>9 DEF PInv

(* A Free that returns has taken back a node in use, or nothing; one that  *)
(* ends the process leaves the segment as it is. *)
LEMMA FreeAnswersStep ==
  ASSUME PInv, process = "pool", NEW block \in Address, FreeAnswers(block)
  PROVE  /\ PInv' /\ process' = process /\ exist' = exist
         /\ LET p == GetOffsetFromHead(block) IN
              \/ p \in Used /\ Used' = Used \ {p} /\ ret' = 0
              \/ p \notin Used /\ Used' = Used /\ ret' = -1
<1> DEFINE p == GetOffsetFromHead(block)
<1>1. process = "pool" /\ process' = process /\ exist' = exist /\ mem' = mem
  BY DEF FreeAnswers
<1>2. IsUsedBlock(block) <=> p \in Used
  BY UsedAddresses DEF PInv, FreeAnswers
<1>2a. \/ /\ IsUsedBlock(block) /\ ret' = 0
          /\ next' = [next EXCEPT ![p] = header.free_list_offset]
          /\ header' = [header EXCEPT !.free_list_offset = p]
       \/ ~IsUsedBlock(block) /\ ret' = -1 /\ header' = header /\ next' = next
  BY DEF FreeAnswers, AfterFree
<1> HIDE DEF p
<1>3. CASE p \notin Used
  <2>1. ret' = -1 /\ header' = header /\ next' = next
    BY <1>2, <1>2a, <1>3
  <2>2. Used' = Used /\ FreeBlocks' = FreeBlocks
    BY <2>1 DEF Used, Carved, FreeBlocks
  <2>3. PoolTypeOK'
    BY <2>1, <1>1 DEF PInv, PoolTypeOK
  <2>4. ChainInv'
    BY <1>1, <2>1, <2>2 DEF PInv, ChainInv
  <2> QED BY <1>1, <1>3, <2>1, <2>2, <2>3, <2>4 DEF PInv, p
<1>4. CASE p \in Used
  <2> DEFINE first == header.free_list_offset
  <2>1. /\ next' = [next EXCEPT ![p] = first]
        /\ header' = [header EXCEPT !.free_list_offset = p] /\ ret' = 0
    BY <1>2, <1>2a, <1>4
  <2>2. /\ header \in MemHeader /\ next \in [Blocks -> Blocks \union {0, kInvalidPointer}]
    BY DEF PInv, PoolTypeOK
  <2>3a. PICK n \in Nat : \E list \in [1 .. n -> FreeBlocks] :
          Linked(n, list, FreeBlocks, first, next)
    BY <1>1 DEF PInv, ChainInv
  <2>3. PICK list \in [1 .. n -> FreeBlocks] :
          Linked(n, list, FreeBlocks, first, next)
    BY <2>3a
  <2> HIDE DEF first
  <2>4. first \in Blocks \union {kInvalidPointer} /\ first # 0
    <3>1. first \in FreeBlocks \union {kInvalidPointer}
      BY <2>3 DEF Linked
    <3> QED BY <3>1, NoMarkers, Space
  <2>5. p \in Carved /\ p \in Blocks /\ p \in Nat /\ p \notin FreeBlocks
    BY <1>4, BlocksAreNat DEF Used, Carved, FreeBlocks
  <2>6. /\ header' \in MemHeader /\ header'.free_list_offset = p
        /\ header'.max_size = header.max_size /\ header'.block_size = header.block_size
        /\ header'.used_node_num = header.used_node_num /\ header'.used_size = header.used_size
    BY <2>1, <2>2, <2>5 DEF MemHeader
  <2>7. /\ next' \in [Blocks -> Blocks \union {0, kInvalidPointer}]
        /\ next'[p] = first /\ \A b \in Blocks : b # p => next'[b] = next[b]
    BY <2>1, <2>2, <2>4, <2>5
  <2>8. Carved' = Carved
    BY <2>6 DEF Carved
  <2>9. Used' = Used \ {p}
    <3>1. Used' = {b \in Carved : next'[b] = 0}
      BY <2>8 DEF Used
    <3>2. Carved \subseteq Blocks
      BY DEF Carved
    <3> QED BY <3>1, <3>2, <2>4, <2>5, <2>7 DEF Used
  <2>10. FreeBlocks' = FreeBlocks \union {p}
    BY <2>5, <2>8, <2>9 DEF FreeBlocks
  <2>11. \A b \in FreeBlocks : next'[b] = next[b]
    BY <2>5, <2>7, NoMarkers
  <2>12. \E m \in Nat : \E longer \in [1 .. m -> FreeBlocks \union {p}] :
           Linked(m, longer, FreeBlocks \union {p}, p, next')
    BY <2>3, <2>5, <2>7, <2>11, Push
  <2>13. ChainInv'
    BY <2>6, <2>10, <2>12 DEF ChainInv
  <2>14. PoolTypeOK'
    BY <1>1, <2>1, <2>6, <2>7 DEF PInv, PoolTypeOK
  <2> QED BY <1>1, <1>4, <2>1, <2>9, <2>13, <2>14 DEF PInv, p
<1> QED BY <1>3, <1>4 DEF p

LEMMA FreeCrashesStep ==
  ASSUME PInv, process = "pool", NEW block \in Address, FreeCrashes(block)
  PROVE  /\ PInv' /\ process' = "none" /\ exist' = exist /\ ret' = ret
         /\ GetOffsetFromHead(block) \notin Used /\ Used' = Used
<1>1. process' = "none" /\ mem' = 0 /\ exist' = exist /\ header' = header
      /\ next' = next /\ ret' = ret
  BY DEF FreeCrashes
<1>2. PoolTypeOK' /\ ChainInv'
  BY <1>1 DEF PInv, PoolTypeOK, ChainInv
<1>3. GetOffsetFromHead(block) \notin Carved
  BY ValidAddresses DEF FreeCrashes, PInv
<1> QED BY <1>1, <1>2, <1>3 DEF PInv, Used, Carved

(* What a Free of an address does: *)
FreeDoes(node) ==
  \/ /\ \E b \in Used : node = mem + b + kNodeOffset /\ Used' = Used \ {b}
     /\ ret' = 0 /\ process' = process
  \/ /\ \A b \in Used : node # mem + b + kNodeOffset
     /\ Used' = Used
     /\ (ret' = -1 /\ process' = process) \/ (ret' = ret /\ process' = "none")

LEMMA FreeStep ==
  ASSUME PInv, NEW node \in Address, Free(node)
  PROVE  PInv' /\ process = "pool" /\ exist' = exist /\ FreeDoes(node)
<1>1. process = "pool" /\ GetBlock(node) \in Address
  BY OffsetOfNode DEF Free, PInv
<1>2. PICK block \in Address : block = GetBlock(node)
  BY <1>1
<1> DEFINE p == GetOffsetFromHead(block)
<1>3. /\ PInv' /\ exist' = exist
      /\ \/ p \in Used /\ Used' = Used \ {p} /\ ret' = 0 /\ process' = process
         \/ p \notin Used /\ Used' = Used /\ ret' = -1 /\ process' = process
         \/ p \notin Used /\ Used' = Used /\ ret' = ret /\ process' = "none"
  <2>1. CASE FreeAnswers(block)
    BY <1>1, <2>1, FreeAnswersStep
  <2>2. CASE FreeCrashes(block)
    BY <1>1, <2>2, FreeCrashesStep
  <2> QED BY <1>2, <2>1, <2>2 DEF Free
<1>4. \A b \in Used : p = b <=> node = mem + b + kNodeOffset
  <2>1. Used \subseteq Blocks
    BY DEF Used, Carved
  <2> QED BY <1>1, <1>2, <2>1, OffsetOfNode DEF PInv
<1> HIDE DEF p
<1>5. FreeDoes(node)
  <2>1. CASE p \in Used
    BY <1>3, <1>4, <2>1 DEF FreeDoes
  <2>2. CASE p \notin Used
    BY <1>3, <1>4, <2>2 DEF FreeDoes
  <2> QED BY <2>1, <2>2
<1> QED BY <1>1, <1>3, <1>5

LEMMA Step == PInv /\ [Next]_vars => PInv'
<1> SUFFICES ASSUME PInv, [Next]_vars PROVE PInv'
  OBVIOUS
<1>1. CASE ShmInit \/ ShmInitFails
  BY <1>1, ShmInitStep
<1>2. CASE ShmDelete \/ Exit \/ InitCheckHeader
  BY <1>2, LeaveStep
<1>3. CASE InitNew
  BY <1>3, InitNewStep
<1>4. CASE Alloc
  BY <1>4, AllocFreedStep, AllocCarvedStep, AllocFailsStep DEF Alloc
<1>5. CASE \E node \in Address : Free(node)
  BY <1>5, FreeStep
<1>6. CASE UNCHANGED vars
  <2>1. /\ exist' = exist /\ process' = process /\ mem' = mem
        /\ header' = header /\ next' = next /\ ret' = ret
    BY <1>6 DEF vars
  <2>2. FreeBlocks' = FreeBlocks
    BY <2>1 DEF FreeBlocks, Carved, Used
  <2>3. PoolTypeOK'
    BY <2>1 DEF PInv, PoolTypeOK
  <2>4. ChainInv'
    BY <2>1, <2>2 DEF PInv, ChainInv
  <2> QED BY <2>3, <2>4 DEF PInv
<1> QED BY <1>1, <1>2, <1>3, <1>4, <1>5, <1>6 DEF Next

LEMMA PoolInvariant == Spec => []PInv
BY InitPInv, Step, PTL DEF Spec

(* A pool in use has carved a whole number of blocks and counted them      *)
(* right, every link leads to a block, to the end of the list or marks a   *)
(* block in use, and every call returns a block, NULL or an error code.    *)
THEOREM PoolTypeInvariant == Spec => []PoolTypeOK
<1>1. PInv => PoolTypeOK
  BY DEF PInv
<1> QED BY <1>1, PoolInvariant, PTL

-----------------------------------------------------------------------------
LEMMA ChainIsExact == PInv => FreeListExact
<1> SUFFICES ASSUME PInv, process = "pool" PROVE FreeListExact
  BY DEF FreeListExact
<1> DEFINE first == header.free_list_offset
<1>1a. PICK n \in Nat : \E list \in [1 .. n -> FreeBlocks] :
         Linked(n, list, FreeBlocks, first, next)
  BY DEF PInv, ChainInv
<1>1. PICK list \in [1 .. n -> FreeBlocks] :
        Linked(n, list, FreeBlocks, first, next)
  BY <1>1a
<1> HIDE DEF first
<1>2. /\ \A i, j \in 1 .. n : list[i] = list[j] => i = j
      /\ \A b \in FreeBlocks : \E i \in 1 .. n : list[i] = b
      /\ first = (IF n = 0 THEN kInvalidPointer ELSE list[1])
      /\ \A i \in 1 .. n : next[list[i]] = (IF i = n THEN kInvalidPointer ELSE list[i + 1])
  BY <1>1 DEF Linked
<1>3. Cardinality(FreeBlocks) = n
  <2>1. list \in Bijection(1 .. n, FreeBlocks)
    BY <1>2 DEF Bijection, Injection, Surjection, IsInjective
  <2>2. ExistsBijection(1 .. n, FreeBlocks)
    BY <2>1 DEF ExistsBijection
  <2> QED BY <2>2, FS_CountingElements
<1>4. DOMAIN list = 1 .. n /\ Len(list) = n /\ (list = <<>> <=> n = 0)
  <2>1. list \in Seq(FreeBlocks)
    OBVIOUS
  <2>2. DOMAIN list = 1 .. n /\ Len(list) = n
    BY <2>1
  <2> QED BY <2>1, <2>2
<1>5. list \in [1 .. Cardinality(Carved \ Used) -> Carved \ Used]
  BY <1>3 DEF FreeBlocks
<1>6. \A b \in Carved \ Used : \E i \in DOMAIN list : list[i] = b
  BY <1>2, <1>4 DEF FreeBlocks
<1>7. header.free_list_offset = (IF list = <<>> THEN kInvalidPointer ELSE list[1])
  BY <1>2, <1>4 DEF first
<1>8. \A i \in DOMAIN list :
        next[list[i]] = (IF i = Len(list) THEN kInvalidPointer ELSE list[i + 1])
  BY <1>2, <1>4
<1> QED BY <1>5, <1>6, <1>7, <1>8 DEF FreeListExact

(* FreeListExact holds for any number and size of nodes and wherever the   *)
(* segment is mapped: no sequence of allocations and frees, of whatever    *)
(* addresses, makes the free list cyclic, loses a block from it or puts a  *)
(* block in use on it.                                                     *)
THEOREM FreeListIsExact == Spec => []FreeListExact
BY ChainIsExact, PoolInvariant, PTL

-----------------------------------------------------------------------------
(* Induction over a set of numbers.  A number t that is not in S would     *)
(* leave the finite set of those up to t that are not in S closed under    *)
(* subtraction of 1, which maps it into itself without t.                  *)
LEMMA SetInduction ==
  ASSUME NEW S, 0 \in S, \A k \in Nat : k \in S => k + 1 \in S
  PROVE  \A k \in Nat : k \in S
<1> SUFFICES ASSUME NEW t \in Nat, t \notin S PROVE FALSE
  OBVIOUS
<1> DEFINE T == {k \in 0 .. t : k \notin S}
           down == [k \in T |-> k - 1]
<1>1. IsFiniteSet(T) /\ IsFiniteSet(T \ {t}) /\ Cardinality(T \ {t}) = Cardinality(T) - 1
      /\ Cardinality(T) \in Nat
  <2>1. IsFiniteSet(0 .. t)
    BY FS_Interval
  <2>2. IsFiniteSet(T)
    BY <2>1, FS_Subset
  <2>3. t \in T
    OBVIOUS
  <2> HIDE DEF T
  <2> QED BY <2>2, <2>3, FS_RemoveElement, FS_CardinalityType
<1>2. ASSUME NEW k \in T PROVE k - 1 \in T \ {t}
  <2>1. k \in 0 .. t /\ k \notin S /\ k # 0
    OBVIOUS
  <2>2. k - 1 \in Nat /\ (k - 1) + 1 = k /\ k - 1 \in 0 .. t /\ k - 1 # t
    BY <2>1
  <2>3. k - 1 \notin S
    BY <2>1, <2>2
  <2> QED BY <2>2, <2>3
<1>3. down \in Injection(T, T \ {t})
  <2>1. \A k \in T : k \in Int
    OBVIOUS
  <2>2. down \in [T -> T \ {t}]
    BY <1>2
  <2> HIDE DEF T
  <2>3. \A j, k \in T : down[j] = down[k] => j = k
    BY <2>1
  <2> QED BY <2>2, <2>3 DEF Injection, IsInjective
<1>4. Cardinality(T) <= Cardinality(T) - 1
  <2> HIDE DEF T, down
  <2> QED BY <1>1, <1>3, FS_Injection
<1> QED BY <1>1, <1>4

(* One step of the walk, for any function that gives the rest of it. *)
WalkStep(f, p) ==
  IF WalkEnds(p) THEN <<>>
  ELSE (IF next[p] = 0 THEN <<p>> ELSE <<>>) \o f[NextBlock(p)]

(* Such a walk exists: by induction on its distance from the end of the    *)
(* carved part.                                                            *)
LEMMA WalkEquation ==
  ASSUME PoolTypeOK, process = "pool"
  PROVE  \A p \in 0 .. GetAllocSize : WalkFrom[p] = WalkStep(WalkFrom, p)
<1> DEFINE D == 0 .. GetAllocSize
           u == header.used_size
           Agrees(g, k) == \A p \in D : p + k >= u => g[p] = WalkStep(g, p)
           S == {k \in Nat : \E g \in [D -> Seq(Nat)] : Agrees(g, k)}
<1>1. /\ u \in Nat /\ u <= GetAllocSize /\ GetAllocSize \in Nat
      /\ header.block_size \in Nat /\ header.block_size > 0
  BY UsedSize, Sizes, Space
<1>2. ASSUME NEW p \in D
      PROVE  /\ p \in Nat /\ NextBlock(p) > p
             /\ ~WalkEnds(p) => p < u /\ NextBlock(p) \in D
  <2>1. p \in Nat /\ NextBlock(p) = p + header.block_size
    BY <1>1 DEF NextBlock
  <2>2. ~WalkEnds(p) => p + header.block_size <= u
    BY ValidOffsets DEF WalkEnds, ValidOffset
  <2> HIDE DEF u
  <2>3. ASSUME p + header.block_size <= u PROVE p + header.block_size \in D
    BY <1>1, <2>1, <2>3
  <2> QED BY <1>1, <2>1, <2>2, <2>3
<1>2a. \A p \in D : p \in Nat
  BY <1>1
<1> HIDE DEF u, D
<1>3. 0 \in S
  <2> DEFINE g == [p \in D |-> <<>>]
  <2>1. g \in [D -> Seq(Nat)]
    OBVIOUS
  <2>2. ASSUME NEW p \in D, p >= u PROVE g[p] = WalkStep(g, p)
    <3>1. WalkEnds(p)
      BY <1>1, <1>2, <2>2
    <3> QED BY <3>1 DEF WalkStep
  <2>3. Agrees(g, 0)
    BY <2>2
  <2> QED BY <2>1, <2>3
<1>4. ASSUME NEW k \in Nat, k \in S PROVE k + 1 \in S
  <2>1. PICK g \in [D -> Seq(Nat)] : Agrees(g, k)
    BY <1>4
  <2>2. CASE k >= u
    <3>1. \A p \in D : p + k >= u
      BY <2>2, <1>1, <1>2a
    <3>2. Agrees(g, k + 1)
      BY <2>1, <3>1
    <3> QED BY <3>2
  <2>3. CASE k < u
    <3> DEFINE b == u - (k + 1)
               h == [g EXCEPT ![b] = WalkStep(g, b)]
    <3>1. b \in D
      BY <2>3, <1>1 DEF D
    <3>2. WalkStep(g, b) \in Seq(Nat)
      <4>1. /\ ~WalkEnds(b) => g[NextBlock(b)] \in Seq(Nat)
            /\ <<b>> \in Seq(Nat) /\ <<>> \in Seq(Nat)
        BY <1>2, <2>1, <3>1
      <4> QED BY <4>1 DEF WalkStep
    <3>3. h \in [D -> Seq(Nat)] /\ h[b] = WalkStep(g, b) /\ \A p \in D : p # b => h[p] = g[p]
      BY <3>1, <3>2
    <3> HIDE DEF h
    <3>4. ASSUME NEW p \in D, p + (k + 1) >= u PROVE h[p] = WalkStep(h, p)
      <4>0. /\ p \in Nat /\ b \in Int /\ p >= b
            /\ ~WalkEnds(p) => NextBlock(p) \in D /\ NextBlock(p) # b
        BY <1>1, <1>2, <3>4 DEF D
      <4>1. ~WalkEnds(p) => h[NextBlock(p)] = g[NextBlock(p)]
        BY <3>3, <4>0
      <4>2. WalkStep(h, p) = WalkStep(g, p)
        BY <4>1 DEF WalkStep
      <4>3. CASE p = b
        BY <4>2, <4>3, <3>3
      <4>4. CASE p # b
        <5>1. p + k >= u
          BY <4>0, <4>4, <1>1
        <5> QED BY <5>1, <2>1, <4>2, <4>4, <3>3
      <4> QED BY <4>3, <4>4
    <3>5. Agrees(h, k + 1)
      BY <3>4
    <3> HIDE DEF Agrees
    <3> QED BY <3>3, <3>5
  <2>4. k >= u \/ k < u
    BY <1>1
  <2> QED BY <2>2, <2>3, <2>4
<1>5. u \in S
  <2> HIDE DEF S, Agrees
  <2> QED BY <1>1, <1>3, <1>4, SetInduction
<1>6. PICK g \in [D -> Seq(Nat)] : Agrees(g, u)
  BY <1>5
<1>7. g = [p \in D |-> WalkStep(g, p)]
  <2>1. \A p \in D : g[p] = WalkStep(g, p)
    BY <1>1, <1>2, <1>6
  <2> QED BY <2>1
<1>8. WalkFrom = [p \in D |-> WalkStep(WalkFrom, p)]
  BY <1>7 DEF WalkFrom, WalkStep, D
<1> QED BY <1>8 DEF D

(* w is a walk over the nodes in use that are not in front of p. *)
ShowsUsed(w, p) ==
  /\ w \in Seq(Nat)
  /\ \A i, j \in DOMAIN w : i < j => w[i] < w[j]
  /\ \A b \in Nat : b \in Used /\ b >= p <=> \E i \in DOMAIN w : w[i] = b

LEMMA WalkOn ==
  ASSUME NEW p \in Nat, NEW q \in Nat, p < q, NEW w, ShowsUsed(w, q),
         \A b \in Used : b >= p => b = p \/ b >= q
  PROVE  ShowsUsed((IF p \in Used THEN <<p>> ELSE <<>>) \o w, p)
<1>1. w \in Seq(Nat)
  BY DEF ShowsUsed
<1>2. CASE p \notin Used
  <2>1. <<>> \o w = w
    BY <1>1
  <2>2. ASSUME NEW b \in Nat PROVE b \in Used /\ b >= p <=> b \in Used /\ b >= q
    BY <1>2
  <2>3. ShowsUsed(w, p)
    BY <2>2 DEF ShowsUsed
  <2> QED BY <1>2, <2>1, <2>3
<1>3. CASE p \in Used
  <2> DEFINE v == <<p>> \o w
  <2>1. /\ v \in Seq(Nat) /\ Len(v) = 1 + Len(w) /\ v[1] = p /\ Len(w) \in Nat
        /\ \A i \in 1 .. Len(w) : v[1 + i] = w[i]
        /\ DOMAIN v = 1 .. 1 + Len(w) /\ DOMAIN w = 1 .. Len(w)
    BY <1>1
  <2> HIDE DEF v
  <2>2. \A i \in DOMAIN v : i = 1 \/ (i - 1 \in DOMAIN w /\ v[i] = w[i - 1])
    <3> TAKE i \in DOMAIN v
    <3>1. i # 1 => i - 1 \in 1 .. Len(w) /\ 1 + (i - 1) = i
      BY <2>1
    <3> QED BY <2>1, <3>1
  <2>3. \A i \in DOMAIN w : w[i] \in Nat /\ w[i] >= q
    BY <1>1, <2>1 DEF ShowsUsed
  <2>4. ASSUME NEW i \in DOMAIN v, NEW j \in DOMAIN v, i < j PROVE v[i] < v[j]
    <3>1. j # 1 /\ (i # 1 => i - 1 < j - 1)
      BY <2>1, <2>4
    <3>2. j - 1 \in DOMAIN w /\ v[j] = w[j - 1]
      BY <2>2, <3>1
    <3>3. CASE i = 1
      BY <2>1, <2>3, <3>2, <3>3
    <3>4. CASE i # 1
      <4>1. i - 1 \in DOMAIN w /\ v[i] = w[i - 1]
        BY <2>2, <3>4
      <4>2. w[i - 1] < w[j - 1]
        BY <3>1, <3>2, <3>4, <4>1 DEF ShowsUsed
      <4> QED BY <3>2, <4>1, <4>2
    <3> QED BY <3>3, <3>4
  <2>5. ASSUME NEW b \in Nat PROVE b \in Used /\ b >= p <=> \E i \in DOMAIN v : v[i] = b
    <3>1. ASSUME b \in Used, b >= p PROVE \E i \in DOMAIN v : v[i] = b
      <4>1. CASE b = p
        BY <2>1, <4>1
      <4>2. CASE b >= q
        <5>1. PICK i \in DOMAIN w : w[i] = b
          BY <3>1, <4>2 DEF ShowsUsed
        <5>2. 1 + i \in DOMAIN v /\ v[1 + i] = b
          BY <2>1, <5>1
        <5> QED BY <5>2
      <4> QED BY <3>1, <4>1, <4>2
    <3>2. ASSUME NEW i \in DOMAIN v, v[i] = b PROVE b \in Used /\ b >= p
      <4>1. CASE i = 1
        BY <1>3, <2>1, <3>2, <4>1
      <4>2. CASE i # 1
        <5>1. i - 1 \in DOMAIN w /\ w[i - 1] = b
          BY <2>2, <3>2, <4>2
        <5>2. b \in Used /\ b >= q
          BY <5>1 DEF ShowsUsed
        <5> QED BY <5>2
      <4> QED BY <4>1, <4>2
    <3> QED BY <3>1, <3>2
  <2>6. ShowsUsed(v, p)
    BY <2>1, <2>4, <2>5 DEF ShowsUsed
  <2> QED BY <1>3, <2>6 DEF v
<1> QED BY <1>2, <1>3

LEMMA UsedAreWalked == PInv => WalkShowsUsed
<1> SUFFICES ASSUME PInv, process = "pool" PROVE WalkShowsUsed
  BY DEF WalkShowsUsed
<1> DEFINE n == header.used_node_num
           S == {k \in Nat : \A i \in 0 .. n : i + k >= n => ShowsUsed(WalkFrom[Block(i)], Block(i))}
<1>1. /\ PoolTypeOK /\ n \in Nat /\ n <= max_node_num /\ max_node_num \in Nat
      /\ header.used_size = Block(n) /\ header.block_size = GetBlockSize
  BY Sizes DEF PInv, PoolTypeOK
<1> HIDE DEF n
<1>2. ASSUME NEW b \in Used
      PROVE  \E i \in 0 .. n - 1 : b = Block(i)
  <2>1. b \in Carved /\ b \in Blocks
    BY DEF Used, Carved
  <2>2. PICK i \in 0 .. max_node_num - 1 : b = Block(i)
    BY <2>1 DEF Blocks
  <2>3. i < n
    BY <1>1, <2>1, <2>2, CarvedBlocks DEF n
  <2>4. i \in 0 .. n - 1
    BY <1>1, <2>3
  <2> QED BY <2>2, <2>4
<1>3. ASSUME NEW i \in Nat, i < n
      PROVE  /\ ~WalkEnds(Block(i)) /\ NextBlock(Block(i)) = Block(i + 1)
             /\ Block(i) \in Carved
  <2>1. Block(i) \in Carved
    BY <1>1, <1>3, CarvedBlocks DEF n
  <2>2. Block(i) + GetBlockSize = Block(i + 1) /\ Block(i) >= HeadSize
    BY <1>3, BlockOffsets
  <2>3. Block(i) \in Nat /\ Block(i) \in 0 .. GetAllocSize
    BY <2>1, BlocksAreNat, Space DEF Carved
  <2>4. ~WalkEnds(Block(i))
    BY <1>1, <2>1, <2>3, ValidIsCarved, ValidOffsets DEF WalkEnds
  <2> QED BY <1>1, <2>1, <2>2, <2>4 DEF NextBlock
<1>4. /\ WalkEnds(Block(n))
      /\ Block(n) \in 0 .. GetAllocSize
      /\ \A i \in 0 .. n : Block(i) \in 0 .. GetAllocSize
  <2>1. ASSUME NEW i \in 0 .. n PROVE Block(i) \in 0 .. GetAllocSize
    <3>1. i \in Nat /\ ~(max_node_num < i) /\ Block(i) \in Nat /\ Block(max_node_num) \in Nat
      BY <1>1, BlockOffsets
    <3>2. ~(Block(max_node_num) < Block(i))
      BY <1>1, <3>1, BlockOffsets
    <3> QED BY <3>1, <3>2, Sizes
  <2>2. Block(n) \in 0 .. GetAllocSize /\ Block(n) \in Nat
    BY <1>1, <2>1
  <2>3. Block(n) \notin Carved
    BY <1>1, <2>2 DEF Carved
  <2> QED BY <1>1, <2>1, <2>2, <2>3, ValidIsCarved, ValidOffsets DEF WalkEnds
<1>5. 0 \in S
  <2>1. WalkFrom[Block(n)] = <<>>
    BY <1>1, <1>4, WalkEquation DEF WalkStep
  <2>2. ASSUME NEW b \in Used PROVE ~(b >= Block(n))
    <3>1. PICK i \in 0 .. n - 1 : b = Block(i)
      BY <1>2
    <3>2. i \in Nat /\ i < n /\ Block(i) \in Nat /\ Block(n) \in Nat
      BY <1>1, BlockOffsets
    <3> QED BY <1>1, <3>1, <3>2, BlockOffsets
  <2>3. ShowsUsed(<<>>, Block(n))
    BY <2>2 DEF ShowsUsed
  <2>4. \A i \in 0 .. n : i + 0 >= n => i = n
    BY <1>1
  <2> QED BY <2>1, <2>3, <2>4
<1>6. ASSUME NEW k \in Nat, k \in S PROVE k + 1 \in S
  <2>1. ASSUME NEW i \in 0 .. n, i + (k + 1) >= n
        PROVE  ShowsUsed(WalkFrom[Block(i)], Block(i))
    <3>1. CASE i = n
      BY <1>1, <1>5, <3>1
    <3>2. CASE i # n
      <4> DEFINE p == Block(i)
                 q == Block(i + 1)
      <4>1. i \in Nat /\ i < n /\ i + 1 \in 0 .. n /\ (i + 1) + k >= n /\ i + 1 \in Nat
        BY <1>1, <2>1, <3>2
      <4>2. ShowsUsed(WalkFrom[q], q)
        BY <1>6, <4>1
      <4>3. /\ ~WalkEnds(p) /\ NextBlock(p) = q /\ p \in Carved
            /\ p \in 0 .. GetAllocSize
        BY <1>3, <1>4, <4>1
      <4>4. p \in Nat /\ q \in Nat /\ p < q
        BY <4>1, BlockOffsets
      <4>5. ASSUME NEW b \in Used, b >= p PROVE b = p \/ b >= q
        <5>1. PICK j \in 0 .. n - 1 : b = Block(j)
          BY <1>2
        <5>2. j \in Nat /\ Block(j) \in Nat
          BY <1>1, BlockOffsets
        <5>3. j < i => Block(j) < p
          BY <4>1, <5>2, BlockOffsets
        <5>4. ~(j < i)
          BY <4>4, <4>5, <5>1, <5>2, <5>3
        <5>5. i + 1 < j => q < Block(j)
          BY <4>1, <5>2, BlockOffsets
        <5>6. j = i \/ j = i + 1 \/ i + 1 < j
          BY <4>1, <5>2, <5>4
        <5> QED BY <4>4, <5>1, <5>2, <5>5, <5>6
      <4>6. p \in Used <=> next[p] = 0
        BY <4>3 DEF Used
      <4> HIDE DEF p, q
      <4>7. WalkFrom[p] = (IF p \in Used THEN <<p>> ELSE <<>>) \o WalkFrom[q]
        BY <1>1, <4>3, <4>4, <4>6, WalkEquation DEF WalkStep
      <4>8. ShowsUsed(WalkFrom[p], p)
        BY <4>2, <4>4, <4>5, <4>7, WalkOn
      <4> QED BY <4>8 DEF p
    <3> QED BY <3>1, <3>2
  <2> QED BY <2>1
<1>7. n \in S
  <2> HIDE DEF S
  <2> QED BY <1>1, <1>5, <1>6, SetInduction
<1>8. ShowsUsed(Walk, HeadSize)
  <2>1. 0 \in 0 .. n /\ 0 + n >= n
    BY <1>1
  <2>2. Block(0) = HeadSize
    BY Sizes DEF Block
  <2> QED BY <1>7, <2>1, <2>2 DEF Walk
<1>9. ASSUME NEW b \in Used PROVE b \in Nat /\ b >= HeadSize
  BY <1>1, <1>2, BlockOffsets
<1>10. ASSUME NEW i \in DOMAIN Walk PROVE Walk[i] \in Nat
  BY <1>8 DEF ShowsUsed
<1> QED BY <1>8, <1>9, <1>10 DEF ShowsUsed, WalkShowsUsed

(* GetNextNode, called from the first node on until it returns none, shows *)
(* the nodes in use, each once and in order, whatever frees came before.   *)
THEOREM WalkIsExact == Spec => []WalkShowsUsed
BY UsedAreWalked, PoolInvariant, PTL

-----------------------------------------------------------------------------
(* The refinement, step by step. *)
LEMMA AbstractInit == Init => Pool!Init
BY DEF Init, Pool!Init

LEMMA AbstractStep == PInv /\ PInv' /\ [Next]_vars => [Pool!Next]_(Pool!vars)
<1> SUFFICES ASSUME PInv, PInv', [Next]_vars PROVE [Pool!Next]_(Pool!vars)
  OBVIOUS
<1> DEFINE used == IF exist THEN Used ELSE {}
<1>1. /\ process # "none" => exist
      /\ process' # "none" => exist'
  BY DEF PInv, PoolTypeOK
<1>2. CASE ShmInit
  <2>1. CASE exist
    <3>1. exist' = TRUE /\ header' = header /\ next' = next /\ ret' = ret
      BY <1>2, <2>1 DEF ShmInit
    <3>2. Used' = Used
      BY <3>1 DEF Used, Carved
    <3> QED BY <2>1, <3>1, <3>2 DEF Pool!vars
  <2>2. CASE ~exist
    <3>1. exist' = TRUE /\ header'.used_size = 0 /\ ret' = ret
      BY <1>2, <2>2 DEF ShmInit, ZeroHeader
    <3>2. Used' = {}
      BY <3>1, BlocksAreNat DEF Used, Carved
    <3> QED BY <2>2, <3>1, <3>2 DEF Pool!vars
  <2> QED BY <2>1, <2>2
<1>2a. CASE ShmInitFails
  <2>1. ~exist /\ exist' = TRUE /\ header'.used_size = 0 /\ ret' = ret
    BY <1>2a DEF ShmInitFails, ZeroHeader
  <2>2. Used' = {}
    BY <2>1, BlocksAreNat DEF Used, Carved
  <2> QED BY <2>1, <2>2 DEF Pool!vars
<1>3. CASE ShmDelete
  BY <1>3 DEF ShmDelete, Pool!Next, Pool!Delete
<1>4. CASE Exit
  <2>1. exist' = exist /\ ret' = ret /\ Used' = Used
    BY <1>4 DEF Exit, Used, Carved
  <2> QED BY <2>1 DEF Pool!vars
<1>5. CASE InitNew
  <2>1. Used' = {} /\ ret' = 0
    BY <1>5, InitNewStep DEF InitNew, Used
  <2> QED BY <2>1 DEF Pool!Next, Pool!Reset
<1>6. CASE InitCheckHeader
  <2>1. ~CheckHeader
    BY PoolAssumption DEF CheckHeader, PInv, PoolTypeOK, MemHeader
  <2>2. exist' = exist /\ ret' = -1 /\ Used' = Used
    BY <1>6, <2>1 DEF InitCheckHeader, Used, Carved
  <2> QED BY <2>2 DEF Pool!Next, Pool!Refused
<1>7. CASE Alloc
  <2>1. /\ process = "pool" /\ exist' = exist /\ process' = process
        /\ UNCHANGED <<exist, process, mem>>
    BY <1>7 DEF Alloc
  <2>2. used = Used /\ used' = Used'
    BY <2>1, <1>1
  <2>3. CASE AllocFreed \/ AllocCarved
    <3>1. ret' \in Blocks \ Used /\ Used' = Used \union {ret'}
      BY <2>1, <2>3, AllocFreedStep, AllocCarvedStep
    <3> QED BY <2>2, <3>1 DEF Pool!Next, Pool!Alloc
  <2>4. CASE AllocFails
    <3>1. Used = Blocks /\ Used' = Used /\ ret' = 0
      BY <2>1, <2>4, AllocFailsStep
    <3> QED BY <2>2, <3>1 DEF Pool!Next, Pool!Alloc
  <2> QED BY <1>7, <2>3, <2>4 DEF Alloc
<1>8. CASE \E node \in Address : Free(node)
  <2>1. PICK node \in Address : Free(node)
    BY <1>8
  <2>2. /\ process = "pool" /\ exist' = exist
        /\ \/ \E b \in Used : Used' = Used \ {b} /\ ret' = 0
           \/ Used' = Used /\ ret' = -1
           \/ Used' = Used /\ ret' = ret
    BY <2>1, FreeStep DEF FreeDoes
  <2>3. used = Used /\ used' = Used'
    BY <2>2, <1>1
  <2>4. CASE \E b \in Used : Used' = Used \ {b} /\ ret' = 0
    <3>1. Used \subseteq Blocks
      BY DEF Used, Carved
    <3> QED BY <2>3, <2>4, <3>1 DEF Pool!Next, Pool!Free
  <2>5. CASE Used' = Used /\ ret' = -1
    BY <2>3, <2>5 DEF Pool!Next, Pool!Refused
  <2>6. CASE Used' = Used /\ ret' = ret
    BY <2>3, <2>6 DEF Pool!vars
  <2> QED BY <2>2, <2>4, <2>5, <2>6
<1>9. CASE UNCHANGED vars
  BY <1>9 DEF vars, Pool!vars, Used, Carved
<1> QED BY <1>2, <1>2a, <1>3, <1>4, <1>5, <1>6, <1>7, <1>8, <1>9 DEF Next

LEMMA TakesUsed == PInv => FreeTakesUsed
<1> SUFFICES ASSUME PInv, process = "pool", NEW node \in Address
             PROVE  LET block == GetBlock(node) IN
                      ~Faults(block) /\ IsUsedBlock(block)
                        <=> node \in {mem + b + kNodeOffset : b \in Used}
  BY DEF FreeTakesUsed
<1> DEFINE block == GetBlock(node)
           o == GetOffsetFromHead(block)
<1>1. /\ block \in Address
      /\ \A b \in Blocks : o = b <=> node = mem + b + kNodeOffset
  BY OffsetOfNode DEF PInv
<1>2. ~Faults(block) /\ IsUsedBlock(block) <=> o \in Used
  BY <1>1, ValidAddresses DEF PInv, IsUsedBlock, Used
<1> HIDE DEF block, o
<1>3. Used \subseteq Blocks
  BY DEF Used, Carved
<1>4. o \in Used <=> node \in {mem + b + kNodeOffset : b \in Used}
  BY <1>1, <1>3
<1> QED BY <1>2, <1>4 DEF block

(* Of all the values of a size_t, what Free takes for a node in use is     *)
(* exactly the addresses of the nodes in use, for any number and size of   *)
(* nodes and wherever the segment is mapped.                               *)
THEOREM FreeTakesExactlyUsed == Spec => []FreeTakesUsed
BY TakesUsed, PoolInvariant, PTL

(* And so Free takes back the node in use that has the address, or leaves  *)
(* the nodes in use as they are and says so, or the process ends.          *)
THEOREM FreeIsExact == Spec => [][\A node \in Address : Free(node) => FreeDoes(node)]_vars
<1>1. PInv => \A node \in Address : Free(node) => FreeDoes(node)
  BY FreeStep
<1> QED BY <1>1, PoolInvariant, PTL

(* The pool is a NodePool: it never hands out a node in use, a Free of any *)
(* address that returns has taken back one node in use or says that it has *)
(* not, one that ends the process has taken back none, and the pool is     *)
(* exhausted only when all max_node_num nodes are in use.                  *)
THEOREM PoolRefinesNodePool == Spec => ImplementsPool
BY AbstractInit, AbstractStep, PoolInvariant, PTL DEF Spec, ImplementsPool, Pool!Spec
=============================================================================
