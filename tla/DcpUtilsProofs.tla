--------------------------- MODULE DcpUtilsProofs ---------------------------
(***************************************************************************)
(* Proofs about the aligned buffers of imx_dcp_utils.c: dcp_free gives     *)
(* back the block its buffer was carved from, and the buffer owns every    *)
(* cache line it touches.                                                  *)
(***************************************************************************)
EXTENDS DcpUtils, Integers, TLAPS

\* size + MEM_HDR_SIZE, with the extra cache line dcp_alloc_memalign adds
\* when size is exactly one line: the alloc_size that ROUNDUP rounds.
AreaSize(s) == IF s = CachelineSize THEN s + HdrSize + CachelineSize ELSE s + HdrSize

\* No requested size brings alloc_size within a cache line of the top of
\* size_t without already overflowing it, so ROUNDUP(alloc_size,
\* cacheline_size) does not wrap (the dcp_alloc_wrap run breaks this).
RoundUpFits ==
  \A s \in Sizes : AreaSize(s) < Mod => AreaSize(s) + CachelineSize - 1 < Mod

\* calloc returns addresses aligned to at least MEM_HDR_SIZE (two words:
\* the alignment of max_align_t on both ABIs), and that alignment divides
\* the cache line.
CallocAligned == HdrSize <= MallocAlign /\ CachelineSize % MallocAlign = 0

\* Where OF_MEM_HDR(d) puts the mem_hdr of the buffer at d.
HdrAt(d) == (d + Mod - HdrSize) % Mod

Block(b) == Span(b.addr, b.size)

HeapType ==
  /\ heap \subseteq [addr : 1..(Mod - 1), size : 1..(Mod - 1)]
  /\ \A b \in heap : b.addr + b.size <= Mod

HdrsType == hdrs \subseteq [at : Nat, addr : Nat, size : Nat]

BufsType ==
  /\ bufs \in [Handles -> [data : Nat, paddr : Nat, size : Nat]]
  /\ held \in [Handles -> BOOLEAN]
  /\ owner \in [Handles -> Nat]

\* calloc's blocks do not overlap.
BlocksApart == \A b1, b2 \in heap : b1 # b2 => Block(b1) \cap Block(b2) = {}

\* Every mem_hdr in memory lies inside a live block and records that block.
HdrsInBlocks ==
  \A x \in hdrs : \E b \in heap : x.addr = b.addr /\ Span(x.at, HdrSize) \subseteq Block(b)

\* A held buffer is the one dcp_alloc_memalign carved from its block: the
\* block is live with the size asked of calloc, the buffer starts at
\* ret_addr, and its mem_hdr below records the block.
Carved(h) ==
  LET p == owner[h]
      n == AllocSize(bufs[h].size)
  IN /\ bufs[h].size \in Sizes
     /\ n # 0
     /\ p % MallocAlign = 0
     /\ \E b \in heap : b.addr = p /\ b.size = n
     /\ bufs[h].data = RetAddr(p)
     /\ \E x \in hdrs : x.at = HdrAt(RetAddr(p)) /\ x.addr = p

HeldCarved == \A h \in Handles : held[h] => Carved(h)

\* Two held buffers come from two blocks.
OwnersApart ==
  \A h1, h2 \in Handles : held[h1] /\ held[h2] /\ h1 # h2 => owner[h1] # owner[h2]

HInv ==
  /\ HeapType /\ HdrsType /\ BufsType
  /\ BlocksApart /\ HdrsInBlocks /\ HeldCarved /\ OwnersApart

\* The step FreeReturnsOwnBlock constrains.
FreeStep ==
  /\ \A h \in Handles : (held[h] /\ ~held'[h]) =>
       heap' = {b \in heap : b.addr # owner[h]}
  /\ ret' \in {"OUT_OF_MEMORY", "BAD_PARAMETERS"} => heap' = heap

-----------------------------------------------------------------------------
(***************************************************************************)
(* Remainders by a positive divisor.                                       *)
(***************************************************************************)
LEMMA ModOfMultiple ==
  ASSUME NEW d \in Nat \ {0}, NEW q \in Int, NEW m \in 0..(d - 1)
  PROVE  (d * q + m) % d = m
BY Z3

LEMMA ModRange ==
  ASSUME NEW d \in Nat \ {0}, NEW x \in Int
  PROVE  x % d \in 0..(d - 1)
BY Z3

LEMMA ModQuotient ==
  ASSUME NEW d \in Nat \ {0}, NEW x \in Int
  PROVE  \E q \in Int : x - (x % d) = d * q
<1>1. x - (x % d) = d * (x \div d)
  BY Z3
<1>2. x \div d \in Int
  BY Z3
<1>. QED  BY <1>1, <1>2

LEMMA MultipleQuotient ==
  ASSUME NEW d \in Nat \ {0}, NEW x \in Int, x % d = 0
  PROVE  \E q \in Int : x = d * q
BY Z3

\* A value already below the divisor is its own remainder.
LEMMA ModSmall ==
  ASSUME NEW d \in Nat \ {0}, NEW x \in 0..(d - 1)
  PROVE  x % d = x
BY ModOfMultiple

\* Adding a multiple of d does not change the remainder.
LEMMA ModShift ==
  ASSUME NEW d \in Nat \ {0}, NEW x \in Int, x % d = 0, NEW y \in Int
  PROVE  (x + y) % d = y % d
<1>1. PICK q1 \in Int : x = d * q1
  BY MultipleQuotient
<1>2. PICK q2 \in Int : y - (y % d) = d * q2
  BY ModQuotient
<1>3. PICK m \in 0..(d - 1) : m = y % d
  BY ModRange
<1>4. PICK q \in Int : q = q1 + q2
  OBVIOUS
<1>5. x + y = d * q + m
  <2>1. y = d * q2 + m
    BY <1>2, <1>3
  <2>2. d * q1 + d * q2 = d * q
    BY <1>4, Z3
  <2>. QED  BY <1>1, <2>1, <2>2
<1>6. (d * q + m) % d = m
  BY ModOfMultiple
<1>. QED  BY <1>3, <1>5, <1>6

\* A multiple of a multiple of a is a multiple of a.
LEMMA ModTrans ==
  ASSUME NEW d \in Nat \ {0}, NEW a \in Nat \ {0}, d % a = 0, NEW x \in Int, x % d = 0
  PROVE  x % a = 0
<1>1. PICK q1 \in Int : x = d * q1
  BY MultipleQuotient
<1>2. PICK q2 \in Int : d = a * q2
  BY MultipleQuotient
<1>3. PICK q \in Int : q = q2 * q1
  OBVIOUS
<1>4. x = a * q + 0
  BY <1>1, <1>2, <1>3
<1>5. (a * q + 0) % a = 0
  BY ModOfMultiple
<1>. QED  BY <1>4, <1>5

\* The difference of two multiples of a is a multiple of a.
LEMMA ModDiff ==
  ASSUME NEW a \in Nat \ {0}, NEW x \in Int, NEW y \in Int, x % a = 0, y % a = 0
  PROVE  (x - y) % a = 0
<1>1. PICK q1 \in Int : x = a * q1
  BY MultipleQuotient
<1>2. PICK q2 \in Int : y = a * q2
  BY MultipleQuotient
<1>3. PICK q \in Int : q = q1 - q2
  OBVIOUS
<1>4. x - y = a * q + 0
  BY <1>1, <1>2, <1>3
<1>5. (a * q + 0) % a = 0
  BY ModOfMultiple
<1>. QED  BY <1>4, <1>5

\* No multiple of a lies strictly between two consecutive multiples.
LEMMA NextMultiple ==
  ASSUME NEW a \in Nat \ {0}, NEW x \in Int, NEW l \in Int, x % a = 0, l % a = 0,
         x < l + a
  PROVE  x <= l
<1>1. PICK i \in Int : x = a * i
  BY MultipleQuotient
<1>2. PICK j \in Int : l = a * j
  BY MultipleQuotient
<1>3. a * i < a * (j + 1)
  BY <1>1, <1>2
<1>4. i <= j
  BY <1>3, Z3
<1>5. a * i <= a * j
  BY <1>4, Z3
<1>. QED  BY <1>1, <1>2, <1>5

\* Rounding down to a multiple of d.
LEMMA RoundDown ==
  ASSUME NEW d \in Nat \ {0}, NEW t \in Int
  PROVE  /\ (t - (t % d)) % d = 0
         /\ t - d < t - (t % d) /\ t - (t % d) <= t
<1>1. PICK q \in Int : t - (t % d) = d * q
  BY ModQuotient
<1>2. (d * q + 0) % d = 0
  BY ModOfMultiple
<1>3. t - (t % d) = d * q + 0
  BY <1>1
<1>4. t % d \in 0..(d - 1)
  BY ModRange
<1>5. (t - (t % d)) % d = 0
  BY <1>2, <1>3
<1>. QED  BY <1>4, <1>5

\* A multiple of d that is at least s is at least s rounded up to d.
LEMMA LeastMultiple ==
  ASSUME NEW d \in Nat \ {0}, NEW m \in Nat, NEW s \in Nat, m % d = 0, m >= s
  PROVE  m >= s + ((d - (s % d)) % d)
BY Z3

-----------------------------------------------------------------------------
(***************************************************************************)
(* What dcp_alloc_memalign computes.                                       *)
(***************************************************************************)
LEMMA Sizes0 == Mod \in Nat \ {0} /\ CachelineSize \in Nat \ {0}
BY RangeAssumption, LineAssumption DEF Mod, CachelineSize

\* When dcp_alloc_memalign calls calloc, it asks for one cache line more
\* than a multiple of the line that covers size, the header and, for a
\* size of exactly one line, the extra line.
LEMMA AllocSizeFacts ==
  ASSUME RoundUpFits, NEW s \in Sizes, AllocSize(s) # 0
  PROVE  \E u \in Nat : /\ AllocSize(s) = CachelineSize + u
                        /\ u % CachelineSize = 0
                        /\ AreaSize(s) <= u
                        /\ AllocSize(s) < Mod
<1> DEFINE L == CachelineSize
           a2 == AreaSize(s)
           t == (a2 + L - 1) % Mod
<1> HIDE DEF t
<1>1. Mod \in Nat \ {0} /\ L \in Nat \ {0} /\ s \in Nat /\ HdrSize \in Nat \ {0}
  BY Sizes0, SizesAssumption, HdrSizeAssumption, RangeAssumption DEF Mod
<1>2. /\ s + HdrSize < Mod /\ a2 < Mod
      /\ AllocSize(s) = L + RoundUp(a2, L)
      /\ L + RoundUp(a2, L) < Mod
  <2>1. a2 \in Nat /\ RoundUp(a2, L) \in Int
    BY <1>1 DEF AreaSize, RoundUp
  <2>. QED  BY <1>1, <2>1 DEF AllocSize, AreaSize
<1>3. t = a2 + L - 1
  <2>1. a2 + L - 1 \in 0..(Mod - 1)
    BY <1>1, <1>2 DEF RoundUpFits, AreaSize
  <2>. QED  BY <2>1, <1>1, ModSmall DEF t
<1>4. RoundUp(a2, L) = t - (t % L)
  BY DEF RoundUp, t
<1>5. (t - (t % L)) % L = 0 /\ t - L < t - (t % L)
  <2>1. t \in Int
    BY <1>1, <1>3 DEF AreaSize
  <2>. QED  BY <1>1, <2>1, RoundDown
<1>6. RoundUp(a2, L) \in Nat /\ a2 <= RoundUp(a2, L)
  BY <1>1, <1>3, <1>4, <1>5 DEF AreaSize
<1>. QED  BY <1>2, <1>4, <1>5, <1>6

\* ret_addr lies past the header, within a cache line of it, on a line
\* start; OF_MEM_HDR(ret_addr) is MEM_HDR_SIZE below it.
LEMMA RetAddrFacts ==
  ASSUME NEW p \in Nat, p + HdrSize + CachelineSize - 1 < Mod
  PROVE  /\ RetAddr(p) % CachelineSize = 0
         /\ p + HdrSize <= RetAddr(p)
         /\ RetAddr(p) <= p + HdrSize + CachelineSize - 1
         /\ HdrAt(RetAddr(p)) = RetAddr(p) - HdrSize
<1> DEFINE L == CachelineSize
           v == (p + HdrSize) % Mod
           t == (v + L - 1) % Mod
           r == RetAddr(p)
<1> HIDE DEF v, t, r
<1>1. Mod \in Nat \ {0} /\ L \in Nat \ {0} /\ HdrSize \in Nat \ {0}
  BY Sizes0, HdrSizeAssumption
<1>2. v = p + HdrSize
  BY <1>1, ModSmall DEF v
<1>3. t = p + HdrSize + L - 1
  BY <1>1, <1>2, ModSmall DEF t
<1>4. r = t - (t % L)
  BY DEF r, t, v, RetAddr, RoundUp
<1>5. (t - (t % L)) % L = 0 /\ t - L < t - (t % L) /\ t - (t % L) <= t
  <2>1. t \in Int
    BY <1>3
  <2>. QED  BY <1>1, <2>1, RoundDown
<1>6. r \in Int /\ r % L = 0 /\ p + HdrSize <= r /\ r <= p + HdrSize + L - 1
  BY <1>1, <1>3, <1>4, <1>5
<1>7. HdrAt(r) = r - HdrSize
  <2>1. PICK m \in 0..(Mod - 1) : m = r - HdrSize
    BY <1>1, <1>6
  <2>2. (Mod * 1 + m) % Mod = m
    BY <1>1, ModOfMultiple
  <2>3. r + Mod - HdrSize = Mod * 1 + m
    BY <1>1, <1>6, <2>1
  <2>. QED  BY <2>1, <2>2, <2>3 DEF HdrAt
<1>. QED  BY <1>6, <1>7 DEF r

\* Where dcp_alloc_memalign puts things in a block of alloc_size bytes at
\* p: ret_addr on a line start, the mem_hdr just below it inside the
\* block, and every cache line of the size bytes from ret_addr inside the
\* block too (this last needs calloc's alignment: with p only 4-aligned
\* and 8-byte headers ret_addr can sit more than a line above p).
LEMMA CarveLayout ==
  ASSUME RoundUpFits, CallocAligned, NEW s \in Sizes, AllocSize(s) # 0,
         NEW p \in Nat, p % MallocAlign = 0, p + AllocSize(s) <= Mod
  PROVE  /\ RetAddr(p) \in Nat
         /\ RetAddr(p) % CachelineSize = 0
         /\ HdrAt(RetAddr(p)) = RetAddr(p) - HdrSize
         /\ Span(HdrAt(RetAddr(p)), HdrSize) \subseteq Span(p, AllocSize(s))
         /\ LineSpan(RetAddr(p), s) \subseteq Span(p, AllocSize(s))
         /\ \A a \in LineSpan(RetAddr(p), s) : RetAddr(p) <= a
<1> DEFINE L == CachelineSize
           A == MallocAlign
           H == HdrSize
           n == AllocSize(s)
           r == RetAddr(p)
<1> HIDE DEF n, r
<1>1. /\ Mod \in Nat \ {0} /\ L \in Nat \ {0} /\ H \in Nat \ {0}
      /\ A \in Nat \ {0} /\ s \in Nat /\ H <= A /\ L % A = 0
  BY Sizes0, SizesAssumption, HdrSizeAssumption, MallocAlignAssumption,
     RangeAssumption DEF Mod, CallocAligned
<1>2. PICK u \in Nat : /\ n = L + u
                       /\ u % L = 0
                       /\ AreaSize(s) <= u
                       /\ n < Mod
  BY AllocSizeFacts DEF n
<1>3. s + H <= u /\ p + n <= Mod
  BY <1>1, <1>2 DEF AreaSize, n
<1>4. /\ r % L = 0
      /\ p + H <= r
      /\ r <= p + H + L - 1
      /\ HdrAt(r) = r - H
  <2>1. p + H + L - 1 < Mod
    BY <1>1, <1>2, <1>3
  <2>. QED  BY <2>1, RetAddrFacts DEF r
<1>5. r \in Int
  BY <1>1 DEF r, RetAddr, RoundUp
<1>6. Span(HdrAt(r), H) \subseteq Span(p, n)
  BY <1>1, <1>2, <1>3, <1>4, <1>5 DEF Span
<1>7. r <= p + L
  <2>1. r % A = 0
    BY <1>1, <1>4, <1>5, ModTrans
  <2>2. (r - p) % A = 0
    BY <1>1, <2>1, <1>5, ModDiff
  <2>3. r - p \in Int /\ r - p < L + A
    BY <1>1, <1>4, <1>5
  <2>4. r - p <= L
    BY <1>1, <2>2, <2>3, NextMultiple
  <2>. QED  BY <1>1, <2>4, <1>5
<1>8. LineSpan(r, s) \subseteq Span(p, n) /\ \A a \in LineSpan(r, s) : r <= a
  <2>1. CASE s = 0
    BY <2>1 DEF LineSpan
  <2>2. CASE s # 0
    <3>1. r - (r % L) = r
      BY <1>4, <1>5
    <3>2. (r + s) % L = s % L
      <4>1. s \in Int /\ L \in Nat \ {0} /\ r % L = 0
        BY <1>1, <1>4
      <4>. QED  BY <4>1, <1>5, ModShift
    <3>3. u >= s + ((L - (s % L)) % L)
      <4>1. u >= s /\ s \in Nat /\ L \in Nat \ {0} /\ u % L = 0
        BY <1>1, <1>2, <1>3
      <4>. QED  BY <4>1, LeastMultiple
    <3>4. LineSpan(r, s) = r .. (r + s + ((L - (s % L)) % L) - 1)
      BY <2>2, <3>1, <3>2 DEF LineSpan
    <3>5. (L - (s % L)) % L \in Int
      BY <1>1
    <3>. QED  BY <1>1, <1>2, <1>4, <1>5, <1>7, <3>3, <3>4, <3>5 DEF Span
  <2>. QED  BY <2>1, <2>2
<1>. QED  BY <1>1, <1>4, <1>5, <1>6, <1>8 DEF r, n

-----------------------------------------------------------------------------
(***************************************************************************)
(* The heap and the headers in it.                                         *)
(***************************************************************************)
\* A block holds its own first byte, and a header its own first byte.
LEMMA AddrInBlock ==
  ASSUME HeapType, NEW b \in heap
  PROVE  b.addr \in Block(b)
BY DEF HeapType, Block, Span

LEMMA AtInHdr ==
  ASSUME HdrsType, NEW x \in hdrs
  PROVE  x.at \in Span(x.at, HdrSize)
BY HdrSizeAssumption DEF HdrsType, Span

\* Blocks that share a byte are the same block.
LEMMA SameBlock ==
  ASSUME BlocksApart, NEW b1 \in heap, NEW b2 \in heap, NEW a,
         a \in Block(b1), a \in Block(b2)
  PROVE  b1 = b2
BY DEF BlocksApart

\* Blocks with the same address are the same block.
LEMMA SameAddr ==
  ASSUME HeapType, BlocksApart, NEW b1 \in heap, NEW b2 \in heap,
         b1.addr = b2.addr
  PROVE  b1 = b2
BY AddrInBlock, SameBlock

\* Headers at the same place record the same block.
LEMMA SameHdrAddr ==
  ASSUME HdrsType, BlocksApart, HdrsInBlocks, NEW x1 \in hdrs, NEW x2 \in hdrs,
         x1.at = x2.at
  PROVE  x1.addr = x2.addr
<1>1. PICK b1 \in heap : x1.addr = b1.addr /\ Span(x1.at, HdrSize) \subseteq Block(b1)
  BY DEF HdrsInBlocks
<1>2. PICK b2 \in heap : x2.addr = b2.addr /\ Span(x2.at, HdrSize) \subseteq Block(b2)
  BY DEF HdrsInBlocks
<1>3. x1.at \in Block(b1) /\ x1.at \in Block(b2)
  BY <1>1, <1>2, AtInHdr
<1>. QED  BY <1>1, <1>2, <1>3, SameBlock

\* A header of a block other than b does not touch b.
LEMMA HdrOutside ==
  ASSUME HdrsType, HeapType, BlocksApart, HdrsInBlocks, NEW x \in hdrs,
         NEW b \in heap, x.addr # b.addr
  PROVE  Span(x.at, HdrSize) \cap Block(b) = {}
<1>1. PICK c \in heap : x.addr = c.addr /\ Span(x.at, HdrSize) \subseteq Block(c)
  BY DEF HdrsInBlocks
<1>2. c # b
  BY <1>1
<1>. QED  BY <1>1, <1>2 DEF BlocksApart

\* Every header survives dropping the headers of a range no block reaches.
LEMMA OutsideFree ==
  ASSUME HdrsInBlocks, NEW S, \A b \in heap : S \cap Block(b) = {}
  PROVE  Outside(hdrs, S) = hdrs
BY DEF HdrsInBlocks, Outside

-----------------------------------------------------------------------------
(***************************************************************************)
(* HInv holds initially and dcp_calloc_align_buf(NULL, size) keeps it.     *)
(***************************************************************************)
LEMMA InitHInv == Init => HInv
BY DEF Init, HInv, HeapType, HdrsType, BufsType, BlocksApart, HdrsInBlocks,
       HeldCarved, OwnersApart, NoBuf

\* A step that leaves the heap, the headers and the buffers alone.
LEMMA UnchangedHInv ==
  ASSUME HInv, heap' = heap, hdrs' = hdrs, bufs' = bufs, held' = held,
         owner' = owner
  PROVE  HInv'
<1>1. HeapType' /\ HdrsType' /\ BufsType'
  BY DEF HInv, HeapType, HdrsType, BufsType
<1>2. BlocksApart' /\ HdrsInBlocks'
  BY DEF HInv, BlocksApart, HdrsInBlocks, Block
<1>3. HeldCarved'
  BY DEF HInv, HeldCarved, Carved
<1>4. OwnersApart'
  BY DEF HInv, OwnersApart
<1>. QED  BY <1>1, <1>2, <1>3, <1>4 DEF HInv

LEMMA NullBufHInv == HInv /\ CallocNullBuf => HInv'
BY UnchangedHInv DEF CallocNullBuf

LEMMA StutterHInv == HInv /\ UNCHANGED vars => HInv'
BY UnchangedHInv DEF vars

-----------------------------------------------------------------------------
(***************************************************************************)
(* dcp_calloc_align_buf(buf, size) with a buffer not held.                 *)
(***************************************************************************)
\* The block calloc returns at p, and the mem_hdr written below ret_addr.
NewBlock(p, n) == [addr |-> p, size |-> n]
NewHdr(p, n) == [at |-> (RetAddr(p) + Mod - HdrSize) % Mod, addr |-> p, size |-> n]

\* The heap and the headers right after calloc returned the block at p.
CarvedHeap(p, n) == heap \cup {NewBlock(p, n)}
CarvedHdrs(p, n) == Outside(hdrs, Span(p, n)) \cup {NewHdr(p, n)}

\* What dcp_alloc_memalign knows of the block calloc returns.
LEMMA FreeSpotFacts ==
  ASSUME RoundUpFits, NEW size \in Sizes, AllocSize(size) # 0,
         NEW p \in FreeSpots(AllocSize(size))
  PROVE  LET n == AllocSize(size) IN
         /\ n \in 1..(Mod - 1)
         /\ p \in 1..(Mod - 1) /\ p % MallocAlign = 0 /\ p + n <= Mod
         /\ \A b \in heap : Span(p, n) \cap Block(b) = {}
<1> DEFINE n == AllocSize(size)
<1> HIDE DEF n
<1>1. PICK u \in Nat : n = CachelineSize + u /\ n < Mod
  BY AllocSizeFacts DEF n
<1>2. CachelineSize \in Nat \ {0} /\ Mod \in Nat \ {0}
  BY Sizes0
<1>3. p \in FreeSpots(n)
  BY DEF n
<1>4. /\ p \in 1..(Mod - 1) /\ p % MallocAlign = 0 /\ p + n <= Mod
      /\ \A b \in heap : Span(p, n) \cap Block(b) = {}
  BY <1>3 DEF FreeSpots, Block
<1>. QED  BY <1>1, <1>2, <1>4 DEF n

\* A failed call touches only the caller's own, not held, struct align_buf
\* (and the block dcp_alloc_memalign picked for it, kept in owner).
LEMMA IdleBufHInv ==
  ASSUME HInv, NEW h \in Handles, ~held[h],
         heap' = heap, hdrs' = hdrs, held' = held,
         bufs' \in [Handles -> [data : Nat, paddr : Nat, size : Nat]],
         owner' \in [Handles -> Nat],
         \A k \in Handles \ {h} : bufs'[k] = bufs[k] /\ owner'[k] = owner[k]
  PROVE  HInv'
<1>1. HeapType' /\ HdrsType' /\ BufsType' /\ BlocksApart' /\ HdrsInBlocks'
  BY DEF HInv, HeapType, HdrsType, BufsType, BlocksApart, HdrsInBlocks, Block
<1>2. HeldCarved'
  <2>1. SUFFICES ASSUME NEW k \in Handles, held'[k] PROVE Carved(k)'
    BY DEF HeldCarved
  <2>2. k # h /\ Carved(k)
    BY <2>1 DEF HInv, HeldCarved
  <2>. QED  BY <2>2 DEF Carved
<1>3. OwnersApart'
  BY DEF HInv, OwnersApart
<1>. QED  BY <1>1, <1>2, <1>3 DEF HInv

\* The successful call: a new block, disjoint from the live ones, with its
\* header inside it, now held by h.
LEMMA CarveHInv ==
  ASSUME HInv, RoundUpFits, CallocAligned, NEW h \in Handles, ~held[h],
         NEW size \in Sizes, AllocSize(size) # 0,
         NEW p \in FreeSpots(AllocSize(size)),
         heap' = heap \cup {NewBlock(p, AllocSize(size))},
         hdrs' = Outside(hdrs, Span(p, AllocSize(size))) \cup {NewHdr(p, AllocSize(size))},
         bufs' = [bufs EXCEPT ![h] = [data |-> RetAddr(p), paddr |-> RetAddr(p), size |-> size]],
         held' = [held EXCEPT ![h] = TRUE],
         owner' = [owner EXCEPT ![h] = p]
  PROVE  HInv'
<1> DEFINE n == AllocSize(size)
           nb == NewBlock(p, n)
           hd == NewHdr(p, n)
           r == RetAddr(p)
<1> HIDE DEF n, r
<1>1. /\ n \in 1..(Mod - 1)
      /\ p \in 1..(Mod - 1) /\ p % MallocAlign = 0 /\ p + n <= Mod
      /\ \A b \in heap : Span(p, n) \cap Block(b) = {}
  BY FreeSpotFacts DEF n
<1>2. /\ r \in Nat
      /\ hd.at = HdrAt(r)
      /\ Span(hd.at, HdrSize) \subseteq Span(p, n)
  BY <1>1, CarveLayout DEF r, n, HdrAt, NewHdr
<1>3. Outside(hdrs, Span(p, n)) = hdrs
  BY <1>1, OutsideFree DEF HInv
<1>4. \A b \in heap : b.addr # p
  BY <1>1, AddrInBlock DEF HInv, Span
<1>5. hdrs' = hdrs \cup {hd} /\ heap' = heap \cup {nb}
  BY <1>3 DEF n
<1>6. HeapType'
  BY <1>1, <1>5 DEF HInv, HeapType, NewBlock
<1>7. HdrsType' /\ BufsType'
  <2>1. hd.at \in Nat
    <3>1. Mod \in Nat \ {0} /\ r + Mod - HdrSize \in Int
      BY <1>2, Sizes0, HdrSizeAssumption
    <3>2. (r + Mod - HdrSize) % Mod \in 0..(Mod - 1)
      BY <3>1, ModRange
    <3>. QED  BY <3>2 DEF NewHdr, r
  <2>2. hd \in [at : Nat, addr : Nat, size : Nat]
    BY <2>1, <1>1 DEF NewHdr
  <2>3. HdrsType'
    BY <2>2, <1>5 DEF HInv, HdrsType
  <2>4. [data |-> r, paddr |-> r, size |-> size] \in [data : Nat, paddr : Nat, size : Nat]
    BY <1>2, SizesAssumption
  <2>5. BufsType'
    BY <1>1, <2>4 DEF HInv, BufsType, r
  <2>. QED  BY <2>3, <2>5
<1>8. BlocksApart'
  BY <1>1, <1>5 DEF HInv, BlocksApart, NewBlock, Block
<1>9. HdrsInBlocks'
  <2>1. SUFFICES ASSUME NEW x \in hdrs'
                 PROVE  \E b \in heap' : x.addr = b.addr /\ Span(x.at, HdrSize) \subseteq Block(b)
    BY DEF HdrsInBlocks
  <2>2. CASE x \in hdrs
    BY <2>2, <1>5 DEF HInv, HdrsInBlocks
  <2>3. CASE x = hd
    <3>1. nb \in heap' /\ x.addr = nb.addr /\ Block(nb) = Span(p, n)
      BY <2>3, <1>5 DEF NewBlock, NewHdr, Block
    <3>. QED  BY <3>1, <2>3, <1>2
  <2>. QED  BY <2>2, <2>3, <1>5
<1>10. HeldCarved'
  <2>1. SUFFICES ASSUME NEW k \in Handles, held'[k] PROVE Carved(k)'
    BY DEF HeldCarved
  <2>2. CASE k = h
    <3>0. SUFFICES Carved(h)'
      BY <2>2
    <3>1. /\ bufs'[h] = [data |-> r, paddr |-> r, size |-> size]
          /\ owner'[h] = p
      BY DEF HInv, BufsType, r
    <3>2. nb \in heap' /\ hd \in hdrs'
      BY <1>5
    <3>3. /\ bufs'[h].size \in Sizes /\ AllocSize(bufs'[h].size) # 0
          /\ owner'[h] % MallocAlign = 0
          /\ bufs'[h].data = RetAddr(owner'[h])
      BY <3>1, <1>1 DEF n, r
    <3>4. \E b \in heap' : b.addr = owner'[h] /\ b.size = AllocSize(bufs'[h].size)
      <4>1. bufs'[h].size = size
        BY <3>1
      <4>2. nb.addr = p /\ nb.size = AllocSize(size)
        BY DEF NewBlock, n
      <4>. QED  BY <3>1, <3>2, <4>1, <4>2
    <3>5. \E x \in hdrs' : x.at = HdrAt(RetAddr(owner'[h])) /\ x.addr = owner'[h]
      BY <3>1, <3>2, <1>2 DEF NewHdr, r
    <3>. QED  BY <3>3, <3>4, <3>5 DEF Carved
  <2>3. CASE k # h
    <3>1. Carved(k)
      BY <2>1, <2>3 DEF HInv, HeldCarved
    <3>. QED  BY <3>1, <2>3, <1>5 DEF Carved
  <2>. QED  BY <2>2, <2>3
<1>11. OwnersApart'
  <2>1. \A k \in Handles : held[k] => owner[k] # p
    BY <1>4 DEF HInv, HeldCarved, Carved
  <2>. QED  BY <2>1 DEF HInv, OwnersApart, BufsType
<1>. QED  BY <1>6, <1>7, <1>8, <1>9, <1>10, <1>11 DEF HInv

\* When virt_to_phys fails, dcp_free(ret_addr) finds the header just
\* written, frees exactly the new block, and leaves the heap and the
\* headers as they were before the call.
LEMMA CarveUndone ==
  ASSUME HInv, RoundUpFits, CallocAligned, NEW size \in Sizes, AllocSize(size) # 0,
         NEW p \in FreeSpots(AllocSize(size))
  PROVE  LET n == AllocSize(size)
             fs == FreeMemalign(CarvedHdrs(p, n), CarvedHeap(p, n), RetAddr(p))
         IN  /\ FreeBlocks(CarvedHeap(p, n), fs) = heap
             /\ DropHdrs(CarvedHdrs(p, n), fs) = hdrs
<1> DEFINE n == AllocSize(size)
           nb == NewBlock(p, n)
           hd == NewHdr(p, n)
           r == RetAddr(p)
           hs == CarvedHdrs(p, n)
           hp == CarvedHeap(p, n)
           fs == FreeMemalign(hs, hp, r)
<1> HIDE DEF n, r
<1>1. /\ n \in 1..(Mod - 1)
      /\ p \in 1..(Mod - 1) /\ p % MallocAlign = 0 /\ p + n <= Mod
      /\ \A b \in heap : Span(p, n) \cap Block(b) = {}
  BY FreeSpotFacts DEF n
<1>2. /\ hd.at = (r + Mod - HdrSize) % Mod
      /\ Span(hd.at, HdrSize) \subseteq Span(p, n)
      /\ hd.at \in Span(hd.at, HdrSize)
  <2>1. Span(HdrAt(r), HdrSize) \subseteq Span(p, n) /\ r \in Nat
    BY <1>1, CarveLayout DEF r, n
  <2>2. HdrAt(r) \in Nat
    <3>1. Mod \in Nat \ {0} /\ r + Mod - HdrSize \in Int
      BY <2>1, Sizes0, HdrSizeAssumption
    <3>2. (r + Mod - HdrSize) % Mod \in 0..(Mod - 1)
      BY <3>1, ModRange
    <3>. QED  BY <3>1, <3>2 DEF HdrAt
  <2>. QED  BY <2>1, <2>2, HdrSizeAssumption DEF NewHdr, HdrAt, Span, r
<1>3. hs = hdrs \cup {hd} /\ hp = heap \cup {nb}
  BY <1>1, OutsideFree DEF HInv, CarvedHdrs, CarvedHeap
<1>4. \A b \in heap : b.addr # p
  BY <1>1, AddrInBlock DEF HInv, Span
<1>5. {x \in hs : x.at = (r + Mod - HdrSize) % Mod} = {hd}
  <2>1. ASSUME NEW x \in hdrs, x.at = hd.at PROVE FALSE
    <3>1. PICK b \in heap : Span(x.at, HdrSize) \subseteq Block(b)
      BY DEF HInv, HdrsInBlocks
    <3>2. x.at \in Span(x.at, HdrSize)
      BY AtInHdr DEF HInv
    <3>. QED  BY <1>1, <1>2, <2>1, <3>1, <3>2
  <2>. QED  BY <1>2, <1>3, <2>1
<1>6. fs = {nb}
  <2>1. fs = {b \in hp : b.addr = hd.addr}
    BY <1>5 DEF FreeMemalign
  <2>. QED  BY <2>1, <1>3, <1>4 DEF NewBlock, NewHdr
<1>7. FreeBlocks(hp, fs) = heap
  <2>1. nb \notin heap
    BY <1>4 DEF NewBlock
  <2>. QED  BY <1>3, <1>6, <2>1 DEF FreeBlocks
<1>8. DropHdrs(hs, fs) = hdrs
  <2>1. UNION {Span(b.addr, b.size) : b \in fs} = Span(p, n)
    BY <1>6 DEF NewBlock
  <2>2. Outside(hdrs, Span(p, n)) = hdrs
    BY <1>1, OutsideFree DEF HInv
  <2>3. Span(hd.at, HdrSize) \cap Span(p, n) # {}
    BY <1>2
  <2>. QED  BY <1>3, <2>1, <2>2, <2>3 DEF DropHdrs, Outside
<1>. QED  BY <1>7, <1>8 DEF n, r

\* dcp_calloc_align_buf(buf, size) keeps HInv, and only gives back memory
\* it took in the same call.
LEMMA CallocStep ==
  ASSUME HInv, RoundUpFits, CallocAligned, NEW h \in Handles, NEW size \in Sizes,
         CallocAlignBuf(h, size)
  PROVE  HInv' /\ FreeStep
<1> DEFINE n == AllocSize(size)
<1> HIDE DEF n
<1>1. ~held[h] /\ h \in DOMAIN bufs /\ bufs[h] \in [data : Nat, paddr : Nat, size : Nat]
  BY DEF CallocAlignBuf, HInv, BufsType
<1>2. ASSUME bufs' = [bufs EXCEPT ![h].data = 0], ret' = "OUT_OF_MEMORY",
             UNCHANGED <<heap, hdrs, held, owner>>
      PROVE  HInv' /\ FreeStep
  <2>1. bufs' \in [Handles -> [data : Nat, paddr : Nat, size : Nat]]
    BY <1>1, <1>2 DEF HInv, BufsType
  <2>2. HInv'
    BY <1>1, <1>2, <2>1, IdleBufHInv DEF HInv, BufsType
  <2>. QED  BY <1>2, <2>2 DEF FreeStep
<1>3. CASE n = 0
  BY <1>3, <1>2 DEF CallocAlignBuf, n
<1>4. CASE n # 0
  <2>1. PICK p \in FreeSpots(n) \cup {0} :
          LET r == RetAddr(p)
              hd == [at |-> (r + Mod - HdrSize) % Mod, addr |-> p, size |-> n]
              hp == heap \cup {[addr |-> p, size |-> n]}
              hs == Outside(hdrs, Span(p, n)) \cup {hd}
          IN \/ /\ p = 0
                /\ bufs' = [bufs EXCEPT ![h].data = 0]
                /\ ret' = "OUT_OF_MEMORY"
                /\ UNCHANGED <<heap, hdrs, held, owner>>
             \/ /\ p # 0
                /\ owner' = [owner EXCEPT ![h] = p]
                /\ \/ /\ heap' = hp
                      /\ hdrs' = hs
                      /\ bufs' = [bufs EXCEPT ![h] = [data |-> r, paddr |-> r, size |-> size]]
                      /\ held' = [held EXCEPT ![h] = TRUE]
                      /\ ret' = "SUCCESS"
                   \/ /\ heap' = FreeBlocks(hp, FreeMemalign(hs, hp, r))
                      /\ hdrs' = DropHdrs(hs, FreeMemalign(hs, hp, r))
                      /\ bufs' = [bufs EXCEPT ![h].data = r, ![h].paddr = 0]
                      /\ ret' = "OUT_OF_MEMORY"
                      /\ UNCHANGED held
    BY <1>4 DEF CallocAlignBuf, n
  <2>2. CASE p = 0
    BY <2>1, <2>2, <1>2
  <2>3. CASE p # 0
    <3>1. p \in FreeSpots(AllocSize(size)) /\ AllocSize(size) # 0
      BY <2>3, <1>4 DEF n
    <3>2. owner' = [owner EXCEPT ![h] = p]
      BY <2>1, <2>3
    <3>3. CASE heap' = CarvedHeap(p, n) /\ hdrs' = CarvedHdrs(p, n)
               /\ bufs' = [bufs EXCEPT ![h] = [data |-> RetAddr(p), paddr |-> RetAddr(p), size |-> size]]
               /\ held' = [held EXCEPT ![h] = TRUE]
               /\ ret' = "SUCCESS"
      <4>1. HInv'
        BY <3>1, <3>2, <3>3, <1>1, CarveHInv DEF CarvedHeap, CarvedHdrs, n
      <4>2. FreeStep
        BY <3>3 DEF FreeStep
      <4>. QED  BY <4>1, <4>2
    <3>4. CASE heap' = FreeBlocks(CarvedHeap(p, n),
                         FreeMemalign(CarvedHdrs(p, n), CarvedHeap(p, n), RetAddr(p)))
               /\ hdrs' = DropHdrs(CarvedHdrs(p, n),
                         FreeMemalign(CarvedHdrs(p, n), CarvedHeap(p, n), RetAddr(p)))
               /\ bufs' = [bufs EXCEPT ![h].data = RetAddr(p), ![h].paddr = 0]
               /\ ret' = "OUT_OF_MEMORY"
               /\ held' = held
      <4>1. heap' = heap /\ hdrs' = hdrs
        BY <3>1, <3>4, CarveUndone DEF n
      <4>2. RetAddr(p) \in Nat
        BY <3>1, FreeSpotFacts, CarveLayout
      <4>3. /\ bufs' \in [Handles -> [data : Nat, paddr : Nat, size : Nat]]
            /\ owner' \in [Handles -> Nat]
        BY <1>1, <3>1, <3>2, <3>4, <4>2 DEF HInv, BufsType, FreeSpots
      <4>4. HInv'
        BY <1>1, <3>2, <3>4, <4>1, <4>3, IdleBufHInv
      <4>. QED  BY <3>4, <4>1, <4>4 DEF FreeStep
    <3>. QED  BY <2>1, <2>3, <3>3, <3>4 DEF CarvedHeap, CarvedHdrs, NewBlock, NewHdr
  <2>. QED  BY <2>2, <2>3
<1>. QED  BY <1>3, <1>4

-----------------------------------------------------------------------------
(***************************************************************************)
(* dcp_free(buf->data) of a held buffer.                                   *)
(***************************************************************************)
\* OF_MEM_HDR(buf->data) is a header of the buffer's own block, so
\* dcp_alloc_memalign's free releases that block and nothing else.
LEMMA FreeFinds ==
  ASSUME HInv, NEW h \in Handles, held[h]
  PROVE  \E bp \in heap :
           /\ bp.addr = owner[h]
           /\ FreeMemalign(hdrs, heap, bufs[h].data) = {bp}
           /\ {b \in heap : b.addr # owner[h]} = heap \ {bp}
<1> DEFINE p == owner[h]
           d == bufs[h].data
           H == {x \in hdrs : x.at = (d + Mod - HdrSize) % Mod}
<1>1. Carved(h)
  BY DEF HInv, HeldCarved
<1>2. PICK bp \in heap : bp.addr = p
  BY <1>1 DEF Carved
<1>3. PICK x0 \in hdrs : x0.at = HdrAt(d) /\ x0.addr = p
  BY <1>1 DEF Carved
<1>4. x0 \in H /\ \A x \in H : x.addr = p
  BY <1>3, SameHdrAddr DEF HdrAt, HInv
<1>5. (CHOOSE x \in H : TRUE).addr = p
  BY <1>4
<1>6. FreeMemalign(hdrs, heap, d) = {b \in heap : b.addr = p}
  BY <1>4, <1>5 DEF FreeMemalign
<1>7. \A b \in heap : b.addr = p <=> b = bp
  BY <1>2, SameAddr DEF HInv
<1>. QED  BY <1>6, <1>7

LEMMA FreeHInv ==
  ASSUME HInv, NEW h \in Handles, Free(h)
  PROVE  HInv' /\ FreeStep
<1>1. PICK bp \in heap :
           /\ bp.addr = owner[h]
           /\ FreeMemalign(hdrs, heap, bufs[h].data) = {bp}
           /\ {b \in heap : b.addr # owner[h]} = heap \ {bp}
  BY FreeFinds DEF Free
<1>2. heap' = heap \ {bp} /\ hdrs' = Outside(hdrs, Block(bp))
  BY <1>1 DEF Free, FreeBlocks, DropHdrs, Block
<1>3. UNCHANGED <<bufs, owner>> /\ held' = [held EXCEPT ![h] = FALSE]
  BY DEF Free
<1>4. HeapType' /\ HdrsType' /\ BufsType' /\ BlocksApart'
  BY <1>2, <1>3 DEF HInv, HeapType, HdrsType, BufsType, BlocksApart, Outside, Block
<1>5. HdrsInBlocks'
  <2>1. SUFFICES ASSUME NEW x \in hdrs'
                 PROVE  \E b \in heap' : x.addr = b.addr /\ Span(x.at, HdrSize) \subseteq Block(b)
    BY DEF HdrsInBlocks
  <2>2. x \in hdrs /\ Span(x.at, HdrSize) \cap Block(bp) = {}
    BY <1>2 DEF Outside
  <2>3. PICK c \in heap : x.addr = c.addr /\ Span(x.at, HdrSize) \subseteq Block(c)
    BY <2>2 DEF HInv, HdrsInBlocks
  <2>4. x.at \in Span(x.at, HdrSize)
    BY <2>2, AtInHdr DEF HInv
  <2>5. c # bp
    BY <2>2, <2>3, <2>4
  <2>. QED  BY <1>2, <2>3, <2>5
<1>6. HeldCarved'
  <2>1. SUFFICES ASSUME NEW k \in Handles, held'[k] PROVE Carved(k)'
    BY DEF HeldCarved
  <2>2. k # h /\ held[k] /\ Carved(k)
    BY <1>3, <2>1 DEF HInv, HeldCarved, BufsType
  <2>3. owner[k] # owner[h]
    BY <2>2 DEF HInv, OwnersApart, Free
  <2>4. PICK bk \in heap : bk.addr = owner[k] /\ bk.size = AllocSize(bufs[k].size)
    BY <2>2 DEF Carved
  <2>5. PICK xk \in hdrs : xk.at = HdrAt(RetAddr(owner[k])) /\ xk.addr = owner[k]
    BY <2>2 DEF Carved
  <2>6. bk \in heap'
    BY <1>1, <1>2, <2>3, <2>4
  <2>7. xk \in hdrs'
    <3>1. Span(xk.at, HdrSize) \cap Block(bp) = {}
      BY <1>1, <2>3, <2>5, HdrOutside DEF HInv
    <3>. QED  BY <1>2, <3>1 DEF Outside
  <2>. QED  BY <1>3, <2>2, <2>4, <2>5, <2>6, <2>7 DEF Carved
<1>7. OwnersApart'
  BY <1>3 DEF HInv, OwnersApart, BufsType
<1>8. FreeStep
  <2>1. \A k \in Handles : (held[k] /\ ~held'[k]) => k = h
    BY <1>3 DEF HInv, BufsType
  <2>. QED  BY <1>1, <1>2, <2>1 DEF FreeStep, Free
<1>. QED  BY <1>4, <1>5, <1>6, <1>7, <1>8 DEF HInv

-----------------------------------------------------------------------------
(***************************************************************************)
(* A cache maintenance or DMA write over a held buffer's lines.            *)
(***************************************************************************)
\* The lines of a held buffer lie in its own block, above its header: a
\* write to them destroys no header of a held buffer.
LEMMA FillHInv ==
  ASSUME HInv, RoundUpFits, CallocAligned, NEW h \in Handles, FillBuffer(h)
  PROVE  HInv' /\ FreeStep
<1> DEFINE p == owner[h]
           s == bufs[h].size
           r == RetAddr(p)
           LS == LineSpan(bufs[h].data, s)
<1>1. Carved(h)
  BY DEF FillBuffer, HInv, HeldCarved
<1>2. PICK bp \in heap : bp.addr = p /\ bp.size = AllocSize(s)
  BY <1>1 DEF Carved
<1>3. /\ s \in Sizes /\ AllocSize(s) # 0 /\ p % MallocAlign = 0
      /\ bufs[h].data = r /\ p \in Nat /\ p + AllocSize(s) <= Mod
  BY <1>1, <1>2 DEF Carved, HInv, HeapType
<1>4. /\ r \in Nat /\ HdrAt(r) = r - HdrSize
      /\ LS \subseteq Block(bp) /\ \A a \in LS : r <= a
  BY <1>2, <1>3, CarveLayout DEF Block
<1>5. hdrs' = Outside(hdrs, LS) /\ UNCHANGED <<heap, bufs, held, owner, ret>>
  BY DEF FillBuffer
<1>6. HeapType' /\ HdrsType' /\ BufsType' /\ BlocksApart' /\ HdrsInBlocks'
  BY <1>5 DEF HInv, HeapType, HdrsType, BufsType, BlocksApart, HdrsInBlocks,
     Outside, Block
<1>7. HeldCarved'
  <2>1. SUFFICES ASSUME NEW k \in Handles, held'[k] PROVE Carved(k)'
    BY DEF HeldCarved
  <2>2. held[k] /\ Carved(k)
    BY <1>5, <2>1 DEF HInv, HeldCarved
  <2>3. PICK xk \in hdrs : xk.at = HdrAt(RetAddr(owner[k])) /\ xk.addr = owner[k]
    BY <2>2 DEF Carved
  <2>4. Span(xk.at, HdrSize) \cap LS = {}
    <3>1. CASE k = h
      <4>1. \A a \in Span(xk.at, HdrSize) : a \in Int /\ a < r
        BY <3>1, <2>3, <1>4, HdrSizeAssumption DEF Span
      <4>. QED  BY <4>1, <1>4
    <3>2. CASE k # h
      <4>1. owner[k] # p
        BY <3>2, <2>2 DEF HInv, OwnersApart, FillBuffer
      <4>2. Span(xk.at, HdrSize) \cap Block(bp) = {}
        BY <1>2, <2>3, <4>1, HdrOutside DEF HInv
      <4>. QED  BY <4>2, <1>4
    <3>. QED  BY <3>1, <3>2
  <2>5. xk \in hdrs'
    BY <1>5, <2>4 DEF Outside
  <2>. QED  BY <1>5, <2>2, <2>3, <2>5 DEF Carved
<1>8. OwnersApart' /\ FreeStep
  BY <1>5 DEF HInv, OwnersApart, FreeStep
<1>. QED  BY <1>6, <1>7, <1>8 DEF HInv

-----------------------------------------------------------------------------
(***************************************************************************)
(* The theorems, for every width, header size, line size, alignment and    *)
(* set of requested sizes with ROUNDUP not wrapping and calloc aligned.    *)
(***************************************************************************)
\* Every step of dcp_calloc_align_buf, dcp_free and a line write keeps HInv.
LEMMA NextHInv ==
  ASSUME RoundUpFits, CallocAligned
  PROVE  HInv /\ [Next]_vars => HInv' /\ [FreeStep]_vars
<1>1. SUFFICES ASSUME HInv, [Next]_vars PROVE HInv' /\ [FreeStep]_vars
  OBVIOUS
<1>2. CASE CallocNullBuf
  BY <1>1, <1>2, NullBufHInv DEF CallocNullBuf, FreeStep
<1>3. CASE \E h \in Handles, size \in Sizes : CallocAlignBuf(h, size)
  <2>1. PICK h \in Handles, size \in Sizes : CallocAlignBuf(h, size)
    BY <1>3
  <2>. QED  BY <1>1, <2>1, CallocStep
<1>4. CASE \E h \in Handles : Free(h) \/ FillBuffer(h)
  <2>1. PICK h \in Handles : Free(h) \/ FillBuffer(h)
    BY <1>4
  <2>. QED  BY <1>1, <2>1, FreeHInv, FillHInv
<1>5. CASE UNCHANGED vars
  BY <1>1, <1>5, StutterHInv
<1>. QED  BY <1>1, <1>2, <1>3, <1>4, <1>5 DEF Next

\* The inductive invariant of the aligned buffers.
THEOREM HInvTheorem ==
  ASSUME RoundUpFits, CallocAligned
  PROVE  Spec => []HInv
<1>1. Init => HInv
  BY InitHInv
<1>2. HInv /\ [Next]_vars => HInv'
  BY NextHInv
<1>. QED  BY <1>1, <1>2, PTL DEF Spec

\* A held buffer's header and lines lie in its own block.
LEMMA HInvLines == HInv /\ RoundUpFits /\ CallocAligned => AlignedBufferOwnsItsLines
<1>1. SUFFICES ASSUME HInv, RoundUpFits, CallocAligned, NEW h \in Handles, held[h]
               PROVE  \E b \in heap :
                        /\ b.addr = owner[h]
                        /\ LineSpan(bufs[h].data, bufs[h].size) \subseteq Span(b.addr, b.size)
                        /\ Span((bufs[h].data + Mod - HdrSize) % Mod, HdrSize)
                             \subseteq Span(b.addr, b.size)
                        /\ bufs[h].data % CachelineSize = 0
  BY DEF AlignedBufferOwnsItsLines
<1>2. Carved(h)
  BY <1>1 DEF HInv, HeldCarved
<1>3. PICK bp \in heap : bp.addr = owner[h] /\ bp.size = AllocSize(bufs[h].size)
  BY <1>2 DEF Carved
<1>4. /\ bufs[h].size \in Sizes /\ AllocSize(bufs[h].size) # 0
      /\ owner[h] % MallocAlign = 0 /\ bufs[h].data = RetAddr(owner[h])
      /\ owner[h] \in Nat /\ owner[h] + AllocSize(bufs[h].size) <= Mod
  BY <1>1, <1>2, <1>3 DEF Carved, HInv, HeapType
<1>. QED  BY <1>1, <1>3, <1>4, CarveLayout DEF HdrAt

\* dcp_calloc_align_buf hands out a cache-line aligned buffer whose lines
\* and whose mem_hdr lie inside the block calloc returned for it, as long
\* as the caller holds it (AlignedBufferOwnsItsLines, checked by the
\* dcp_alloc run): cache maintenance on the buffer never touches another
\* allocation or a header dcp_free will read.
THEOREM LinesTheorem ==
  ASSUME RoundUpFits, CallocAligned
  PROVE  Spec => []AlignedBufferOwnsItsLines
BY HInvTheorem, HInvLines, PTL

\* dcp_free(buf->data) gives back exactly the block dcp_calloc_align_buf
\* took for buf, and a failed dcp_calloc_align_buf leaves the heap as it
\* found it (FreeReturnsOwnBlock, checked by the dcp_alloc run).
THEOREM FreeTheorem ==
  ASSUME RoundUpFits, CallocAligned
  PROVE  Spec => FreeReturnsOwnBlock
<1>1. HInv /\ [Next]_vars => [FreeStep]_vars
  BY NextHInv
<1>. QED  BY <1>1, HInvTheorem, PTL DEF FreeReturnsOwnBlock, FreeStep, Spec
=============================================================================
