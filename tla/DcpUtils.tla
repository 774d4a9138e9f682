------------------------------ MODULE DcpUtils ------------------------------
(***************************************************************************)
(* The cache-line aligned buffers of the i.MX DCP driver                   *)
(* (core/drivers/dcp/imx_dcp_utils.c): dcp_calloc_align_buf, which takes a *)
(* block from the heap with dcp_alloc_memalign and returns an address      *)
(* moved up to a cache line start, with a header just below it that        *)
(* records the block; and dcp_free, which finds the block again through    *)
(* that header.                                                            *)
(*                                                                         *)
(* Sizes and addresses are size_t / vaddr_t values of Width bits, so the   *)
(* ADD_OVERFLOW checks and the ROUNDUP macro wrap as in the code.  heap is *)
(* the set of blocks calloc has handed out, hdrs the mem_hdr records in    *)
(* memory (at: where it lies).  bufs is each caller's struct align_buf and *)
(* held whether the caller owns a buffer through it; owner is the block    *)
(* dcp_alloc_memalign took for it (kept to state properties only).         *)
(***************************************************************************)
EXTENDS Naturals, FiniteSets

CONSTANTS
  Width,       \* bits of size_t and vaddr_t
  HdrSize,     \* MEM_HDR_SIZE: ROUNDUP(sizeof(struct mem_hdr), sizeof(void * ))
  DminLine,    \* the CTR DminLine field: log2 of the line size in words
  MallocAlign, \* the alignment of the addresses calloc returns
  Handles,     \* the callers' struct align_buf objects
  NullBuf,     \* a NULL struct align_buf pointer
  Sizes        \* the sizes callers request

ASSUME WidthAssumption == Width \in Nat \ {0}
ASSUME HdrSizeAssumption == HdrSize \in Nat \ {0}
ASSUME DminLineAssumption == DminLine \in Nat
ASSUME MallocAlignAssumption == MallocAlign \in Nat \ {0}
ASSUME HandlesAssumption == NullBuf \notin Handles
ASSUME SizesAssumption == Sizes \subseteq 0..(2^Width - 1)

\* The address space and the cache line are positive sizes (facts of
\* arithmetic that the provers do not derive for a symbolic exponent).
ASSUME RangeAssumption == 2^Width \in Nat \ {0}
ASSUME LineAssumption == 4 * 2^DminLine \in Nat \ {0}

VARIABLES heap, hdrs, bufs, held, owner, ret

vars == <<heap, hdrs, bufs, held, owner, ret>>

Mod == 2^Width

\* read_cacheline_size: CTR_WORD_SIZE << DminLine
CachelineSize == 4 * 2^DminLine

\* ROUNDUP(v, a) on Width-bit values, a a power of two: the sum wraps,
\* then the low bits are masked off.
RoundUp(v, a) == LET t == (v + a - 1) % Mod IN t - (t % a)

\* The bytes lo .. lo + n - 1.
Span(lo, n) == lo .. (lo + n - 1)

\* The cache lines that the n bytes from d touch, as a byte range (the
\* bytes themselves, not a Width-bit sum, so a range past the top of the
\* address space stays past it).
LineSpan(d, n) ==
  LET L == CachelineSize
      e == d + n
  IN IF n = 0 THEN {} ELSE (d - (d % L)) .. (e + ((L - (e % L)) % L) - 1)

\* Faulty variant: the area rounded up without the extra cache line.
AllocSizeNoSlack(size) ==
  LET L == CachelineSize
      a1 == size + HdrSize
      a2 == IF size = L THEN a1 + L ELSE a1
  IN IF a1 >= Mod \/ a2 >= Mod THEN 0 ELSE RoundUp(a2, L)

\* The size dcp_alloc_memalign asks calloc for, 0 when it returns NULL
\* before calling it (each ADD_OVERFLOW).
AllocSize(size) ==
  LET L == CachelineSize
      a1 == size + HdrSize
      a2 == IF size = L THEN a1 + L ELSE a1
  IN IF a1 >= Mod \/ a2 >= Mod \/ L + RoundUp(a2, L) >= Mod THEN 0
     ELSE L + RoundUp(a2, L)

\* Faulty variant: the returned address rounded up from the block start.
RetAddrNoHdr(p) == RoundUp(p, CachelineSize)

\* ret_addr: past the header, moved up to a cache line start.
RetAddr(p) == RoundUp((p + HdrSize) % Mod, CachelineSize)

\* The addresses where calloc may place a block of n bytes: aligned, not
\* NULL, below the top of the address space and clear of every live block.
FreeSpots(n) ==
  {p \in 1..(Mod - 1) :
     /\ p % MallocAlign = 0
     /\ p + n <= Mod
     /\ \A b \in heap : Span(p, n) \cap Span(b.addr, b.size) = {}}

\* Headers that survive a write of zeros or data over the bytes r.
Outside(hs, r) == {x \in hs : Span(x.at, HdrSize) \cap r = {}}

\* Faulty variant: free(ptr) of the aligned address itself.
FreeMemalignRaw(hs, hp, d) == {b \in hp : b.addr = d}

\* dcp_free_memalign: the blocks of hp that free(hdr->addr) releases, hdr
\* the mem_hdr below d.  A header that was overwritten with zeros gives
\* free(NULL), which releases nothing.
FreeMemalign(hs, hp, d) ==
  LET H == {x \in hs : x.at = (d + Mod - HdrSize) % Mod}
  IN IF H = {} THEN {}
     ELSE {b \in hp : b.addr = (CHOOSE x \in H : TRUE).addr}

\* The heap and the headers after the blocks fs are freed: what a freed
\* block held is no longer defined, and the allocator may reuse it.
FreeBlocks(hp, fs) == hp \ fs
DropHdrs(hs, fs) == Outside(hs, UNION {Span(b.addr, b.size) : b \in fs})

NoBuf == [data |-> 0, paddr |-> 0, size |-> 0]

Init ==
  /\ heap = {}
  /\ hdrs = {}
  /\ bufs = [h \in Handles |-> NoBuf]
  /\ held = [h \in Handles |-> FALSE]
  /\ owner = [h \in Handles |-> 0]
  /\ ret = "NONE"

(***************************************************************************)
(* dcp_calloc_align_buf(buf, size)                                         *)
(***************************************************************************)
CallocNullBuf ==
  /\ ret' = "BAD_PARAMETERS"
  /\ UNCHANGED <<heap, hdrs, bufs, held, owner>>

CallocAlignBuf(h, size) ==
  LET n == AllocSize(size) IN
  /\ ~held[h]
  /\ \/ /\ n = 0
        /\ bufs' = [bufs EXCEPT ![h].data = 0]
        /\ ret' = "OUT_OF_MEMORY"
        /\ UNCHANGED <<heap, hdrs, held, owner>>
     \/ /\ n # 0
        /\ \E p \in FreeSpots(n) \cup {0} :
             LET r == RetAddr(p)
                 hd == [at |-> (r + Mod - HdrSize) % Mod, addr |-> p, size |-> n]
                 hp == heap \cup {[addr |-> p, size |-> n]}
                 hs == Outside(hdrs, Span(p, n)) \cup {hd}
             IN \/ /\ p = 0
                   /\ bufs' = [bufs EXCEPT ![h].data = 0]
                   /\ ret' = "OUT_OF_MEMORY"
                   /\ UNCHANGED <<heap, hdrs, held, owner>>
                \/ /\ p # 0
                   /\ owner' = [owner EXCEPT ![h] = p]
                   /\ \/ /\ heap' = hp
                         /\ hdrs' = hs
                         /\ bufs' = [bufs EXCEPT ![h] = [data |-> r, paddr |-> r, size |-> size]]
                         /\ held' = [held EXCEPT ![h] = TRUE]
                         /\ ret' = "SUCCESS"
                      \/ /\ heap' = FreeBlocks(hp, FreeMemalign(hs, hp, r))
                         /\ hdrs' = DropHdrs(hs, FreeMemalign(hs, hp, r))
                         /\ bufs' = [bufs EXCEPT ![h].data = r, ![h].paddr = 0]
                         /\ ret' = "OUT_OF_MEMORY"
                         /\ UNCHANGED held

(***************************************************************************)
(* dcp_free(buf->data) of a buffer the caller holds                        *)
(***************************************************************************)
Free(h) ==
  /\ held[h]
  /\ heap' = FreeBlocks(heap, FreeMemalign(hdrs, heap, bufs[h].data))
  /\ hdrs' = DropHdrs(hdrs, FreeMemalign(hdrs, heap, bufs[h].data))
  /\ held' = [held EXCEPT ![h] = FALSE]
  /\ ret' = "NONE"
  /\ UNCHANGED <<bufs, owner>>

\* The caller fills its buffer, or the DCP writes it after the driver
\* invalidated the buffer's cache lines: either may overwrite what lies in
\* those lines.
FillBuffer(h) ==
  /\ held[h]
  /\ hdrs' = Outside(hdrs, LineSpan(bufs[h].data, bufs[h].size))
  /\ UNCHANGED <<heap, bufs, held, owner, ret>>

Next ==
  \/ CallocNullBuf
  \/ \E h \in Handles, size \in Sizes : CallocAlignBuf(h, size)
  \/ \E h \in Handles : Free(h) \/ FillBuffer(h)

Spec == Init /\ [][Next]_vars

-----------------------------------------------------------------------------
\* Every variable has its type.
TypeOK ==
  /\ heap \subseteq [addr : 1..(Mod - 1), size : 1..(Mod - 1)]
  /\ hdrs \subseteq [at : 0..(Mod - 1), addr : 1..(Mod - 1), size : 1..(Mod - 1)]
  /\ bufs \in [Handles -> [data : 0..(Mod - 1), paddr : 0..(Mod - 1), size : 0..(Mod - 1)]]
  /\ held \in [Handles -> BOOLEAN]
  /\ owner \in [Handles -> 0..(Mod - 1)]
  /\ ret \in {"NONE", "SUCCESS", "OUT_OF_MEMORY", "BAD_PARAMETERS"}

\* The buffer dcp_calloc_align_buf hands out owns its cache lines, as the
\* comment of dcp_alloc_memalign promises ("Buffer start address aligned on
\* a cache line", "End of Buffer inside a cache line"): every line the
\* buffer touches lies inside the block calloc returned, and the mem_hdr
\* lies inside that block too, below the buffer's first line, so no write
\* to the buffer and no cache maintenance on it can reach the header or
\* another allocation.
AlignedBufferOwnsItsLines ==
  \A h \in Handles : held[h] =>
    \E b \in heap :
      /\ b.addr = owner[h]
      /\ LineSpan(bufs[h].data, bufs[h].size) \subseteq Span(b.addr, b.size)
      /\ Span((bufs[h].data + Mod - HdrSize) % Mod, HdrSize) \subseteq Span(b.addr, b.size)
      /\ bufs[h].data % CachelineSize = 0

\* dcp_free of a held buffer gives back exactly the block it was carved
\* from, and a dcp_calloc_align_buf that fails leaves the heap as it was
\* (the virt_to_phys failure path frees the block it just took).
FreeReturnsOwnBlock ==
  [][ /\ \A h \in Handles : (held[h] /\ ~held'[h]) =>
           heap' = {b \in heap : b.addr # owner[h]}
      /\ ret' \in {"OUT_OF_MEMORY", "BAD_PARAMETERS"} => heap' = heap
    ]_vars
=============================================================================
