----------------------------- MODULE MC_DcpUtils -----------------------------
(***************************************************************************)
(* DcpUtils on a 7-bit address space (128 bytes): a 16-byte cache line    *)
(* (DminLine 2), the 8-byte mem_hdr of a 32-bit build and 8-byte aligned   *)
(* calloc blocks, two callers.  The sizes hit each branch of               *)
(* dcp_alloc_memalign: small sizes, the size equal to a cache line, one    *)
(* that needs a second line, and sizes where each ADD_OVERFLOW fires.      *)
(***************************************************************************)
EXTENDS DcpUtils, TLC

CONSTANTS h1, h2

MCHandles == {h1, h2}

\* Sizes whose allocation fits, and sizes that overflow size + MEM_HDR_SIZE
\* (121) or cacheline_size + ROUNDUP(alloc_size) (100).
MCSizes == {0, 8, 16, 17, 100, 121}

\* dcp_alloc_memalign(2^Width - MEM_HDR_SIZE - 1): the ROUNDUP in line 85
\* wraps alloc_size to 0.
MCEdgeSizes == MCSizes \cup {2^Width - HdrSize - 1}

HandleSymmetry == Permutations(MCHandles)
=============================================================================
