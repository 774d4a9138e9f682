# Verification models of the CAAM DSA driver and the i.MX DCP utilities

This directory models two pieces of the OP-TEE core that the repository changes:

* the CAAM DSA driver, `src/core/drivers/crypto/caam/acipher/caam_dsa.c`. It implements the
  `struct drvcrypt_dsa` operations declared in
  `src/core/drivers/crypto/crypto_api/include/drvcrypt_acipher.h`;
* the buffer helpers of the i.MX DCP driver, `src/core/drivers/dcp/imx_dcp_utils.c`.

The models are TLA+ modules. TLC checks them on small instances. TLAPS proves the driver's
central safety properties for every value of the constants.

## The system's parts and how they interact

**CAAM DSA driver.** The caller (the crypto API, on one TEE thread) invokes one of five
operations:

* `do_allocate_keypair`;
* `do_allocate_publickey`;
* `do_gen_keypair`, with `get_keypair_domain_params`;
* `do_sign`;
* `do_verify`.

The allocations only create bignums. The other three do the following:

1. Copy the key and data into DMA buffers (`do_keypriv_conv`, `do_keypub_conv`,
   `caam_calloc_buf`, `caam_dmaobj_*`).
2. Clean or flush those buffers out of the data cache.
3. Build a job descriptor (`caam_desc_add_word` / `caam_desc_add_ptr` into
   `caam_calloc_desc(MAX_DESC_*)`).
4. Enqueue the job with `caam_jr_enqueue`.
5. When the job has completed, invalidate the outputs and copy them back.
6. Free everything on every exit path.

While the job runs, the CAAM reads and writes physical memory directly. At the same time the
CPU's cache may evict or prefetch lines of the same buffers. That concurrency is what the
model explores.

**DCP utilities.** `dcp_calloc_align_buf` takes a block with `dcp_alloc_memalign`. That
function computes a size with `ADD_OVERFLOW` checks and `ROUNDUP`, calls `calloc`, and returns
an address aligned on a cache line with a `struct mem_hdr` just below it. `dcp_free` finds the
block again through that header. `left_shift_buffer` is a pure byte loop. `dcp_udelay` is a
busy-wait.

**The drvcrypt DSA interface.** The crypto API calls the driver only through the five
function pointers of `struct drvcrypt_dsa`. `DsaService` states what a caller of that table
may rely on. It has no buffers, descriptor, cache or device. A call is idle or busy, and the
driver either holds memory for the caller or does not. On success, a generated key pair or a
signature is the hardware's, and every return holds nothing. `CaamDsaRefinement` maps the
driver onto this service.

## Modules and their correspondence to the code

| Module | Models | State and actions |
|---|---|---|
| `DmaCache` | `cache_operation` and the cache hardware (outside `src/`, modelled from the spec) | A buffer is one line: memory value, line state and line value. Its operators are Clean, Invalidate, Flush, Evict, Prefetch, HostWrite and DevWrite. Values are tags (`In(f)`, `Gen(f)`, `Out(f)`, `Old`, ...) that say whose value a location holds. |
| `CaamDescLayout` | the descriptor building in `do_gen_keypair` (425-437), `do_sign` (569-595) and `do_verify` (719-745), and the MAX_DESC_* macros | Descriptors are word sequences: a pointer is `PtrWords` words. `UpdateHdr` is `DESC_HEADER_IDX(len, len - 1)`. `FitsLayout(d, o)` is the CAAM's PDB layout for operation `o`. |
| `CaamDsa` | the whole driver | `pc` is the caller thread's position. `buf` tracks the ownership of each DMA buffer, `cbuf` its memory and cache line, and `want` the value the driver stored in it. `key` and `bn` are the caller's bignums, `usig` the signature returned, `desc` the descriptor, `dev` the CAAM's progress, `jr` the job ring's report and `ret` the TEE_Result. |
| `MC_CaamDsa` | the instance for TLC | The pointer width and whether bin2bn may fail come from the cfg. |
| `DcpUtils` | `dcp_alloc_memalign`, `dcp_free_memalign`, `dcp_calloc_align_buf`, `dcp_free` | Sizes and addresses are Width-bit values, so the overflow checks and ROUNDUP wrap. `heap` is the blocks calloc returned and `hdrs` the mem_hdr records in memory. `bufs`, `held` and `owner` are the callers' `struct align_buf` objects. |
| `MC_DcpUtils` | a 7-bit address space, two callers | |
| `DcpLeftShift` | `left_shift_buffer` | The loop is a state machine over `i` and `msb`. `i` is an unsigned int of `UIntBits` bits. With `InPlace = TRUE`, input and result are one buffer. `input` then keeps the original bytes as a ghost, and the C code's read of `input[j]` after the write is `InputAfterWrite(j)`, the new byte. |
| `MC_DcpLeftShift` | every input of at most two bytes | |
| `CaamKeyConv` | the byte placement in `do_keypriv_conv`, `do_keypub_conv` and the conversion branch of `get_keypair_domain_params` | `mem` is a flat byte heap in which the buffers follow one another in allocation order. `Alloc` is `caam_calloc_buf` (it zeroes the buffer). `Write` is `crypto_bignum_bn2bin` at `data + len - num_bytes`, with the offset computed in `SizeTBits`-bit arithmetic. `stray` records a byte written outside its buffer. `step` walks the conversion's sequence of allocations and writes. |
| `MC_CaamKeyConv` | the instance for TLC | |
| `DsaService` | `struct drvcrypt_dsa` as its caller sees it | `phase`, `op`, `held`, `key`, `bn`, `usig`, `ret`. The actions are Allocate, SetKey, Begin, Refuse, Generate and Finish (with Outcome, what each operation may hand back). |
| `CaamDsaRefinement` | the refinement mapping | `PhaseOf` is idle when `pc = "idle"` and busy otherwise. `Holds` is true when any DMA buffer or the descriptor is taken. Every other service variable is the driver's own. `Abs == INSTANCE DsaService WITH phase <- PhaseOf, held <- Holds`. |
| `DcpUdelay` | `dcp_udelay` | `counter` is the uint32_t counter, of `UIntBits` bits. `Test` is the post-decrement test `while (counter--)`, and `Body` is the isb/dsb pair. `iters` counts the pairs. |
| `MC_DcpUdelay` | the instance for TLC | |
| `CaamDescLayoutProofs`, `CaamDsaProofs`, `CaamDsaRefinementProofs`, `CaamDsaReadsProofs`, `CaamDsaResultProofs`, `DcpUdelayProofs`, `DcpUtilsProofs` | TLAPS proofs | |

### Actions of `CaamDsa`

Each operation is split at the points where the CAAM or the cache can act in between.

| Action | C code | What it covers |
|---|---|---|
| `AllocKeypair` | `do_allocate_keypair` | The allocations of g, p, q, x and y. A failure frees the bignums already taken (the 303-310 path). |
| `AllocPublickey` | `do_allocate_publickey` | The same allocations, without x. |
| `GenAlloc` | `do_gen_keypair` 371-419 | Allocating the descriptor and the key buffers, then the flushes of x and y. |
| `GenDomainParams` | `get_keypair_domain_params` | `caam_prime_dsa_gen`. When the caller supplied no q, it also copies the generated q, g and p back with `crypto_bignum_bin2bn`, whose result is ignored (106-108). |
| `GenSubmit` | | Building the descriptor and `caam_jr_enqueue`. |
| `GenComplete` | | The status check, the invalidate of x and y, `crypto_bignum_bin2bn` into the key, and the exit frees. |
| `SignKeyConv`, `SignDmaObjs`, `SignSubmit`, `SignComplete` | `do_sign` | The same structure, with `caam_dmaobj_init_input` / `_init_output`, `caam_dmaobj_derive` for c and d, `caam_dmaobj_cache_push`, and `caam_dmaobj_copy_to_orig`. |
| `VerifyKeyConv`, `VerifyDmaObjs`, `VerifySubmit`, `VerifyComplete` | `do_verify` | As for signing, plus the flush of the temporary buffer (751) and the classification of the job status (754-762). |
| `CallerSetsKey` | | The caller storing key values between calls. |
| `DevRun`, `DevDone` | | The CAAM executing the job. |
| `CacheEvict`, `CachePrefetch` | | The cache acting on any line at any time. |

Every early return of the C code (`goto exit_*`) is a disjunct of the action it belongs to. A
disjunct that leaves the operation applies the same frees as the exit label. `PROJECT.json`'s
`map` gives the lines of every definition.

## Runs

| Run | Checks | Shows |
|---|---|---|
| `dsa32` (`CaamDsa32.cfg`, 49 416 states) | TypeOK, DeviceReadsIntended, NoLeakOnReturn, DescriptorFitsLayout, SuccessCarriesDeviceOutput, VerifyVerdictRespected | On a 32-bit CAAM, under every interleaving of the CAAM and of cache evictions and prefetches, these six properties hold: the CAAM reads what the driver meant, nothing leaks, every descriptor is well formed, generated and signed outputs reach the caller, and the verdict of a verification is the CAAM's. |
| `dsa64` (`CaamDsa64.cfg`, 628 732 states) | DeviceReadsIntended, NoLeakOnReturn, DescriptorFitsLayout, VerifyVerdictRespected | The same properties with two-word pointers (`CFG_CAAM_64BIT`), where the MAX_DESC_* capacities matter, and with every bin2bn allowed to fail. |
| `dsa_bin2bn` (violation) | SuccessCarriesDeviceOutput | When a bin2bn in `get_keypair_domain_params` fails, key generation still returns success with domain parameters that are not the ones x and y were computed from. |
| `dcp_alloc` (`DcpUtils.cfg`, 59 767 states) | AlignedBufferOwnsItsLines, FreeReturnsOwnBlock | For every size in the run, including the size equal to a line and the sizes at which the first and the last ADD_OVERFLOW fire, the aligned buffer and its header lie in the caller's own block. dcp_free returns that block, and a failed call leaves the heap unchanged. This holds with two callers whose buffers are written by the DCP. |
| `dcp_alloc_wrap` (violation) | AlignedBufferOwnsItsLines | `dcp_alloc_memalign(SIZE_MAX - MEM_HDR_SIZE)` passes both overflow checks because ROUNDUP wraps to 0. The caller then gets a buffer of almost the whole address space inside a one-line block. |
| `dcp_left_shift` (`DcpLeftShift.cfg`, 525 314 states) | ShiftDoubles | For every input of up to two bytes, the result is twice the input modulo 256^n, so the carry from each byte reaches the next. |
| `dsa_refines` (`CaamDsaRefines.cfg`, 628 732 states) | DsaRefinement | Every behaviour of the driver, under every CAAM and cache interleaving and with bin2bn allowed to fail, is a behaviour of `DsaService` under the mapping. |
| `key_conv` (`CaamKeyConv.cfg`, 1 791 states) | KeyPlacedExactly | For every caller bignum that fits its buffer (0 to `len` bytes, and stale bytes in the heap beforehand), each of the three conversions leaves every buffer holding the bignum's value, right-aligned and zero-padded. No byte lands outside its buffer. |
| `key_conv_wide` (violation) | KeyPlacedExactly | A domain parameter q one byte longer than its buffer: `n_bytes - in_q_size` wraps to SIZE_MAX. bn2bin writes the leading byte before the buffer (here, outside the heap), and the CAAM reads q without its top byte. |
| `dcp_udelay` (`DcpUdelay.cfg`, 4 006 states) | DelayMatches | For delays of 0, 1 and 3 µs the loop runs exactly `time * 500` barrier pairs. The post-decrement exit is not off by one. |
| `dcp_udelay_wrap` (violation) | DelayMatches | A delay whose product `time * 500` exceeds the counter's range returns after `(time * 500) mod 2^w` iterations. |
| `left_shift_in_place` (violation) | ShiftDoubles | With `input == result`, the carry read after the write is bit 6 of the original byte. For example, `<<0, 64>>` becomes `<<1, 128>>` instead of `<<0, 128>>`. |

Each property of a passing run has a mutant in `PROJECT.json`, and TLC finds each mutant
violated. The mutants include:

* a dropped clean;
* a missing free;
* a missing message-length word;
* swapped pointers;
* a capacity two words short;
* a missing invalidate;
* a missing flush of the scratch buffer;
* a status classification that ignores the status;
* allocation without the slack line;
* freeing the aligned address;
* a dropped mask or carry;
* a loop that does not advance;
* a missing key output copy under the refinement mapping;
* the bn2bin offset without the padding;
* a counter that is not scaled by 500.

### Bounds and why they are enough

**CaamDsa.** It has no numeric bounds. Its state is finite because the operations run one at
a time and every buffer is one line with a value drawn from a small tag set. The two cfgs
cover both pointer widths and both bin2bn behaviours. Every early return and every
cache/CAAM interleaving is explored.

**DcpUtils.** It uses Width = 7, which gives a 128-byte address space with a 16-byte cache
line (DminLine 2) and an 8-byte header and alignment. These are the proportions of a 32-bit
build. With them, a block of one to five lines fits, two blocks fit side by side, and the
overflow sizes reach the two overflow branches that can fire: 121 the first check (`size +
MEM_HDR_SIZE`), 100 the last (`cacheline_size + ROUNDUP(...)`), and 119 the ROUNDUP wrap. The
middle check (line 81, taken only when `size == cacheline_size`) can overflow only for a cache
line within one line of `SIZE_MAX`, so no instance, at any realistic width, fires it. The arithmetic
is the code's `% 2^Width`, so the wrap is the real one at a smaller width.

**DcpLeftShift.** It enumerates every input of 0 to 2 bytes. With UIntBits = 8, the unsigned
counter is wider than any buffer index, as it is in the code.

**CaamKeyConv.** It uses LBytes = 2 and NBytes = 1, bytes drawn from {0, 1} for the bignum
and 2 for stale heap content, and SizeTBits = 16. Two sizes are enough to separate a short
bignum (padding needed) from a full one. A stale value that is not 0 shows a missing zeroing.
With Extra = 1, one oversized byte is enough to make the offset wrap. TLC's integers are
32-bit signed values, so `2^32` cannot be evaluated. The width is reduced to 16 bits, and the
wrap `(len - sz) % 2^16` is the same wrap at a smaller width.

**DcpUdelay.** It uses a 16-bit counter for the same reason, and to keep the loop short. The
wrap run takes time = 132, since 132 * 500 = 66 000 > 2^16 wraps to 464. In the 32-bit code,
the first wrapping delay is time = 8 589 935 µs (about 8.6 s), which gives 204 iterations.

### Fairness

`DcpUdelay` assumes weak fairness of its loop step, because the caller's thread executes the
loop without waiting on anything. No run checks a liveness property. That the shift loop of
`left_shift_buffer` ends is a consequence of its bounded `for`, and its counter wraps only for
buffers of 2^32 bytes or more, which a TEE does not allocate. The driver models make no
liveness claims. Completion of a CAAM job depends on hardware and on `caam_jr_enqueue`, which are
outside this code.

## What is proved

Seven modules hold the proofs, and `tlapm` checks all of them to the last obligation.

**`CaamDescLayoutProofs`** contains `DescFitsLayout`. It states that each descriptor the C
code builds satisfies `FitsLayout` for both pointer widths (any `PtrWords \in {1, 2}`). The
lemmas it rests on describe `Append`, concatenation, `EXCEPT` on a concatenation and the
pointer-word sequence.

**`CaamDsaProofs`** proves two theorems:

* `NoLeakTheorem`: `Spec => []NoLeakOnReturn`.
* `DescLayoutTheorem`: `Spec => []DescriptorFitsLayout`.

Both hold for every value of `PtrWords` and `Bin2BnMayFail`. Neither invariant is inductive
on its own. For example, an idle state reached by a step from a waiting state needs to know
that the waiting state's buffers were exactly those of its operation. The strengthening
`IInv` therefore relates the control state to the data:

* every buffer that is held belongs to the free set of the current phase (`PhaseFrees(pc)`);
* outside idle, `op` is the operation of `pc`;
* a descriptor exists only in a waiting phase, and it is `Desc(op)`;
* the key-allocation clause of NoLeakOnReturn.

TLC checked `IInv` as an invariant on both driver configs before it was proved. The proof
has three parts:

1. `InitIInv`: the initial states satisfy `IInv`.
2. One lemma per action: the action preserves `IInv`, with a CASE per exit path.
3. `IInvStep`, followed by the PTL step.

The cache-dependent properties are proved in `CaamDsaReadsProofs` and
`CaamDsaResultProofs`, on top of the invariants below.

**`CaamDsaRefinementProofs`** proves `Refinement == Spec => DsaRefinement` (`DsaRefinement` is `Abs!Spec`), the property that
the `dsa_refines` run checks, for every pointer width and bin2bn behaviour. It rests on the
following lemmas and theorems:

* `RInvTheorem`: `Spec => []RInv`. It is needed because a step of the driver maps to a step of
  the service only when the driver is in a consistent state. `RInv` is `IInv`, `CbufType`
  (the domain of `cbuf`) and `XInv`. `XInv` has two parts:
  * `DevInv`: the CAAM runs a job only while the caller waits on it with `Desc(op)`, and a
    busy call holds its descriptor.
  * `OutInv`: the x, y and signature buffers are not dirty between their flush and the job's
    end. Once the CAAM has run, they hold `Out(f)` in memory.
  Without `OutInv`, an eviction could overwrite the CAAM's output, and `GenComplete` would
  not hand back `Out("x")`, `Out("y")` as `Abs!Outcome` requires.
* `InitRefines`: `Init => Abs!Init`.
* `RefineStep`: `RInv /\ RInv' /\ [Next]_vars => [Abs!Next]_Abs!vars`.
  * The key allocations are `Allocate`.
  * The first step of a job is `Begin`, or `Refuse` when its first allocation fails.
  * A completing step or an early exit is `Finish`.
  * `GenDomainParams` is `Generate`, or a stutter when the caller gave all three parameters.
  * Every step of the CAAM or the cache, and every middle step of a call, is a stutter.
  Cache lemmas (`CacheFields`, `PrimedGen`) state field by field what Flush, Invalidate,
  Prefetch and DevWrite do to a line.

The last step combines these by PTL.

**`CaamDsaReadsProofs`** proves `DeviceReadsTheorem == Spec => []DeviceReadsIntended` for every
pointer width and bin2bn behaviour. The invariant is not inductive alone: a step of the CAAM
reads the buffers, so what it reads depends on the state of their cache lines. The
strengthening `DInv` is `RInv` with three more parts:

* `WantType`: `want` is a function of the buffers.
* `InInv`: every input buffer of the current phase (`InputBufs(pc)`) is `Synced`. Its line is
  not dirty, and its memory holds `want`. The buffers are the domain parameters from
  `gen_submit` on, and in a signature or a verification also the key half, the message and
  the signature as each is converted and pushed.
* `DeviceReadsIntended` itself.

An eviction writes back only a dirty line, and a synced line has none. So `CacheEvict`
cannot change what the CAAM will read. `FieldTarget` states that every pointer field of the
built descriptor reaches that field's own buffer. It is proved from the layout lemma
`PtrField` of `CaamDsaRefinementProofs`. `CleanEncoded`, `CleanCaller` and `PrimedSynced`
state that a clean, a push and a domain-parameter generation leave a synced line.

**`CaamDsaResultProofs`** proves the two action properties. The strengthening is
`EInv == DInv /\ ZInv`, where `ZInv` has four parts:

* `KeyType` and `DevFields`: the domains of `key` and `dev`.
* `KeyInv`: when bin2bn cannot fail, the key's domain parameters equal `want` while a key
  generation is out.
* `VerdictInv`: during a verification the scratch buffer is flushed. Once the CAAM has run,
  it holds `Scratch` in memory. A finished job's job-ring report is one of `JrReports` for
  the CAAM's verdict, and a verification's verdict is valid, invalid or error (never
  garbage).

TLC checked `EInv` as an invariant on both driver configs before it was proved. The proof
has one lemma per action, then `ZInvStep`, then the lemma `EInvTheorem`. `WaitExit` shows that
only the completion of the awaited operation leaves a wait. The theorems are:

* `SuccessTheorem == ~Bin2BnMayFail => (Spec => SuccessCarriesDeviceOutput)`. A successful
  `GenComplete` reads x and y through the invalidation, so it sees `Out` (from `OutInv`), and
  its domain parameters are `want`, which is what the CAAM read (from `KeyInv` and
  `DeviceReadsIntended`). The hypothesis cannot be dropped. The `dsa_bin2bn` run shows that an
  unchecked `crypto_bignum_bin2bn` failure leaves a stale parameter in the key. The
  `dsa32`/`dsa64` configs satisfy it.
* `VerdictTheorem == Spec => VerifyVerdictRespected`, for every pointer width and bin2bn
  behaviour. The proof is a case split of `VerifyResult` over `JrReports` of the three
  verdicts `VerdictInv` allows.

**`DcpUdelayProofs`** proves two theorems about `dcp_udelay` for every counter width
`UIntBits`:

* `ItersTheorem`: when the loop returns, it has run exactly `Counter(time) = (time * 500) %
  2^UIntBits` pairs. The inductive invariant relates `iters + counter` to `Counter(time)` at
  each program point. The decrement from zero (which wraps) is the lemma `ModAddRange`.
* `DelayTheorem`: with the hypothesis that `time * 500 < 2^UIntBits` for every delay,
  `DelayMatches` holds. The `dcp_udelay_wrap` run shows it fails without the hypothesis.

The provers do not derive `2^UIntBits > 0` for a symbolic exponent, so `DcpUdelay` states it
as `RangeAssumption`. TLC evaluates it on every run of `MC_DcpUdelay`.

**`DcpUtilsProofs`** proves three theorems about the aligned buffers of `imx_dcp_utils.c`
for every width, header size, line size, calloc alignment and set of requested sizes. Each
theorem has two hypotheses on the constants:

* `RoundUpFits`: no requested size brings `alloc_size` within a cache line of `SIZE_MAX`
  without already failing an `ADD_OVERFLOW` check. Without it the ROUNDUP wraps, and the
  `dcp_alloc_wrap` run shows the property failing.
* `CallocAligned`: calloc returns addresses aligned to at least `MEM_HDR_SIZE`, and that
  alignment divides the cache line. On both ABIs `MEM_HDR_SIZE` is two words, and that is
  the alignment of `max_align_t`, which malloc guarantees. The cache line is a multiple of
  it.

The theorems:

* `HInvTheorem == Spec => []HInv`, the inductive invariant.
* `LinesTheorem == Spec => []AlignedBufferOwnsItsLines`.
* `FreeTheorem == Spec => FreeReturnsOwnBlock`, the action property.

`HInv` has these clauses:

* `HeapType`, `HdrsType` and `BufsType` give the types.
* `BlocksApart`: live blocks do not overlap.
* `HdrsInBlocks`: every mem_hdr lies inside a live block and records that block.
* `HeldCarved`: a held buffer is what `dcp_alloc_memalign` carved. Its block is live with the
  size `AllocSize` asked of calloc, `data` is `RetAddr(owner)`, and a header at
  `HdrAt(data)` records the block.
* `OwnersApart`: two held buffers have two blocks.

`AlignedBufferOwnsItsLines` alone is not inductive. A step that writes a buffer's lines keeps
the other buffers' headers only because those headers lie in other, disjoint blocks. `dcp_free`
frees the right block only because the header it reads is unique to its block. TLC checked
`HInv` as an invariant of the `dcp_alloc` config before it was proved.

The argument rests on lemmas about `%` by a positive divisor: `ModShift`, `ModTrans`,
`ModDiff`, `NextMultiple` and `LeastMultiple`.

* `AllocSizeFacts` shows that the size asked of calloc is one line plus a multiple `u` of
  the line with `u >= size + MEM_HDR_SIZE`.
* `RetAddrFacts` shows that `ret_addr` is the first line start at or above
  `p + MEM_HDR_SIZE`, and that `OF_MEM_HDR(ret_addr)` does not wrap.
* `CarveLayout` puts the header and every line of the buffer inside the block. This is where
  `CallocAligned` enters. `ret_addr - p` is a multiple of the alignment below
  `MEM_HDR_SIZE + line`, so it is at most one line. Without the alignment, `ret_addr` can sit
  more than a line above `p`, and the buffer's last line runs past the block.

The step lemmas follow the actions:

* `CarveHInv` is the successful call.
* `CarveUndone` is the `virt_to_phys` failure. The header just written is the only one at
  `OF_MEM_HDR(ret_addr)`, so the free gives back exactly the new block, and the heap and the
  headers are as before the call.
* `FreeFinds` and `FreeHInv` are `dcp_free`.
* `FillHInv` is the write of a buffer's lines.

`FreeReturnsOwnBlock` may not need `CallocAligned`. TLC finds `HInv`, and with it
`FreeReturnsOwnBlock`, to hold with a 4-byte calloc alignment as well (237 115 states). The
proof of the line-write step uses the alignment, and no proof without it was attempted.

**Only model-checked:**

* `CaamDsa`'s `TypeOK`, whose record and sequence types would need a lemma per field and
  establish nothing the proved invariants do not already use;
* everything about `CaamKeyConv` and `DcpLeftShift`. They use SequencesExt, whose
  RECURSIVE operators keep a module out of TLAPS's SMT backend. What they compute for every
  input is induction over data, which the installed provers cannot instantiate.

## Not modelled

* **`caam_dsa_init`**: the registration of the operation table at boot.
* **`caam_hash.h`**: declarations only.
* **The other tables of `drvcrypt_acipher.h`** (RSA, ECC, DH): this code does not implement
  them.
* **Byte lengths of bignums in `CaamDsa`**: a bignum is a tag there. `CaamKeyConv` models the
  byte placement separately.
* **Allocation failures in `CaamKeyConv`**: the early returns of `caam_calloc_buf` are
  modelled in `CaamDsa`. `CaamKeyConv` follows only the path on which every allocation
  succeeds.

## Plan for later work

* Prove CaamDsa's TypeOK.
* Prove `FreeReturnsOwnBlock` for any calloc alignment, from the fact that headers lie at
  `MEM_HDR_SIZE` below a line start.
* Reach the `l_bits / 8` size hazards with CaamKeyConv's byte lengths.
