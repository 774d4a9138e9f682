------------------------------ MODULE DmaCache ------------------------------
(***************************************************************************)
(* The memory a DMA buffer lives in, as the host CPU and the CAAM see it.  *)
(*                                                                         *)
(* The host reaches memory through a write-back data cache; the CAAM reads *)
(* and writes physical memory directly and never looks at the cache.  A    *)
(* buffer is abstracted to one cache line: the value in memory (mem), the  *)
(* state of the line (st) and the value the line holds (c).  Data values   *)
(* are tags that say whose value a location holds, so that a property can  *)
(* tell the value the driver meant from a stale one.                       *)
(*                                                                         *)
(* The operators are the cache maintenance calls of OP-TEE's               *)
(* cache_operation(): TEE_CACHECLEAN writes a dirty line back and keeps    *)
(* it, TEE_CACHEINVALIDATE drops the line (a dirty one is lost),           *)
(* TEE_CACHEFLUSH cleans then invalidates.  The cache may also, at any     *)
(* time, evict a line (writing it back if dirty) or fill an invalid line   *)
(* speculatively from memory.                                              *)
(***************************************************************************)

\* A data tag: <<owner, field>>.
Old      == <<"old", "-">>    \* whatever a previous user of the memory left
Zero     == <<"zero", "-">>   \* zeroes written by a calloc
NoData   == <<"none", "-">>   \* the value of an invalid line
In(f)    == <<"in", f>>       \* the caller's value of field f
Gen(f)   == <<"gen", f>>      \* domain parameter f computed by the generator
Out(f)   == <<"out", f>>      \* output f written by the CAAM
Scratch  == <<"scr", "-">>    \* the CAAM's working data in its scratch buffer

LineStates == {"inv", "clean", "dirty"}

\* A buffer: memory value, line state, line value.
Buf(m, s, v) == [mem |-> m, st |-> s, c |-> v]

\* What a host load returns: the line if it is valid, memory otherwise.
HostView(b) == IF b.st = "inv" THEN b.mem ELSE b.c

\* A host store: write-allocate into the cache, the line becomes dirty.
HostWrite(b, v) == [b EXCEPT !.st = "dirty", !.c = v]

\* TEE_CACHECLEAN
Clean(b) == IF b.st = "dirty" THEN [b EXCEPT !.mem = b.c, !.st = "clean"] ELSE b

\* TEE_CACHEINVALIDATE
Invalidate(b) == [b EXCEPT !.st = "inv", !.c = NoData]

\* TEE_CACHEFLUSH: clean and invalidate
Flush(b) == Invalidate(Clean(b))

\* A spontaneous eviction is a write-back (if dirty) and drop of the line.
Evict(b) == Flush(b)

\* A speculative line fill of an invalid line.
Prefetch(b) == [b EXCEPT !.st = "clean", !.c = b.mem]

\* A CAAM write goes to memory and leaves the line alone.
DevWrite(b, v) == [b EXCEPT !.mem = v]

\* The states a buffer can be in when the allocator hands it out: memory
\* and any line hold what a previous user left, and the line may be dirty.
Stale == {Buf(Old, "inv", NoData), Buf(Old, "clean", Old), Buf(Old, "dirty", Old)}

\* The states of a caller's buffer into which the caller stored v: the
\* store may still sit in a dirty line, or may have reached memory.
CallerStates(v) == {Buf(Old, "dirty", v), Buf(v, "clean", v), Buf(v, "inv", NoData)}
=============================================================================
