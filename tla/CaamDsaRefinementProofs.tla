----------------------- MODULE CaamDsaRefinementProofs -----------------------
(***************************************************************************)
(* Proof that the CAAM DSA driver refines the DSA service: every step of   *)
(* the driver is a step of the service or leaves the service's view       *)
(* unchanged, under the refinement mapping of CaamDsaRefinement.           *)
(***************************************************************************)
EXTENDS CaamDsaRefinement, CaamDsaProofs, TLAPS

\* A buffer whose cache line holds nothing an eviction could write back.
NotDirty(b) == b.st # "dirty"

\* The job state of the CAAM: a job of this driver is out only while the
\* caller waits for it, with its descriptor built; outside idle the call
\* holds its descriptor.
DevInv ==
  /\ dev.st # "idle" => pc \in WaitPCs /\ desc = Desc(op)
  /\ pc # "idle" => buf["desc"] # "free"

\* The output buffers of key generation and signature: flushed before the
\* job, so no dirty line can overwrite what the CAAM writes, and holding
\* in memory what the CAAM wrote once it has run.
OutInv ==
  /\ pc \in {"gen_params", "gen_submit", "gen_wait"} =>
       NotDirty(cbuf["x"]) /\ NotDirty(cbuf["y"])
  /\ pc \in {"sign_submit", "sign_wait"} => NotDirty(cbuf["sig"])
  /\ (pc = "gen_wait" /\ dev.st \in {"ran", "done"}) =>
       cbuf["x"].mem = Out("x") /\ cbuf["y"].mem = Out("y")
  /\ (pc = "sign_wait" /\ dev.st \in {"ran", "done"}) => cbuf["sig"].mem = Out("sig")

XInv == DevInv /\ OutInv

\* The driver's view of its buffers is a function of CBufs.
CbufType == DOMAIN cbuf = CBufs

RInv == IInv /\ CbufType /\ XInv

-----------------------------------------------------------------------------
(***************************************************************************)
(* Where the CAAM finds its pointers: word 2 + (k - 1) * PtrWords + 1 of a *)
(* descriptor of the PDB layout is the k-th pointer field.                 *)
(***************************************************************************)
LEMMA OneSeq ==
  ASSUME NEW w
  PROVE  <<w>> \in Seq({w}) /\ Len(<<w>>) = 1
OBVIOUS

LEMMA TwoSeq ==
  ASSUME NEW a, NEW b
  PROVE  <<a, b>> \in Seq({a, b}) /\ Len(<<a, b>>) = 2
OBVIOUS

LEMMA PtrAt ==
  ASSUME NEW h, NEW ts \in Seq(FieldNames), NEW T, NEW Tr \in Seq(T), NEW k \in 1..Len(ts)
  PROVE  (<<h, <<"pdb">>>> \o PtrWordSeq(ts) \o Tr)[2 + (k - 1) * PtrWords + 1] = <<"ptr", ts[k]>>
<1> DEFINE Hd == <<h, <<"pdb">>>>
           G == PtrWordSeq(ts)
           i == (k - 1) * PtrWords + 1
           S == {h, <<"pdb">>} \cup ({"ptr"} \X FieldNames) \cup T
<1>1. G \in Seq({"ptr"} \X FieldNames) /\ Len(G) = Len(ts) * PtrWords
  BY PtrWordSeqType
<1>2. Hd \in Seq({h, <<"pdb">>}) /\ Len(Hd) = 2
  BY TwoSeq
<1>3. Len(ts) \in Nat /\ i \in 1..Len(G) /\ (i - 1) \div PtrWords + 1 = k
  BY <1>1, LenProperties, PtrWordsAssumption
<1> HIDE DEF Hd, G, i, S
<1>4. G \in Seq(S) /\ Hd \in Seq(S) /\ Tr \in Seq(S)
  BY <1>1, <1>2, SeqMonotonic DEF S
<1>5. Len(G) \in Nat /\ Len(Tr) \in Nat
  BY <1>4, LenProperties
<1>6. /\ Hd \o G \in Seq(S)
      /\ Len(Hd \o G) = Len(Hd) + Len(G)
      /\ \A j \in 1 .. Len(Hd) + Len(G) :
           (Hd \o G)[j] = IF j <= Len(Hd) THEN Hd[j] ELSE G[j - Len(Hd)]
  BY <1>4, ConcatProperties
<1>7. (Hd \o G)[2 + i] = G[i]
  BY <1>2, <1>3, <1>5, <1>6
<1> DEFINE HG == Hd \o G
<1> HIDE DEF HG
<1>8. /\ HG \in Seq(S) /\ Len(HG) = 2 + Len(G)
      /\ \A j \in 1 .. Len(HG) + Len(Tr) :
           (HG \o Tr)[j] = IF j <= Len(HG) THEN HG[j] ELSE Tr[j - Len(HG)]
  <2>1. HG \in Seq(S) /\ Len(HG) = 2 + Len(G)
    BY <1>2, <1>6 DEF HG
  <2> QED
    BY <1>4, <2>1, ConcatProperties
<1>9. (Hd \o G \o Tr)[2 + i] = (Hd \o G)[2 + i]
  <2>1. (HG \o Tr)[2 + i] = HG[2 + i]
    BY <1>3, <1>5, <1>8
  <2> QED
    BY <2>1 DEF HG
<1>10. G[i] = <<"ptr", ts[k]>>
  BY <1>1, <1>3 DEF G, PtrWordSeq
<1>11. 2 + (k - 1) * PtrWords + 1 = 2 + i
  BY <1>3, PtrWordsAssumption DEF i
<1>12. (Hd \o G \o Tr)[2 + (k - 1) * PtrWords + 1] = <<"ptr", ts[k]>>
  BY <1>7, <1>9, <1>10, <1>11
<1>13. QED
  BY <1>12 DEF Hd, G

\* In a descriptor of the PDB layout of o, the k-th pointer field holds
\* the k-th field of the layout.
LEMMA PtrField ==
  ASSUME NEW o, NEW d, NEW ts \in Seq(FieldNames), NEW T, HwTrailer(o) \in Seq(T),
         HwPtrFields(o) = ts, FitsLayout(d, o), NEW k \in 1..Len(ts)
  PROVE  HwPtrTarget(d, k) = ts[k]
<1> DEFINE h1 == d[1]
           Tr == HwTrailer(o)
<1>1. d = <<h1, <<"pdb">>>> \o PtrWordSeq(ts) \o Tr
  BY DEF FitsLayout, PtrWordSeq
<1> HIDE DEF h1, Tr
<1>2. d[2 + (k - 1) * PtrWords + 1] = <<"ptr", ts[k]>>
  <2>1. Tr \in Seq(T)
    BY DEF Tr
  <2>2. (<<h1, <<"pdb">>>> \o PtrWordSeq(ts) \o Tr)[2 + (k - 1) * PtrWords + 1] = <<"ptr", ts[k]>>
    BY <2>1, PtrAt
  <2> QED
    BY <1>1, <2>2
<1>3. QED
  BY <1>2 DEF HwPtrTarget, HwPtrWord

\* The pointer field of an output of key generation or signature reaches
\* that output's own buffer.
LEMMA OutputTarget ==
  ASSUME op \in {"gen", "sign"}, desc = Desc(op), NEW f \in DevOutputs(op)
  PROVE  DevTarget(f) = PtrBuf(f)
<1>1. FitsLayout(desc, op)
  BY DescFitsLayout
<1>2. CASE op = "gen"
  <2> DEFINE ts == <<"p", "q", "g", "x", "y">>
             w == <<"op", "PK_KEYPAIR_GEN">>
  <2>1. ts \in Seq(FieldNames) /\ HwPtrFields(op) = ts /\ HwTrailer(op) = <<w>>
    BY <1>2 DEF FieldNames, HwPtrFields, HwTrailer
  <2>2. f \in {"x", "y"}
    BY <1>2 DEF DevOutputs
  <2>3. HwIndex(op, f) = IF f = "x" THEN 4 ELSE 5
    BY <1>2, <2>1, <2>2 DEF HwIndex
  <2> DEFINE K == HwIndex(op, f)
  <2> HIDE DEF ts, w, K
  <2>4. HwTrailer(op) \in Seq({w}) /\ K \in 1..Len(ts)
    BY <2>1, <2>2, <2>3, OneSeq DEF K, ts
  <2>5. HwPtrTarget(desc, K) = ts[K]
    BY <1>1, <2>1, <2>4, PtrField
  <2> QED
    BY <2>2, <2>3, <2>5 DEF DevTarget, ts, PtrBuf, K
<1>3. CASE op = "sign"
  <2> DEFINE ts == <<"p", "q", "g", "x", "msg", "sigc", "sigd">>
             w1 == <<"len">>
             w2 == <<"op", "DSA_SIGN">>
  <2>1. ts \in Seq(FieldNames) /\ HwPtrFields(op) = ts /\ HwTrailer(op) = <<w1, w2>>
    BY <1>3 DEF FieldNames, HwPtrFields, HwTrailer
  <2>2. f \in {"sigc", "sigd"}
    BY <1>3 DEF DevOutputs
  <2>3. HwIndex(op, f) = IF f = "sigc" THEN 6 ELSE 7
    BY <1>3, <2>1, <2>2 DEF HwIndex
  <2> DEFINE K == HwIndex(op, f)
  <2> HIDE DEF ts, w1, w2, K
  <2>4. HwTrailer(op) \in Seq({w1, w2}) /\ K \in 1..Len(ts)
    BY <2>1, <2>2, <2>3, TwoSeq DEF K, ts
  <2>5. HwPtrTarget(desc, K) = ts[K]
    BY <1>1, <2>1, <2>4, PtrField
  <2> QED
    BY <2>2, <2>3, <2>5 DEF DevTarget, ts, PtrBuf, K
<1>4. QED
  BY <1>2, <1>3

-----------------------------------------------------------------------------
(***************************************************************************)
(* What the cache operations of DmaCache do to the fields of a line.       *)
(***************************************************************************)
LEMMA CacheFields ==
  ASSUME NEW b, NEW v
  PROVE  /\ Invalidate(b).st = "inv" /\ Invalidate(b).mem = b.mem
         /\ Flush(b).st = "inv"
         /\ Prefetch(b).st = "clean" /\ Prefetch(b).mem = b.mem
         /\ DevWrite(b, v).st = b.st /\ DevWrite(b, v).mem = v
         /\ HostView(Invalidate(b)) = b.mem
<1>1. Invalidate(b).st = "inv" /\ Invalidate(b).mem = b.mem
  BY DEF Invalidate
<1>2. Flush(b).st = "inv"
  BY DEF Flush, Invalidate
<1>3. Prefetch(b).st = "clean" /\ Prefetch(b).mem = b.mem
  BY DEF Prefetch
<1>4. DevWrite(b, v).st = b.st /\ DevWrite(b, v).mem = v
  BY DEF DevWrite
<1>5. HostView(Invalidate(b)) = b.mem
  BY <1>1 DEF HostView
<1>. QED  BY <1>1, <1>2, <1>3, <1>4, <1>5

\* The key value a domain-parameter generation leaves in a bignum.
LEMMA PrimedGen ==
  ASSUME NEW b, NEW f
  PROVE  HostView(PrimeDsaGen(b, f)) = Gen(f)
BY CacheFields DEF PrimeDsaGen

-----------------------------------------------------------------------------
(***************************************************************************)
(* DevInv and OutInv are preserved by every step.                          *)
(***************************************************************************)
\* An idle caller has no job out.
LEMMA IdleNoJob ==
  ASSUME DevInv, pc = "idle"
  PROVE  dev.st = "idle"
BY DEF DevInv, WaitPCs

LEMMA InitXInv == Init => XInv
BY DEF Init, XInv, DevInv, OutInv, DevIdle

\* Steps of an idle caller that leave it idle and touch no job.
LEMMA IdleStepXInv ==
  ASSUME XInv, pc = "idle", pc' = "idle", dev' = dev
  PROVE  XInv'
BY IdleNoJob DEF XInv, DevInv, OutInv, WaitPCs

LEMMA AllocKeypairXInv == RInv /\ AllocKeypair => XInv'
BY IdleStepXInv DEF RInv, AllocKeypair, AllocKey

LEMMA AllocPublickeyXInv == RInv /\ AllocPublickey => XInv'
BY IdleStepXInv DEF RInv, AllocPublickey, AllocKey

LEMMA CallerSetsKeyXInv == RInv /\ CallerSetsKey => XInv'
BY IdleStepXInv DEF RInv, CallerSetsKey

LEMMA GenAllocXInv == RInv /\ GenAlloc => XInv'
<1> SUFFICES ASSUME RInv, GenAlloc PROVE XInv'
  OBVIOUS
<1>1. pc = "idle" /\ dev.st = "idle"
  BY IdleNoJob DEF GenAlloc, RInv, XInv
<1>2. PICK n \in 0..3, s \in Stale :
        LET got == Prefix(<<"desc", "x", "y">>, n)
            b1 == Take(buf, got, Heap)
        IN \/ /\ n = 3
              /\ cbuf' = [b \in CBufs |-> IF b \in got THEN Flush(HostWrite(s, Zero)) ELSE cbuf[b]]
              /\ buf' = b1 /\ pc' = "gen_params"
           \/ n < 3 /\ pc' = "idle"
  BY DEF GenAlloc, Return
<1>3. UNCHANGED dev
  BY DEF GenAlloc
<1>4. CASE n = 3
  <2>1. Flush(HostWrite(s, Zero)).st = "inv"
    BY CacheFields
  <2>2. Prefix(<<"desc", "x", "y">>, n) = {"desc", "x", "y"}
    BY <1>4 DEF Prefix
  <2>3. cbuf'["x"].st = "inv" /\ cbuf'["y"].st = "inv"
    BY <1>2, <1>4, <2>1, <2>2 DEF CBufs, KeyFields
  <2>4. buf'["desc"] = "heap" /\ pc' = "gen_params"
    BY <1>2, <1>4, <2>2 DEF Take, Heap, Bufs
  <2>. QED  BY <1>1, <1>3, <2>3, <2>4 DEF XInv, DevInv, OutInv, NotDirty, WaitPCs
<1>5. CASE n < 3
  BY <1>1, <1>2, <1>3, <1>5 DEF XInv, DevInv, OutInv
<1>. QED  BY <1>4, <1>5

LEMMA GenDomainParamsXInv == RInv /\ GenDomainParams => XInv'
<1> SUFFICES ASSUME RInv, GenDomainParams PROVE XInv'
  OBVIOUS
<1>1. pc = "gen_params" /\ dev.st = "idle" /\ buf["desc"] # "free"
      /\ NotDirty(cbuf["x"]) /\ NotDirty(cbuf["y"])
  BY DEF GenDomainParams, RInv, XInv, DevInv, OutInv, WaitPCs
<1>2. PICK n \in 0..3 :
        LET got == Prefix(<<"q", "g", "p">>, n)
            b1 == Take(buf, got, Heap)
        IN \/ pc' = "idle"
           \/ /\ buf' = b1 /\ pc' = "gen_submit"
              /\ \A b \in CBufs \ Domain : cbuf'[b] = cbuf[b]
  BY DEF GenDomainParams, Return
<1>3. UNCHANGED dev
  BY DEF GenDomainParams
<1>4. CASE pc' = "idle"
  BY <1>3, <1>4, <1>1 DEF XInv, DevInv, OutInv
<1>5. CASE pc' # "idle"
  <2>1. pc' = "gen_submit" /\ cbuf'["x"] = cbuf["x"] /\ cbuf'["y"] = cbuf["y"]
    BY <1>2, <1>5 DEF CBufs, KeyFields, Domain
  <2>2. buf'["desc"] = buf["desc"]
    BY <1>2, <1>5 DEF Prefix, Take, Bufs, CBufs, KeyFields, Domain
  <2>. QED  BY <1>1, <1>3, <2>1, <2>2 DEF XInv, DevInv, OutInv, WaitPCs
<1>. QED  BY <1>4, <1>5

LEMMA GenSubmitXInv == RInv /\ GenSubmit => XInv'
BY DEF RInv, IInv, XInv, DevInv, OutInv, GenSubmit, WaitPCs, PhaseOp, Desc

LEMMA GenCompleteXInv == RInv /\ GenComplete => XInv'
BY DEF RInv, XInv, DevInv, OutInv, GenComplete, Retire, DevIdle

LEMMA SignKeyConvXInv == RInv /\ SignKeyConv => XInv'
<1> SUFFICES ASSUME RInv, SignKeyConv PROVE XInv'
  OBVIOUS
<1>1. PICK n \in 0..5 :
        LET got == Prefix(<<"desc", "g", "p", "q", "x">>, n)
        IN \/ /\ n = 5 /\ pc' = "sign_dma" /\ buf' = Take(buf, got, Heap)
           \/ n < 5 /\ pc' = "idle"
  BY DEF SignKeyConv, Return
<1>2. CASE n = 5
  <2>1. "desc" \in Prefix(<<"desc", "g", "p", "q", "x">>, n)
    BY <1>2 DEF Prefix
  <2>2. buf'["desc"] = "heap" /\ pc' = "sign_dma"
    BY <1>1, <1>2, <2>1 DEF Take, Heap, Bufs
  <2>. QED  BY <2>2, IdleNoJob DEF RInv, XInv, DevInv, OutInv, SignKeyConv, WaitPCs
<1>3. CASE n # 5
  BY <1>1, <1>3, IdleNoJob DEF RInv, XInv, DevInv, OutInv, SignKeyConv, Return
<1>. QED  BY <1>2, <1>3

LEMMA VerifyKeyConvXInv == RInv /\ VerifyKeyConv => XInv'
<1> SUFFICES ASSUME RInv, VerifyKeyConv PROVE XInv'
  OBVIOUS
<1>1. PICK n \in 0..5 :
        LET got == Prefix(<<"desc", "g", "p", "q", "y">>, n)
        IN \/ /\ n = 5 /\ pc' = "verify_dma" /\ buf' = Take(buf, got, Heap)
           \/ n < 5 /\ pc' = "idle"
  BY DEF VerifyKeyConv, Return
<1>2. CASE n = 5
  <2>1. "desc" \in Prefix(<<"desc", "g", "p", "q", "y">>, n)
    BY <1>2 DEF Prefix
  <2>2. buf'["desc"] = "heap" /\ pc' = "verify_dma"
    BY <1>1, <1>2, <2>1 DEF Take, Heap, Bufs
  <2>. QED  BY <2>2, IdleNoJob DEF RInv, XInv, DevInv, OutInv, VerifyKeyConv, WaitPCs
<1>3. CASE n # 5
  BY <1>1, <1>3, IdleNoJob DEF RInv, XInv, DevInv, OutInv, VerifyKeyConv, Return
<1>. QED  BY <1>2, <1>3

LEMMA SignDmaObjsXInv == RInv /\ SignDmaObjs => XInv'
<1> SUFFICES ASSUME RInv, SignDmaObjs PROVE XInv'
  OBVIOUS
<1>1. pc = "sign_dma" /\ dev.st = "idle" /\ buf["desc"] # "free" /\ UNCHANGED dev
  BY DEF SignDmaObjs, RInv, XInv, DevInv, WaitPCs
<1>2. PICK n \in 0..3, mode \in [{"msg", "sig"} -> {"heap", "caller"}], ss \in Stale :
        LET got == Prefix(<<"msg", "sig">>, IF n > 2 THEN 2 ELSE n)
        IN \/ pc' = "idle"
           \/ /\ pc' = "sign_submit" /\ buf' = Take(buf, got, DmaModes(mode))
              /\ cbuf'["sig"] = PushOutput(ss)
  BY DEF SignDmaObjs, Return, RInv, CbufType, CBufs
<1>3. CASE pc' = "idle"
  BY <1>1, <1>3 DEF XInv, DevInv, OutInv
<1>4. CASE pc' # "idle"
  <2>0. Flush(ss).st = "inv"
    BY CacheFields
  <2>1. cbuf'["sig"].st = "inv"
    BY <1>2, <1>4, <2>0 DEF PushOutput
  <2>2. buf'["desc"] = buf["desc"]
    BY <1>2, <1>4 DEF Prefix, Take, Bufs, CBufs, KeyFields, Domain
  <2>. QED  BY <1>1, <1>2, <1>4, <2>1, <2>2 DEF XInv, DevInv, OutInv, NotDirty, WaitPCs
<1>. QED  BY <1>3, <1>4

LEMMA VerifyDmaObjsXInv == RInv /\ VerifyDmaObjs => XInv'
<1> SUFFICES ASSUME RInv, VerifyDmaObjs PROVE XInv'
  OBVIOUS
<1>1. pc = "verify_dma" /\ dev.st = "idle" /\ buf["desc"] # "free" /\ UNCHANGED dev
  BY DEF VerifyDmaObjs, RInv, XInv, DevInv, WaitPCs
<1>2. PICK n \in 0..4, mode \in [{"msg", "sig"} -> {"heap", "caller"}] :
        LET got == Prefix(<<"msg", "sig", "tmp">>, IF n = 4 THEN 3 ELSE IF n = 3 THEN 2 ELSE n)
        IN \/ pc' = "idle"
           \/ pc' = "verify_submit" /\ buf' = Take(buf, got, DmaModes(mode))
  BY DEF VerifyDmaObjs, Return
<1>3. CASE pc' = "idle"
  BY <1>1, <1>3 DEF XInv, DevInv, OutInv
<1>4. CASE pc' # "idle"
  <2>1. buf'["desc"] = buf["desc"]
    BY <1>2, <1>4 DEF Prefix, Take, Bufs, CBufs, KeyFields, Domain
  <2>. QED  BY <1>1, <1>2, <1>4, <2>1 DEF XInv, DevInv, OutInv, WaitPCs
<1>. QED  BY <1>3, <1>4

LEMMA SignSubmitXInv == RInv /\ SignSubmit => XInv'
BY DEF RInv, IInv, XInv, DevInv, OutInv, SignSubmit, WaitPCs, PhaseOp, Desc

LEMMA VerifySubmitXInv == RInv /\ VerifySubmit => XInv'
BY DEF RInv, IInv, XInv, DevInv, OutInv, VerifySubmit, WaitPCs, PhaseOp, Desc

LEMMA SignCompleteXInv == RInv /\ SignComplete => XInv'
BY DEF RInv, XInv, DevInv, OutInv, SignComplete, Retire, DevIdle

LEMMA VerifyCompleteXInv == RInv /\ VerifyComplete => XInv'
BY DEF RInv, XInv, DevInv, OutInv, VerifyComplete, Retire, DevIdle

LEMMA CbufTypeStep == CbufType /\ [Next]_vars => CbufType'
BY DEF CbufType, Next, vars, AllocKeypair, AllocPublickey, AllocKey, CallerSetsKey,
       GenAlloc, GenDomainParams, GenSubmit, GenComplete, SignKeyConv, SignDmaObjs,
       SignSubmit, SignComplete, VerifyKeyConv, VerifyDmaObjs, VerifySubmit,
       VerifyComplete, DevRun, DevDone, CacheEvict, CachePrefetch, Return, Retire, FreeMem

\* A step that changes no line state to dirty and no memory of a clean
\* line preserves OutInv.
LEMMA QuietCacheXInv ==
  ASSUME XInv, UNCHANGED <<pc, buf, desc, op>>, dev'.st = dev.st,
         \A b \in CBufs : NotDirty(cbuf[b]) => NotDirty(cbuf'[b]) /\ cbuf'[b].mem = cbuf[b].mem
  PROVE  XInv'
BY DEF XInv, DevInv, OutInv, CBufs, KeyFields, Domain

LEMMA CacheEvictXInv == RInv /\ CacheEvict => XInv'
<1> SUFFICES ASSUME RInv, CacheEvict PROVE XInv'
  OBVIOUS
<1>1. PICK b \in CBufs : cbuf[b].st = "dirty" /\ cbuf' = [cbuf EXCEPT ![b] = Evict(@)]
  BY DEF CacheEvict
<1>2. \A c \in CBufs : NotDirty(cbuf[c]) => cbuf'[c] = cbuf[c]
  BY <1>1 DEF NotDirty
<1>. QED  BY <1>2, QuietCacheXInv DEF RInv, CacheEvict

LEMMA CachePrefetchXInv == RInv /\ CachePrefetch => XInv'
<1> SUFFICES ASSUME RInv, CachePrefetch PROVE XInv'
  OBVIOUS
<1>1. PICK b \in CBufs : cbuf' = [cbuf EXCEPT ![b] = Prefetch(@)]
  BY DEF CachePrefetch
<1>2. Prefetch(cbuf[b]).st = "clean" /\ Prefetch(cbuf[b]).mem = cbuf[b].mem
  BY CacheFields
<1>3. \A c \in CBufs : NotDirty(cbuf[c]) => NotDirty(cbuf'[c]) /\ cbuf'[c].mem = cbuf[c].mem
  BY <1>1, <1>2 DEF RInv, CbufType, NotDirty
<1>. QED  BY <1>3, QuietCacheXInv DEF RInv, CachePrefetch

LEMMA DevDoneXInv == RInv /\ DevDone => XInv'
BY DEF RInv, XInv, DevInv, OutInv, DevDone

\* The CAAM writes output buffer t through its output fields, and what it
\* writes there is Out(t).
LEMMA DevRunOutput ==
  ASSUME RInv, DevRun, op \in {"gen", "sign"}, desc = Desc(op),
         NEW t \in CBufs, NEW f \in DevOutputs(op), PtrBuf(f) = t
  PROVE  cbuf'[t].mem = Out(t)
<1>1. DevTarget(f) = t
  BY OutputTarget
<1>2. \A g \in DevOutputs(op) : DevTarget(g) = PtrBuf(g)
  BY OutputTarget
<1>. DEFINE g == CHOOSE g \in DevOutputs(op) : DevTarget(g) = t
<1>3. g \in DevOutputs(op) /\ PtrBuf(g) = t
  BY <1>1, <1>2
<1>4. DevValue(g) = Out(t)
  <2>0. DevOutputs(op) \subseteq {"x", "y", "sigc", "sigd"}
    <3>1. CASE op = "gen"
      BY <3>1 DEF DevOutputs
    <3>2. CASE op = "sign"
      BY <3>2 DEF DevOutputs
    <3>. QED  BY <3>1, <3>2
  <2>1. g # "tmp"
    BY <1>3, <2>0
  <2>. QED  BY <2>1, <1>3 DEF DevValue
<1>5. cbuf'[t] = DevWrite(cbuf[t], DevValue(g))
  BY <1>1 DEF DevRun
<1>6. DevWrite(cbuf[t], Out(t)).mem = Out(t)
  BY CacheFields
<1>. QED  BY <1>4, <1>5, <1>6

LEMMA DevRunXInv == RInv /\ DevRun => XInv'
<1> SUFFICES ASSUME RInv, DevRun PROVE XInv'
  OBVIOUS
<1>1. pc \in WaitPCs /\ desc = Desc(op) /\ op = PhaseOp(pc)
  BY DEF DevRun, RInv, XInv, DevInv, IInv, WaitPCs
<1>2. \A b \in CBufs : cbuf'[b].st = cbuf[b].st
  <2>. SUFFICES ASSUME NEW b \in CBufs PROVE cbuf'[b].st = cbuf[b].st
    OBVIOUS
  <2>1. \A v : DevWrite(cbuf[b], v).st = cbuf[b].st
    BY CacheFields
  <2>. QED  BY <2>1 DEF DevRun
<1>3. pc = "gen_wait" => cbuf'["x"].mem = Out("x") /\ cbuf'["y"].mem = Out("y")
  <2>. SUFFICES ASSUME pc = "gen_wait" PROVE cbuf'["x"].mem = Out("x") /\ cbuf'["y"].mem = Out("y")
    OBVIOUS
  <2>1. op = "gen"
    BY <1>1 DEF PhaseOp
  <2>2. "x" \in DevOutputs(op) /\ "y" \in DevOutputs(op) /\ PtrBuf("x") = "x" /\ PtrBuf("y") = "y"
    BY <2>1 DEF DevOutputs, PtrBuf
  <2>3. "x" \in CBufs /\ "y" \in CBufs
    BY DEF CBufs, KeyFields
  <2>. QED  BY <1>1, <2>1, <2>2, <2>3, DevRunOutput
<1>4. pc = "sign_wait" => cbuf'["sig"].mem = Out("sig")
  <2>. SUFFICES ASSUME pc = "sign_wait" PROVE cbuf'["sig"].mem = Out("sig")
    OBVIOUS
  <2>1. op = "sign"
    BY <1>1 DEF PhaseOp
  <2>2. "sigc" \in DevOutputs(op) /\ PtrBuf("sigc") = "sig" /\ "sig" \in CBufs
    BY <2>1 DEF DevOutputs, PtrBuf, CBufs
  <2>. QED  BY <1>1, <2>1, <2>2, DevRunOutput
<1>5. dev'.st = "ran" /\ UNCHANGED <<pc, op, buf, desc>>
  BY DEF DevRun
<1>6. DevInv'
  BY <1>1, <1>5 DEF RInv, XInv, DevInv
<1>7. OutInv'
  <2>1. pc \in {"gen_params", "gen_submit", "gen_wait"} =>
          NotDirty(cbuf'["x"]) /\ NotDirty(cbuf'["y"])
    BY <1>2 DEF RInv, XInv, OutInv, NotDirty, CBufs, KeyFields
  <2>2. pc \in {"sign_submit", "sign_wait"} => NotDirty(cbuf'["sig"])
    BY <1>2 DEF RInv, XInv, OutInv, NotDirty, CBufs
  <2>. QED  BY <1>3, <1>4, <1>5, <2>1, <2>2 DEF OutInv
<1>. QED  BY <1>6, <1>7 DEF XInv

LEMMA XInvStep == RInv /\ [Next]_vars => XInv'
<1> SUFFICES ASSUME RInv, [Next]_vars PROVE XInv'
  OBVIOUS
<1>1. CASE UNCHANGED vars
  BY <1>1 DEF RInv, vars, XInv, DevInv, OutInv, NotDirty
<1>. QED
  BY <1>1, AllocKeypairXInv, AllocPublickeyXInv, CallerSetsKeyXInv, GenAllocXInv,
     GenDomainParamsXInv, GenSubmitXInv, GenCompleteXInv, SignKeyConvXInv,
     SignDmaObjsXInv, SignSubmitXInv, SignCompleteXInv, VerifyKeyConvXInv,
     VerifyDmaObjsXInv, VerifySubmitXInv, VerifyCompleteXInv, DevRunXInv,
     DevDoneXInv, CacheEvictXInv, CachePrefetchXInv DEF Next

\* The strengthened invariant of the refinement proof holds in every
\* reachable state: besides IInv, a job on the CAAM belongs to the waiting
\* caller and has its operation's descriptor, the output buffers carry no
\* dirty line from before their flush, and once the job has run they hold
\* in memory what the CAAM wrote.
THEOREM RInvTheorem == Spec => []RInv
<1>1. Init => RInv
  BY InitIInv, InitXInv DEF RInv, CbufType, Init, FreeMem
<1>2. RInv /\ [Next]_vars => RInv'
  BY IInvStep, CbufTypeStep, XInvStep DEF RInv
<1>. QED  BY <1>1, <1>2, PTL DEF Spec

-----------------------------------------------------------------------------
(***************************************************************************)
(* Every step of the driver is a step of the service or a stutter of its  *)
(* view.                                                                   *)
(***************************************************************************)
\* A step that keeps the call in progress (or idle) and changes none of
\* op, key, bn, usig and ret leaves the service's view unchanged.
LEMMA ViewStutter ==
  ASSUME RInv, RInv', pc = "idle" <=> pc' = "idle", UNCHANGED <<op, key, bn, usig, ret>>
  PROVE  UNCHANGED Abs!vars
<1>1. PhaseOf' = PhaseOf
  BY DEF PhaseOf
<1>2. Holds' = Holds
  <2>1. (Holds <=> pc # "idle") /\ (Holds' <=> pc' # "idle")
    BY DEF RInv, IInv, XInv, DevInv, Holds, PhaseFrees, Bufs
  <2>. QED  BY <2>1 DEF Holds
<1>. QED  BY <1>1, <1>2 DEF Abs!vars

LEMMA AllocKeypairRefines == AllocKeypair => Abs!Allocate("alloc_keypair", KeyFields)
<1> SUFFICES ASSUME AllocKeypair PROVE Abs!Allocate("alloc_keypair", KeyFields)
  OBVIOUS
<1>1. PICK n \in 0..5 :
        LET got == Prefix(<<"g", "p", "q", "x", "y">>, n) IN
        /\ op' = "alloc_keypair"
        /\ key' = [f \in KeyFields |-> Absent]
        /\ \/ /\ n = 5
              /\ bn' = [f \in KeyFields |-> IF f \in got THEN "live" ELSE "null"]
              /\ ret' = "SUCCESS"
           \/ /\ n < 5
              /\ bn' = [f \in KeyFields |-> IF f \in got \cap {"g", "p", "q", "x"} THEN "freed"
                                            ELSE IF f \in got THEN "live" ELSE "null"]
              /\ ret' = "OUT_OF_MEMORY"
  BY DEF AllocKeypair, AllocKey
<1>2. UNCHANGED <<pc, buf, usig>> /\ pc = "idle"
  BY DEF AllocKeypair, AllocKey
<1>3. n = 5 => Prefix(<<"g", "p", "q", "x", "y">>, n) = KeyFields
  BY DEF Prefix, KeyFields, Domain
<1>4. n < 5 => Prefix(<<"g", "p", "q", "x", "y">>, n) \subseteq {"g", "p", "q", "x"}
  BY DEF Prefix
<1>. QED  BY <1>1, <1>2, <1>3, <1>4 DEF Abs!Allocate, PhaseOf, Holds, Absent, Abs!Absent, Abs!KeyFields, Abs!Domain,
                                      KeyFields, Domain

LEMMA AllocPublickeyRefines == AllocPublickey => Abs!Allocate("alloc_publickey", KeyFields \ {"x"})
<1> SUFFICES ASSUME AllocPublickey PROVE Abs!Allocate("alloc_publickey", KeyFields \ {"x"})
  OBVIOUS
<1>1. PICK n \in 0..4 :
        LET got == Prefix(<<"g", "p", "q", "y">>, n) IN
        /\ op' = "alloc_publickey"
        /\ key' = [f \in KeyFields |-> Absent]
        /\ \/ /\ n = 4
              /\ bn' = [f \in KeyFields |-> IF f \in got THEN "live" ELSE "null"]
              /\ ret' = "SUCCESS"
           \/ /\ n < 4
              /\ bn' = [f \in KeyFields |-> IF f \in got \cap {"g", "p", "q"} THEN "freed"
                                            ELSE IF f \in got THEN "live" ELSE "null"]
              /\ ret' = "OUT_OF_MEMORY"
  BY DEF AllocPublickey, AllocKey
<1>2. UNCHANGED <<pc, buf, usig>> /\ pc = "idle"
  BY DEF AllocPublickey, AllocKey
<1>3. n = 4 => Prefix(<<"g", "p", "q", "y">>, n) = KeyFields \ {"x"}
  BY DEF Prefix, KeyFields, Domain
<1>4. n < 4 => Prefix(<<"g", "p", "q", "y">>, n) \subseteq {"g", "p", "q"}
  BY DEF Prefix
<1>. QED  BY <1>1, <1>2, <1>3, <1>4 DEF Abs!Allocate, PhaseOf, Holds, Absent, Abs!Absent, Abs!KeyFields, Abs!Domain,
                                      KeyFields, Domain

LEMMA CallerSetsKeyRefines == CallerSetsKey => Abs!SetKey
BY DEF CallerSetsKey, Abs!SetKey, PhaseOf, Holds, Absent, Abs!Absent, Abs!Domain, Abs!KeyFields,
       Abs!In, In, KeyFields, Domain

\* The first step of a job: on success the call is in progress and holds
\* memory, on failure it returned holding none.
LEMMA StartStep ==
  ASSUME NEW o \in Abs!JobOps, RInv, RInv', pc = "idle", Abs!Ready(o),
         op' = o, UNCHANGED <<key, bn, usig>>,
         \/ pc' # "idle" /\ UNCHANGED ret
         \/ pc' = "idle" /\ ret' = "OUT_OF_MEMORY"
  PROVE  Abs!Begin(o) \/ Abs!Refuse(o)
<1>1. (Holds <=> pc # "idle") /\ (Holds' <=> pc' # "idle")
  BY DEF RInv, IInv, XInv, DevInv, Holds, PhaseFrees, Bufs
<1>2. CASE pc' # "idle"
  <2>1. Holds' = TRUE
    BY <1>1, <1>2 DEF Holds
  <2>. QED  BY <1>2, <2>1 DEF Abs!Begin, PhaseOf
<1>3. CASE pc' = "idle"
  <2>1. Holds' = Holds
    BY <1>1, <1>3 DEF Holds
  <2>. QED  BY <1>3, <2>1 DEF Abs!Refuse, PhaseOf
<1>. QED  BY <1>2, <1>3

LEMMA GenAllocRefines == RInv /\ RInv' /\ GenAlloc => Abs!Begin("gen") \/ Abs!Refuse("gen")
<1> SUFFICES ASSUME RInv, RInv', GenAlloc PROVE Abs!Begin("gen") \/ Abs!Refuse("gen")
  OBVIOUS
<1>1. Abs!Ready("gen")
  BY DEF GenAlloc, Abs!Ready, Abs!KeyFields, Abs!Domain, KeyFields, Domain
<1>2. \/ pc' # "idle" /\ UNCHANGED ret
      \/ pc' = "idle" /\ ret' = "OUT_OF_MEMORY"
  BY DEF GenAlloc, Return
<1>. QED  BY <1>1, <1>2, StartStep DEF GenAlloc, Abs!JobOps

LEMMA SignKeyConvRefines == RInv /\ RInv' /\ SignKeyConv => Abs!Begin("sign") \/ Abs!Refuse("sign")
<1> SUFFICES ASSUME RInv, RInv', SignKeyConv PROVE Abs!Begin("sign") \/ Abs!Refuse("sign")
  OBVIOUS
<1>1. Abs!Ready("sign")
  BY DEF SignKeyConv, Abs!Ready
<1>2. \/ pc' # "idle" /\ UNCHANGED ret
      \/ pc' = "idle" /\ ret' = "OUT_OF_MEMORY"
  BY DEF SignKeyConv, Return
<1>. QED  BY <1>1, <1>2, StartStep DEF SignKeyConv, Abs!JobOps

LEMMA VerifyKeyConvRefines == RInv /\ RInv' /\ VerifyKeyConv => Abs!Begin("verify") \/ Abs!Refuse("verify")
<1> SUFFICES ASSUME RInv, RInv', VerifyKeyConv PROVE Abs!Begin("verify") \/ Abs!Refuse("verify")
  OBVIOUS
<1>1. Abs!Ready("verify")
  BY DEF VerifyKeyConv, Abs!Ready
<1>2. \/ pc' # "idle" /\ UNCHANGED ret
      \/ pc' = "idle" /\ ret' = "OUT_OF_MEMORY"
  BY DEF VerifyKeyConv, Return
<1>. QED  BY <1>1, <1>2, StartStep DEF VerifyKeyConv, Abs!JobOps

\* The results a call of the service may return.
AbsResults == {"SUCCESS", "SIGNATURE_INVALID"} \cup Abs!Errors

\* The last step of a job: the call returns r, holding nothing.
LEMMA FinishStep ==
  ASSUME NEW r \in AbsResults, RInv, RInv', pc # "idle", pc' = "idle", ret' = r,
         Abs!Outcome(op, r), UNCHANGED <<op, bn>>
  PROVE  Abs!Finish(r)
<1>1. Holds' = FALSE
  <2>1. Holds' <=> pc' # "idle"
    BY DEF RInv, IInv, Holds, PhaseFrees, Bufs
  <2>. QED  BY <2>1 DEF Holds
<1>. QED  BY <1>1 DEF Abs!Finish, PhaseOf

LEMMA GenDomainParamsRefines ==
  ASSUME RInv, RInv', GenDomainParams
  PROVE  \/ \E r \in AbsResults : Abs!Finish(r)
         \/ Abs!Generate
         \/ UNCHANGED Abs!vars
<1>1. pc = "gen_params" /\ op = "gen" /\ UNCHANGED <<op, bn, usig>>
  BY DEF GenDomainParams, RInv, IInv, PhaseOp
<1>2. PICK n \in 0..3, s \in Stale :
        \/ pc' = "idle" /\ ret' \in {"OUT_OF_MEMORY", "GENERIC"} /\ UNCHANGED key
        \/ pc' = "gen_submit" /\ UNCHANGED <<key, ret>>
        \/ /\ \E f \in Domain : key[f] = Absent
           /\ \E ok \in [Domain -> Bin2BnOk] :
                /\ cbuf' = [b \in CBufs |-> IF b \in Domain
                               THEN PrimeDsaGen(HostWrite(s, Zero), b) ELSE cbuf[b]]
                /\ key' = [f \in KeyFields |-> IF f \in Domain /\ ok[f]
                                                THEN HostView(cbuf'[f]) ELSE key[f]]
           /\ pc' = "gen_submit" /\ UNCHANGED ret
  BY DEF GenDomainParams, Return
<1>3. CASE pc' = "idle" /\ ret' \in {"OUT_OF_MEMORY", "GENERIC"} /\ UNCHANGED key
  <2>1. Abs!Outcome(op, ret')
    BY <1>1, <1>3 DEF Abs!Outcome, Abs!Errors
  <2>2. ret' \in AbsResults
    BY <1>3 DEF AbsResults, Abs!Errors
  <2>. QED  BY <1>1, <1>3, <2>1, <2>2, FinishStep
<1>4. CASE pc' = "gen_submit" /\ UNCHANGED <<key, ret>>
  BY <1>1, <1>4, ViewStutter
<1>5. CASE /\ \E f \in Domain : key[f] = Absent
           /\ \E ok \in [Domain -> Bin2BnOk] :
                /\ cbuf' = [b \in CBufs |-> IF b \in Domain
                               THEN PrimeDsaGen(HostWrite(s, Zero), b) ELSE cbuf[b]]
                /\ key' = [f \in KeyFields |-> IF f \in Domain /\ ok[f]
                                                THEN HostView(cbuf'[f]) ELSE key[f]]
           /\ pc' = "gen_submit" /\ UNCHANGED ret
  <2>1. PICK ok \in [Domain -> Bin2BnOk] :
          /\ cbuf' = [b \in CBufs |-> IF b \in Domain
                         THEN PrimeDsaGen(HostWrite(s, Zero), b) ELSE cbuf[b]]
          /\ key' = [f \in KeyFields |-> IF f \in Domain /\ ok[f]
                                          THEN HostView(cbuf'[f]) ELSE key[f]]
    BY <1>5
  <2>2. \A f \in Domain : HostView(PrimeDsaGen(HostWrite(s, Zero), f)) = Gen(f)
    BY PrimedGen
  <2>3. key' = [f \in KeyFields |-> IF f \in {d \in Domain : ok[d]} THEN Gen(f) ELSE key[f]]
    BY <2>1, <2>2 DEF CBufs, KeyFields
  <2>4. Holds' = Holds
    <3>1. (Holds <=> pc # "idle") /\ (Holds' <=> pc' # "idle")
      BY DEF RInv, IInv, XInv, DevInv, Holds, PhaseFrees, Bufs
    <3>. QED  BY <3>1, <1>1, <1>5 DEF Holds
  <2>5. Abs!Generate
    BY <1>1, <1>5, <2>3, <2>4 DEF Abs!Generate, PhaseOf, Abs!Domain, Abs!KeyFields,
                                  Abs!Absent, Absent, Abs!Gen, Gen, KeyFields, Domain
  <2>. QED  BY <2>5
<1>. QED  BY <1>2, <1>3, <1>4, <1>5

LEMMA SignDmaObjsRefines ==
  ASSUME RInv, RInv', SignDmaObjs
  PROVE  Abs!Finish("OUT_OF_MEMORY") \/ UNCHANGED Abs!vars
<1>1. pc = "sign_dma" /\ op = "sign" /\ UNCHANGED <<op, key, bn, usig>>
  BY DEF SignDmaObjs, RInv, IInv, PhaseOp
<1>2. \/ pc' = "idle" /\ ret' = "OUT_OF_MEMORY"
      \/ pc' = "sign_submit" /\ UNCHANGED ret
  BY DEF SignDmaObjs, Return
<1>3. CASE pc' = "idle" /\ ret' = "OUT_OF_MEMORY"
  <2>1. Abs!Outcome(op, "OUT_OF_MEMORY")
    BY <1>1 DEF Abs!Outcome, Abs!Errors
  <2>. QED  BY <1>1, <1>3, <2>1, FinishStep DEF AbsResults, Abs!Errors
<1>4. CASE pc' = "sign_submit" /\ UNCHANGED ret
  BY <1>1, <1>4, ViewStutter
<1>. QED  BY <1>2, <1>3, <1>4

LEMMA VerifyDmaObjsRefines ==
  ASSUME RInv, RInv', VerifyDmaObjs
  PROVE  Abs!Finish("OUT_OF_MEMORY") \/ UNCHANGED Abs!vars
<1>1. pc = "verify_dma" /\ op = "verify" /\ UNCHANGED <<op, key, bn, usig>>
  BY DEF VerifyDmaObjs, RInv, IInv, PhaseOp
<1>2. \/ pc' = "idle" /\ ret' = "OUT_OF_MEMORY"
      \/ pc' = "verify_submit" /\ UNCHANGED ret
  BY DEF VerifyDmaObjs, Return
<1>3. CASE pc' = "idle" /\ ret' = "OUT_OF_MEMORY"
  <2>1. Abs!Outcome(op, "OUT_OF_MEMORY")
    BY <1>1 DEF Abs!Outcome, Abs!Errors
  <2>. QED  BY <1>1, <1>3, <2>1, FinishStep DEF AbsResults, Abs!Errors
<1>4. CASE pc' = "verify_submit" /\ UNCHANGED ret
  BY <1>1, <1>4, ViewStutter
<1>. QED  BY <1>2, <1>3, <1>4

\* Key generation returns the x and y the CAAM wrote, or an error with at
\* most x copied.
LEMMA GenCompleteRefines ==
  ASSUME RInv, RInv', GenComplete
  PROVE  \E r \in AbsResults : Abs!Finish(r)
<1>1. pc = "gen_wait" /\ op = "gen" /\ dev.st = "done" /\ pc' = "idle" /\ UNCHANGED <<op, bn, usig>>
  BY DEF GenComplete, RInv, IInv, PhaseOp, Retire
<1>2. HostView(PullOutput(cbuf["x"])) = Out("x") /\ HostView(PullOutput(cbuf["y"])) = Out("y")
  <2>1. cbuf["x"].mem = Out("x") /\ cbuf["y"].mem = Out("y")
    BY <1>1 DEF RInv, XInv, OutInv
  <2>2. HostView(Invalidate(cbuf["x"])) = cbuf["x"].mem
        /\ HostView(Invalidate(cbuf["y"])) = cbuf["y"].mem
    BY CacheFields
  <2>. QED  BY <2>1, <2>2 DEF PullOutput
<1>3. \/ key' = [key EXCEPT !["x"] = Out("x"), !["y"] = Out("y")] /\ ret' = "SUCCESS"
      \/ key' = [key EXCEPT !["x"] = Out("x")] /\ ret' = "BAD_PARAMETERS"
      \/ UNCHANGED key /\ ret' \in {"BAD_PARAMETERS", "GENERIC"}
  BY <1>2 DEF GenComplete, JobStatusToTeeResult
<1>4. Abs!Outcome(op, ret') /\ ret' \in AbsResults
  BY <1>1, <1>3 DEF Abs!Outcome, Abs!Errors, AbsResults, Abs!Out, Out
<1>. QED  BY <1>1, <1>4, FinishStep

\* A signature returns the one the CAAM wrote, or an error.
LEMMA SignCompleteRefines ==
  ASSUME RInv, RInv', SignComplete
  PROVE  \E r \in AbsResults : Abs!Finish(r)
<1>1. pc = "sign_wait" /\ op = "sign" /\ dev.st = "done" /\ pc' = "idle" /\ UNCHANGED <<op, key, bn>>
  BY DEF SignComplete, RInv, IInv, PhaseOp, Retire
<1>2. CopyToOrig(cbuf["sig"]) = Out("sig")
  <2>1. cbuf["sig"].mem = Out("sig")
    BY <1>1 DEF RInv, XInv, OutInv
  <2>2. HostView(Invalidate(cbuf["sig"])) = cbuf["sig"].mem
    BY CacheFields
  <2>. QED  BY <2>1, <2>2 DEF CopyToOrig
<1>3. \/ usig' = Out("sig") /\ ret' = "SUCCESS"
      \/ UNCHANGED usig /\ ret' = "GENERIC"
  BY <1>2 DEF SignComplete, JobStatusToTeeResult
<1>4. Abs!Outcome(op, ret') /\ ret' \in AbsResults
  BY <1>1, <1>3 DEF Abs!Outcome, Abs!Errors, AbsResults, Abs!Out, Out
<1>. QED  BY <1>1, <1>4, FinishStep

LEMMA VerifyCompleteRefines ==
  ASSUME RInv, RInv', VerifyComplete
  PROVE  \E r \in AbsResults : Abs!Finish(r)
<1>1. pc = "verify_wait" /\ op = "verify" /\ pc' = "idle" /\ UNCHANGED <<op, key, bn, usig>>
  BY DEF VerifyComplete, RInv, IInv, PhaseOp, Retire
<1>2. ret' \in {"SIGNATURE_INVALID", "GENERIC", "SUCCESS"}
  BY DEF VerifyComplete, VerifyResult, JobStatusToTeeResult
<1>3. Abs!Outcome(op, ret') /\ ret' \in AbsResults
  BY <1>1, <1>2 DEF Abs!Outcome, Abs!Errors, AbsResults
<1>. QED  BY <1>1, <1>3, FinishStep

\* Building and enqueueing a descriptor, the CAAM's own steps and the
\* cache's change nothing the caller of the service sees.
LEMMA InternalRefines ==
  ASSUME RInv, RInv',
         \/ GenSubmit \/ SignSubmit \/ VerifySubmit
         \/ DevRun \/ DevDone \/ CacheEvict \/ CachePrefetch \/ UNCHANGED vars
  PROVE  UNCHANGED Abs!vars
<1>1. pc = "idle" <=> pc' = "idle"
  BY DEF GenSubmit, SignSubmit, VerifySubmit, DevRun, DevDone, CacheEvict,
         CachePrefetch, vars
<1>2. UNCHANGED <<op, key, bn, usig, ret>>
  BY DEF GenSubmit, SignSubmit, VerifySubmit, DevRun, DevDone, CacheEvict,
         CachePrefetch, vars
<1>. QED  BY <1>1, <1>2, ViewStutter

LEMMA RefineStep == RInv /\ RInv' /\ [Next]_vars => [Abs!Next]_Abs!vars
<1> SUFFICES ASSUME RInv, RInv', [Next]_vars PROVE [Abs!Next]_Abs!vars
  OBVIOUS
<1>1. CASE AllocKeypair
  BY <1>1, AllocKeypairRefines DEF Abs!Next, Abs!KeyFields, Abs!Domain, KeyFields, Domain
<1>2. CASE AllocPublickey
  BY <1>2, AllocPublickeyRefines DEF Abs!Next, Abs!KeyFields, Abs!Domain, KeyFields, Domain
<1>3. CASE CallerSetsKey
  BY <1>3, CallerSetsKeyRefines DEF Abs!Next
<1>4. CASE GenAlloc
  <2>1. Abs!Begin("gen") \/ Abs!Refuse("gen")
    BY <1>4, GenAllocRefines
  <2>. QED  BY <2>1 DEF Abs!Next, Abs!JobOps
<1>5. CASE SignKeyConv
  <2>1. Abs!Begin("sign") \/ Abs!Refuse("sign")
    BY <1>5, SignKeyConvRefines
  <2>. QED  BY <2>1 DEF Abs!Next, Abs!JobOps
<1>6. CASE VerifyKeyConv
  <2>1. Abs!Begin("verify") \/ Abs!Refuse("verify")
    BY <1>6, VerifyKeyConvRefines
  <2>. QED  BY <2>1 DEF Abs!Next, Abs!JobOps
<1>7. CASE GenDomainParams
  BY <1>7, GenDomainParamsRefines DEF Abs!Next, AbsResults
<1>8. CASE SignDmaObjs
  BY <1>8, SignDmaObjsRefines DEF Abs!Next, Abs!Errors
<1>9. CASE VerifyDmaObjs
  BY <1>9, VerifyDmaObjsRefines DEF Abs!Next, Abs!Errors
<1>10. CASE GenComplete \/ SignComplete \/ VerifyComplete
  <2>1. \E r \in AbsResults : Abs!Finish(r)
    BY <1>10, GenCompleteRefines, SignCompleteRefines, VerifyCompleteRefines
  <2>. QED  BY <2>1 DEF Abs!Next, AbsResults
<1>11. CASE \/ GenSubmit \/ SignSubmit \/ VerifySubmit
            \/ DevRun \/ DevDone \/ CacheEvict \/ CachePrefetch \/ UNCHANGED vars
  BY <1>11, InternalRefines
<1>. QED  BY <1>1, <1>2, <1>3, <1>4, <1>5, <1>6, <1>7, <1>8, <1>9, <1>10, <1>11 DEF Next

LEMMA InitRefines == Init => Abs!Init
BY DEF Init, Abs!Init, PhaseOf, Holds, Bufs, Absent, Abs!Absent, Abs!KeyFields,
       Abs!Domain, KeyFields, Domain, Abs!Old, Old

\* The CAAM DSA driver implements the DSA service of struct drvcrypt_dsa:
\* under the mapping of CaamDsaRefinement (the call is busy outside pc
\* "idle", the driver holds memory while any buffer is taken), every
\* behaviour of do_allocate_keypair, do_allocate_publickey, do_gen_keypair,
\* do_sign and do_verify, with the CAAM and the cache running beside them,
\* is a behaviour of DsaService: generated keys and signatures are the
\* CAAM's outputs, and memory is held exactly while a call runs.
THEOREM Refinement == Spec => DsaRefinement
<1>1. Spec => []RInv
  BY RInvTheorem
<1>2. Init => Abs!Init
  BY InitRefines
<1>3. RInv /\ RInv' /\ [Next]_vars => [Abs!Next]_Abs!vars
  BY RefineStep
<1>4. Spec => Abs!Spec
  BY <1>1, <1>2, <1>3, PTL DEF Spec, Abs!Spec
<1>. QED  BY <1>4 DEF DsaRefinement
=============================================================================
