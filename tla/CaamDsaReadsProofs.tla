------------------------- MODULE CaamDsaReadsProofs -------------------------
(***************************************************************************)
(* Proof that the CAAM reads what the driver stored: every input a job     *)
(* reads through its descriptor holds, in memory, the value the driver     *)
(* wrote into that buffer, whatever the cache does while the job is out.  *)
(***************************************************************************)
EXTENDS CaamDsaRefinementProofs, TLAPS

\* A buffer whose memory holds what the driver stored and whose cache
\* line holds nothing an eviction could write over it.
Synced(b) == NotDirty(cbuf[b]) /\ cbuf[b].mem = want[b]

\* The input buffers the running call has already converted and cleaned,
\* at each pc: the key fields after the key conversion, the message and
\* the signature after their DMA objects were pushed.
InputBufs(p) ==
  CASE p \in {"gen_submit", "gen_wait"} -> Domain
    [] p = "sign_dma" -> Domain \cup {"x"}
    [] p \in {"sign_submit", "sign_wait"} -> Domain \cup {"x", "msg"}
    [] p = "verify_dma" -> Domain \cup {"y"}
    [] p \in {"verify_submit", "verify_wait"} -> Domain \cup {"y", "msg", "sig"}
    [] OTHER -> {}

\* The inputs stay synced from their clean until the call returns.
InInv == \A b \in InputBufs(pc) : Synced(b)

\* The driver's record of what it stored is a function of CBufs.
WantType == DOMAIN want = CBufs

DInv == RInv /\ WantType /\ InInv /\ DeviceReadsIntended

-----------------------------------------------------------------------------
(***************************************************************************)
(* What a clean leaves in a line the host has just written.                *)
(***************************************************************************)
LEMMA CleanWritten ==
  ASSUME NEW b, NEW v
  PROVE  NotDirty(Clean(HostWrite(b, v))) /\ Clean(HostWrite(b, v)).mem = v
<1>1. HostWrite(b, v).st = "dirty" /\ HostWrite(b, v).c = v
  BY DEF HostWrite
<1>. QED  BY <1>1 DEF Clean, NotDirty

\* do_keypriv_conv / do_keypub_conv and the conversion branch of
\* get_keypair_domain_params leave the encoded value in memory.
LEMMA CleanEncoded ==
  ASSUME NEW b, NEW v
  PROVE  NotDirty(Clean(Encoded(b, v))) /\ Clean(Encoded(b, v)).mem = Stored(v)
<1>1. CASE v = Absent
  BY <1>1, CleanWritten DEF Encoded, Stored
<1>2. CASE v # Absent
  BY <1>2, CleanWritten DEF Encoded, Stored
<1>. QED  BY <1>1, <1>2

\* caam_dmaobj_cache_push of a caller's buffer into which v was stored.
LEMMA CleanCaller ==
  ASSUME NEW v, NEW b \in CallerStates(v)
  PROVE  NotDirty(Clean(b)) /\ Clean(b).mem = v
<1>1. CASE b = Buf(Old, "dirty", v)
  BY <1>1 DEF Clean, Buf, NotDirty
<1>2. CASE b = Buf(v, "clean", v)
  BY <1>2 DEF Clean, Buf, NotDirty
<1>3. CASE b = Buf(v, "inv", NoData)
  BY <1>3 DEF Clean, Buf, NotDirty
<1>. QED  BY <1>1, <1>2, <1>3 DEF CallerStates

\* A generated domain parameter is in memory and not cached.
LEMMA PrimedSynced ==
  ASSUME NEW b, NEW f
  PROVE  NotDirty(PrimeDsaGen(b, f)) /\ PrimeDsaGen(b, f).mem = Gen(f)
<1>1. DevWrite(Flush(b), Gen(f)).mem = Gen(f)
  BY CacheFields
<1>. QED  BY <1>1, CacheFields DEF PrimeDsaGen, NotDirty

-----------------------------------------------------------------------------
(***************************************************************************)
(* The fields a waiting call's job reads and writes.                       *)
(***************************************************************************)
LEMMA InputsCovered ==
  ASSUME NEW p \in WaitPCs, NEW f \in DevInputs(PhaseOp(p))
  PROVE  f \in PtrFields /\ PtrBuf(f) \in InputBufs(p)
BY DEF WaitPCs, PhaseOp, DevInputs, PtrFields, PtrBuf, InputBufs, CBufs, KeyFields, Domain

LEMMA OutputsApart ==
  ASSUME NEW p \in WaitPCs, NEW f \in DevOutputs(PhaseOp(p))
  PROVE  PtrBuf(f) \notin InputBufs(p)
BY DEF WaitPCs, PhaseOp, DevOutputs, PtrBuf, InputBufs, Domain

\* Every pointer field of the descriptor of a running job reaches the
\* buffer of that field.
LEMMA FieldTarget ==
  ASSUME op \in {"gen", "sign", "verify"}, desc = Desc(op),
         NEW f \in DevInputs(op) \cup DevOutputs(op)
  PROVE  DevTarget(f) = PtrBuf(f)
<1> DEFINE ts == HwPtrFields(op)
           T == {<<"len">>, <<"op", "PK_KEYPAIR_GEN">>, <<"op", "DSA_SIGN">>, <<"op", "DSA_VERIFY">>}
           K == HwIndex(op, f)
<1>1. FitsLayout(desc, op)
  BY DescFitsLayout
<1>2. ts \in Seq(FieldNames) /\ HwTrailer(op) \in Seq(T) /\ HwPtrFields(op) = ts
  <2>1. CASE op = "gen"
    BY <2>1 DEF HwPtrFields, HwTrailer, FieldNames
  <2>2. CASE op = "sign"
    BY <2>2 DEF HwPtrFields, HwTrailer, FieldNames
  <2>3. CASE op = "verify"
    BY <2>3 DEF HwPtrFields, HwTrailer, FieldNames
  <2>. QED  BY <2>1, <2>2, <2>3
<1>3. \E k \in 1..Len(ts) : ts[k] = f
  <2>1. CASE op = "gen"
    <3>1. ts = <<"p", "q", "g", "x", "y">> /\ f \in {"p", "q", "g", "x", "y"}
      BY <2>1 DEF HwPtrFields, DevInputs, DevOutputs, Domain
    <3>. QED  BY <3>1
  <2>2. CASE op = "sign"
    <3>1. ts = <<"p", "q", "g", "x", "msg", "sigc", "sigd">>
          /\ f \in {"p", "q", "g", "x", "msg", "sigc", "sigd"}
      BY <2>2 DEF HwPtrFields, DevInputs, DevOutputs, Domain
    <3>. QED  BY <3>1
  <2>3. CASE op = "verify"
    <3>1. ts = <<"p", "q", "g", "y", "msg", "sigc", "sigd", "tmp">>
          /\ f \in {"p", "q", "g", "y", "msg", "sigc", "sigd", "tmp"}
      BY <2>3 DEF HwPtrFields, DevInputs, DevOutputs, Domain
    <3>. QED  BY <3>1
  <2>. QED  BY <2>1, <2>2, <2>3
<1>4. K \in 1..Len(ts) /\ ts[K] = f
  BY <1>3 DEF HwIndex
<1> HIDE DEF ts, T, K
<1>5. HwPtrTarget(desc, K) = ts[K]
  BY <1>1, <1>2, <1>4, PtrField
<1>6. HwPtrTarget(desc, HwIndex(op, f)) = f
  BY <1>4, <1>5 DEF K
<1>. QED  BY <1>6 DEF DevTarget

-----------------------------------------------------------------------------
(***************************************************************************)
(* YInv is preserved by every step.                                        *)
(***************************************************************************)
YInv == WantType /\ InInv /\ DeviceReadsIntended

\* Outside a waiting phase the CAAM has no job of this driver.
LEMMA NotWaitNoJob ==
  ASSUME RInv, pc \notin WaitPCs
  PROVE  dev.st = "idle"
BY DEF RInv, XInv, DevInv

\* A step that returns to the caller leaves nothing to keep synced.
LEMMA ReturnY ==
  ASSUME pc' = "idle", want' = NoWant, dev'.st \notin {"ran", "done"}
  PROVE  YInv'
BY DEF YInv, WantType, NoWant, InInv, InputBufs, DeviceReadsIntended

\* A step of an idle caller that keeps it idle and touches no buffer.
LEMMA IdleY ==
  ASSUME RInv, YInv, pc = "idle", pc' = "idle", UNCHANGED <<want, dev>>
  PROVE  YInv'
BY NotWaitNoJob DEF YInv, WantType, InInv, InputBufs, DeviceReadsIntended, WaitPCs

LEMMA AllocKeypairY == DInv /\ AllocKeypair => YInv'
BY IdleY DEF DInv, YInv, AllocKeypair, AllocKey

LEMMA AllocPublickeyY == DInv /\ AllocPublickey => YInv'
BY IdleY DEF DInv, YInv, AllocPublickey, AllocKey

LEMMA CallerSetsKeyY == DInv /\ CallerSetsKey => YInv'
BY IdleY DEF DInv, YInv, CallerSetsKey

LEMMA GenAllocY == DInv /\ GenAlloc => YInv'
<1> SUFFICES ASSUME DInv, GenAlloc PROVE YInv'
  OBVIOUS
<1>1. dev.st = "idle" /\ UNCHANGED dev
  BY NotWaitNoJob DEF DInv, GenAlloc, WaitPCs
<1>2. \/ pc' = "gen_params" /\ DOMAIN want' = CBufs
      \/ pc' = "idle" /\ want' = NoWant
  BY DEF GenAlloc, Return
<1>. QED  BY <1>1, <1>2, ReturnY DEF YInv, WantType, InInv, InputBufs, DeviceReadsIntended

LEMMA GenDomainParamsY == DInv /\ GenDomainParams => YInv'
<1> SUFFICES ASSUME DInv, GenDomainParams PROVE YInv'
  OBVIOUS
<1>1. dev.st = "idle" /\ UNCHANGED dev
  BY NotWaitNoJob DEF DInv, GenDomainParams, WaitPCs
<1>2. PICK s \in Stale :
        \/ pc' = "idle" /\ want' = NoWant
        \/ /\ \A f \in Domain : key[f] # Absent
           /\ cbuf' = [b \in CBufs |-> IF b \in Domain THEN Clean(Encoded(s, key[b])) ELSE cbuf[b]]
           /\ want' = [b \in CBufs |-> IF b \in Domain THEN key[b] ELSE want[b]]
           /\ pc' = "gen_submit"
        \/ /\ cbuf' = [b \in CBufs |-> IF b \in Domain THEN PrimeDsaGen(HostWrite(s, Zero), b) ELSE cbuf[b]]
           /\ want' = [b \in CBufs |-> IF b \in Domain THEN Gen(b) ELSE want[b]]
           /\ pc' = "gen_submit"
  BY DEF GenDomainParams, Return
<1>3. DeviceReadsIntended'
  BY <1>1 DEF DeviceReadsIntended
<1>4. CASE pc' = "idle" /\ want' = NoWant
  BY <1>1, <1>4, ReturnY
<1>5. CASE /\ \A f \in Domain : key[f] # Absent
           /\ cbuf' = [b \in CBufs |-> IF b \in Domain THEN Clean(Encoded(s, key[b])) ELSE cbuf[b]]
           /\ want' = [b \in CBufs |-> IF b \in Domain THEN key[b] ELSE want[b]]
           /\ pc' = "gen_submit"
  <2>1. ASSUME NEW b \in Domain PROVE Synced(b)'
    <3>1. NotDirty(Clean(Encoded(s, key[b]))) /\ Clean(Encoded(s, key[b])).mem = Stored(key[b])
      BY CleanEncoded
    <3>2. Stored(key[b]) = key[b]
      BY <1>5 DEF Stored
    <3>. QED  BY <1>5, <3>1, <3>2 DEF Synced, CBufs, KeyFields
  <2>. QED  BY <1>3, <1>5, <2>1 DEF YInv, WantType, InInv, InputBufs
<1>6. CASE /\ cbuf' = [b \in CBufs |-> IF b \in Domain THEN PrimeDsaGen(HostWrite(s, Zero), b) ELSE cbuf[b]]
           /\ want' = [b \in CBufs |-> IF b \in Domain THEN Gen(b) ELSE want[b]]
           /\ pc' = "gen_submit"
  <2>1. ASSUME NEW b \in Domain PROVE Synced(b)'
    <3>1. NotDirty(PrimeDsaGen(HostWrite(s, Zero), b)) /\ PrimeDsaGen(HostWrite(s, Zero), b).mem = Gen(b)
      BY PrimedSynced
    <3>. QED  BY <1>6, <3>1 DEF Synced, CBufs, KeyFields
  <2>. QED  BY <1>3, <1>6, <2>1 DEF YInv, WantType, InInv, InputBufs
<1>. QED  BY <1>2, <1>4, <1>5, <1>6

\* Building a descriptor and enqueueing it moves to the wait with the same
\* inputs and a job that has not run yet.
LEMMA SubmitY ==
  ASSUME YInv, InputBufs(pc') = InputBufs(pc), UNCHANGED want, dev'.st = "queued",
         \A b \in InputBufs(pc) : cbuf'[b] = cbuf[b]
  PROVE  YInv'
BY DEF YInv, WantType, InInv, Synced, DeviceReadsIntended

LEMMA GenSubmitY == DInv /\ GenSubmit => YInv'
<1> SUFFICES ASSUME DInv, GenSubmit PROVE YInv'
  OBVIOUS
<1>1. YInv /\ InputBufs(pc') = InputBufs(pc) /\ UNCHANGED want /\ dev'.st = "queued"
      /\ \A b \in InputBufs(pc) : cbuf'[b] = cbuf[b]
  BY DEF DInv, YInv, GenSubmit, InputBufs
<1>. QED  BY <1>1, SubmitY

LEMMA SignSubmitY == DInv /\ SignSubmit => YInv'
<1> SUFFICES ASSUME DInv, SignSubmit PROVE YInv'
  OBVIOUS
<1>1. YInv /\ InputBufs(pc') = InputBufs(pc) /\ UNCHANGED want /\ dev'.st = "queued"
      /\ \A b \in InputBufs(pc) : cbuf'[b] = cbuf[b]
  BY DEF DInv, YInv, SignSubmit, InputBufs
<1>. QED  BY <1>1, SubmitY

LEMMA VerifySubmitY == DInv /\ VerifySubmit => YInv'
<1> SUFFICES ASSUME DInv, VerifySubmit PROVE YInv'
  OBVIOUS
<1>1. \A b \in InputBufs(pc) : cbuf'[b] = cbuf[b]
  BY DEF VerifySubmit, InputBufs, DInv, RInv, CbufType, CBufs, KeyFields, Domain
<1>2. YInv /\ InputBufs(pc') = InputBufs(pc) /\ UNCHANGED want /\ dev'.st = "queued"
  BY DEF DInv, YInv, VerifySubmit, InputBufs
<1>. QED  BY <1>1, <1>2, SubmitY

LEMMA SignKeyConvY == DInv /\ SignKeyConv => YInv'
<1> SUFFICES ASSUME DInv, SignKeyConv PROVE YInv'
  OBVIOUS
<1>1. dev.st = "idle" /\ UNCHANGED dev
  BY NotWaitNoJob DEF DInv, SignKeyConv, WaitPCs
<1>2. PICK s \in Stale :
        \/ pc' = "idle" /\ want' = NoWant
        \/ /\ cbuf' = [b \in CBufs |-> IF b \in Domain \cup {"x"} THEN KeyConv(s, key[b]) ELSE cbuf[b]]
           /\ want' = [b \in CBufs |-> IF b \in Domain \cup {"x"} THEN Stored(key[b]) ELSE want[b]]
           /\ pc' = "sign_dma"
  BY DEF SignKeyConv, Return
<1>3. CASE pc' = "idle" /\ want' = NoWant
  BY <1>1, <1>3, ReturnY
<1>4. CASE /\ cbuf' = [b \in CBufs |-> IF b \in Domain \cup {"x"} THEN KeyConv(s, key[b]) ELSE cbuf[b]]
           /\ want' = [b \in CBufs |-> IF b \in Domain \cup {"x"} THEN Stored(key[b]) ELSE want[b]]
           /\ pc' = "sign_dma"
  <2>1. ASSUME NEW b \in Domain \cup {"x"} PROVE Synced(b)'
    <3>1. NotDirty(Clean(Encoded(s, key[b]))) /\ Clean(Encoded(s, key[b])).mem = Stored(key[b])
      BY CleanEncoded
    <3>. QED  BY <1>4, <3>1 DEF Synced, CBufs, KeyFields, KeyConv
  <2>. QED  BY <1>1, <1>4, <2>1 DEF YInv, WantType, InInv, InputBufs, DeviceReadsIntended
<1>. QED  BY <1>2, <1>3, <1>4

LEMMA VerifyKeyConvY == DInv /\ VerifyKeyConv => YInv'
<1> SUFFICES ASSUME DInv, VerifyKeyConv PROVE YInv'
  OBVIOUS
<1>1. dev.st = "idle" /\ UNCHANGED dev
  BY NotWaitNoJob DEF DInv, VerifyKeyConv, WaitPCs
<1>2. PICK s \in Stale :
        \/ pc' = "idle" /\ want' = NoWant
        \/ /\ cbuf' = [b \in CBufs |-> IF b \in Domain \cup {"y"} THEN KeyConv(s, key[b]) ELSE cbuf[b]]
           /\ want' = [b \in CBufs |-> IF b \in Domain \cup {"y"} THEN Stored(key[b]) ELSE want[b]]
           /\ pc' = "verify_dma"
  BY DEF VerifyKeyConv, Return
<1>3. CASE pc' = "idle" /\ want' = NoWant
  BY <1>1, <1>3, ReturnY
<1>4. CASE /\ cbuf' = [b \in CBufs |-> IF b \in Domain \cup {"y"} THEN KeyConv(s, key[b]) ELSE cbuf[b]]
           /\ want' = [b \in CBufs |-> IF b \in Domain \cup {"y"} THEN Stored(key[b]) ELSE want[b]]
           /\ pc' = "verify_dma"
  <2>1. ASSUME NEW b \in Domain \cup {"y"} PROVE Synced(b)'
    <3>1. NotDirty(Clean(Encoded(s, key[b]))) /\ Clean(Encoded(s, key[b])).mem = Stored(key[b])
      BY CleanEncoded
    <3>. QED  BY <1>4, <3>1 DEF Synced, CBufs, KeyFields, KeyConv
  <2>. QED  BY <1>1, <1>4, <2>1 DEF YInv, WantType, InInv, InputBufs, DeviceReadsIntended
<1>. QED  BY <1>2, <1>3, <1>4

LEMMA SignDmaObjsY == DInv /\ SignDmaObjs => YInv'
<1> SUFFICES ASSUME DInv, SignDmaObjs PROVE YInv'
  OBVIOUS
<1>1. dev.st = "idle" /\ UNCHANGED dev /\ pc = "sign_dma"
  BY NotWaitNoJob DEF DInv, SignDmaObjs, WaitPCs
<1>2. PICK mode \in [{"msg", "sig"} -> {"heap", "caller"}],
           sm \in Stale, cm \in CallerStates(In("msg")), ss \in Stale :
        LET mb == IF mode["msg"] = "heap" THEN HostWrite(sm, In("msg")) ELSE cm
        IN \/ pc' = "idle" /\ want' = NoWant
           \/ /\ cbuf' = [cbuf EXCEPT !["msg"] = PushInput(mb), !["sig"] = PushOutput(ss)]
              /\ want' = [want EXCEPT !["msg"] = In("msg")]
              /\ pc' = "sign_submit"
  BY DEF SignDmaObjs, Return
<1> DEFINE mb == IF mode["msg"] = "heap" THEN HostWrite(sm, In("msg")) ELSE cm
<1>3. CASE pc' = "idle" /\ want' = NoWant
  BY <1>1, <1>3, ReturnY
<1>4. CASE /\ cbuf' = [cbuf EXCEPT !["msg"] = PushInput(mb), !["sig"] = PushOutput(ss)]
           /\ want' = [want EXCEPT !["msg"] = In("msg")]
           /\ pc' = "sign_submit"
  <2>1. NotDirty(Clean(mb)) /\ Clean(mb).mem = In("msg")
    <3>1. CASE mode["msg"] = "heap"
      BY <3>1, CleanWritten
    <3>2. CASE mode["msg"] # "heap"
      BY <3>2, CleanCaller
    <3>. QED  BY <3>1, <3>2
  <2>2. Synced("msg")'
    BY <1>4, <2>1 DEF Synced, PushInput, DInv, RInv, CbufType, WantType, CBufs
  <2>3. ASSUME NEW b \in Domain \cup {"x"} PROVE Synced(b)'
    BY <1>1, <1>4 DEF Synced, DInv, YInv, InInv, InputBufs, RInv, CbufType, WantType, CBufs, KeyFields, Domain
  <2>4. WantType'
    BY <1>4 DEF DInv, WantType
  <2>. QED  BY <1>1, <1>4, <2>2, <2>3, <2>4 DEF YInv, InInv, InputBufs, DeviceReadsIntended
<1>. QED  BY <1>2, <1>3, <1>4

LEMMA VerifyDmaObjsY == DInv /\ VerifyDmaObjs => YInv'
<1> SUFFICES ASSUME DInv, VerifyDmaObjs PROVE YInv'
  OBVIOUS
<1>1. dev.st = "idle" /\ UNCHANGED dev /\ pc = "verify_dma"
  BY NotWaitNoJob DEF DInv, VerifyDmaObjs, WaitPCs
<1>2. PICK mode \in [{"msg", "sig"} -> {"heap", "caller"}],
           sm \in Stale, cm \in CallerStates(In("msg")),
           ss \in Stale, cs \in CallerStates(In("sig")), stmp \in Stale :
        LET mb == IF mode["msg"] = "heap" THEN HostWrite(sm, In("msg")) ELSE cm
            sb == IF mode["sig"] = "heap" THEN HostWrite(ss, In("sig")) ELSE cs
        IN \/ pc' = "idle" /\ want' = NoWant
           \/ /\ cbuf' = [cbuf EXCEPT !["msg"] = PushInput(mb), !["sig"] = PushInput(sb),
                                      !["tmp"] = stmp]
              /\ want' = [want EXCEPT !["msg"] = In("msg"), !["sig"] = In("sig")]
              /\ pc' = "verify_submit"
  BY DEF VerifyDmaObjs, Return
<1> DEFINE mb == IF mode["msg"] = "heap" THEN HostWrite(sm, In("msg")) ELSE cm
           sb == IF mode["sig"] = "heap" THEN HostWrite(ss, In("sig")) ELSE cs
<1>3. CASE pc' = "idle" /\ want' = NoWant
  BY <1>1, <1>3, ReturnY
<1>4. CASE /\ cbuf' = [cbuf EXCEPT !["msg"] = PushInput(mb), !["sig"] = PushInput(sb),
                                   !["tmp"] = stmp]
           /\ want' = [want EXCEPT !["msg"] = In("msg"), !["sig"] = In("sig")]
           /\ pc' = "verify_submit"
  <2>1. NotDirty(Clean(mb)) /\ Clean(mb).mem = In("msg")
    <3>1. CASE mode["msg"] = "heap"
      BY <3>1, CleanWritten
    <3>2. CASE mode["msg"] # "heap"
      BY <3>2, CleanCaller
    <3>. QED  BY <3>1, <3>2
  <2>2. NotDirty(Clean(sb)) /\ Clean(sb).mem = In("sig")
    <3>1. CASE mode["sig"] = "heap"
      BY <3>1, CleanWritten
    <3>2. CASE mode["sig"] # "heap"
      BY <3>2, CleanCaller
    <3>. QED  BY <3>1, <3>2
  <2>3. Synced("msg")' /\ Synced("sig")'
    BY <1>4, <2>1, <2>2 DEF Synced, PushInput, DInv, RInv, CbufType, WantType, CBufs
  <2>4. ASSUME NEW b \in Domain \cup {"y"} PROVE Synced(b)'
    BY <1>1, <1>4 DEF Synced, DInv, YInv, InInv, InputBufs, RInv, CbufType, WantType, CBufs, KeyFields, Domain
  <2>5. WantType'
    BY <1>4 DEF DInv, WantType
  <2>. QED  BY <1>1, <1>4, <2>3, <2>4, <2>5 DEF YInv, InInv, InputBufs, DeviceReadsIntended
<1>. QED  BY <1>2, <1>3, <1>4

LEMMA GenCompleteY == DInv /\ GenComplete => YInv'
BY ReturnY DEF GenComplete, Retire, DevIdle

LEMMA SignCompleteY == DInv /\ SignComplete => YInv'
BY ReturnY DEF SignComplete, Retire, DevIdle

LEMMA VerifyCompleteY == DInv /\ VerifyComplete => YInv'
BY ReturnY DEF VerifyComplete, Retire, DevIdle

\* The CAAM reads every input through its own pointer field, from memory
\* the inputs' clean left holding what the driver stored, and writes only
\* buffers that are not inputs.
LEMMA DevRunY == DInv /\ DevRun => YInv'
<1> SUFFICES ASSUME DInv, DevRun PROVE YInv'
  OBVIOUS
<1>1. pc \in WaitPCs /\ desc = Desc(op) /\ op = PhaseOp(pc)
  BY DEF DevRun, DInv, RInv, XInv, DevInv, IInv, WaitPCs
<1>2. op \in {"gen", "sign", "verify"}
  BY <1>1 DEF WaitPCs, PhaseOp
<1>3. \A b \in InputBufs(pc) : cbuf'[b] = cbuf[b]
  <2>. SUFFICES ASSUME NEW b \in InputBufs(pc) PROVE cbuf'[b] = cbuf[b]
    OBVIOUS
  <2>1. \A f \in DevOutputs(op) : DevTarget(f) # b
    <3>. SUFFICES ASSUME NEW f \in DevOutputs(op) PROVE DevTarget(f) # b
      OBVIOUS
    <3>1. DevTarget(f) = PtrBuf(f)
      BY <1>1, <1>2, FieldTarget
    <3>2. PtrBuf(f) \notin InputBufs(pc)
      BY <1>1, OutputsApart
    <3>. QED  BY <3>1, <3>2
  <2>2. b \in CBufs
    BY <1>1 DEF InputBufs, WaitPCs, CBufs, KeyFields, Domain
  <2>. QED  BY <2>1, <2>2 DEF DevRun
<1>4. InInv' /\ WantType'
  BY <1>3 DEF DevRun, DInv, InInv, Synced, WantType
<1>5. DeviceReadsIntended'
  <2>. SUFFICES ASSUME NEW f \in DevInputs(op) PROVE dev'.seen[f] = want[PtrBuf(f)]
    BY DEF DeviceReadsIntended, DevRun
  <2>1. f \in PtrFields /\ PtrBuf(f) \in InputBufs(pc)
    BY <1>1, InputsCovered
  <2>2. dev'.seen[f] = cbuf[DevTarget(f)].mem
    BY <2>1 DEF DevRun
  <2>3. DevTarget(f) = PtrBuf(f)
    BY <1>1, <1>2, FieldTarget
  <2>. QED  BY <2>1, <2>2, <2>3 DEF DInv, InInv, Synced
<1>. QED  BY <1>4, <1>5 DEF YInv

LEMMA DevDoneY == DInv /\ DevDone => YInv'
BY DEF DInv, YInv, DevDone, WantType, InInv, Synced, DeviceReadsIntended

\* An eviction writes back a dirty line, and a synced input has none.
LEMMA CacheEvictY == DInv /\ CacheEvict => YInv'
<1> SUFFICES ASSUME DInv, CacheEvict PROVE YInv'
  OBVIOUS
<1>1. PICK b \in CBufs : cbuf[b].st = "dirty" /\ cbuf' = [cbuf EXCEPT ![b] = Evict(@)]
  BY DEF CacheEvict
<1>2. \A c \in InputBufs(pc) : cbuf'[c] = cbuf[c]
  BY <1>1 DEF DInv, InInv, Synced, NotDirty, RInv, CbufType
<1>. QED  BY <1>2 DEF DInv, YInv, CacheEvict, WantType, InInv, Synced, DeviceReadsIntended

\* A speculative fill leaves memory alone and the line clean.
LEMMA CachePrefetchY == DInv /\ CachePrefetch => YInv'
<1> SUFFICES ASSUME DInv, CachePrefetch PROVE YInv'
  OBVIOUS
<1>1. PICK b \in CBufs : cbuf' = [cbuf EXCEPT ![b] = Prefetch(@)]
  BY DEF CachePrefetch
<1>2. Prefetch(cbuf[b]).st = "clean" /\ Prefetch(cbuf[b]).mem = cbuf[b].mem
  BY CacheFields
<1>3. \A c \in CBufs : NotDirty(cbuf'[c]) \/ cbuf'[c] = cbuf[c]
  BY <1>1, <1>2 DEF DInv, RInv, CbufType, NotDirty
<1>4. \A c \in CBufs : cbuf'[c].mem = cbuf[c].mem
  BY <1>1, <1>2 DEF DInv, RInv, CbufType
<1>5. \A c \in InputBufs(pc) : c \in CBufs
  BY DEF InputBufs, CBufs, KeyFields, Domain
<1>. QED  BY <1>3, <1>4, <1>5 DEF DInv, YInv, CachePrefetch, WantType, InInv, Synced, DeviceReadsIntended

LEMMA YInvStep == DInv /\ [Next]_vars => YInv'
<1> SUFFICES ASSUME DInv, [Next]_vars PROVE YInv'
  OBVIOUS
<1>1. CASE UNCHANGED vars
  BY <1>1 DEF DInv, YInv, vars, WantType, InInv, Synced, DeviceReadsIntended
<1>. QED
  BY <1>1, AllocKeypairY, AllocPublickeyY, CallerSetsKeyY, GenAllocY, GenDomainParamsY,
     GenSubmitY, GenCompleteY, SignKeyConvY, SignDmaObjsY, SignSubmitY, SignCompleteY,
     VerifyKeyConvY, VerifyDmaObjsY, VerifySubmitY, VerifyCompleteY, DevRunY, DevDoneY,
     CacheEvictY, CachePrefetchY DEF Next

\* Whenever the CAAM has run a job of do_gen_keypair, do_sign or do_verify,
\* every input it read through the descriptor held what the driver stored
\* for that field (DeviceReadsIntended, the dsa32 and dsa64 runs): for
\* every pointer width and bin2bn behaviour, the TEE_CACHECLEAN of the key
\* conversions and the push of the DMA objects leave no dirty line that an
\* eviction could write over the memory the CAAM reads.
THEOREM DeviceReadsTheorem == Spec => []DeviceReadsIntended
<1>1. Init => DInv
  BY InitIInv, InitXInv DEF DInv, RInv, CbufType, Init, FreeMem, NoWant, YInv, WantType,
     InInv, InputBufs, DeviceReadsIntended, DevIdle
<1>2. DInv /\ [Next]_vars => DInv'
  BY YInvStep, IInvStep, CbufTypeStep, XInvStep DEF DInv, RInv, YInv
<1>3. DInv => DeviceReadsIntended
  BY DEF DInv
<1>. QED  BY <1>1, <1>2, <1>3, PTL DEF Spec

=============================================================================
