------------------------- MODULE CaamDsaResultProofs -------------------------
(***************************************************************************)
(* Proofs about what the DSA calls return: a successful key generation or *)
(* signature hands back the CAAM's output, and do_verify's verdict is the *)
(* CAAM's.                                                                 *)
(***************************************************************************)
EXTENDS CaamDsaReadsProofs, TLAPS

\* While a key generation is out, the key's domain parameters are the ones
\* stored in the buffers the CAAM reads (when every bin2bn succeeds).
KeyInv ==
  ~Bin2BnMayFail =>
    (pc \in {"gen_submit", "gen_wait"} => \A f \in Domain : key[f] = want[f])

\* The scratch buffer of a verification: flushed before the job, so that it
\* holds in memory what the CAAM wrote there; and the job ring's report of
\* a finished job is one for the CAAM's verdict, which for a verification
\* is a decision on the signature or an error.
VerdictInv ==
  /\ pc = "verify_wait" => NotDirty(cbuf["tmp"])
  /\ (pc = "verify_wait" /\ dev.st \in {"ran", "done"}) => cbuf["tmp"].mem = Scratch
  /\ dev.st = "done" => jr \in JrReports(dev.verdict)
  /\ (dev.st = "done" /\ op = "verify") => dev.verdict \in {"valid", "invalid", "error"}

\* The caller's key is a function of KeyFields.
KeyType == DOMAIN key = KeyFields

\* The CAAM's job state is a record of its state, its reads and its verdict.
DevFields == DOMAIN dev = {"st", "seen", "verdict"}

ZInv == KeyType /\ DevFields /\ KeyInv /\ VerdictInv

EInv == DInv /\ ZInv

-----------------------------------------------------------------------------
(***************************************************************************)
(* ZInv is preserved by every step.                                        *)
(***************************************************************************)
\* A step that ends outside the phases ZInv speaks of, with no finished job.
LEMMA NoJobZ ==
  ASSUME KeyType', pc' \notin {"gen_submit", "gen_wait", "verify_wait"}, dev'.st # "done",
         DevFields'
  PROVE  ZInv'
BY DEF ZInv, KeyInv, VerdictInv

LEMMA AllocKeypairZ == EInv /\ AllocKeypair => ZInv'
BY NotWaitNoJob, NoJobZ DEF EInv, ZInv, DInv, AllocKeypair, AllocKey, KeyType, DevFields, WaitPCs

LEMMA AllocPublickeyZ == EInv /\ AllocPublickey => ZInv'
BY NotWaitNoJob, NoJobZ DEF EInv, ZInv, DInv, AllocPublickey, AllocKey, KeyType, DevFields, WaitPCs

LEMMA CallerSetsKeyZ == EInv /\ CallerSetsKey => ZInv'
BY NotWaitNoJob, NoJobZ DEF EInv, ZInv, DInv, CallerSetsKey, KeyType, DevFields, WaitPCs

LEMMA GenAllocZ == EInv /\ GenAlloc => ZInv'
<1> SUFFICES ASSUME EInv, GenAlloc PROVE ZInv'
  OBVIOUS
<1>1. dev.st = "idle" /\ UNCHANGED <<dev, key>>
  BY NotWaitNoJob DEF EInv, DInv, GenAlloc, WaitPCs
<1>2. pc' \in {"gen_params", "idle"}
  BY DEF GenAlloc, Return
<1>. QED  BY <1>1, <1>2, NoJobZ DEF EInv, ZInv, KeyType, DevFields

LEMMA SignKeyConvZ == EInv /\ SignKeyConv => ZInv'
<1> SUFFICES ASSUME EInv, SignKeyConv PROVE ZInv'
  OBVIOUS
<1>1. dev.st = "idle" /\ UNCHANGED <<dev, key>>
  BY NotWaitNoJob DEF EInv, DInv, SignKeyConv, WaitPCs
<1>2. pc' \in {"sign_dma", "idle"}
  BY DEF SignKeyConv, Return
<1>. QED  BY <1>1, <1>2, NoJobZ DEF EInv, ZInv, KeyType, DevFields

LEMMA VerifyKeyConvZ == EInv /\ VerifyKeyConv => ZInv'
<1> SUFFICES ASSUME EInv, VerifyKeyConv PROVE ZInv'
  OBVIOUS
<1>1. dev.st = "idle" /\ UNCHANGED <<dev, key>>
  BY NotWaitNoJob DEF EInv, DInv, VerifyKeyConv, WaitPCs
<1>2. pc' \in {"verify_dma", "idle"}
  BY DEF VerifyKeyConv, Return
<1>. QED  BY <1>1, <1>2, NoJobZ DEF EInv, ZInv, KeyType, DevFields

LEMMA SignDmaObjsZ == EInv /\ SignDmaObjs => ZInv'
<1> SUFFICES ASSUME EInv, SignDmaObjs PROVE ZInv'
  OBVIOUS
<1>1. dev.st = "idle" /\ UNCHANGED <<dev, key>>
  BY NotWaitNoJob DEF EInv, DInv, SignDmaObjs, WaitPCs
<1>2. pc' \in {"sign_submit", "idle"}
  BY DEF SignDmaObjs, Return
<1>. QED  BY <1>1, <1>2, NoJobZ DEF EInv, ZInv, KeyType, DevFields

LEMMA VerifyDmaObjsZ == EInv /\ VerifyDmaObjs => ZInv'
<1> SUFFICES ASSUME EInv, VerifyDmaObjs PROVE ZInv'
  OBVIOUS
<1>1. dev.st = "idle" /\ UNCHANGED <<dev, key>>
  BY NotWaitNoJob DEF EInv, DInv, VerifyDmaObjs, WaitPCs
<1>2. pc' \in {"verify_submit", "idle"}
  BY DEF VerifyDmaObjs, Return
<1>. QED  BY <1>1, <1>2, NoJobZ DEF EInv, ZInv, KeyType, DevFields

LEMMA SignSubmitZ == EInv /\ SignSubmit => ZInv'
BY NoJobZ DEF EInv, ZInv, KeyType, DevFields, SignSubmit

LEMMA GenCompleteZ == EInv /\ GenComplete => ZInv'
<1> SUFFICES ASSUME EInv, GenComplete PROVE ZInv'
  OBVIOUS
<1>1. \/ key' = key
      \/ key' = [key EXCEPT !["x"] = HostView(PullOutput(cbuf["x"])),
                            !["y"] = HostView(PullOutput(cbuf["y"]))]
      \/ key' = [key EXCEPT !["x"] = HostView(PullOutput(cbuf["x"]))]
  BY Zenon DEF GenComplete
<1>2. KeyType'
  BY <1>1 DEF EInv, ZInv, KeyType
<1>3. DevFields'
  BY DEF GenComplete, Retire, DevIdle, DevFields
<1>. QED  BY <1>2, <1>3, NoJobZ DEF GenComplete, Retire, DevIdle

LEMMA SignCompleteZ == EInv /\ SignComplete => ZInv'
BY NoJobZ DEF EInv, ZInv, KeyType, DevFields, SignComplete, Retire, DevIdle

LEMMA VerifyCompleteZ == EInv /\ VerifyComplete => ZInv'
BY NoJobZ DEF EInv, ZInv, KeyType, DevFields, VerifyComplete, Retire, DevIdle

LEMMA GenDomainParamsZ == EInv /\ GenDomainParams => ZInv'
<1> SUFFICES ASSUME EInv, GenDomainParams PROVE ZInv'
  OBVIOUS
<1>1. dev.st = "idle" /\ UNCHANGED dev
  BY NotWaitNoJob DEF EInv, DInv, GenDomainParams, WaitPCs
<1>2. PICK s \in Stale :
        \/ pc' = "idle" /\ UNCHANGED key
        \/ /\ UNCHANGED key
           /\ want' = [b \in CBufs |-> IF b \in Domain THEN key[b] ELSE want[b]]
           /\ pc' = "gen_submit"
        \/ /\ \E ok \in [Domain -> Bin2BnOk] :
                /\ cbuf' = [b \in CBufs |-> IF b \in Domain
                               THEN PrimeDsaGen(HostWrite(s, Zero), b) ELSE cbuf[b]]
                /\ want' = [b \in CBufs |-> IF b \in Domain THEN Gen(b) ELSE want[b]]
                /\ key' = [f \in KeyFields |-> IF f \in Domain /\ ok[f]
                                                THEN HostView(cbuf'[f]) ELSE key[f]]
           /\ pc' = "gen_submit"
  BY Zenon DEF GenDomainParams, Return
<1>3. CASE pc' = "idle" /\ UNCHANGED key
  BY <1>1, <1>3, NoJobZ DEF EInv, ZInv, KeyType, DevFields
<1>4. CASE /\ UNCHANGED key
           /\ want' = [b \in CBufs |-> IF b \in Domain THEN key[b] ELSE want[b]]
           /\ pc' = "gen_submit"
  BY <1>1, <1>4 DEF EInv, ZInv, KeyType, DevFields, KeyInv, VerdictInv, CBufs, KeyFields
<1>5. CASE /\ \E ok \in [Domain -> Bin2BnOk] :
                /\ cbuf' = [b \in CBufs |-> IF b \in Domain
                               THEN PrimeDsaGen(HostWrite(s, Zero), b) ELSE cbuf[b]]
                /\ want' = [b \in CBufs |-> IF b \in Domain THEN Gen(b) ELSE want[b]]
                /\ key' = [f \in KeyFields |-> IF f \in Domain /\ ok[f]
                                                THEN HostView(cbuf'[f]) ELSE key[f]]
           /\ pc' = "gen_submit"
  <2>1. PICK ok \in [Domain -> Bin2BnOk] :
                /\ cbuf' = [b \in CBufs |-> IF b \in Domain
                               THEN PrimeDsaGen(HostWrite(s, Zero), b) ELSE cbuf[b]]
                /\ want' = [b \in CBufs |-> IF b \in Domain THEN Gen(b) ELSE want[b]]
                /\ key' = [f \in KeyFields |-> IF f \in Domain /\ ok[f]
                                                THEN HostView(cbuf'[f]) ELSE key[f]]
    BY <1>5
  <2>2. KeyType' 
    BY <2>1 DEF KeyType, DevFields
  <2>3. KeyInv'
    <3>. SUFFICES ASSUME ~Bin2BnMayFail, NEW f \in Domain PROVE key'[f] = want'[f]
      BY <1>5 DEF KeyInv
    <3>1. ok[f] = TRUE
      BY <2>1 DEF Bin2BnOk
    <3>2. key'[f] = HostView(PrimeDsaGen(HostWrite(s, Zero), f))
      BY <2>1, <3>1 DEF CBufs, KeyFields, Domain
    <3>3. HostView(PrimeDsaGen(HostWrite(s, Zero), f)) = Gen(f)
      BY PrimedGen
    <3>4. want'[f] = Gen(f)
      BY <2>1 DEF CBufs, KeyFields, Domain
    <3>. QED  BY <3>2, <3>3, <3>4
  <2>. QED  BY <1>1, <1>5, <2>2, <2>3 DEF EInv, ZInv, DevFields, VerdictInv
<1>. QED  BY <1>2, <1>3, <1>4, <1>5

LEMMA GenSubmitZ == EInv /\ GenSubmit => ZInv'
BY DEF EInv, ZInv, KeyType, DevFields, KeyInv, VerdictInv, GenSubmit

\* do_verify flushes the temporary buffer before it enqueues the job.
LEMMA VerifySubmitZ == EInv /\ VerifySubmit => ZInv'
<1> SUFFICES ASSUME EInv, VerifySubmit PROVE ZInv'
  OBVIOUS
<1>1. cbuf'["tmp"] = Flush(cbuf["tmp"])
  BY DEF VerifySubmit, ScratchFlush, EInv, DInv, RInv, CbufType, CBufs
<1>2. NotDirty(cbuf'["tmp"])
  BY <1>1, CacheFields DEF NotDirty
<1>. QED  BY <1>2 DEF EInv, ZInv, KeyType, DevFields, KeyInv, VerdictInv, VerifySubmit

\* The CAAM writes its scratch data into the temporary buffer itself.
LEMMA DevRunZ == EInv /\ DevRun => ZInv'
<1> SUFFICES ASSUME EInv, DevRun PROVE ZInv'
  OBVIOUS
<1>1. pc \in WaitPCs /\ desc = Desc(op) /\ op = PhaseOp(pc)
  BY DEF DevRun, EInv, DInv, RInv, XInv, DevInv, IInv, WaitPCs
<1>2. cbuf'["tmp"] = cbuf["tmp"] \/ cbuf'["tmp"] = DevWrite(cbuf["tmp"], DevValue("tmp"))
  <2>1. CASE \E f \in DevOutputs(op) : DevTarget(f) = "tmp"
    <3>1. PICK f \in DevOutputs(op) : DevTarget(f) = "tmp"
      BY <2>1
    <3>2. op \in {"gen", "sign", "verify"}
      BY <1>1 DEF WaitPCs, PhaseOp
    <3>3. PtrBuf(f) = "tmp"
      BY <1>1, <3>1, <3>2, FieldTarget
    <3>4. f = "tmp" /\ op = "verify" /\ DevOutputs(op) = {"tmp"}
      BY <3>2, <3>3 DEF DevOutputs, PtrBuf
    <3>. QED  BY <2>1, <3>4 DEF DevRun, CBufs
  <2>2. CASE ~\E f \in DevOutputs(op) : DevTarget(f) = "tmp"
    BY <2>2 DEF DevRun, CBufs
  <2>. QED  BY <2>1, <2>2
<1>3. pc = "verify_wait" => cbuf'["tmp"].mem = Scratch
  <2>. SUFFICES ASSUME pc = "verify_wait" PROVE cbuf'["tmp"].mem = Scratch
    OBVIOUS
  <2>1. op = "verify" /\ DevTarget("tmp") = PtrBuf("tmp")
    BY <1>1, FieldTarget DEF PhaseOp, DevOutputs
  <2>2. cbuf'["tmp"] = DevWrite(cbuf["tmp"], DevValue("tmp"))
    BY <2>1 DEF DevRun, PtrBuf, DevOutputs, CBufs
  <2>. QED  BY <2>2, CacheFields DEF DevValue
<1>4. NotDirty(cbuf'["tmp"]) = NotDirty(cbuf["tmp"])
  BY <1>2, CacheFields DEF NotDirty
<1>. QED  BY <1>3, <1>4 DEF EInv, ZInv, KeyType, DevFields, KeyInv, VerdictInv, DevRun

\* The CAAM decides a verification on what it read and on the scratch data
\* it finds; the job ring reports that decision.
LEMMA DevDoneZ == EInv /\ DevDone => ZInv'
<1> SUFFICES ASSUME EInv, DevDone PROVE ZInv'
  OBVIOUS
<1>1. pc \in WaitPCs /\ desc = Desc(op) /\ op = PhaseOp(pc)
  BY DEF DevDone, EInv, DInv, RInv, XInv, DevInv, IInv, WaitPCs
<1> DEFINE intact == /\ \A f \in DevInputs(op) : dev.seen[f] = want[PtrBuf(f)]
                     /\ op = "verify" => cbuf[DevTarget("tmp")].mem = Scratch
           vs == IF op # "verify" THEN {"done", "error"}
                 ELSE IF intact THEN {"valid", "invalid", "error"}
                 ELSE {"garbage", "error"}
<1>2. PICK v \in vs, r \in Reports :
        r \in JrReports(v) /\ dev' = [dev EXCEPT !.st = "done", !.verdict = v] /\ jr' = r
  BY DEF DevDone, vs, intact
<1>3. op = "verify" => intact
  <2>. SUFFICES ASSUME op = "verify" PROVE intact
    OBVIOUS
  <2>1. pc = "verify_wait"
    BY <1>1 DEF WaitPCs, PhaseOp
  <2>2. DevTarget("tmp") = PtrBuf("tmp")
    BY <1>1, FieldTarget DEF DevOutputs
  <2>. QED  BY <2>1, <2>2 DEF DevDone, EInv, DInv, DeviceReadsIntended, ZInv, VerdictInv, PtrBuf
<1>4. op = "verify" => v \in {"valid", "invalid", "error"}
  BY <1>2, <1>3
<1>. QED  BY <1>2, <1>4 DEF EInv, ZInv, KeyType, DevFields, KeyInv, VerdictInv, DevDone

\* An eviction writes back a dirty line; the flushed scratch buffer has none.
LEMMA CacheEvictZ == EInv /\ CacheEvict => ZInv'
<1> SUFFICES ASSUME EInv, CacheEvict PROVE ZInv'
  OBVIOUS
<1>1. PICK b \in CBufs : cbuf[b].st = "dirty" /\ cbuf' = [cbuf EXCEPT ![b] = Evict(@)]
  BY DEF CacheEvict
<1>2. pc = "verify_wait" => cbuf'["tmp"] = cbuf["tmp"]
  BY <1>1 DEF EInv, ZInv, VerdictInv, NotDirty, DInv, RInv, CbufType
<1>. QED  BY <1>2 DEF EInv, ZInv, KeyType, DevFields, KeyInv, VerdictInv, CacheEvict

\* A speculative fill leaves memory alone and the line clean.
LEMMA CachePrefetchZ == EInv /\ CachePrefetch => ZInv'
<1> SUFFICES ASSUME EInv, CachePrefetch PROVE ZInv'
  OBVIOUS
<1>1. PICK b \in CBufs : cbuf' = [cbuf EXCEPT ![b] = Prefetch(@)]
  BY DEF CachePrefetch
<1>2. Prefetch(cbuf[b]).st = "clean" /\ Prefetch(cbuf[b]).mem = cbuf[b].mem
  BY CacheFields
<1>3. NotDirty(cbuf'["tmp"]) \/ cbuf'["tmp"] = cbuf["tmp"]
  BY <1>1, <1>2 DEF EInv, DInv, RInv, CbufType, NotDirty, CBufs
<1>4. cbuf'["tmp"].mem = cbuf["tmp"].mem
  BY <1>1, <1>2 DEF EInv, DInv, RInv, CbufType, CBufs
<1>. QED  BY <1>3, <1>4 DEF EInv, ZInv, KeyType, DevFields, KeyInv, VerdictInv, CachePrefetch

LEMMA ZInvStep == EInv /\ [Next]_vars => ZInv'
<1> SUFFICES ASSUME EInv, [Next]_vars PROVE ZInv'
  OBVIOUS
<1>1. CASE UNCHANGED vars
  BY <1>1 DEF EInv, ZInv, vars, KeyType, DevFields, KeyInv, VerdictInv
<1>. QED
  BY <1>1, AllocKeypairZ, AllocPublickeyZ, CallerSetsKeyZ, GenAllocZ, GenDomainParamsZ,
     GenSubmitZ, GenCompleteZ, SignKeyConvZ, SignDmaObjsZ, SignSubmitZ, SignCompleteZ,
     VerifyKeyConvZ, VerifyDmaObjsZ, VerifySubmitZ, VerifyCompleteZ, DevRunZ, DevDoneZ,
     CacheEvictZ, CachePrefetchZ DEF Next

\* EInv holds in every state of the driver.
LEMMA EInvTheorem == Spec => []EInv
<1>1. Init => EInv
  BY InitIInv, InitXInv DEF EInv, DInv, RInv, CbufType, Init, FreeMem, NoWant, YInv,
     WantType, InInv, InputBufs, DeviceReadsIntended, DevIdle, ZInv, KeyType, DevFields,
     KeyInv, VerdictInv
<1>2. EInv /\ [Next]_vars => EInv'
  BY YInvStep, IInvStep, CbufTypeStep, XInvStep, ZInvStep DEF EInv, DInv, RInv, YInv
<1>. QED  BY <1>1, <1>2, PTL DEF Spec

-----------------------------------------------------------------------------
(***************************************************************************)
(* The returns of the three operations.                                    *)
(***************************************************************************)
\* Only the completion of the operation a call waits for returns from a wait.
LEMMA WaitExit ==
  ASSUME EInv, [Next]_vars, pc \in WaitPCs, pc' = "idle"
  PROVE  \/ pc = "gen_wait" /\ GenComplete
         \/ pc = "sign_wait" /\ SignComplete
         \/ pc = "verify_wait" /\ VerifyComplete
<1>1. ~UNCHANGED vars /\ ~DevRun /\ ~DevDone /\ ~CacheEvict /\ ~CachePrefetch
  BY DEF WaitPCs, vars, DevRun, DevDone, CacheEvict, CachePrefetch
<1>2. ~AllocKeypair /\ ~AllocPublickey /\ ~CallerSetsKey
  BY DEF WaitPCs, AllocKeypair, AllocPublickey, CallerSetsKey, AllocKey
<1>3. ~GenAlloc /\ ~GenDomainParams /\ ~GenSubmit
  BY DEF WaitPCs, GenAlloc, GenDomainParams, GenSubmit
<1>4. ~SignKeyConv /\ ~SignDmaObjs /\ ~SignSubmit
  BY DEF WaitPCs, SignKeyConv, SignDmaObjs, SignSubmit
<1>5. ~VerifyKeyConv /\ ~VerifyDmaObjs /\ ~VerifySubmit
  BY DEF WaitPCs, VerifyKeyConv, VerifyDmaObjs, VerifySubmit
<1>. QED  BY <1>1, <1>2, <1>3, <1>4, <1>5 DEF Next, GenComplete, SignComplete, VerifyComplete

\* A key generation that returns TEE_SUCCESS has read x and y after the
\* CAAM wrote them, and kept the domain parameters the CAAM computed on.
LEMMA GenSuccess ==
  ASSUME EInv, ~Bin2BnMayFail, GenComplete, ret' = "SUCCESS"
  PROVE  /\ key'["x"] = Out("x") /\ key'["y"] = Out("y")
         /\ \A f \in Domain : key'[f] = dev.seen[f]
<1>1. key' = [key EXCEPT !["x"] = HostView(PullOutput(cbuf["x"])),
                         !["y"] = HostView(PullOutput(cbuf["y"]))]
  BY DEF GenComplete, JobStatusToTeeResult
<1>2. cbuf["x"].mem = Out("x") /\ cbuf["y"].mem = Out("y")
  BY DEF GenComplete, EInv, DInv, RInv, XInv, OutInv
<1>3. HostView(PullOutput(cbuf["x"])) = cbuf["x"].mem
      /\ HostView(PullOutput(cbuf["y"])) = cbuf["y"].mem
  BY CacheFields DEF PullOutput
<1>4. op = "gen"
  BY DEF GenComplete, EInv, DInv, RInv, IInv, PhaseOp
<1>5. ASSUME NEW f \in Domain PROVE key'[f] = dev.seen[f]
  <2>1. key'[f] = key[f]
    BY <1>1 DEF EInv, ZInv, KeyType, KeyFields, Domain
  <2>2. key[f] = want[f]
    BY DEF GenComplete, EInv, ZInv, KeyInv
  <2>3. dev.seen[f] = want[f]
    BY <1>4 DEF GenComplete, EInv, DInv, DeviceReadsIntended, DevInputs, PtrBuf, Domain
  <2>. QED  BY <2>1, <2>2, <2>3
<1>. QED  BY <1>1, <1>2, <1>3, <1>5 DEF EInv, ZInv, KeyType, KeyFields, Domain

\* A signature that returns TEE_SUCCESS hands back what the CAAM wrote.
LEMMA SignSuccess ==
  ASSUME EInv, SignComplete, ret' = "SUCCESS"
  PROVE  usig' = Out("sig")
<1>1. usig' = CopyToOrig(cbuf["sig"])
  BY DEF SignComplete, JobStatusToTeeResult
<1>2. cbuf["sig"].mem = Out("sig")
  BY DEF SignComplete, EInv, DInv, RInv, XInv, OutInv
<1>. QED  BY <1>1, <1>2, CacheFields DEF CopyToOrig

\* When every crypto_bignum_bin2bn succeeds, a successful do_gen_keypair
\* returns the x and y the CAAM computed and the domain parameters it
\* computed them from, and a successful do_sign the CAAM's signature
\* (SuccessCarriesDeviceOutput, the dsa32 and dsa64 runs), for every
\* pointer width: the flush of the outputs before the job and the
\* invalidation after it keep a dirty or stale line from hiding the result.
\* The hypothesis is needed: the dsa_bin2bn run shows an unchecked bin2bn
\* failure leaving a stale parameter in the key.
THEOREM SuccessTheorem == ~Bin2BnMayFail => (Spec => SuccessCarriesDeviceOutput)
<1> SUFFICES ASSUME ~Bin2BnMayFail PROVE Spec => SuccessCarriesDeviceOutput
  OBVIOUS
<1> DEFINE A == /\ (pc = "gen_wait" /\ pc' = "idle" /\ ret' = "SUCCESS") =>
                     /\ key'["x"] = Out("x") /\ key'["y"] = Out("y")
                     /\ \A f \in Domain : key'[f] = dev.seen[f]
                /\ (pc = "sign_wait" /\ pc' = "idle" /\ ret' = "SUCCESS") => usig' = Out("sig")
<1>1. EInv /\ [Next]_vars => A
  <2> SUFFICES ASSUME EInv, [Next]_vars PROVE A
    OBVIOUS
  <2>1. (pc = "gen_wait" /\ pc' = "idle" /\ ret' = "SUCCESS") =>
          /\ key'["x"] = Out("x") /\ key'["y"] = Out("y")
          /\ \A f \in Domain : key'[f] = dev.seen[f]
    BY WaitExit, GenSuccess DEF WaitPCs
  <2>2. (pc = "sign_wait" /\ pc' = "idle" /\ ret' = "SUCCESS") => usig' = Out("sig")
    BY WaitExit, SignSuccess DEF WaitPCs
  <2>. QED  BY <2>1, <2>2
<1>. QED  BY <1>1, EInvTheorem, PTL DEF Spec, SuccessCarriesDeviceOutput

\* do_verify returns TEE_SUCCESS only when the CAAM found the signature
\* valid, and TEE_ERROR_SIGNATURE_INVALID only when it found it invalid
\* (VerifyVerdictRespected, the dsa32 and dsa64 runs), for every pointer
\* width and bin2bn behaviour: the flushed scratch buffer and the cleaned
\* inputs give the CAAM the values the driver meant, and the check of
\* jobctx.status tells a rejected signature from a failed job.
THEOREM VerdictTheorem == Spec => VerifyVerdictRespected
<1> DEFINE A == pc = "verify_wait" /\ pc' = "idle" =>
                  /\ ret' = "SUCCESS" => dev.verdict = "valid"
                  /\ ret' = "SIGNATURE_INVALID" => dev.verdict = "invalid"
<1>1. ASSUME EInv, VerifyComplete
      PROVE  /\ ret' = "SUCCESS" => dev.verdict = "valid"
             /\ ret' = "SIGNATURE_INVALID" => dev.verdict = "invalid"
  <2>1. op = "verify" /\ dev.st = "done"
    BY <1>1 DEF VerifyComplete, EInv, DInv, RInv, IInv, PhaseOp
  <2>2. jr \in JrReports(dev.verdict) /\ dev.verdict \in {"valid", "invalid", "error"}
    BY <1>1, <2>1 DEF EInv, ZInv, VerdictInv
  <2>3. ret' = VerifyResult(jr)
    BY <1>1 DEF VerifyComplete
  <2>. QED  BY <2>2, <2>3 DEF JrReports, VerifyResult, JobStatusToTeeResult
<1>2. EInv /\ [Next]_vars => A
  BY <1>1, WaitExit DEF WaitPCs
<1>. QED  BY <1>2, EInvTheorem, PTL DEF Spec, VerifyVerdictRespected
====
