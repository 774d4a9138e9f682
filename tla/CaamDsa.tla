------------------------------ MODULE CaamDsa ------------------------------
(***************************************************************************)
(* The CAAM DSA driver of OP-TEE (core/drivers/crypto/caam/acipher/        *)
(* caam_dsa.c): the five operations of struct drvcrypt_dsa, run one at a   *)
(* time by the caller's thread, with the CAAM executing the job descriptor *)
(* concurrently with the host's cache.                                     *)
(*                                                                         *)
(* pc is the caller thread's position.  buf says who holds each DMA buffer *)
(* of the running operation: "heap" for one this call allocated and must   *)
(* free, "caller" for the caller's own memory wrapped by a DMA object.     *)
(* cbuf is each buffer's memory and cache line (DmaCache), want the value  *)
(* the driver stored in it.  key is the caller's bignum key and bn the     *)
(* allocation state of its bignums; usig is the signature the caller gets. *)
(* desc is the job descriptor, dev the CAAM's progress on it (what it read *)
(* through each pointer field, and for a verification its verdict), jr    *)
(* the job ring's answer and ret the TEE_Result of the last call.          *)
(***************************************************************************)
EXTENDS Naturals, Sequences, FiniteSets, DmaCache, CaamDescLayout

CONSTANT Bin2BnMayFail   \* whether crypto_bignum_bin2bn can return an error

ASSUME Bin2BnAssumption == Bin2BnMayFail \in BOOLEAN

VARIABLES pc, op, buf, cbuf, want, key, bn, usig, desc, dev, jr, ret

vars == <<pc, op, buf, cbuf, want, key, bn, usig, desc, dev, jr, ret>>

Domain    == {"p", "q", "g"}
KeyFields == Domain \cup {"x", "y"}
CBufs     == KeyFields \cup {"msg", "sig", "tmp"}
Bufs      == CBufs \cup {"desc"}
PtrFields == (CBufs \ {"sig"}) \cup {"sigc", "sigd"}

\* A bignum of zero bytes (crypto_bignum_num_bytes = 0): not supplied.
Absent == <<"absent", "-">>

Data == {Old, Zero, NoData, Scratch} \cup {In(f) : f \in CBufs}
          \cup {Gen(f) : f \in Domain} \cup {Out(f) : f \in CBufs}
KeyValues == {Absent} \cup {In(f) : f \in KeyFields} \cup {Gen(f) : f \in Domain}
               \cup {Out(f) : f \in {"x", "y"}}
BufStates == [mem : Data, st : LineStates, c : Data]
Results == {"NONE", "SUCCESS", "OUT_OF_MEMORY", "GENERIC", "BAD_PARAMETERS",
            "SIGNATURE_INVALID"}
Ops == {"none", "alloc_keypair", "alloc_publickey", "gen", "sign", "verify"}
Reports == [ret : {"NO_ERROR", "JOB_STATUS", "FAILURE"}, status : {0, 1}]
Verdicts == {"none", "done", "valid", "invalid", "error", "garbage"}
PCs == {"idle", "gen_params", "gen_submit", "gen_wait", "sign_dma",
        "sign_submit", "sign_wait", "verify_dma", "verify_submit", "verify_wait"}
WaitPCs == {"gen_wait", "sign_wait", "verify_wait"}

\* The two halves of the signature are DMA objects over one buffer
\* (caam_dmaobj_derive).
PtrBuf(t) == IF t \in {"sigc", "sigd"} THEN "sig" ELSE t

\* The pointer fields the CAAM reads, and those it writes, for each operation.
DevInputs(o) == CASE o = "gen" -> Domain
                  [] o = "sign" -> Domain \cup {"x", "msg"}
                  [] o = "verify" -> Domain \cup {"y", "msg", "sigc", "sigd"}
                  [] OTHER -> {}
DevOutputs(o) == CASE o = "gen" -> {"x", "y"}
                   [] o = "sign" -> {"sigc", "sigd"}
                   [] o = "verify" -> {"tmp"}
                   [] OTHER -> {}

\* The first n allocations of an allocation sequence, the ones that succeed.
Prefix(s, n) == {s[i] : i \in 1..n}

\* buf after the buffers of got are taken, each in the given mode.
Take(b0, got, mode) == [b \in Bufs |-> IF b \in got THEN mode[b] ELSE b0[b]]
Heap == [b \in Bufs |-> "heap"]

\* A DMA object over the message or the signature either wraps the caller's
\* buffer or reallocates it (caam_dmaobj_init_input / _init_output).
DmaModes(mode) == [b \in Bufs |-> IF b \in DOMAIN mode THEN mode[b] ELSE "heap"]

\* caam_free_buf / caam_free_desc / caam_dmaobj_free of the buffers of fs
Release(b0, fs) == [b \in Bufs |-> IF b \in fs THEN "free" ELSE b0[b]]

\* Memory the driver does not hold: what it contains is never read again
\* (a later allocation starts from a Stale state), so it is kept in one
\* canonical state.
FreeMem == [b \in CBufs |-> Buf(Old, "inv", NoData)]
NoWant  == [b \in CBufs |-> Old]

\* caam_calloc_buf of a stale buffer, then crypto_bignum_bn2bin of v into
\* it (a bignum of zero bytes writes nothing).
Encoded(s, v) == IF v = Absent THEN HostWrite(s, Zero) ELSE HostWrite(HostWrite(s, Zero), v)
Stored(v) == IF v = Absent THEN Zero ELSE v

\* do_keypair_free, plus what each exit label frees besides the keypair.
\* Faulty variant: do_sign's exit path without caam_dmaobj_free(&msg).
SignFreesNoMsg == {"desc"} \cup KeyFields \cup {"sig"}

GenFrees == {"desc"} \cup KeyFields
SignFrees == {"desc"} \cup KeyFields \cup {"msg", "sig"}
VerifyFrees == {"desc"} \cup KeyFields \cup {"tmp", "msg", "sig"}

\* do_keypriv_conv / do_keypub_conv: encode and TEE_CACHECLEAN each field.
\* Faulty variant: the fields encoded without the TEE_CACHECLEAN.
KeyConvNoClean(s, v) == Encoded(s, v)

KeyConv(s, v) == Clean(Encoded(s, v))

\* caam_prime_dsa_gen (caam_prime.c, outside src/): the CAAM computes the
\* parameter into the zeroed buffer, with the buffer flushed before its job
\* and invalidated after it.
PrimeDsaGen(b, f) == Invalidate(DevWrite(Flush(b), Gen(f)))

\* caam_dmaobj_cache_push (outside src/): clean an input, flush an output.
PushInput(b) == Clean(b)
PushOutput(b) == Flush(b)

\* The TEE_CACHEINVALIDATE of x and y after a successful key generation.
\* Faulty variant: x and y read without the invalidation.
PullOutputNone(b) == b

PullOutput(b) == Invalidate(b)

\* caam_dmaobj_copy_to_orig (outside src/): invalidate the DMA buffer and
\* read it into the caller's buffer.
CopyToOrig(b) == HostView(Invalidate(b))

\* The TEE_CACHEFLUSH of the verification's temporary buffer before enqueue.
\* Faulty variant: the temporary buffer enqueued without the flush.
ScratchNoFlush(b) == b

ScratchFlush(b) == Flush(b)

\* job_status_to_tee_result (caam_utils_status.c, outside src/): a failed
\* job maps to an error.
JobStatusToTeeResult(s) == "GENERIC"

\* Faulty variant: CAAM_JOB_STATUS taken as an invalid signature whatever
\* the status (the "&& !jobctx.status" dropped).
VerifyResultNoStatus(r) ==
  IF r.ret = "JOB_STATUS" THEN "SIGNATURE_INVALID"
  ELSE IF r.ret # "NO_ERROR" THEN JobStatusToTeeResult(r.status)
  ELSE "SUCCESS"

\* The classification of the job ring's answer to a verification.
VerifyResult(r) ==
  IF r.ret = "JOB_STATUS" /\ r.status = 0 THEN "SIGNATURE_INVALID"
  ELSE IF r.ret # "NO_ERROR" THEN JobStatusToTeeResult(r.status)
  ELSE "SUCCESS"

\* The index of pointer field f in the hardware layout of operation o.
HwIndex(o, f) == CHOOSE k \in 1..Len(HwPtrFields(o)) : HwPtrFields(o)[k] = f

\* The buffer the CAAM reaches through pointer field f of the descriptor.
DevTarget(f) == PtrBuf(HwPtrTarget(desc, HwIndex(op, f)))

\* What the CAAM writes through output field f.
DevValue(f) == IF f = "tmp" THEN Scratch ELSE Out(PtrBuf(f))

\* The job ring's answers for each outcome of a job (caam_jr_enqueue,
\* outside src/): a verification that found the signature wrong comes back
\* as CAAM_JOB_STATUS with a zero status, as do_verify expects.
JrReports(v) ==
  CASE v \in {"done", "valid"} -> {[ret |-> "NO_ERROR", status |-> 0]}
    [] v = "invalid" -> {[ret |-> "JOB_STATUS", status |-> 0]}
    [] v = "error" -> {[ret |-> "FAILURE", status |-> 1], [ret |-> "JOB_STATUS", status |-> 1]}
    [] v = "garbage" -> Reports

Bin2BnOk == IF Bin2BnMayFail THEN BOOLEAN ELSE {TRUE}

NoSeen == [f \in PtrFields |-> NoData]

\* The CAAM with no job of this driver (the job ring has retired the last).
DevIdle == [st |-> "idle", seen |-> NoSeen, verdict |-> "none"]

-----------------------------------------------------------------------------

Init ==
  /\ pc = "idle"
  /\ op = "none"
  /\ buf = [b \in Bufs |-> "free"]
  /\ cbuf = FreeMem
  /\ want = NoWant
  /\ key = [f \in KeyFields |-> Absent]
  /\ bn = [f \in KeyFields |-> "null"]
  /\ usig = Old
  /\ desc = <<>>
  /\ dev = DevIdle
  /\ jr = [ret |-> "NO_ERROR", status |-> 0]
  /\ ret = "NONE"

\* Return r to the caller; the buffers are then free.
Return(r) == pc' = "idle" /\ ret' = r /\ cbuf' = FreeMem /\ want' = NoWant

(***************************************************************************)
(* do_allocate_keypair and do_allocate_publickey: zero the key, allocate   *)
(* its bignums in order; the first failure frees the ones before it.      *)
(***************************************************************************)
AllocKey(o, fields, freed) ==
  /\ pc = "idle"
  /\ \E n \in 0..Len(fields) :
       LET got == Prefix(fields, n) IN
       /\ op' = o
       /\ key' = [f \in KeyFields |-> Absent]
       /\ \/ /\ n = Len(fields)
             /\ bn' = [f \in KeyFields |-> IF f \in got THEN "live" ELSE "null"]
             /\ ret' = "SUCCESS"
          \/ /\ n < Len(fields)
             /\ bn' = [f \in KeyFields |-> IF f \in got \cap freed THEN "freed"
                                           ELSE IF f \in got THEN "live" ELSE "null"]
             /\ ret' = "OUT_OF_MEMORY"
  /\ UNCHANGED <<pc, buf, cbuf, want, usig, desc, dev, jr>>

\* Faulty variant: err_alloc_keypair without crypto_bignum_free(key->x).
AllocKeypairNoX == AllocKey("alloc_keypair", <<"g", "p", "q", "x", "y">>, {"g", "p", "q"})

AllocKeypair == AllocKey("alloc_keypair", <<"g", "p", "q", "x", "y">>, {"g", "p", "q", "x"})

AllocPublickey == AllocKey("alloc_publickey", <<"g", "p", "q", "y">>, {"g", "p", "q"})

\* The caller populates its key object: some or all domain parameters, x, y.
CallerSetsKey ==
  /\ pc = "idle"
  /\ bn["y"] = "live"
  /\ \E given \in SUBSET Domain :
       key' = [f \in KeyFields |-> IF f \in given \cup {"y"} \/ (f = "x" /\ bn["x"] = "live")
                                    THEN In(f) ELSE Absent]
  /\ UNCHANGED <<pc, op, buf, cbuf, want, bn, usig, desc, dev, jr, ret>>

\* The end of a job's call: caam_free_desc, the job ring's answer consumed,
\* the buffers free, back to the caller.
Retire ==
  /\ desc' = <<>>
  /\ dev' = DevIdle
  /\ jr' = [ret |-> "NO_ERROR", status |-> 0]
  /\ cbuf' = FreeMem
  /\ want' = NoWant
  /\ pc' = "idle"

(***************************************************************************)
(* do_gen_keypair                                                          *)
(***************************************************************************)
\* Allocate the descriptor and the x and y buffers, each TEE_CACHEFLUSHed.
GenAlloc ==
  /\ pc = "idle"
  /\ bn = [f \in KeyFields |-> "live"]
  /\ \E n \in 0..3, s \in Stale :
       LET got == Prefix(<<"desc", "x", "y">>, n)
           b1 == Take(buf, got, Heap)
       IN /\ op' = "gen"
          /\ \/ /\ n = 3
                /\ cbuf' = [b \in CBufs |-> IF b \in got THEN Flush(HostWrite(s, Zero)) ELSE cbuf[b]]
                /\ want' = [b \in CBufs |-> IF b \in got THEN Zero ELSE want[b]]
                /\ buf' = b1 /\ pc' = "gen_params" /\ UNCHANGED ret
             \/ n < 3 /\ buf' = Release(b1, GenFrees) /\ Return("OUT_OF_MEMORY")
  /\ UNCHANGED <<key, bn, usig, desc, dev, jr>>

\* get_keypair_domain_params: allocate q, g, p; encode and clean them if the
\* caller gave all three, otherwise generate all three and copy them back
\* into the key with crypto_bignum_bin2bn, whose result is not checked.
GenDomainParams ==
  /\ pc = "gen_params"
  /\ \E n \in 0..3, s \in Stale :
       LET got == Prefix(<<"q", "g", "p">>, n)
           b1 == Take(buf, got, Heap)
       IN \/ /\ n < 3
             /\ buf' = Release(b1, GenFrees)
             /\ Return("OUT_OF_MEMORY")
             /\ UNCHANGED key
          \/ /\ n = 3
             /\ \A f \in Domain : key[f] # Absent
             /\ cbuf' = [b \in CBufs |-> IF b \in Domain THEN Clean(Encoded(s, key[b])) ELSE cbuf[b]]
             /\ want' = [b \in CBufs |-> IF b \in Domain THEN key[b] ELSE want[b]]
             /\ buf' = b1
             /\ pc' = "gen_submit"
             /\ UNCHANGED <<key, ret>>
          \/ /\ n = 3
             /\ \E f \in Domain : key[f] = Absent
             /\ buf' = Release(b1, GenFrees)
             /\ Return("GENERIC")
             /\ UNCHANGED key
          \/ /\ n = 3
             /\ \E f \in Domain : key[f] = Absent
             /\ \E ok \in [Domain -> Bin2BnOk] :
                  /\ cbuf' = [b \in CBufs |-> IF b \in Domain
                                 THEN PrimeDsaGen(HostWrite(s, Zero), b) ELSE cbuf[b]]
                  /\ want' = [b \in CBufs |-> IF b \in Domain THEN Gen(b) ELSE want[b]]
                  /\ key' = [f \in KeyFields |-> IF f \in Domain /\ ok[f]
                                                  THEN HostView(cbuf'[f]) ELSE key[f]]
             /\ buf' = b1
             /\ pc' = "gen_submit"
             /\ UNCHANGED ret
  /\ UNCHANGED <<op, bn, usig, desc, dev, jr>>

\* Build the key generation descriptor and enqueue it.
GenSubmit ==
  /\ pc = "gen_submit"
  /\ desc' = DescKeyGen
  /\ dev' = [st |-> "queued", seen |-> NoSeen, verdict |-> "none"]
  /\ pc' = "gen_wait"
  /\ UNCHANGED <<op, buf, cbuf, want, key, bn, usig, jr, ret>>

\* On success invalidate x and y and copy them into the key; otherwise map
\* the job status.  Then free the descriptor and the keypair buffers.
GenComplete ==
  /\ pc = "gen_wait"
  /\ dev.st = "done"
  /\ LET xb == PullOutput(cbuf["x"])
         yb == PullOutput(cbuf["y"])
     IN \/ /\ jr.ret = "NO_ERROR"
           /\ \E okx \in Bin2BnOk, oky \in Bin2BnOk :
                \/ /\ okx /\ oky
                   /\ key' = [key EXCEPT !["x"] = HostView(xb), !["y"] = HostView(yb)]
                   /\ ret' = "SUCCESS"
                \/ /\ ~okx
                   /\ ret' = "BAD_PARAMETERS"
                   /\ UNCHANGED key
                \/ /\ okx /\ ~oky
                   /\ key' = [key EXCEPT !["x"] = HostView(xb)]
                   /\ ret' = "BAD_PARAMETERS"
        \/ /\ jr.ret # "NO_ERROR"
           /\ ret' = JobStatusToTeeResult(jr.status)
           /\ UNCHANGED key
  /\ buf' = Release(buf, GenFrees)
  /\ Retire
  /\ UNCHANGED <<op, bn, usig>>

(***************************************************************************)
(* do_sign                                                                 *)
(***************************************************************************)
\* Allocate the descriptor; do_keypriv_conv allocates and encodes g, p, q, x
\* and cleans them.
SignKeyConv ==
  /\ pc = "idle"
  /\ bn["x"] = "live"
  /\ \E n \in 0..5, s \in Stale :
       LET got == Prefix(<<"desc", "g", "p", "q", "x">>, n)
           b1 == Take(buf, got, Heap)
       IN /\ op' = "sign"
          /\ \/ /\ n = 5
                /\ cbuf' = [b \in CBufs |-> IF b \in Domain \cup {"x"}
                               THEN KeyConv(s, key[b]) ELSE cbuf[b]]
                /\ want' = [b \in CBufs |-> IF b \in Domain \cup {"x"} THEN Stored(key[b]) ELSE want[b]]
                /\ buf' = b1
                /\ pc' = "sign_dma"
                /\ UNCHANGED ret
             \/ /\ n < 5
                /\ buf' = Release(b1, SignFrees)
                /\ Return("OUT_OF_MEMORY")
  /\ UNCHANGED <<key, bn, usig, desc, dev, jr>>

\* The message as an input DMA object (pushed), the signature as an output
\* DMA object of ROUNDUP(size_sec, 16) + size_sec bytes and its derived
\* second half (both pushed).  Each DMA object either wraps the caller's
\* buffer or is a reallocated copy.
SignDmaObjs ==
  /\ pc = "sign_dma"
  /\ \E n \in 0..3, mode \in [{"msg", "sig"} -> {"heap", "caller"}],
        sm \in Stale, cm \in CallerStates(In("msg")), ss \in Stale :
       LET got == Prefix(<<"msg", "sig">>, IF n > 2 THEN 2 ELSE n)
           b1 == Take(buf, got, DmaModes(mode))
           mb == IF mode["msg"] = "heap" THEN HostWrite(sm, In("msg")) ELSE cm
       IN \/ /\ n = 3
             /\ cbuf' = [cbuf EXCEPT !["msg"] = PushInput(mb), !["sig"] = PushOutput(ss)]
             /\ want' = [want EXCEPT !["msg"] = In("msg")]
             /\ buf' = b1
             /\ pc' = "sign_submit"
             /\ UNCHANGED ret
          \/ /\ n < 3
             /\ buf' = Release(b1, SignFrees)
             /\ Return("OUT_OF_MEMORY")
  /\ UNCHANGED <<op, key, bn, usig, desc, dev, jr>>

SignSubmit ==
  /\ pc = "sign_submit"
  /\ desc' = DescSign
  /\ dev' = [st |-> "queued", seen |-> NoSeen, verdict |-> "none"]
  /\ pc' = "sign_wait"
  /\ UNCHANGED <<op, buf, cbuf, want, key, bn, usig, jr, ret>>

\* On success copy 2 * size_sec bytes of the signature to the caller.
SignComplete ==
  /\ pc = "sign_wait"
  /\ dev.st = "done"
  /\ \/ /\ jr.ret = "NO_ERROR"
        /\ usig' = CopyToOrig(cbuf["sig"])
        /\ ret' = "SUCCESS"
     \/ /\ jr.ret # "NO_ERROR"
        /\ ret' = JobStatusToTeeResult(jr.status)
        /\ UNCHANGED usig
  /\ buf' = Release(buf, SignFrees)
  /\ Retire
  /\ UNCHANGED <<op, key, bn>>

(***************************************************************************)
(* do_verify                                                               *)
(***************************************************************************)
\* Allocate the descriptor; do_keypub_conv allocates and encodes g, p, q, y
\* and cleans them.
VerifyKeyConv ==
  /\ pc = "idle"
  /\ bn["y"] = "live"
  /\ \E n \in 0..5, s \in Stale :
       LET got == Prefix(<<"desc", "g", "p", "q", "y">>, n)
           b1 == Take(buf, got, Heap)
       IN /\ op' = "verify"
          /\ \/ /\ n = 5
                /\ cbuf' = [b \in CBufs |-> IF b \in Domain \cup {"y"}
                               THEN KeyConv(s, key[b]) ELSE cbuf[b]]
                /\ want' = [b \in CBufs |-> IF b \in Domain \cup {"y"} THEN Stored(key[b]) ELSE want[b]]
                /\ buf' = b1
                /\ pc' = "verify_dma"
                /\ UNCHANGED ret
             \/ /\ n < 5
                /\ buf' = Release(b1, VerifyFrees)
                /\ Return("OUT_OF_MEMORY")
  /\ UNCHANGED <<key, bn, usig, desc, dev, jr>>

\* The message and the signature as input DMA objects (pushed), the second
\* half derived from the first, and the temporary buffer (not zeroed).
VerifyDmaObjs ==
  /\ pc = "verify_dma"
  /\ \E n \in 0..4, mode \in [{"msg", "sig"} -> {"heap", "caller"}],
        sm \in Stale, cm \in CallerStates(In("msg")),
        ss \in Stale, cs \in CallerStates(In("sig")), stmp \in Stale :
       LET got == Prefix(<<"msg", "sig", "tmp">>, IF n = 4 THEN 3 ELSE IF n = 3 THEN 2 ELSE n)
           b1 == Take(buf, got, DmaModes(mode))
           mb == IF mode["msg"] = "heap" THEN HostWrite(sm, In("msg")) ELSE cm
           sb == IF mode["sig"] = "heap" THEN HostWrite(ss, In("sig")) ELSE cs
       IN \/ /\ n = 4
             /\ cbuf' = [cbuf EXCEPT !["msg"] = PushInput(mb), !["sig"] = PushInput(sb),
                                     !["tmp"] = stmp]
             /\ want' = [want EXCEPT !["msg"] = In("msg"), !["sig"] = In("sig")]
             /\ buf' = b1
             /\ pc' = "verify_submit"
             /\ UNCHANGED ret
          \/ /\ n < 4
             /\ buf' = Release(b1, VerifyFrees)
             /\ Return("OUT_OF_MEMORY")
  /\ UNCHANGED <<op, key, bn, usig, desc, dev, jr>>

\* Build the verification descriptor, flush the temporary buffer, enqueue.
VerifySubmit ==
  /\ pc = "verify_submit"
  /\ desc' = DescVerify
  /\ cbuf' = [cbuf EXCEPT !["tmp"] = ScratchFlush(@)]
  /\ dev' = [st |-> "queued", seen |-> NoSeen, verdict |-> "none"]
  /\ pc' = "verify_wait"
  /\ UNCHANGED <<op, buf, want, key, bn, usig, jr, ret>>

VerifyComplete ==
  /\ pc = "verify_wait"
  /\ dev.st = "done"
  /\ ret' = VerifyResult(jr)
  /\ buf' = Release(buf, VerifyFrees)
  /\ Retire
  /\ UNCHANGED <<op, key, bn, usig>>

(***************************************************************************)
(* The CAAM and the cache                                                  *)
(***************************************************************************)
\* The CAAM runs the job: it reads every input field through the pointer
\* the descriptor holds at that field's place, and writes every output.
DevRun ==
  /\ dev.st = "queued"
  /\ dev' = [st |-> "ran",
             seen |-> [f \in PtrFields |-> IF f \in DevInputs(op)
                                           THEN cbuf[DevTarget(f)].mem ELSE NoData],
             verdict |-> "none"]
  /\ cbuf' = [b \in CBufs |->
                IF \E f \in DevOutputs(op) : DevTarget(f) = b
                THEN DevWrite(cbuf[b], DevValue(CHOOSE f \in DevOutputs(op) : DevTarget(f) = b))
                ELSE cbuf[b]]
  /\ UNCHANGED <<pc, op, buf, want, key, bn, usig, desc, jr, ret>>

\* The CAAM finishes: a verification reads its scratch data back and, if
\* it computed on the values the driver meant, decides the signature; the
\* job ring reports the outcome.
DevDone ==
  /\ dev.st = "ran"
  /\ LET intact == /\ \A f \in DevInputs(op) : dev.seen[f] = want[PtrBuf(f)]
                   /\ op = "verify" => cbuf[DevTarget("tmp")].mem = Scratch
         vs == IF op # "verify" THEN {"done", "error"}
               ELSE IF intact THEN {"valid", "invalid", "error"}
               ELSE {"garbage", "error"}
     IN \E v \in vs, r \in Reports :
          /\ r \in JrReports(v)
          /\ dev' = [dev EXCEPT !.st = "done", !.verdict = v]
          /\ jr' = r
  /\ UNCHANGED <<pc, op, buf, cbuf, want, key, bn, usig, desc, ret>>

\* At any point of a call, the cache may evict the dirty line of a buffer
\* the call holds (writing it back), or fill an invalid one speculatively:
\* between a caam_calloc_buf and the clean that follows it as much as
\* while a job is out.  (The CAAM is the only reader of memory behind the
\* cache, and it reads only between enqueue and completion.  Evicting a
\* clean line changes no memory; it only spares a later load a stale line,
\* as the driver's own invalidations do.)
CacheEvict ==
  /\ \E b \in CBufs :
       /\ buf[b] # "free"
       /\ cbuf[b].st = "dirty"
       /\ cbuf' = [cbuf EXCEPT ![b] = Evict(@)]
  /\ UNCHANGED <<pc, op, buf, want, key, bn, usig, desc, dev, jr, ret>>

CachePrefetch ==
  /\ \E b \in CBufs :
       /\ buf[b] # "free"
       /\ cbuf[b].st = "inv"
       /\ cbuf' = [cbuf EXCEPT ![b] = Prefetch(@)]
  /\ UNCHANGED <<pc, op, buf, want, key, bn, usig, desc, dev, jr, ret>>

Next ==
  \/ AllocKeypair \/ AllocPublickey \/ CallerSetsKey
  \/ GenAlloc \/ GenDomainParams \/ GenSubmit \/ GenComplete
  \/ SignKeyConv \/ SignDmaObjs \/ SignSubmit \/ SignComplete
  \/ VerifyKeyConv \/ VerifyDmaObjs \/ VerifySubmit \/ VerifyComplete
  \/ DevRun \/ DevDone \/ CacheEvict \/ CachePrefetch

Spec == Init /\ [][Next]_vars

-----------------------------------------------------------------------------
(***************************************************************************)
(* Properties                                                              *)
(***************************************************************************)

\* Every variable has the type the driver gives it.
TypeOK ==
  /\ pc \in PCs
  /\ op \in Ops
  /\ buf \in [Bufs -> {"free", "heap", "caller"}]
  /\ cbuf \in [CBufs -> BufStates]
  /\ want \in [CBufs -> Data]
  /\ key \in [KeyFields -> KeyValues]
  /\ bn \in [KeyFields -> {"null", "live", "freed"}]
  /\ usig \in Data
  /\ desc \in Seq(UNION {{<<"hdr", n, n - 1>> : n \in 1..30}, {Header0, <<"pdb">>, <<"len">>},
                        {<<"ptr", t>> : t \in PtrFields},
                        {<<"op", o>> : o \in {"PK_KEYPAIR_GEN", "DSA_SIGN", "DSA_VERIFY"}}})
  /\ dev \in [st : {"idle", "queued", "ran", "done"}, seen : [PtrFields -> Data], verdict : Verdicts]
  /\ jr \in Reports
  /\ ret \in Results

\* Whenever the CAAM has run a job, every input it read through the
\* descriptor held what the driver stored for that field: the input was
\* cleaned to memory before the enqueue (do_keypriv_conv, do_keypub_conv,
\* get_keypair_domain_params, caam_dmaobj_cache_push), and the pointer
\* sits at the place the CAAM reads that field from.
DeviceReadsIntended ==
  dev.st \in {"ran", "done"} =>
    \A f \in DevInputs(op) : dev.seen[f] = want[PtrBuf(f)]

\* When a call has returned, it holds no buffer: every exit path of
\* do_gen_keypair, do_sign and do_verify frees the descriptor and every
\* buffer and DMA object it took, and a failed do_allocate_keypair or
\* do_allocate_publickey leaves no bignum allocated.
NoLeakOnReturn ==
  pc = "idle" =>
    /\ \A b \in Bufs : buf[b] = "free"
    /\ (op \in {"alloc_keypair", "alloc_publickey"} /\ ret # "SUCCESS")
         => \A f \in KeyFields : bn[f] # "live"

\* A built descriptor fits the words caam_calloc_desc allocated for it
\* (MAX_DESC_*), its header holds its length and points at the operation
\* command, and it is the word sequence the CAAM's PDB layout expects.
DescriptorFitsLayout == desc # <<>> => FitsLayout(desc, op)

\* A successful key generation hands the caller the x and y the CAAM wrote
\* (invalidated before they are read), together with exactly the domain
\* parameters the CAAM computed them from; a successful signature hands
\* the caller the signature the CAAM wrote.
SuccessCarriesDeviceOutput ==
  [][ /\ (pc = "gen_wait" /\ pc' = "idle" /\ ret' = "SUCCESS") =>
           /\ key'["x"] = Out("x") /\ key'["y"] = Out("y")
           /\ \A f \in Domain : key'[f] = dev.seen[f]
      /\ (pc = "sign_wait" /\ pc' = "idle" /\ ret' = "SUCCESS") => usig' = Out("sig")
    ]_vars

\* do_verify reports a valid signature only when the CAAM computed on the
\* values the driver meant (inputs and its own scratch buffer) and found
\* the signature valid, and reports TEE_ERROR_SIGNATURE_INVALID only when
\* it found the signature wrong, never for a failed job.
VerifyVerdictRespected ==
  [][ pc = "verify_wait" /\ pc' = "idle" =>
        /\ ret' = "SUCCESS" => dev.verdict = "valid"
        /\ ret' = "SIGNATURE_INVALID" => dev.verdict = "invalid"
    ]_vars
=============================================================================
