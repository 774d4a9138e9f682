---------------------------- MODULE CaamDsaProofs ----------------------------
(***************************************************************************)
(* Proofs about the CAAM DSA driver model: every call returns holding no   *)
(* buffer, and every descriptor on the job ring has the layout the CAAM    *)
(* reads, for every pointer width and whether or not bin2bn may fail.     *)
(***************************************************************************)
EXTENDS CaamDsa, CaamDescLayoutProofs, TLAPS

\* The operation the caller's thread is running at each pc.
PhaseOp(p) ==
  CASE p \in {"gen_params", "gen_submit", "gen_wait"} -> "gen"
    [] p \in {"sign_dma", "sign_submit", "sign_wait"} -> "sign"
    [] p \in {"verify_dma", "verify_submit", "verify_wait"} -> "verify"
    [] OTHER -> "none"

\* The buffers the running operation's exit paths free.
PhaseFrees(p) ==
  CASE p \in {"gen_params", "gen_submit", "gen_wait"} -> GenFrees
    [] p \in {"sign_dma", "sign_submit", "sign_wait"} -> SignFrees
    [] p \in {"verify_dma", "verify_submit", "verify_wait"} -> VerifyFrees
    [] OTHER -> {}

\* The inductive invariant: the call in progress holds only buffers its
\* exit paths free (none when idle), runs the operation its pc belongs to,
\* and a descriptor exists only while its job is out, built for that
\* operation; a failed key allocation left no bignum live.
IInv ==
  /\ pc \in PCs
  /\ buf \in [Bufs -> {"free", "heap", "caller"}]
  /\ bn \in [KeyFields -> {"null", "live", "freed"}]
  /\ \A b \in Bufs : buf[b] # "free" => b \in PhaseFrees(pc)
  /\ pc # "idle" => op = PhaseOp(pc)
  /\ desc # <<>> => pc \in WaitPCs /\ desc = Desc(op)
  /\ (pc = "idle" /\ op \in {"alloc_keypair", "alloc_publickey"} /\ ret # "SUCCESS")
       => \A f \in KeyFields : bn[f] # "live"

-----------------------------------------------------------------------------
THEOREM InitIInv == Init => IInv
BY DEF Init, IInv, PCs, Bufs, CBufs, KeyFields, Domain, PhaseFrees

LEMMA GenAllocIInv == IInv /\ GenAlloc => IInv'
<1> SUFFICES ASSUME IInv, GenAlloc PROVE IInv'
  OBVIOUS
<1>1. pc = "idle" /\ desc = <<>>
  BY DEF GenAlloc, IInv, WaitPCs
<1>2. \A b \in Bufs : buf[b] = "free"
  BY <1>1 DEF IInv, PhaseFrees
<1>3. PICK n \in 0..3, s \in Stale :
        LET got == Prefix(<<"desc", "x", "y">>, n)
            b1 == Take(buf, got, Heap)
        IN /\ op' = "gen"
           /\ \/ /\ n = 3
                 /\ cbuf' = [b \in CBufs |-> IF b \in got THEN Flush(HostWrite(s, Zero)) ELSE cbuf[b]]
                 /\ want' = [b \in CBufs |-> IF b \in got THEN Zero ELSE want[b]]
                 /\ buf' = b1 /\ pc' = "gen_params" /\ UNCHANGED ret
              \/ n < 3 /\ buf' = Release(b1, GenFrees) /\ Return("OUT_OF_MEMORY")
  BY DEF GenAlloc
<1>4. Prefix(<<"desc", "x", "y">>, n) \subseteq GenFrees
  BY DEF Prefix, GenFrees, KeyFields, Domain
<1>5. UNCHANGED <<key, bn, desc, dev, jr>>
  BY DEF GenAlloc
<1>6. CASE n = 3
  BY <1>1, <1>2, <1>3, <1>4, <1>5, <1>6
     DEF IInv, Take, Heap, PhaseFrees, PhaseOp, PCs, Bufs, CBufs, KeyFields, Domain, GenFrees
<1>7. CASE n < 3
  BY <1>1, <1>2, <1>3, <1>4, <1>5, <1>7
     DEF IInv, Take, Heap, Release, Return, PhaseFrees, PCs, Bufs, CBufs, KeyFields, Domain
<1>8. QED
  BY <1>6, <1>7

LEMMA AllocKeypairIInv == IInv /\ AllocKeypair => IInv'
<1> SUFFICES ASSUME IInv, AllocKeypair PROVE IInv'
  OBVIOUS
<1>1. pc = "idle" /\ desc = <<>> /\ \A b \in Bufs : buf[b] = "free"
  BY DEF AllocKeypair, AllocKey, IInv, WaitPCs, PhaseFrees
<1>2. PICK n \in 0..5 :
        LET got == Prefix(<<"g", "p", "q", "x", "y">>, n) IN
        /\ op' = "alloc_keypair"
        /\ \/ /\ n = 5
              /\ bn' = [f \in KeyFields |-> IF f \in got THEN "live" ELSE "null"]
              /\ ret' = "SUCCESS"
           \/ /\ n < 5
              /\ bn' = [f \in KeyFields |-> IF f \in got \cap {"g", "p", "q", "x"} THEN "freed"
                                            ELSE IF f \in got THEN "live" ELSE "null"]
              /\ ret' = "OUT_OF_MEMORY"
  BY DEF AllocKeypair, AllocKey
<1>3. UNCHANGED <<pc, buf, desc>>
  BY DEF AllocKeypair, AllocKey
<1>4. n < 5 => Prefix(<<"g", "p", "q", "x", "y">>, n) \subseteq {"g", "p", "q", "x"}
  BY DEF Prefix
<1>5. QED
  BY <1>1, <1>2, <1>3, <1>4 DEF IInv, PhaseFrees, KeyFields, Domain

LEMMA AllocPublickeyIInv == IInv /\ AllocPublickey => IInv'
<1> SUFFICES ASSUME IInv, AllocPublickey PROVE IInv'
  OBVIOUS
<1>1. pc = "idle" /\ desc = <<>> /\ \A b \in Bufs : buf[b] = "free"
  BY DEF AllocPublickey, AllocKey, IInv, WaitPCs, PhaseFrees
<1>2. PICK n \in 0..4 :
        LET got == Prefix(<<"g", "p", "q", "y">>, n) IN
        /\ op' = "alloc_publickey"
        /\ \/ /\ n = 4
              /\ bn' = [f \in KeyFields |-> IF f \in got THEN "live" ELSE "null"]
              /\ ret' = "SUCCESS"
           \/ /\ n < 4
              /\ bn' = [f \in KeyFields |-> IF f \in got \cap {"g", "p", "q"} THEN "freed"
                                            ELSE IF f \in got THEN "live" ELSE "null"]
              /\ ret' = "OUT_OF_MEMORY"
  BY DEF AllocPublickey, AllocKey
<1>3. UNCHANGED <<pc, buf, desc>>
  BY DEF AllocPublickey, AllocKey
<1>4. n < 4 => Prefix(<<"g", "p", "q", "y">>, n) \subseteq {"g", "p", "q"}
  BY DEF Prefix
<1>5. QED
  BY <1>1, <1>2, <1>3, <1>4 DEF IInv, PhaseFrees, KeyFields, Domain

LEMMA CallerSetsKeyIInv == IInv /\ CallerSetsKey => IInv'
BY DEF IInv, CallerSetsKey

LEMMA GenDomainParamsIInv == IInv /\ GenDomainParams => IInv'
<1> SUFFICES ASSUME IInv, GenDomainParams PROVE IInv'
  OBVIOUS
<1>1. pc = "gen_params" /\ desc = <<>> /\ op = "gen"
      /\ \A b \in Bufs : buf[b] # "free" => b \in GenFrees
  BY DEF GenDomainParams, IInv, WaitPCs, PhaseFrees, PhaseOp
<1>2. PICK n \in 0..3, s \in Stale :
        LET got == Prefix(<<"q", "g", "p">>, n)
            b1 == Take(buf, got, Heap)
        IN \/ buf' = Release(b1, GenFrees) /\ pc' = "idle"
           \/ /\ n = 3 /\ buf' = b1 /\ pc' = "gen_submit"
  BY DEF GenDomainParams, Return
<1>3. UNCHANGED <<op, bn, desc>>
  BY DEF GenDomainParams
<1>4. Prefix(<<"q", "g", "p">>, n) \subseteq GenFrees
  BY DEF Prefix, GenFrees, KeyFields, Domain
<1>5. QED
  BY <1>1, <1>2, <1>3, <1>4
     DEF IInv, Take, Heap, Release, Return, PhaseFrees, PhaseOp, PCs, Bufs, CBufs, KeyFields, Domain

LEMMA GenSubmitIInv == IInv /\ GenSubmit => IInv'
BY DEF IInv, GenSubmit, PhaseFrees, PhaseOp, PCs, WaitPCs, Desc

LEMMA GenCompleteIInv == IInv /\ GenComplete => IInv'
<1> SUFFICES ASSUME IInv, GenComplete PROVE IInv'
  OBVIOUS
<1>1. op = "gen" /\ \A b \in Bufs : buf[b] # "free" => b \in GenFrees
  BY DEF GenComplete, IInv, PhaseFrees, PhaseOp
<1>2. buf' = Release(buf, GenFrees) /\ desc' = <<>> /\ pc' = "idle" /\ UNCHANGED <<op, bn>>
  BY DEF GenComplete, Retire
<1>3. QED
  BY <1>1, <1>2 DEF IInv, Release, PhaseFrees, PCs

LEMMA SignKeyConvIInv == IInv /\ SignKeyConv => IInv'
<1> SUFFICES ASSUME IInv, SignKeyConv PROVE IInv'
  OBVIOUS
<1>1. pc = "idle" /\ desc = <<>> /\ \A b \in Bufs : buf[b] = "free"
  BY DEF SignKeyConv, IInv, WaitPCs, PhaseFrees
<1>2. PICK n \in 0..5, s \in Stale :
        LET got == Prefix(<<"desc", "g", "p", "q", "x">>, n)
            b1 == Take(buf, got, Heap)
        IN /\ op' = "sign"
           /\ \/ n = 5 /\ buf' = b1 /\ pc' = "sign_dma"
              \/ buf' = Release(b1, SignFrees) /\ pc' = "idle"
  BY DEF SignKeyConv, Return
<1>3. UNCHANGED <<bn, desc>>
  BY DEF SignKeyConv
<1>4. Prefix(<<"desc", "g", "p", "q", "x">>, n) \subseteq SignFrees
  BY DEF Prefix, SignFrees, KeyFields, Domain
<1>5. QED
  BY <1>1, <1>2, <1>3, <1>4
     DEF IInv, Take, Heap, Release, PhaseFrees, PhaseOp, PCs, Bufs, CBufs, KeyFields, Domain

LEMMA SignDmaObjsIInv == IInv /\ SignDmaObjs => IInv'
<1> SUFFICES ASSUME IInv, SignDmaObjs PROVE IInv'
  OBVIOUS
<1>1. pc = "sign_dma" /\ desc = <<>> /\ op = "sign"
      /\ \A b \in Bufs : buf[b] # "free" => b \in SignFrees
  BY DEF SignDmaObjs, IInv, WaitPCs, PhaseFrees, PhaseOp
<1>2. PICK n \in 0..3, mode \in [{"msg", "sig"} -> {"heap", "caller"}] :
        LET got == Prefix(<<"msg", "sig">>, IF n > 2 THEN 2 ELSE n)
            b1 == Take(buf, got, DmaModes(mode))
        IN \/ n = 3 /\ buf' = b1 /\ pc' = "sign_submit"
           \/ buf' = Release(b1, SignFrees) /\ pc' = "idle"
  BY DEF SignDmaObjs, Return
<1>3. UNCHANGED <<op, bn, desc>>
  BY DEF SignDmaObjs
<1>4. Prefix(<<"msg", "sig">>, IF n > 2 THEN 2 ELSE n) \subseteq SignFrees
  BY DEF Prefix, SignFrees
<1>5. \A b \in Bufs : DmaModes(mode)[b] \in {"heap", "caller"}
  BY DEF DmaModes
<1>6. QED
  BY <1>1, <1>2, <1>3, <1>4, <1>5
     DEF IInv, Take, Release, PhaseFrees, PhaseOp, PCs, Bufs, CBufs, KeyFields, Domain

LEMMA SignSubmitIInv == IInv /\ SignSubmit => IInv'
BY DEF IInv, SignSubmit, PhaseFrees, PhaseOp, PCs, WaitPCs, Desc

LEMMA SignCompleteIInv == IInv /\ SignComplete => IInv'
<1> SUFFICES ASSUME IInv, SignComplete PROVE IInv'
  OBVIOUS
<1>1. op = "sign" /\ \A b \in Bufs : buf[b] # "free" => b \in SignFrees
  BY DEF SignComplete, IInv, PhaseFrees, PhaseOp
<1>2. buf' = Release(buf, SignFrees) /\ desc' = <<>> /\ pc' = "idle" /\ UNCHANGED <<op, bn>>
  BY DEF SignComplete, Retire
<1>3. QED
  BY <1>1, <1>2 DEF IInv, Release, PhaseFrees, PCs

LEMMA VerifyKeyConvIInv == IInv /\ VerifyKeyConv => IInv'
<1> SUFFICES ASSUME IInv, VerifyKeyConv PROVE IInv'
  OBVIOUS
<1>1. pc = "idle" /\ desc = <<>> /\ \A b \in Bufs : buf[b] = "free"
  BY DEF VerifyKeyConv, IInv, WaitPCs, PhaseFrees
<1>2. PICK n \in 0..5, s \in Stale :
        LET got == Prefix(<<"desc", "g", "p", "q", "y">>, n)
            b1 == Take(buf, got, Heap)
        IN /\ op' = "verify"
           /\ \/ n = 5 /\ buf' = b1 /\ pc' = "verify_dma"
              \/ buf' = Release(b1, VerifyFrees) /\ pc' = "idle"
  BY DEF VerifyKeyConv, Return
<1>3. UNCHANGED <<bn, desc>>
  BY DEF VerifyKeyConv
<1>4. Prefix(<<"desc", "g", "p", "q", "y">>, n) \subseteq VerifyFrees
  BY DEF Prefix, VerifyFrees, KeyFields, Domain
<1>5. QED
  BY <1>1, <1>2, <1>3, <1>4
     DEF IInv, Take, Heap, Release, PhaseFrees, PhaseOp, PCs, Bufs, CBufs, KeyFields, Domain

LEMMA VerifyDmaObjsIInv == IInv /\ VerifyDmaObjs => IInv'
<1> SUFFICES ASSUME IInv, VerifyDmaObjs PROVE IInv'
  OBVIOUS
<1>1. pc = "verify_dma" /\ desc = <<>> /\ op = "verify"
      /\ \A b \in Bufs : buf[b] # "free" => b \in VerifyFrees
  BY DEF VerifyDmaObjs, IInv, WaitPCs, PhaseFrees, PhaseOp
<1>2. PICK n \in 0..4, mode \in [{"msg", "sig"} -> {"heap", "caller"}] :
        LET got == Prefix(<<"msg", "sig", "tmp">>, IF n = 4 THEN 3 ELSE IF n = 3 THEN 2 ELSE n)
            b1 == Take(buf, got, DmaModes(mode))
        IN \/ n = 4 /\ buf' = b1 /\ pc' = "verify_submit"
           \/ buf' = Release(b1, VerifyFrees) /\ pc' = "idle"
  BY DEF VerifyDmaObjs, Return
<1>3. UNCHANGED <<op, bn, desc>>
  BY DEF VerifyDmaObjs
<1>4. Prefix(<<"msg", "sig", "tmp">>, IF n = 4 THEN 3 ELSE IF n = 3 THEN 2 ELSE n) \subseteq VerifyFrees
  BY DEF Prefix, VerifyFrees
<1>5. \A b \in Bufs : DmaModes(mode)[b] \in {"heap", "caller"}
  BY DEF DmaModes
<1>6. QED
  BY <1>1, <1>2, <1>3, <1>4, <1>5
     DEF IInv, Take, Release, PhaseFrees, PhaseOp, PCs, Bufs, CBufs, KeyFields, Domain

LEMMA VerifySubmitIInv == IInv /\ VerifySubmit => IInv'
BY DEF IInv, VerifySubmit, PhaseFrees, PhaseOp, PCs, WaitPCs, Desc

LEMMA VerifyCompleteIInv == IInv /\ VerifyComplete => IInv'
<1> SUFFICES ASSUME IInv, VerifyComplete PROVE IInv'
  OBVIOUS
<1>1. op = "verify" /\ \A b \in Bufs : buf[b] # "free" => b \in VerifyFrees
  BY DEF VerifyComplete, IInv, PhaseFrees, PhaseOp
<1>2. buf' = Release(buf, VerifyFrees) /\ desc' = <<>> /\ pc' = "idle" /\ UNCHANGED <<op, bn>>
  BY DEF VerifyComplete, Retire
<1>3. QED
  BY <1>1, <1>2 DEF IInv, Release, PhaseFrees, PCs

LEMMA EnvIInv == IInv /\ (DevRun \/ DevDone \/ CacheEvict \/ CachePrefetch) => IInv'
BY DEF IInv, DevRun, DevDone, CacheEvict, CachePrefetch

LEMMA StutterIInv == IInv /\ UNCHANGED vars => IInv'
BY DEF IInv, vars

THEOREM IInvStep == IInv /\ [Next]_vars => IInv'
BY AllocKeypairIInv, AllocPublickeyIInv, CallerSetsKeyIInv, GenAllocIInv,
   GenDomainParamsIInv, GenSubmitIInv, GenCompleteIInv, SignKeyConvIInv,
   SignDmaObjsIInv, SignSubmitIInv, SignCompleteIInv, VerifyKeyConvIInv,
   VerifyDmaObjsIInv, VerifySubmitIInv, VerifyCompleteIInv, EnvIInv, StutterIInv
   DEF Next

\* Every call of do_gen_keypair, do_sign and do_verify returns having freed
\* the descriptor and every buffer and DMA object it took, on every exit
\* path, and a failed do_allocate_keypair or do_allocate_publickey leaves no
\* bignum allocated: NoLeakOnReturn holds in every reachable state.
THEOREM NoLeakTheorem == Spec => []NoLeakOnReturn
<1>1. IInv => NoLeakOnReturn
  BY DEF IInv, NoLeakOnReturn, PhaseFrees
<1>2. QED
  BY InitIInv, IInvStep, <1>1, PTL DEF Spec

\* The job descriptor on the job ring is, at every moment, one that fits
\* the words caam_calloc_desc allocated and has the layout the CAAM's PDB
\* for the running operation expects: DescriptorFitsLayout holds in every
\* reachable state, for both pointer widths.
THEOREM DescLayoutTheorem == Spec => []DescriptorFitsLayout
<1>1. IInv => DescriptorFitsLayout
  <2> SUFFICES ASSUME IInv, desc # <<>> PROVE FitsLayout(desc, op)
    BY DEF DescriptorFitsLayout
  <2>1. desc = Desc(op) /\ op \in {"gen", "sign", "verify"}
    BY DEF IInv, WaitPCs, PhaseOp
  <2> QED
    BY <2>1, DescFitsLayout
<1>2. QED
  BY InitIInv, IInvStep, <1>1, PTL DEF Spec
====
