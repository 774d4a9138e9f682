------------------------- MODULE CaamDsaRefinement -------------------------
(***************************************************************************)
(* The CAAM DSA driver implements the DSA service of drvcrypt_acipher.h.   *)
(* The refinement mapping hides the caller thread's position inside a     *)
(* call (every pc but "idle" is one busy phase), the DMA buffers (the      *)
(* service only sees whether the driver holds any), the descriptor, the    *)
(* CAAM and the cache.  Key, bignums, signature and result are the same.   *)
(***************************************************************************)
EXTENDS CaamDsa

\* A call is in progress when the caller thread is not idle.
PhaseOf == IF pc = "idle" THEN "idle" ELSE "busy"

\* The driver holds memory when any DMA buffer or the descriptor is taken.
Holds == \E b \in Bufs : buf[b] # "free"

Abs == INSTANCE DsaService WITH phase <- PhaseOf, held <- Holds

\* Every behaviour of the driver, under every interleaving of the CAAM and
\* the cache, is a behaviour the DSA service allows: each call returns
\* holding nothing, hands back the hardware's key pair or signature on
\* success, and replaces domain parameters only when one was left out.
DsaRefinement == Abs!Spec
=============================================================================
