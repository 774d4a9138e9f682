----------------------------- MODULE DsaService -----------------------------
(***************************************************************************)
(* What the DSA operations of struct drvcrypt_dsa (drvcrypt_acipher.h)     *)
(* promise their caller, whatever driver implements them: no buffers, no   *)
(* descriptor, no cache, no device.                                        *)
(*                                                                         *)
(* phase is "busy" while a call is in progress; held says whether the      *)
(* driver holds memory on the caller's behalf.  key and bn are the         *)
(* caller's key bignums and their allocation state, usig the signature     *)
(* buffer the caller gets back, ret the TEE_Result of the last call.       *)
(* Values are the tags of DmaCache: In(f) what the caller stored, Gen(f) a *)
(* generated domain parameter, Out(f) what the hardware computed.          *)
(***************************************************************************)
EXTENDS DmaCache

VARIABLES phase, op, held, key, bn, usig, ret

vars == <<phase, op, held, key, bn, usig, ret>>

Domain    == {"p", "q", "g"}
KeyFields == Domain \cup {"x", "y"}
Absent    == <<"absent", "-">>
Errors    == {"OUT_OF_MEMORY", "GENERIC", "BAD_PARAMETERS"}
JobOps    == {"gen", "sign", "verify"}

Init ==
  /\ phase = "idle"
  /\ op = "none"
  /\ held = FALSE
  /\ key = [f \in KeyFields |-> Absent]
  /\ bn = [f \in KeyFields |-> "null"]
  /\ usig = Old
  /\ ret = "NONE"

\* allocate_keypair / allocate_publickey: a fresh key whose bignums of
\* fields are all allocated, or an error that leaves none allocated.
Allocate(o, fields) ==
  /\ phase = "idle"
  /\ op' = o
  /\ key' = [f \in KeyFields |-> Absent]
  /\ \/ /\ bn' = [f \in KeyFields |-> IF f \in fields THEN "live" ELSE "null"]
        /\ ret' = "SUCCESS"
     \/ /\ bn' \in [KeyFields -> {"null", "freed"}]
        /\ ret' = "OUT_OF_MEMORY"
  /\ UNCHANGED <<phase, held, usig>>

\* The caller stores values in the bignums of its key.
SetKey ==
  /\ phase = "idle"
  /\ bn["y"] = "live"
  /\ \E given \in SUBSET Domain :
       key' = [f \in KeyFields |-> IF f \in given \cup {"y"} \/ (f = "x" /\ bn["x"] = "live")
                                    THEN In(f) ELSE Absent]
  /\ UNCHANGED <<phase, op, held, bn, usig, ret>>

\* The bignums an operation needs the caller to have allocated.
Ready(o) == CASE o = "gen" -> \A f \in KeyFields : bn[f] = "live"
              [] o = "sign" -> bn["x"] = "live"
              [] o = "verify" -> bn["y"] = "live"

\* gen_keypair, sign or verify starts, taking memory for the call ...
Begin(o) ==
  /\ phase = "idle"
  /\ Ready(o)
  /\ phase' = "busy" /\ op' = o /\ held' = TRUE
  /\ UNCHANGED <<key, bn, usig, ret>>

\* ... or fails at once for want of memory, holding nothing.
Refuse(o) ==
  /\ phase = "idle"
  /\ Ready(o)
  /\ op' = o /\ ret' = "OUT_OF_MEMORY"
  /\ UNCHANGED <<phase, held, key, bn, usig>>

\* Key generation may replace domain parameters by generated ones, and
\* only when the caller left one of them out.
Generate ==
  /\ phase = "busy" /\ op = "gen"
  /\ \E f \in Domain : key[f] = Absent
  /\ \E new \in SUBSET Domain :
       key' = [f \in KeyFields |-> IF f \in new THEN Gen(f) ELSE key[f]]
  /\ UNCHANGED <<phase, op, held, bn, usig, ret>>

\* What a call may return and hand back: a generated key pair is the one
\* the hardware computed (a failure may leave x copied but never y); a
\* signature is the hardware's; a verification changes nothing.
Outcome(o, r) ==
  CASE o = "gen" ->
         /\ UNCHANGED usig
         /\ \/ r = "SUCCESS" /\ key' = [key EXCEPT !["x"] = Out("x"), !["y"] = Out("y")]
            \/ r \in Errors /\ key' \in {key, [key EXCEPT !["x"] = Out("x")]}
    [] o = "sign" ->
         /\ UNCHANGED key
         /\ \/ r = "SUCCESS" /\ usig' = Out("sig")
            \/ r \in Errors /\ UNCHANGED usig
    [] o = "verify" ->
         r \in {"SUCCESS", "SIGNATURE_INVALID"} \cup Errors /\ UNCHANGED <<key, usig>>

\* The call returns r, holding nothing any more.
Finish(r) ==
  /\ phase = "busy"
  /\ Outcome(op, r)
  /\ phase' = "idle" /\ held' = FALSE /\ ret' = r
  /\ UNCHANGED <<op, bn>>

Next ==
  \/ Allocate("alloc_keypair", KeyFields)
  \/ Allocate("alloc_publickey", KeyFields \ {"x"})
  \/ SetKey
  \/ \E o \in JobOps : Begin(o) \/ Refuse(o)
  \/ Generate
  \/ \E r \in {"SUCCESS", "SIGNATURE_INVALID"} \cup Errors : Finish(r)

Spec == Init /\ [][Next]_vars
=============================================================================
