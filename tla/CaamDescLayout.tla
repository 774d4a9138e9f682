--------------------------- MODULE CaamDescLayout ---------------------------
(***************************************************************************)
(* The CAAM job descriptors that caam_dsa.c builds for key generation,     *)
(* signature and verification, and how the CAAM reads them.               *)
(*                                                                         *)
(* A descriptor is a sequence of 32-bit words.  caam_desc_add_word appends *)
(* one word; caam_desc_add_ptr appends a physical address, one word on a   *)
(* 32-bit CAAM and two with CFG_CAAM_64BIT (PtrWords).  The header is      *)
(* appended as DESC_HEADER(0) and patched once the length is known with    *)
(* DESC_HEADER_IDX(desclen, desclen - 1): total length, and the index of   *)
(* the first command word, which follows the protocol data block (PDB).   *)
(* Words are tuples: <<"hdr", len, idx>>, <<"pdb">>, <<"ptr", target>>,    *)
(* <<"len">> (message length) and <<"op", operation>>.                     *)
(***************************************************************************)
EXTENDS Naturals, Sequences

CONSTANT PtrWords   \* words per physical address: 2 with CFG_CAAM_64BIT, else 1

ASSUME PtrWordsAssumption == PtrWords \in {1, 2}

\* caam_desc_add_word / caam_desc_add_ptr (caam_desc_helper, outside src/)
AddWord(d, w) == Append(d, w)

\* caam_desc_add_ptr for each target of ts in turn
AddPtrs(d, ts) ==
  d \o [i \in 1..(Len(ts) * PtrWords) |-> <<"ptr", ts[(i - 1) \div PtrWords + 1]>>]

\* DESC_HEADER(0), then caam_desc_update_hdr(desc, DESC_HEADER_IDX(len, len - 1))
Header0 == <<"hdr", 0, 0>>

\* Faulty variant: DESC_HEADER_IDX(desclen, desclen), an index past the end.
UpdateHdrPastEnd(d) == [d EXCEPT ![1] = <<"hdr", Len(d), Len(d)>>]

UpdateHdr(d) == [d EXCEPT ![1] = <<"hdr", Len(d), Len(d) - 1>>]

\* do_gen_keypair: PDB_DL_KEY sizes, p, q, g, x, y, PK_KEYPAIR_GEN(DL)
DescKeyGen ==
  UpdateHdr(AddWord(AddPtrs(AddWord(<<Header0>>, <<"pdb">>),
                            <<"p", "q", "g", "x", "y">>),
                    <<"op", "PK_KEYPAIR_GEN">>))

\* Faulty variants of DescSign: the message length word left out, and the
\* p and q pointers added in the wrong order.
DescSignNoLen ==
  UpdateHdr(AddWord(AddPtrs(AddWord(<<Header0>>, <<"pdb">>),
                            <<"p", "q", "g", "x", "msg", "sigc", "sigd">>),
                    <<"op", "DSA_SIGN">>))
DescSignSwapped ==
  UpdateHdr(AddWord(AddWord(AddPtrs(AddWord(<<Header0>>, <<"pdb">>),
                                    <<"q", "p", "g", "x", "msg", "sigc", "sigd">>),
                            <<"len">>),
                    <<"op", "DSA_SIGN">>))

\* do_sign: PDB_DSA_SIGN sizes and SGT flags, p, q, g, x, message,
\* signature c and d, message length, DSA_SIGN(DL)
DescSign ==
  UpdateHdr(AddWord(AddWord(AddPtrs(AddWord(<<Header0>>, <<"pdb">>),
                                    <<"p", "q", "g", "x", "msg", "sigc", "sigd">>),
                            <<"len">>),
                    <<"op", "DSA_SIGN">>))

\* do_verify: PDB_DSA_VERIF sizes and SGT flags, p, q, g, y, message,
\* signature c and d, temporary buffer, message length, DSA_VERIFY(DL)
DescVerify ==
  UpdateHdr(AddWord(AddWord(AddPtrs(AddWord(<<Header0>>, <<"pdb">>),
                                    <<"p", "q", "g", "y", "msg", "sigc", "sigd", "tmp">>),
                            <<"len">>),
                    <<"op", "DSA_VERIFY">>))

Desc(op) == CASE op = "gen" -> DescKeyGen
              [] op = "sign" -> DescSign
              [] op = "verify" -> DescVerify

\* MAX_DESC_KEY_GEN, MAX_DESC_SIGN, MAX_DESC_VERIFY: the words caam_calloc_desc
\* allocates for each descriptor.
\* Faulty variant: the 64-bit verification capacity counted two words short.
MaxDescVerifyShort == IF PtrWords = 2 THEN 19 ELSE 13

MaxDescKeyGen == IF PtrWords = 2 THEN 14 ELSE 9
MaxDescSign   == IF PtrWords = 2 THEN 19 ELSE 12
MaxDescVerify == IF PtrWords = 2 THEN 21 ELSE 13

MaxDesc(op) == CASE op = "gen" -> MaxDescKeyGen
                 [] op = "sign" -> MaxDescSign
                 [] op = "verify" -> MaxDescVerify

(***************************************************************************)
(* The CAAM's side of the contract (the PDB layouts of the reference       *)
(* manual, as the table of spec section 4.2 lists them): the pointer       *)
(* fields in the order the CAAM reads them after the PDB word, and the     *)
(* words that follow them.                                                 *)
(***************************************************************************)
HwPtrFields(op) ==
  CASE op = "gen" -> <<"p", "q", "g", "x", "y">>
    [] op = "sign" -> <<"p", "q", "g", "x", "msg", "sigc", "sigd">>
    [] op = "verify" -> <<"p", "q", "g", "y", "msg", "sigc", "sigd", "tmp">>

HwTrailer(op) ==
  CASE op = "gen" -> <<<<"op", "PK_KEYPAIR_GEN">>>>
    [] op = "sign" -> <<<<"len">>, <<"op", "DSA_SIGN">>>>
    [] op = "verify" -> <<<<"len">>, <<"op", "DSA_VERIFY">>>>

\* The address the CAAM takes for its k-th pointer field: the words of
\* pointer k start after the header, the PDB word and k - 1 pointers.
HwPtrWord(d, k) == 2 + (k - 1) * PtrWords + 1

HwPtrTarget(d, k) == d[HwPtrWord(d, k)][2]

\* Descriptor d of operation o fits the words allocated for it, its header
\* holds its length and the index of its last word, the operation command,
\* and it is the word sequence the CAAM's PDB layout for o expects.
FitsLayout(d, o) ==
  /\ Len(d) <= MaxDesc(o)
  /\ d[1] = <<"hdr", Len(d), Len(d) - 1>>
  /\ d[Len(d)][1] = "op"
  /\ d = <<d[1], <<"pdb">>>>
         \o [i \in 1..(Len(HwPtrFields(o)) * PtrWords) |->
               <<"ptr", HwPtrFields(o)[(i - 1) \div PtrWords + 1]>>]
         \o HwTrailer(o)
=============================================================================
