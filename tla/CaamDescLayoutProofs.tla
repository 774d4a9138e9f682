------------------------ MODULE CaamDescLayoutProofs ------------------------
(***************************************************************************)
(* Proofs that the descriptors caam_dsa.c builds have the layout the CAAM  *)
(* reads, for both pointer widths.                                         *)
(***************************************************************************)
EXTENDS CaamDescLayout, SequenceTheorems, TLAPS

\* The pointer words caam_desc_add_ptr appends for the targets ts.
PtrWordSeq(ts) ==
  [i \in 1..(Len(ts) * PtrWords) |-> <<"ptr", ts[(i - 1) \div PtrWords + 1]>>]

\* The names of the buffers a descriptor points to.
FieldNames == {"p", "q", "g", "x", "y", "msg", "sigc", "sigd", "tmp"}

\* Two one-element sequences concatenate to a pair.
LEMMA PairConcat ==
  ASSUME NEW x, NEW y
  PROVE  <<x>> \o <<y>> = <<x, y>>
<1> DEFINE S == {x, y}
<1>1. <<x>> \in Seq(S) /\ <<y>> \in Seq(S) /\ <<x, y>> \in Seq(S)
  OBVIOUS
<1>2. <<x>> \o <<y>> \in Seq(S)
  BY <1>1, ConcatProperties
<1>3. Len(<<x>> \o <<y>>) = 2
  BY <1>1
<1>4. \A i \in 1..2 : (<<x>> \o <<y>>)[i] = <<x, y>>[i]
  BY <1>1
<1>5. QED
  BY <1>1, <1>2, <1>3, <1>4, SeqEqual

\* Appending to a one-element sequence gives a pair.
LEMMA AppendPair ==
  ASSUME NEW x, NEW y
  PROVE  Append(<<x>>, y) = <<x, y>>
<1>1. <<x>> \in Seq({x, y})
  OBVIOUS
<1>2. QED
  BY <1>1, AppendIsConcat, PairConcat

\* Patching the first word of a concatenation patches its left part.
LEMMA ExceptConcat ==
  ASSUME NEW S, NEW A \in Seq(S), NEW B \in Seq(S), Len(A) >= 1, NEW e \in S
  PROVE  [A \o B EXCEPT ![1] = e] = [A EXCEPT ![1] = e] \o B
<1>0. Len(A) \in Nat /\ Len(B) \in Nat
  BY LenProperties
<1>1. A \o B \in Seq(S) /\ Len(A \o B) = Len(A) + Len(B) /\ 1 \in 1..Len(A \o B)
  BY <1>0, ConcatProperties
<1>2. /\ [A EXCEPT ![1] = e] \in Seq(S)
      /\ Len([A EXCEPT ![1] = e]) = Len(A)
      /\ \A j \in 1..Len(A) : [A EXCEPT ![1] = e][j] = IF j = 1 THEN e ELSE A[j]
  BY <1>0, ExceptSeq
<1>3. /\ [A \o B EXCEPT ![1] = e] \in Seq(S)
      /\ Len([A \o B EXCEPT ![1] = e]) = Len(A) + Len(B)
      /\ \A j \in 1..Len(A \o B) :
           [A \o B EXCEPT ![1] = e][j] = IF j = 1 THEN e ELSE (A \o B)[j]
  <2> DEFINE AB == A \o B
  <2>1. AB \in Seq(S) /\ 1 \in 1..Len(AB) /\ Len(AB) = Len(A) + Len(B)
    BY <1>1
  <2>2. /\ [AB EXCEPT ![1] = e] \in Seq(S)
        /\ Len([AB EXCEPT ![1] = e]) = Len(AB)
        /\ \A j \in 1..Len(AB) : [AB EXCEPT ![1] = e][j] = IF j = 1 THEN e ELSE AB[j]
    <3> HIDE DEF AB
    <3> QED
      BY <2>1, ExceptSeq
  <2> QED
    BY <2>1, <2>2
<1>4. /\ [A EXCEPT ![1] = e] \o B \in Seq(S)
      /\ Len([A EXCEPT ![1] = e] \o B) = Len(A) + Len(B)
      /\ \A j \in 1..Len(A) + Len(B) : ([A EXCEPT ![1] = e] \o B)[j] =
           IF j <= Len(A) THEN [A EXCEPT ![1] = e][j] ELSE B[j - Len(A)]
  BY <1>2, ConcatProperties
<1>5. \A j \in 1..Len(A) + Len(B) :
        (A \o B)[j] = IF j <= Len(A) THEN A[j] ELSE B[j - Len(A)]
  BY ConcatProperties
<1>6. \A j \in 1..Len(A) + Len(B) :
        [A \o B EXCEPT ![1] = e][j] = ([A EXCEPT ![1] = e] \o B)[j]
  BY <1>0, <1>1, <1>2, <1>3, <1>4, <1>5
<1>7. QED
  BY <1>3, <1>4, <1>6, SeqEqual

\* Patching the first word of a pair followed by B.
LEMMA ExceptPairConcat ==
  ASSUME NEW S, NEW x \in S, NEW y \in S, NEW B \in Seq(S), NEW e \in S
  PROVE  [<<x, y>> \o B EXCEPT ![1] = e] = <<e, y>> \o B
<1> DEFINE AB == <<x, y>> \o B
           EB == <<e, y>> \o B
<1>1. Len(B) \in Nat /\ <<x, y>> \in Seq(S) /\ <<e, y>> \in Seq(S)
  BY LenProperties
<1>2. /\ AB \in Seq(S) /\ Len(AB) = 2 + Len(B)
      /\ \A j \in 1..Len(AB) : AB[j] = IF j <= 2 THEN <<x, y>>[j] ELSE B[j - 2]
  BY <1>1, ConcatProperties
<1>3. /\ EB \in Seq(S) /\ Len(EB) = 2 + Len(B)
      /\ \A j \in 1..Len(EB) : EB[j] = IF j <= 2 THEN <<e, y>>[j] ELSE B[j - 2]
  BY <1>1, ConcatProperties
<1>4. /\ [AB EXCEPT ![1] = e] \in Seq(S)
      /\ Len([AB EXCEPT ![1] = e]) = Len(AB)
      /\ \A j \in 1..Len(AB) : [AB EXCEPT ![1] = e][j] = IF j = 1 THEN e ELSE AB[j]
  <2>1. 1 \in 1..Len(AB)
    BY <1>1, <1>2
  <2> HIDE DEF AB
  <2> QED
    BY <1>2, <2>1, ExceptSeq
<1>5. \A j \in 1..Len(AB) : [AB EXCEPT ![1] = e][j] = EB[j]
  <2> HIDE DEF AB, EB
  <2> QED
    BY <1>1, <1>2, <1>3, <1>4
<1>6. QED
  <2> HIDE DEF AB, EB
  <2>1. [AB EXCEPT ![1] = e] = EB
    BY <1>2, <1>3, <1>4, <1>5, SeqEqual
  <2> QED
    BY <2>1 DEF AB, EB

\* The pointer words form a sequence of Len(ts) * PtrWords words.
LEMMA PtrWordSeqType ==
  ASSUME NEW F, NEW ts \in Seq(F)
  PROVE  /\ PtrWordSeq(ts) \in Seq({"ptr"} \X F)
         /\ Len(PtrWordSeq(ts)) = Len(ts) * PtrWords
<1>1. Len(ts) \in Nat /\ ts \in [1..Len(ts) -> F]
  BY LenProperties
<1>2. \A i \in 1..(Len(ts) * PtrWords) : (i - 1) \div PtrWords + 1 \in 1..Len(ts)
  BY <1>1, PtrWordsAssumption
<1>3. PtrWordSeq(ts) \in [1..(Len(ts) * PtrWords) -> {"ptr"} \X F]
  BY <1>1, <1>2 DEF PtrWordSeq
<1>4. Len(ts) * PtrWords \in Nat
  BY <1>1, PtrWordsAssumption
<1>5. PtrWordSeq(ts) \in Seq({"ptr"} \X F)
  BY <1>3, <1>4, SeqDef
<1>6. QED
  BY <1>4, <1>5 DEF PtrWordSeq

\* Appending two words to the header and PDB words followed by G gives
\* the same words as concatenating the pair.
LEMMA AppendTwo ==
  ASSUME NEW S, NEW G \in Seq(S), NEW a \in S, NEW b \in S,
         Header0 \in S, <<"pdb">> \in S
  PROVE  AddWord(AddWord(AddWord(<<Header0>>, <<"pdb">>) \o G, a), b)
           = <<Header0, <<"pdb">>>> \o G \o <<a, b>>
<1> DEFINE P == <<Header0, <<"pdb">>>>
<1>1. AddWord(<<Header0>>, <<"pdb">>) = P
  BY AppendPair DEF AddWord
<1>2. P \o G \in Seq(S) /\ <<a>> \in Seq(S) /\ <<b>> \in Seq(S)
  BY ConcatProperties
<1>3. Append(P \o G, a) = (P \o G) \o <<a>>
  BY <1>2, AppendIsConcat
<1>4. (P \o G) \o <<a>> \in Seq(S)
  BY <1>2, ConcatProperties
<1>5. Append((P \o G) \o <<a>>, b) = ((P \o G) \o <<a>>) \o <<b>>
  BY <1>4, AppendIsConcat
<1>6. ((P \o G) \o <<a>>) \o <<b>> = (P \o G) \o (<<a>> \o <<b>>)
  BY <1>2, ConcatAssociative
<1>7. QED
  BY <1>1, <1>3, <1>5, <1>6, PairConcat DEF AddWord

\* Appending one word to the header and PDB words followed by G.
LEMMA AppendOne ==
  ASSUME NEW S, NEW G \in Seq(S), NEW a \in S,
         Header0 \in S, <<"pdb">> \in S
  PROVE  AddWord(AddWord(<<Header0>>, <<"pdb">>) \o G, a)
           = <<Header0, <<"pdb">>>> \o G \o <<a>>
<1> DEFINE P == <<Header0, <<"pdb">>>>
<1>1. AddWord(<<Header0>>, <<"pdb">>) = P
  BY AppendPair DEF AddWord
<1>2. P \o G \in Seq(S)
  BY ConcatProperties
<1>3. QED
  BY <1>1, <1>2, AppendIsConcat DEF AddWord

\* Patching the header word h0 of a descriptor that starts with h0, w.
LEMMA PatchHeader ==
  ASSUME NEW S, NEW h0 \in S, NEW w \in S, NEW G \in Seq(S), NEW Tr \in Seq(S),
         NEW h \in S
  PROVE  [<<h0, w>> \o G \o Tr EXCEPT ![1] = h] = <<h, w>> \o G \o Tr
<1> DEFINE P == <<h0, w>>
           PG == P \o G
<1>1. P \in Seq(S) /\ Len(P) = 2 /\ PG \in Seq(S) /\ Len(PG) >= 1
  BY ConcatProperties, LenProperties
<1>2. [PG \o Tr EXCEPT ![1] = h] = [PG EXCEPT ![1] = h] \o Tr
  <2> HIDE DEF PG
  <2> QED
    BY <1>1, ExceptConcat
<1>3. [P \o G EXCEPT ![1] = h] = <<h, w>> \o G
  BY ExceptPairConcat
<1>4. QED
  BY <1>2, <1>3

\* A descriptor of header, PDB word, the pointers to ts and two more
\* words, with its header patched, as a concatenation.
LEMMA BuildTwo ==
  ASSUME NEW ts \in Seq(FieldNames), NEW a, NEW b
  PROVE  UpdateHdr(AddWord(AddWord(AddPtrs(AddWord(<<Header0>>, <<"pdb">>), ts), a), b))
           = <<<<"hdr", Len(ts) * PtrWords + 4, Len(ts) * PtrWords + 3>>, <<"pdb">>>>
               \o PtrWordSeq(ts) \o <<a, b>>
<1> DEFINE G == PtrWordSeq(ts)
           h == <<"hdr", Len(ts) * PtrWords + 4, Len(ts) * PtrWords + 3>>
           S == ({"ptr"} \X FieldNames) \cup {Header0, <<"pdb">>, a, b, h}
           Tr == <<a, b>>
           Pdb == <<"pdb">>
           X == <<Header0, Pdb>> \o G \o Tr
<1>0. /\ a \in S /\ b \in S /\ h \in S /\ Header0 \in S /\ Pdb \in S
      /\ Tr \in Seq(S) /\ Len(ts) \in Nat /\ PtrWords \in Nat
  BY LenProperties, PtrWordsAssumption
<1>1. G \in Seq({"ptr"} \X FieldNames) /\ Len(G) = Len(ts) * PtrWords
  <2> HIDE DEF G
  <2> QED
    BY PtrWordSeqType DEF G
<1>2. G \in Seq(S)
  <2> HIDE DEF G
  <2> QED
    BY <1>1, SeqMonotonic
<1>3. AddPtrs(AddWord(<<Header0>>, <<"pdb">>), ts) = AddWord(<<Header0>>, <<"pdb">>) \o G
  BY DEF AddPtrs, PtrWordSeq
<1>4. AddWord(AddWord(AddWord(<<Header0>>, <<"pdb">>) \o G, a), b) = X
  <2> HIDE DEF G, S
  <2> QED
    BY <1>0, <1>2, AppendTwo
<1>5. Len(X) = Len(ts) * PtrWords + 4
  <2> HIDE DEF G
  <2> QED
    BY <1>1, <1>2, ConcatProperties
<1>6. UpdateHdr(X) = [X EXCEPT ![1] = h]
  <2> HIDE DEF G, X
  <2> QED
    BY <1>0, <1>5 DEF UpdateHdr
<1>7. [X EXCEPT ![1] = h] = <<h, Pdb>> \o G \o Tr
  <2> HIDE DEF G, S, Tr, h, Pdb
  <2> QED
    BY <1>0, <1>2, PatchHeader
<1>8. QED
  <2> HIDE DEF X
  <2> QED
    BY <1>3, <1>4, <1>6, <1>7

\* A descriptor built from the pointer fields and the two trailing words
\* the CAAM expects for o, that fits MaxDesc(o), satisfies FitsLayout.
LEMMA FitsTwo ==
  ASSUME NEW o, NEW ts \in Seq(FieldNames), NEW a, NEW b,
         HwPtrFields(o) = ts, HwTrailer(o) = <<a, b>>, b[1] = "op",
         Len(ts) * PtrWords + 4 <= MaxDesc(o)
  PROVE  FitsLayout(UpdateHdr(AddWord(AddWord(AddPtrs(AddWord(<<Header0>>, <<"pdb">>), ts), a), b)), o)
<1> DEFINE G == PtrWordSeq(ts)
           h == <<"hdr", Len(ts) * PtrWords + 4, Len(ts) * PtrWords + 3>>
           S == ({"ptr"} \X FieldNames) \cup {<<"pdb">>, a, b, h}
           D == <<h, <<"pdb">>>> \o G \o <<a, b>>
<1>1. UpdateHdr(AddWord(AddWord(AddPtrs(AddWord(<<Header0>>, <<"pdb">>), ts), a), b)) = D
  BY BuildTwo
<1>2. Len(ts) \in Nat /\ PtrWords \in Nat
  BY LenProperties, PtrWordsAssumption
<1>3. G \in Seq(S) /\ Len(G) = Len(ts) * PtrWords
  <2>1. G \in Seq({"ptr"} \X FieldNames) /\ Len(G) = Len(ts) * PtrWords
    <3> HIDE DEF G
    <3> QED
      BY PtrWordSeqType DEF G
  <2> HIDE DEF G
  <2> QED
    BY <2>1, SeqMonotonic
<1>4. Len(D) = Len(ts) * PtrWords + 4 /\ D[1] = h /\ D[Len(D)] = b
  <2>1. <<h, <<"pdb">>>> \in Seq(S) /\ <<a, b>> \in Seq(S)
    OBVIOUS
  <2> HIDE DEF G
  <2> QED
    BY <1>2, <1>3, <2>1, ConcatProperties
<1>5. D = <<D[1], <<"pdb">>>>
           \o [i \in 1..(Len(HwPtrFields(o)) * PtrWords) |->
                 <<"ptr", HwPtrFields(o)[(i - 1) \div PtrWords + 1]>>]
           \o HwTrailer(o)
  BY <1>4 DEF PtrWordSeq
<1>6. FitsLayout(D, o)
  <2> HIDE DEF D
  <2>1. Len(D) <= MaxDesc(o)
    BY <1>4
  <2>2. D[1] = <<"hdr", Len(D), Len(D) - 1>>
    BY <1>2, <1>4
  <2>3. D[Len(D)][1] = "op"
    BY <1>4
  <2> QED
    BY <2>1, <2>2, <2>3, <1>5 DEF FitsLayout
<1>7. QED
  <2> HIDE DEF D
  <2> QED
    BY <1>1, <1>6

\* The same with one trailing word, as do_gen_keypair builds it.
LEMMA BuildOne ==
  ASSUME NEW ts \in Seq(FieldNames), NEW a
  PROVE  UpdateHdr(AddWord(AddPtrs(AddWord(<<Header0>>, <<"pdb">>), ts), a))
           = <<<<"hdr", Len(ts) * PtrWords + 3, Len(ts) * PtrWords + 2>>, <<"pdb">>>>
               \o PtrWordSeq(ts) \o <<a>>
<1> DEFINE G == PtrWordSeq(ts)
           h == <<"hdr", Len(ts) * PtrWords + 3, Len(ts) * PtrWords + 2>>
           S == ({"ptr"} \X FieldNames) \cup {Header0, <<"pdb">>, a, h}
           Tr == <<a>>
           Pdb == <<"pdb">>
           X == <<Header0, Pdb>> \o G \o Tr
<1>0. /\ a \in S /\ h \in S /\ Header0 \in S /\ Pdb \in S
      /\ Tr \in Seq(S) /\ Len(ts) \in Nat /\ PtrWords \in Nat
  BY LenProperties, PtrWordsAssumption
<1>1. G \in Seq({"ptr"} \X FieldNames) /\ Len(G) = Len(ts) * PtrWords
  <2> HIDE DEF G
  <2> QED
    BY PtrWordSeqType DEF G
<1>2. G \in Seq(S)
  <2> HIDE DEF G
  <2> QED
    BY <1>1, SeqMonotonic
<1>3. AddPtrs(AddWord(<<Header0>>, <<"pdb">>), ts) = AddWord(<<Header0>>, <<"pdb">>) \o G
  BY DEF AddPtrs, PtrWordSeq
<1>4. AddWord(AddWord(<<Header0>>, <<"pdb">>) \o G, a) = X
  <2> HIDE DEF G, S
  <2> QED
    BY <1>0, <1>2, AppendOne
<1>5. Len(X) = Len(ts) * PtrWords + 3
  <2> HIDE DEF G
  <2> QED
    BY <1>1, <1>2, ConcatProperties
<1>6. UpdateHdr(X) = [X EXCEPT ![1] = h]
  <2> HIDE DEF G, X
  <2> QED
    BY <1>0, <1>5 DEF UpdateHdr
<1>7. [X EXCEPT ![1] = h] = <<h, Pdb>> \o G \o Tr
  <2> HIDE DEF G, S, Tr, h, Pdb
  <2> QED
    BY <1>0, <1>2, PatchHeader
<1>8. QED
  <2> HIDE DEF X
  <2> QED
    BY <1>3, <1>4, <1>6, <1>7

\* A descriptor built from the pointer fields and the one trailing word
\* the CAAM expects for o, that fits MaxDesc(o), satisfies FitsLayout.
LEMMA FitsOne ==
  ASSUME NEW o, NEW ts \in Seq(FieldNames), NEW a,
         HwPtrFields(o) = ts, HwTrailer(o) = <<a>>, a[1] = "op",
         Len(ts) * PtrWords + 3 <= MaxDesc(o)
  PROVE  FitsLayout(UpdateHdr(AddWord(AddPtrs(AddWord(<<Header0>>, <<"pdb">>), ts), a)), o)
<1> DEFINE G == PtrWordSeq(ts)
           h == <<"hdr", Len(ts) * PtrWords + 3, Len(ts) * PtrWords + 2>>
           S == ({"ptr"} \X FieldNames) \cup {<<"pdb">>, a, h}
           D == <<h, <<"pdb">>>> \o G \o <<a>>
<1>1. UpdateHdr(AddWord(AddPtrs(AddWord(<<Header0>>, <<"pdb">>), ts), a)) = D
  BY BuildOne
<1>2. Len(ts) \in Nat /\ PtrWords \in Nat
  BY LenProperties, PtrWordsAssumption
<1>3. G \in Seq(S) /\ Len(G) = Len(ts) * PtrWords
  <2>1. G \in Seq({"ptr"} \X FieldNames) /\ Len(G) = Len(ts) * PtrWords
    <3> HIDE DEF G
    <3> QED
      BY PtrWordSeqType DEF G
  <2> HIDE DEF G
  <2> QED
    BY <2>1, SeqMonotonic
<1>4. Len(D) = Len(ts) * PtrWords + 3 /\ D[1] = h /\ D[Len(D)] = a
  <2>1. <<h, <<"pdb">>>> \in Seq(S) /\ <<a>> \in Seq(S)
    OBVIOUS
  <2> HIDE DEF G
  <2> QED
    BY <1>2, <1>3, <2>1, ConcatProperties
<1>5. D = <<D[1], <<"pdb">>>>
           \o [i \in 1..(Len(HwPtrFields(o)) * PtrWords) |->
                 <<"ptr", HwPtrFields(o)[(i - 1) \div PtrWords + 1]>>]
           \o HwTrailer(o)
  BY <1>4 DEF PtrWordSeq
<1>6. FitsLayout(D, o)
  <2> HIDE DEF D
  <2>1. Len(D) <= MaxDesc(o)
    BY <1>4
  <2>2. D[1] = <<"hdr", Len(D), Len(D) - 1>>
    BY <1>2, <1>4
  <2>3. D[Len(D)][1] = "op"
    BY <1>4
  <2> QED
    BY <2>1, <2>2, <2>3, <1>5 DEF FitsLayout
<1>7. QED
  <2> HIDE DEF D
  <2> QED
    BY <1>1, <1>6

\* Every descriptor caam_dsa.c builds, for key generation (do_gen_keypair),
\* signature (do_sign) and verification (do_verify), fits the words
\* caam_calloc_desc allocates for it, carries a header whose length and
\* command index match its words, and lays out its pointers and trailing
\* words exactly as the CAAM's PDB for that operation reads them, on a
\* 32-bit and on a 64-bit CAAM alike.
THEOREM DescFitsLayout ==
  \A o \in {"gen", "sign", "verify"} : FitsLayout(Desc(o), o)
<1> SUFFICES ASSUME NEW o \in {"gen", "sign", "verify"}
             PROVE  FitsLayout(Desc(o), o)
  OBVIOUS
<1>0. PtrWords \in {1, 2}
  BY PtrWordsAssumption
<1>1. CASE o = "gen"
  <2>1. <<"p", "q", "g", "x", "y">> \in Seq(FieldNames)
    BY DEF FieldNames
  <2>2. Len(<<"p", "q", "g", "x", "y">>) * PtrWords + 3 <= MaxDesc("gen")
    BY <1>0 DEF MaxDesc, MaxDescKeyGen
  <2>3. FitsLayout(DescKeyGen, "gen")
    BY <2>1, <2>2, FitsOne DEF DescKeyGen, HwPtrFields, HwTrailer
  <2> QED
    BY <1>1, <2>3 DEF Desc
<1>2. CASE o = "sign"
  <2>1. <<"p", "q", "g", "x", "msg", "sigc", "sigd">> \in Seq(FieldNames)
    BY DEF FieldNames
  <2>2. Len(<<"p", "q", "g", "x", "msg", "sigc", "sigd">>) * PtrWords + 4 <= MaxDesc("sign")
    BY <1>0 DEF MaxDesc, MaxDescSign
  <2>3. FitsLayout(DescSign, "sign")
    BY <2>1, <2>2, FitsTwo DEF DescSign, HwPtrFields, HwTrailer
  <2> QED
    BY <1>2, <2>3 DEF Desc
<1>3. CASE o = "verify"
  <2>1. <<"p", "q", "g", "y", "msg", "sigc", "sigd", "tmp">> \in Seq(FieldNames)
    BY DEF FieldNames
  <2>2. Len(<<"p", "q", "g", "y", "msg", "sigc", "sigd", "tmp">>) * PtrWords + 4 <= MaxDesc("verify")
    BY <1>0 DEF MaxDesc, MaxDescVerify
  <2>3. FitsLayout(DescVerify, "verify")
    BY <2>1, <2>2, FitsTwo DEF DescVerify, HwPtrFields, HwTrailer
  <2> QED
    BY <1>3, <2>3 DEF Desc
<1> QED
  BY <1>1, <1>2, <1>3
====
