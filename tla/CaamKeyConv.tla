----------------------------- MODULE CaamKeyConv -----------------------------
(***************************************************************************)
(* How caam_dsa.c places the caller's bignums in the CAAM's key buffers:   *)
(* each field buffer is taken with caam_calloc_buf(len) and the bignum is  *)
(* written with crypto_bignum_bn2bin at data + len - num_bytes, so that a  *)
(* shorter value is right-aligned behind zero padding.  The offset is      *)
(* size_t arithmetic: a bignum longer than its buffer makes it wrap, and   *)
(* the write starts before the buffer.                                     *)
(*                                                                         *)
(* Three conversions are modelled, each as the sequence of allocations     *)
(* and writes the C code makes: do_keypriv_conv (g, p, q, x),              *)
(* do_keypub_conv (g, p, q, y), and the branch of                          *)
(* get_keypair_domain_params that converts a caller's q, g and p (the      *)
(* three allocations first, then the three writes).  The heap is a flat    *)
(* byte memory in which the buffers follow one another in allocation       *)
(* order; a byte is a small number, a bignum its big-endian byte string    *)
(* without leading zero bytes, as crypto_bignum_bn2bin writes it.          *)
(***************************************************************************)
EXTENDS Naturals, Sequences, SequencesExt

CONSTANTS
  LBytes,     \* l_bytes: the size of p, g and y
  NBytes,     \* n_bytes: the size of q and x
  Extra,      \* how many bytes longer than its buffer a caller's bignum may be
  SizeTBits   \* the width of size_t and of a pointer

ASSUME SizesAssumption == LBytes \in Nat \ {0} /\ NBytes \in Nat \ {0} /\ Extra \in Nat
ASSUME SizeTAssumption == SizeTBits \in Nat \ {0}

VARIABLES conv, key, mem, step, stray

vars == <<conv, key, mem, step, stray>>

Convs == {"priv", "pub", "params"}
Digits == 0..1
StaleByte == 2   \* what a previous user of the heap left in memory

\* The byte size of each field's buffer.
FieldLen(f) == IF f \in {"q", "x"} THEN NBytes ELSE LBytes

\* The allocations and writes of each conversion, in the code's order.
Program(c) ==
  CASE c = "priv" -> <<<<"alloc", "g">>, <<"write", "g">>, <<"alloc", "p">>, <<"write", "p">>,
                       <<"alloc", "q">>, <<"write", "q">>, <<"alloc", "x">>, <<"write", "x">>>>
    [] c = "pub" -> <<<<"alloc", "g">>, <<"write", "g">>, <<"alloc", "p">>, <<"write", "p">>,
                      <<"alloc", "q">>, <<"write", "q">>, <<"alloc", "y">>, <<"write", "y">>>>
    [] c = "params" -> <<<<"alloc", "q">>, <<"alloc", "g">>, <<"alloc", "p">>,
                         <<"write", "q">>, <<"write", "g">>, <<"write", "p">>>>

\* The fields of a conversion in allocation order.
AllocOrder(c) == LET allocs == SelectSeq(Program(c), LAMBDA s : s[1] = "alloc")
                 IN [k \in DOMAIN allocs |-> allocs[k][2]]
Fields(c) == ToSet(AllocOrder(c))

\* Where each buffer starts: after the buffers allocated before it.
Base(c, f) ==
  LET k == CHOOSE k \in DOMAIN AllocOrder(c) : AllocOrder(c)[k] = f
  IN FoldLeft(LAMBDA acc, g : acc + FieldLen(g), 0, SubSeq(AllocOrder(c), 1, k - 1))
HeapSize(c) == FoldLeft(LAMBDA acc, g : acc + FieldLen(g), 0, AllocOrder(c))
Region(c, f) == Base(c, f) .. Base(c, f) + FieldLen(f) - 1

\* The caller's bignums of field f: up to Extra bytes longer than its
\* buffer, none of them with a leading zero byte (zero has no bytes).  The
\* domain parameters are converted only when all three are non-zero
\* (otherwise get_keypair_domain_params generates them).
Bignums(c, f) ==
  UNION {{s \in [1..n -> Digits] : n > 0 => s[1] # 0} :
           n \in (IF c = "params" THEN 1 ELSE 0)..FieldLen(f) + Extra}

\* caam_calloc_buf: the buffer is zeroed.
\* Faulty variant: a caam_alloc_buf that leaves what was there.
CallocNoZero(m, r) == m

Calloc(m, r) == [a \in DOMAIN m |-> IF a \in r THEN 0 ELSE m[a]]

\* The offset data + len - num_bytes, in size_t arithmetic.
\* Faulty variant: the bignum written at data, without the padding.
PadOffsetNone(len, sz) == 0

PadOffset(len, sz) == (len - sz) % (2 ^ SizeTBits)

\* The address of byte j (from 0) that crypto_bignum_bn2bin writes for
\* field f: pointer arithmetic wraps at the width of a pointer.
WriteAddr(c, f, j) ==
  (Base(c, f) + PadOffset(FieldLen(f), Len(key[f])) + j) % (2 ^ SizeTBits)

Init ==
  /\ conv \in Convs
  /\ key \in [Fields(conv) -> UNION {Bignums(conv, f) : f \in Fields(conv)}]
  /\ \A f \in Fields(conv) : key[f] \in Bignums(conv, f)
  /\ mem = [a \in 0..HeapSize(conv) - 1 |-> StaleByte]
  /\ step = 1
  /\ stray = FALSE

\* caam_calloc_buf of the field's buffer.
Alloc ==
  /\ step <= Len(Program(conv))
  /\ Program(conv)[step][1] = "alloc"
  /\ mem' = Calloc(mem, Region(conv, Program(conv)[step][2]))
  /\ step' = step + 1
  /\ UNCHANGED <<conv, key, stray>>

\* field_size = crypto_bignum_num_bytes(); crypto_bignum_bn2bin(data +
\* len - field_size): every byte of the bignum, most significant first.
\* A byte whose address falls outside the buffer is a stray write; one
\* outside the heap is lost to the model.
Write ==
  /\ step <= Len(Program(conv))
  /\ Program(conv)[step][1] = "write"
  /\ LET f == Program(conv)[step][2]
         sz == Len(key[f])
     IN /\ mem' = [a \in DOMAIN mem |->
                    IF \E j \in 0..sz - 1 : WriteAddr(conv, f, j) = a
                    THEN key[f][1 + CHOOSE j \in 0..sz - 1 : WriteAddr(conv, f, j) = a]
                    ELSE mem[a]]
        /\ stray' = (stray \/ \E j \in 0..sz - 1 : WriteAddr(conv, f, j) \notin Region(conv, f))
  /\ step' = step + 1
  /\ UNCHANGED <<conv, key>>

Next == Alloc \/ Write

Spec == Init /\ [][Next]_vars

-----------------------------------------------------------------------------
\* The value of a big-endian byte string (the reference).
Value(s) == FoldLeft(LAMBDA acc, b : acc * 256 + b, 0, s)

\* The bytes of field f's buffer, first to last.
Bytes(f) == [k \in 1..FieldLen(f) |-> mem[Base(conv, f) + k - 1]]

\* Once the conversion is done, every byte crypto_bignum_bn2bin wrote lies
\* in the buffer it was meant for, and every buffer holds, zero-padded, the
\* value of the caller's bignum: the CAAM reads the key the caller gave.
KeyPlacedExactly ==
  step > Len(Program(conv)) =>
    /\ ~stray
    /\ \A f \in Fields(conv) : Value(Bytes(f)) = Value(key[f])
=============================================================================
