---------------------------- MODULE DcpLeftShift ----------------------------
(***************************************************************************)
(* left_shift_buffer (core/drivers/dcp/imx_dcp_utils.c): shift a           *)
(* big-endian byte string left by one bit into a result buffer, one byte   *)
(* per loop iteration from the last byte to the first, carrying each       *)
(* byte's top bit into the byte before it.  The loop is a state machine:   *)
(* i and msb are the C variables, input and result the two buffers of     *)
(* buffer_size bytes (indexed from 1 here, byte buffer_size - 1 - i of the *)
(* C array is byte n - i).  InPlace models a call with input == result:   *)
(* input then stays the caller's original bytes (a ghost), and a read of   *)
(* the C input array is a read of result.                                  *)
(***************************************************************************)
EXTENDS Naturals, Sequences, SequencesExt

CONSTANTS
  MaxSize,   \* the largest buffer_size the run enumerates
  UIntBits,  \* the width of the loop counter i, an unsigned int
  InPlace    \* whether the call passes the same buffer as input and result

ASSUME MaxSizeAssumption == MaxSize \in Nat
ASSUME UIntBitsAssumption == UIntBits \in Nat \ {0}
ASSUME InPlaceAssumption == InPlace \in BOOLEAN

VARIABLES input, result, n, i, msb, pc

vars == <<input, result, n, i, msb, pc>>

Bytes == 0..255

\* Faulty variants of the byte step: the "& 0xFF" dropped, and the carry
\* of the previous byte's top bit dropped.
ShiftByteNoCarry(b, m) == (b * 2) % 256

\* (input << 1) & 0xFF, then "|= msb": the shifted byte is even, so the
\* OR of the carry bit is an addition.
ShiftByte(b, m) == ((b * 2) % 256) + m

\* (input & BIT(7)) >> 7
MsbOf(b) == b \div 128

\* What the C code reads as input[j] once result[j] was written: the new
\* byte when the two buffers are one.  Byte j is written once and only
\* after its own shift was computed, so until then input[j] reads the
\* original byte either way.
InputAfterWrite(j) == IF InPlace THEN result'[j] ELSE input[j]

\* Faulty variant: an iteration that does not advance i.
Init ==
  /\ n \in 0..MaxSize
  /\ input \in [1..n -> Bytes]
  /\ result \in IF InPlace THEN {input} ELSE [1..n -> {0, 255}]
  /\ i = 0
  /\ msb = 0
  /\ pc = "loop"

\* One iteration of the for loop, on byte buffer_size - 1 - i; i++ wraps
\* at the width of an unsigned int.
Iterate ==
  /\ pc = "loop"
  /\ i < n
  /\ LET j == n - i IN
       /\ result' = [result EXCEPT ![j] = ShiftByte(input[j], msb)]
       /\ msb' = MsbOf(InputAfterWrite(j))
  /\ i' = (i + 1) % (2 ^ UIntBits)
  /\ UNCHANGED <<input, n, pc>>

\* The loop condition fails: the function returns.
Exit ==
  /\ pc = "loop"
  /\ i >= n
  /\ pc' = "done"
  /\ UNCHANGED <<input, result, n, i, msb>>

Next == Iterate \/ Exit

Spec == Init /\ [][Next]_vars

-----------------------------------------------------------------------------
\* The value of a big-endian byte string (the reference).
Value(s) == FoldLeft(LAMBDA acc, b : acc * 256 + b, 0, s)

\* When left_shift_buffer returns, result holds input shifted left by one
\* bit with the top bit dropped: its value is twice input's, modulo
\* 256^buffer_size.
ShiftDoubles ==
  pc = "done" => Value(result) = (2 * Value(input)) % (256 ^ n)

=============================================================================
