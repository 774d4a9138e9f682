\* Buffers of two and one bytes; every caller's bignum fits its buffer.
\* A 16-bit size_t: TLC computes with 32-bit signed integers, and the
\* offset wraps the same way at every width wider than the heap.
CONSTANTS
  LBytes = 2
  NBytes = 1
  Extra = 0
  SizeTBits = 16
SPECIFICATION Spec
INVARIANTS
  KeyPlacedExactly
\* A conversion ends when its last write is done.
CHECK_DEADLOCK FALSE
