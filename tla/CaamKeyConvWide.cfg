\* As CaamKeyConv.cfg, but a caller's bignum may be one byte longer than its buffer.
CONSTANTS
  LBytes = 2
  NBytes = 1
  Extra = 1
  SizeTBits = 16
SPECIFICATION Spec
INVARIANTS
  KeyPlacedExactly
\* A conversion ends when its last write is done.
CHECK_DEADLOCK FALSE
