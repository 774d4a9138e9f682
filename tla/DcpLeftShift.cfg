\* Every buffer of up to two bytes, every byte value.
CONSTANTS
  MaxSize = 2
  UIntBits = 8
  InPlace = FALSE
SPECIFICATION Spec
INVARIANTS
  ShiftDoubles
\* The function returns: a behaviour ends once pc = "done".
CHECK_DEADLOCK FALSE
