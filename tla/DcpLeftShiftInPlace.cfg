\* left_shift_buffer called with the same buffer as input and result.
CONSTANTS
  MaxSize = 2
  UIntBits = 8
  InPlace = TRUE
SPECIFICATION Spec
INVARIANTS
  ShiftDoubles
\* The function returns: a behaviour ends once pc = "done".
CHECK_DEADLOCK FALSE
