\* Delays of 0, 1 and 3 microseconds; a 16-bit counter keeps the state
\* space small, and none of these products reaches 2^16.
CONSTANTS
  Times = {0, 1, 3}
  UIntBits = 16
SPECIFICATION Spec
INVARIANTS
  DelayMatches
\* The function returns: a behaviour ends once pc = "done".
CHECK_DEADLOCK FALSE
