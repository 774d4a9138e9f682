\* A delay of 132 microseconds with a 16-bit counter: 132 * 500 = 66000
\* wraps to 464, as time * 500 wraps a uint32_t from time = 8589935 on.
CONSTANTS
  Times = {132}
  UIntBits = 16
SPECIFICATION Spec
INVARIANTS
  DelayMatches
\* The function returns: a behaviour ends once pc = "done".
CHECK_DEADLOCK FALSE
