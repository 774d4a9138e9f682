\* A request of SIZE_MAX - MEM_HDR_SIZE bytes: ROUNDUP wraps to zero.
CONSTANTS
  Width = 7
  HdrSize = 8
  DminLine = 2
  MallocAlign = 8
  h1 = h1
  h2 = h2
  NullBuf = NullBuf
  Handles <- MCHandles
  Sizes <- MCEdgeSizes
SYMMETRY HandleSymmetry
SPECIFICATION Spec
INVARIANTS
  AlignedBufferOwnsItsLines
