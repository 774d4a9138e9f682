\* Two callers on a 128-byte address space, sizes clear of the ROUNDUP wrap.
CONSTANTS
  Width = 7
  HdrSize = 8
  DminLine = 2
  MallocAlign = 8
  h1 = h1
  h2 = h2
  NullBuf = NullBuf
  Handles <- MCHandles
  Sizes <- MCSizes
SYMMETRY HandleSymmetry
SPECIFICATION Spec
INVARIANTS
  AlignedBufferOwnsItsLines
PROPERTIES
  FreeReturnsOwnBlock
