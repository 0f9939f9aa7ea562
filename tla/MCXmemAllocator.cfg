SPECIFICATION Spec
CONSTANTS
  c1 = c1
  c2 = c2
  Chunk <- MCChunk
  Request <- MCRequest
  ChunkSize = 6
  Overhead = 1
  MinBlock = 2
SYMMETRY Symmetry
INVARIANTS
  ChunksTiled
  BookkeepingExact
PROPERTIES
  ReleaseKeepsSpare
  ImplementsHeap
CHECK_DEADLOCK FALSE
