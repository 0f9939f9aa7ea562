-------------------------- MODULE MCXmemAllocator --------------------------
EXTENDS XmemAllocator
CONSTANTS c1, c2
MCChunk == {c1, c2}
MCRequest == {2, 6}
Symmetry == Permutations(MCChunk)
=============================================================================
