--------------------------- MODULE XmemAllocator ---------------------------
(* The allocator of the memory the JIT's code is written to and run from    *)
(* (uwin-jit/executable_memory_allocator.cpp), with boundary tags: a chunk  *)
(* obtained from the host is tiled by blocks and ends in a terminator; every *)
(* header holds the size of its own and of the previous block, 0 for "free" *)
(* and for "first".  Free blocks are linked in a list.  A mutex makes each  *)
(* operation atomic.  Sizes and offsets are counted in a unit that stands   *)
(* for 32 bytes, the header included in the size of a block.                *)
EXTENDS Integers, Sequences, FiniteSets, SequencesExt, FiniteSetsExt

CONSTANTS Chunk,        \* chunks the host can provide (model values)
          ChunkSize,    \* CHUNK_SIZE
          Overhead,     \* the chunk's header and its terminator
          MinBlock,     \* the least size of a block, and of a split's rest
          Request       \* sizes asked for, after ALIGN_SIZE

ASSUME XmemAssumption == /\ MinBlock \in Nat \ {0, 1}
                         /\ Request \subseteq {n \in Nat : n >= MinBlock}
                         /\ Overhead \in Nat /\ ChunkSize \in Nat
                         /\ ChunkSize > Overhead + MinBlock

VARIABLES mem,            \* per chunk, the headers in it; empty: not mapped
          free_blocks,    \* the list, as a sequence of <<chunk, offset>>
          allocated_size, total_size,
          pieces          \* the blocks the JIT holds, with the size it asked for

vars == <<mem, free_blocks, allocated_size, total_size, pieces>>

Free == 0                 \* header.size of a free block
First == 0                \* header.prev_size of the first block
Terminator == 1           \* header.size of the terminator

Header(size, prev_size) == [size |-> size, prev_size |-> prev_size]
FreeHeader(size, prev_size) == [size |-> Free, prev_size |-> prev_size, fsize |-> size]

Mapped(c) == mem[c] # <<>>
Size(h, o) == IF h[o].size = Free THEN h[o].fsize ELSE h[o].size
Put(h, o, v) == [x \in DOMAIN h \cup {o} |-> IF x = o THEN v ELSE h[x]]
Drop(h, o) == [x \in DOMAIN h \ {o} |-> h[x]]
Tag(h, o, n) == [h EXCEPT ![o].prev_size = n]

Unlink(list, b) == RemoveAt(list, CHOOSE i \in DOMAIN list : list[i] = b)

Init == /\ mem = [c \in Chunk |-> <<>>]
        /\ free_blocks = <<>> /\ allocated_size = 0 /\ total_size = 0
        /\ pieces = {}

-----------------------------------------------------------------------------
(* alloc                                                                    *)

FreeSize(i) == Size(mem[free_blocks[i][1]], free_blocks[i][2])

(* Mutant of Fits: the header is not counted. *)
FitsBad(i, n) == FreeSize(i) + 1 >= n

Fits(i, n) == FreeSize(i) >= n
FirstFit(n) == CHOOSE i \in DOMAIN free_blocks :
                 Fits(i, n) /\ \A j \in 1..i - 1 : ~Fits(j, n)

(* The block is cut from the end of the first free block that is large      *)
(* enough, or takes all of it when the rest would be too small.             *)
Cut(h, o, n) ==
  LET rest == Size(h, o) - n
  IN Tag(Put(Put(h, o, FreeHeader(rest, h[o].prev_size)), o + rest, Header(n, rest)),
         o + Size(h, o), n)

AllocCut(n) ==
  /\ \E i \in DOMAIN free_blocks : Fits(i, n)
  /\ LET c == free_blocks[FirstFit(n)][1]
         o == free_blocks[FirstFit(n)][2]
         rest == Size(mem[c], o) - n
     IN /\ rest > MinBlock
        /\ mem' = [mem EXCEPT ![c] = Cut(@, o, n)]
        /\ pieces' = pieces \cup {<<c, o + rest, n>>}
  /\ allocated_size' = allocated_size + n
  /\ UNCHANGED <<free_blocks, total_size>>

(* Mutant of AllocWhole: the size asked for is counted, not the block's. *)
AllocWholeBad(n) ==
  /\ \E i \in DOMAIN free_blocks : Fits(i, n)
  /\ LET c == free_blocks[FirstFit(n)][1]
         o == free_blocks[FirstFit(n)][2]
         size == Size(mem[c], o)
     IN /\ size <= n + MinBlock
        /\ free_blocks' = Unlink(free_blocks, <<c, o>>)
        /\ mem' = [mem EXCEPT ![c] = Put(@, o, Header(size, @[o].prev_size))]
        /\ allocated_size' = allocated_size + n
        /\ pieces' = pieces \cup {<<c, o, n>>}
  /\ UNCHANGED total_size

AllocWhole(n) ==
  /\ \E i \in DOMAIN free_blocks : Fits(i, n)
  /\ LET c == free_blocks[FirstFit(n)][1]
         o == free_blocks[FirstFit(n)][2]
         size == Size(mem[c], o)
     IN /\ size <= n + MinBlock
        /\ free_blocks' = Unlink(free_blocks, <<c, o>>)
        /\ mem' = [mem EXCEPT ![c] = Put(@, o, Header(size, @[o].prev_size))]
        /\ allocated_size' = allocated_size + size
        /\ pieces' = pieces \cup {<<c, o, n>>}
  /\ UNCHANGED total_size

(* No block fits: a chunk of as many multiples of CHUNK_SIZE as the request *)
(* needs, split likewise.  The host may have none, alloc then returns NULL. *)
Capacity(n) == ((Overhead + n + ChunkSize - 1) \div ChunkSize) * ChunkSize - Overhead

Terminated(h, o, prev_size) == Put(h, o, Header(Terminator, prev_size))

AllocChunk(n) ==
  /\ ~\E i \in DOMAIN free_blocks : Fits(i, n)
  /\ \E c \in {x \in Chunk : ~Mapped(x)} :
       LET cap == Capacity(n)
           rest == cap - n
       IN /\ \/ /\ rest > MinBlock
                /\ mem' = [mem EXCEPT ![c] =
                     Terminated(Put(Put(<<>>, 0, Header(n, First)), n, FreeHeader(rest, n)),
                                cap, rest)]
                /\ free_blocks' = <<<<c, n>>>> \o free_blocks
                /\ allocated_size' = allocated_size + n
             \/ /\ rest <= MinBlock
                /\ mem' = [mem EXCEPT ![c] =
                     Terminated(Put(<<>>, 0, Header(cap, First)), cap, cap)]
                /\ allocated_size' = allocated_size + cap
                /\ UNCHANGED free_blocks
          /\ total_size' = total_size + cap
          /\ pieces' = pieces \cup {<<c, 0, n>>}

-----------------------------------------------------------------------------
(* free                                                                     *)

(* Mutant of Join: the block behind keeps its predecessor's old size. *)
JoinBad(h, p, o) ==
  LET size == Size(h, p) + Size(h, o)
  IN Drop(Put(h, p, FreeHeader(size, h[p].prev_size)), o)

Before(h, o) == o - h[o].prev_size
After(h, o) == o + Size(h, o)

(* The block at o and the free block or the one just freed at p before it   *)
(* become one free block.                                                   *)
Join(h, p, o) ==
  LET size == Size(h, p) + Size(h, o)
  IN Tag(Drop(Put(h, p, FreeHeader(size, h[p].prev_size)), o), p + size, size)

(* The block at o is joined with the block before it, if that is free.  The *)
(* first block has itself before it.                                        *)
JoinPrev(h, o) ==
  IF h[Before(h, o)].size = Free
  THEN Join(h, Before(h, o), o)
  ELSE Put(h, o, FreeHeader(h[o].size, h[o].prev_size))

(* The free block at o is joined with the block after it, if that is free. *)
JoinNext(h, o) == IF h[After(h, o)].size = Free THEN Join(h, o, After(h, o)) ELSE h

(* Mutant of Spare: the released chunk is counted as spare. *)
SpareBad(size, left) == total_size > (left * 3) \div 2

(* "If this block is freed, we still have (allocated_size / 2) free space." *)
Spare(size, left) == total_size - size > (left * 3) \div 2

FreeBlock(c, o) ==
  LET h == mem[c]
      at == IF h[Before(h, o)].size = Free THEN Before(h, o) ELSE o
      prev == JoinPrev(h, o)
      heads == JoinNext(prev, at)
      linked == IF at = o THEN <<<<c, o>>>> \o free_blocks ELSE free_blocks
      joined == IF prev[After(prev, at)].size = Free
                THEN Unlink(linked, <<c, After(prev, at)>>) ELSE linked
      size == Size(heads, at)
      left == allocated_size - h[o].size
      release == /\ heads[at].prev_size = First
                 /\ heads[at + size].size = Terminator
                 /\ Spare(size, left)
  IN /\ allocated_size' = left
     /\ pieces' = {b \in pieces : <<b[1], b[2]>> # <<c, o>>}
     /\ \/ /\ release
           /\ mem' = [mem EXCEPT ![c] = <<>>]
           /\ free_blocks' = Unlink(joined, <<c, at>>)
           /\ total_size' = total_size - size
        \/ /\ ~release
           /\ mem' = [mem EXCEPT ![c] = heads]
           /\ free_blocks' = joined
           /\ UNCHANGED total_size

Alloc == \E n \in Request : AllocCut(n) \/ AllocWhole(n) \/ AllocChunk(n)
FreeAny == \E b \in pieces : FreeBlock(b[1], b[2])

Next == Alloc \/ FreeAny
Spec == Init /\ [][Next]_vars

-----------------------------------------------------------------------------

MappedChunks == {c \in Chunk : Mapped(c)}
Cap(c) == CHOOSE o \in DOMAIN mem[c] : mem[c][o].size = Terminator
Blocks(c) == {o \in DOMAIN mem[c] : mem[c][o].size # Terminator}
IsFree(c, o) == mem[c][o].size = Free
FreeOnes == {b \in UNION {{c} \X DOMAIN mem[c] : c \in Chunk} : IsFree(b[1], b[2])}

TypeOK ==
  /\ \A c \in Chunk : \A o \in DOMAIN mem[c] :
       /\ o \in Nat /\ mem[c][o].prev_size \in Nat
       /\ mem[c][o].size \in {Free, Terminator} \cup {n \in Nat : n >= MinBlock}
       /\ mem[c][o].size = Terminator \/ Size(mem[c], o) >= MinBlock
  /\ free_blocks \in Seq(Chunk \X Nat)
  /\ allocated_size \in Nat /\ total_size \in Nat
  /\ pieces \subseteq Chunk \X Nat \X Request

(* The blocks tile each chunk up to its one terminator, and the size a      *)
(* header holds of its predecessor is that block's size.                    *)
Tiling ==
  \A c \in MappedChunks :
    /\ 0 \in DOMAIN mem[c] /\ mem[c][0].prev_size = First
    /\ Cardinality({o \in DOMAIN mem[c] : mem[c][o].size = Terminator}) = 1
    /\ \A o \in Blocks(c) :
         LET next == After(mem[c], o)
         IN /\ next \in DOMAIN mem[c] /\ mem[c][next].prev_size = Size(mem[c], o)
            /\ \A x \in DOMAIN mem[c] : ~(o < x /\ x < next)

(* The list holds exactly the free blocks, each once, and two blocks that   *)
(* touch are never both free: free joins them.                              *)
FreeListExact ==
  /\ ToSet(free_blocks) = FreeOnes
  /\ Len(free_blocks) = Cardinality(FreeOnes)
  /\ \A c \in Chunk : \A o \in Blocks(c) :
       IsFree(c, o) => mem[c][After(mem[c], o)].size # Free

(* Cutting, joining and releasing keep both directions of the chain and the *)
(* list in step.                                                            *)
ChunksTiled == Tiling /\ FreeListExact

(* The two counters the release of a chunk is decided by agree with the     *)
(* chunks and with the blocks in use.                                       *)
CountersExact ==
  /\ total_size = MapThenSumSet(Cap, MappedChunks)
  /\ allocated_size = MapThenSumSet(LAMBDA b : Size(mem[b[1]], b[2]), pieces)

(* The counters are exact (with the types). *)
BookkeepingExact == TypeOK /\ CountersExact

(* A chunk is given back to the host only while none of its blocks is in    *)
(* use, and what stays leaves half as much free as is in use.               *)
ReleaseKeepsSpare ==
  [][\A c \in Chunk : Mapped(c) /\ mem'[c] = <<>> =>
       /\ \A b \in pieces' : b[1] # c
       /\ 2 * (total_size' - allocated_size') >= allocated_size']_vars

(* The allocator keeps the promise of Heap. *)
Abstract == INSTANCE Heap WITH
  Place <- Chunk,
  live <- {<<b[1], b[2], mem[b[1]][b[2]].size, b[3]>> : b \in pieces}
ImplementsHeap == Abstract!Spec
=============================================================================
