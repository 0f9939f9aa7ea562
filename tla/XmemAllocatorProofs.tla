------------------------ MODULE XmemAllocatorProofs ------------------------
(***************************************************************************)
(* Proofs about XmemAllocator for any chunks, sizes and requests: the      *)
(* blocks tile the chunks, the list holds the free ones, a chunk is given  *)
(* back only when nothing in it is in use, the allocator is a heap, and    *)
(* its two counters are the sums of the chunks and of the blocks in use.   *)
(***************************************************************************)
EXTENDS XmemAllocator, FiniteSetTheorems, WellFoundedInduction, TLAPS

-----------------------------------------------------------------------------
(* Headers.                                                                *)

HeaderRec == [size : Nat \ {Free}, prev_size : Nat]
               \cup [size : {Free}, prev_size : Nat, fsize : Nat]

\* A map of headers.
Heads(h) == /\ h = [o \in DOMAIN h |-> h[o]]
            /\ DOMAIN h \subseteq Nat
            /\ \A o \in DOMAIN h : h[o] \in HeaderRec

Kind(h, o) == h[o].size
Prev(h, o) == h[o].prev_size

\* What the parts of a header are.
LEMMA HeaderParts ==
  ASSUME NEW h, Heads(h), NEW o \in DOMAIN h
  PROVE  /\ o \in Nat /\ Kind(h, o) \in Nat /\ Prev(h, o) \in Nat /\ Size(h, o) \in Nat
         /\ Kind(h, o) # Free => Size(h, o) = Kind(h, o)
<1>1. h[o] \in HeaderRec /\ o \in Nat
  BY DEF Heads
<1> QED BY <1>1 DEF HeaderRec, Kind, Prev, Size, Free

\* g is h with a header of that kind, size and previous size at o.
Written(h, g, o, k, n, p) ==
  /\ Heads(g) /\ DOMAIN g = DOMAIN h \cup {o}
  /\ Kind(g, o) = k /\ Size(g, o) = n /\ Prev(g, o) = p
  /\ \A x \in DOMAIN h \ {o} :
       Kind(g, x) = Kind(h, x) /\ Size(g, x) = Size(h, x) /\ Prev(g, x) = Prev(h, x)

\* g is h with another previous size at o.
Tagged(h, g, o, n) ==
  /\ Heads(g) /\ DOMAIN g = DOMAIN h /\ Prev(g, o) = n
  /\ \A x \in DOMAIN h : /\ Kind(g, x) = Kind(h, x) /\ Size(g, x) = Size(h, x)
                         /\ x # o => Prev(g, x) = Prev(h, x)

\* g is h without the header at o.
Dropped(h, g, o) ==
  /\ Heads(g) /\ DOMAIN g = DOMAIN h \ {o}
  /\ \A x \in DOMAIN h \ {o} :
       Kind(g, x) = Kind(h, x) /\ Size(g, x) = Size(h, x) /\ Prev(g, x) = Prev(h, x)

\* Writing a used header.
LEMMA PutUsed ==
  ASSUME NEW h, Heads(h), NEW o \in Nat, NEW n \in Nat \ {0}, NEW p \in Nat
  PROVE  Written(h, Put(h, o, Header(n, p)), o, n, n, p)
<1> DEFINE g == Put(h, o, Header(n, p))
<1>1. DOMAIN g = DOMAIN h \cup {o} /\ g = [x \in DOMAIN g |-> g[x]]
  BY DEF Put
<1>2. g[o] = Header(n, p) /\ \A x \in DOMAIN h \ {o} : g[x] = h[x]
  BY DEF Put
<1>3. Header(n, p) \in HeaderRec /\ Header(n, p).size = n /\ Header(n, p).prev_size = p
  BY DEF Header, HeaderRec, Free
<1> HIDE DEF g
<1>4. Heads(g)
  BY <1>1, <1>2, <1>3 DEF Heads
<1> QED BY <1>1, <1>2, <1>3, <1>4 DEF Kind, Size, Prev, Free, Written, g

\* Writing a free header.
LEMMA PutFree ==
  ASSUME NEW h, Heads(h), NEW o \in Nat, NEW n \in Nat, NEW p \in Nat
  PROVE  Written(h, Put(h, o, FreeHeader(n, p)), o, Free, n, p)
<1> DEFINE g == Put(h, o, FreeHeader(n, p))
<1>1. DOMAIN g = DOMAIN h \cup {o} /\ g = [x \in DOMAIN g |-> g[x]]
  BY DEF Put
<1>2. g[o] = FreeHeader(n, p) /\ \A x \in DOMAIN h \ {o} : g[x] = h[x]
  BY DEF Put
<1>3. /\ FreeHeader(n, p) \in HeaderRec /\ FreeHeader(n, p).size = Free
      /\ FreeHeader(n, p).prev_size = p /\ FreeHeader(n, p).fsize = n
  BY DEF FreeHeader, HeaderRec, Free
<1> HIDE DEF g
<1>4. Heads(g)
  BY <1>1, <1>2, <1>3 DEF Heads
<1> QED BY <1>1, <1>2, <1>3, <1>4 DEF Kind, Size, Prev, Written, g

\* Writing the size of the previous block.
LEMMA TagTags ==
  ASSUME NEW h, Heads(h), NEW o \in DOMAIN h, NEW n \in Nat
  PROVE  Tagged(h, Tag(h, o, n), o, n)
<1> DEFINE g == Tag(h, o, n)
           r == [h[o] EXCEPT !.prev_size = n]
<1>1. DOMAIN g = DOMAIN h /\ g = [x \in DOMAIN g |-> g[x]]
  BY DEF Tag
<1>2. g[o] = r /\ \A x \in DOMAIN h \ {o} : g[x] = h[x]
  BY DEF Tag
<1>3. h[o] \in HeaderRec
  BY DEF Heads
<1>4. /\ r \in HeaderRec /\ r.size = h[o].size /\ r.prev_size = n
      /\ h[o].size = Free => r.fsize = h[o].fsize
  BY <1>3 DEF HeaderRec
<1> HIDE DEF g, r
<1>5. Heads(g)
  BY <1>1, <1>2, <1>4 DEF Heads
<1> QED BY <1>1, <1>2, <1>4, <1>5 DEF Kind, Size, Prev, Tagged, g

\* Forgetting a header.
LEMMA DropDrops ==
  ASSUME NEW h, Heads(h), NEW o
  PROVE  Dropped(h, Drop(h, o), o)
BY DEF Dropped, Drop, Heads, Kind, Size, Prev

-----------------------------------------------------------------------------
(* The layout of a chunk.                                                  *)

\* The blocks tile the chunk up to the terminator, in both directions.
Onward(h) ==
  \A o \in DOMAIN h : Kind(h, o) # Terminator =>
    /\ Size(h, o) >= MinBlock
    /\ o + Size(h, o) \in DOMAIN h /\ Prev(h, o + Size(h, o)) = Size(h, o)
    /\ \A x \in DOMAIN h : x <= o \/ x >= o + Size(h, o)
Backward(h) ==
  \A o \in DOMAIN h \ {0} :
    /\ Prev(h, o) >= MinBlock /\ o - Prev(h, o) \in DOMAIN h
    /\ Kind(h, o - Prev(h, o)) # Terminator /\ Size(h, o - Prev(h, o)) = Prev(h, o)
Ended(h) ==
  \E t \in DOMAIN h : /\ Kind(h, t) = Terminator
                     /\ \A x \in DOMAIN h : x <= t /\ (Kind(h, x) = Terminator => x = t)
Started(h) == 0 \in DOMAIN h /\ Prev(h, 0) = 0

Layout(h) == Heads(h) /\ Started(h) /\ Onward(h) /\ Backward(h) /\ Ended(h)

FreeOf(h) == {o \in DOMAIN h : Kind(h, o) = Free}
UsedOf(h) == {o \in DOMAIN h : Kind(h, o) # Free /\ Kind(h, o) # Terminator}
Ends(h) == {o \in DOMAIN h : Kind(h, o) = Terminator}

\* No two free blocks touch, but for those that begin in E.
Apart(h, E) ==
  \A o \in FreeOf(h) \ E : Kind(h, o + Size(h, o)) # Free

\* What the assumption says of the numbers.
LEMMA Numbers == /\ MinBlock \in Nat /\ MinBlock >= 2 /\ Free = 0 /\ Terminator = 1 /\ First = 0
                 /\ \A n \in Request : n \in Nat /\ n >= MinBlock
BY XmemAssumption, SMT DEF Free, Terminator, First

\* A block and the one behind it become one free block: g is h so joined.
Joined(h, g, p, o) ==
  /\ Heads(g) /\ DOMAIN g = DOMAIN h \ {o}
  /\ Kind(g, p) = Free /\ Size(g, p) = Size(h, p) + Size(h, o) /\ Prev(g, p) = Prev(h, p)
  /\ Prev(g, o + Size(h, o)) = Size(h, p) + Size(h, o)
  /\ \A x \in DOMAIN h \ {o, p} :
       /\ Kind(g, x) = Kind(h, x) /\ Size(g, x) = Size(h, x)
       /\ x # o + Size(h, o) => Prev(g, x) = Prev(h, x)

\* Two blocks that follow each other.
Follow(h, p, o) == /\ p \in DOMAIN h /\ o \in DOMAIN h
                   /\ Kind(h, p) # Terminator /\ Kind(h, o) # Terminator
                   /\ o = p + Size(h, p)

\* Join joins them.
LEMMA JoinShape ==
  ASSUME NEW h, Layout(h), NEW p, NEW o, Follow(h, p, o)
  PROVE  Joined(h, Join(h, p, o), p, o)
<1> DEFINE n == Size(h, p) + Size(h, o)
           e == o + Size(h, o)
           a == Put(h, p, FreeHeader(n, h[p].prev_size))
           b == Drop(a, o)
<1>1. /\ Heads(h) /\ p \in Nat /\ o \in Nat /\ Size(h, p) \in Nat /\ Size(h, o) \in Nat
      /\ Prev(h, p) \in Nat /\ p \in DOMAIN h /\ o \in DOMAIN h
  BY HeaderParts DEF Layout, Follow
<1>2. Size(h, p) >= 2 /\ Size(h, o) >= 2 /\ e \in DOMAIN h
  BY Numbers, <1>1 DEF Layout, Onward, Follow
<1>3. e # o /\ e # p /\ o # p /\ e = p + n /\ n \in Nat
  BY <1>1, <1>2 DEF Follow
<1>4. Written(h, a, p, Free, n, Prev(h, p))
  BY <1>1, <1>3, PutFree DEF Prev
<1>5. Dropped(a, b, o)
  BY <1>4, DropDrops DEF Written
<1> DEFINE g == Tag(b, e, n)
<1>6. e \in DOMAIN b
  BY <1>1, <1>2, <1>3, <1>4, <1>5 DEF Dropped, Written
<1>7. Tagged(b, g, e, n)
  BY <1>3, <1>5, <1>6, TagTags DEF Dropped
<1>8. g = Join(h, p, o)
  BY <1>3 DEF Join, a, b
<1> HIDE DEF g, a, b, n
<1>9. Joined(h, g, p, o)
  BY <1>1, <1>2, <1>3, <1>4, <1>5, <1>7 DEF Joined, Written, Dropped, Tagged, n
<1> QED BY <1>8, <1>9

\* Joining keeps the tiling.
LEMMA JoinedLayout ==
  ASSUME NEW h, Layout(h), NEW p, NEW o, Follow(h, p, o), NEW g, Joined(h, g, p, o)
  PROVE  Layout(g)
<1> DEFINE e == o + Size(h, o)
<1>1. /\ \A x \in DOMAIN h : x \in Nat /\ Size(h, x) \in Nat /\ Prev(h, x) \in Nat
      /\ p \in DOMAIN h /\ o \in DOMAIN h
  BY HeaderParts DEF Layout, Follow
<1>2. /\ Size(h, p) >= 2 /\ Size(h, o) >= 2 /\ o = p + Size(h, p) /\ e \in DOMAIN h
      /\ Prev(h, o) = Size(h, p) /\ Prev(h, e) = Size(h, o)
      /\ e # o /\ e # p /\ o # p /\ o # 0 /\ e # 0
  BY Numbers, <1>1 DEF Layout, Onward, Follow
<1>3. /\ \A x \in DOMAIN h : x <= p \/ x >= o
      /\ \A x \in DOMAIN h : x <= o \/ x >= e
  BY <1>1, <1>2 DEF Layout, Onward, Follow
<1>4. Heads(g)
  BY DEF Joined
<1>5. Started(g)
  BY <1>1, <1>2 DEF Layout, Started, Joined
<1>6. Onward(g)
  <2> SUFFICES ASSUME NEW x \in DOMAIN g, Kind(g, x) # Terminator
               PROVE  /\ Size(g, x) >= MinBlock
                      /\ x + Size(g, x) \in DOMAIN g /\ Prev(g, x + Size(g, x)) = Size(g, x)
                      /\ \A y \in DOMAIN g : y <= x \/ y >= x + Size(g, x)
    BY DEF Onward
  <2>1. x \in DOMAIN h /\ x # o /\ DOMAIN g = DOMAIN h \ {o}
    BY DEF Joined
  <2>2. CASE x = p
    <3>1. Size(g, x) = Size(h, p) + Size(h, o) /\ x + Size(g, x) = e /\ Prev(g, e) = Size(g, x)
      BY <2>2, <1>1, <1>2 DEF Joined
    <3>2. Size(h, p) >= MinBlock
      BY <1>1 DEF Layout, Onward, Follow
    <3> QED BY <2>1, <2>2, <3>1, <3>2, <1>1, <1>2, <1>3, Numbers
  <2>3. CASE x # p
    <3>1. Kind(g, x) = Kind(h, x) /\ Size(g, x) = Size(h, x)
      BY <2>1, <2>3 DEF Joined
    <3>2. /\ Size(h, x) >= MinBlock
          /\ x + Size(h, x) \in DOMAIN h /\ Prev(h, x + Size(h, x)) = Size(h, x)
          /\ \A y \in DOMAIN h : y <= x \/ y >= x + Size(h, x)
      BY <2>1, <3>1 DEF Layout, Onward
    <3>3. x + Size(h, x) # o /\ x + Size(h, x) # e
      BY <2>1, <2>3, <3>2, <1>1, <1>2
    <3>4. Prev(g, x + Size(h, x)) = Prev(h, x + Size(h, x))
      BY <3>2, <3>3 DEF Joined
    <3> QED BY <2>1, <3>1, <3>2, <3>3, <3>4
  <2> QED BY <2>2, <2>3
<1>7. Backward(g)
  <2> SUFFICES ASSUME NEW x \in DOMAIN g \ {0}
               PROVE  /\ Prev(g, x) >= MinBlock /\ x - Prev(g, x) \in DOMAIN g
                      /\ Kind(g, x - Prev(g, x)) # Terminator
                      /\ Size(g, x - Prev(g, x)) = Prev(g, x)
    BY DEF Backward
  <2>1. x \in DOMAIN h \ {0} /\ x # o /\ DOMAIN g = DOMAIN h \ {o}
    BY DEF Joined
  <2>2. CASE x = e
    <3>1. Prev(g, x) = Size(h, p) + Size(h, o) /\ x - Prev(g, x) = p
      BY <2>2, <1>1, <1>2 DEF Joined
    <3>2. Size(h, p) >= MinBlock
      BY <1>1 DEF Layout, Onward, Follow
    <3>3. Kind(g, p) = Free /\ Size(g, p) = Prev(g, x)
      BY <3>1 DEF Joined
    <3> QED BY <2>1, <2>2, <3>1, <3>2, <3>3, <1>1, <1>2, Numbers
  <2>3. CASE x # e
    <3>1. Prev(g, x) = Prev(h, x)
      BY <2>1, <2>3 DEF Joined
    <3>2. /\ Prev(h, x) >= MinBlock /\ x - Prev(h, x) \in DOMAIN h
          /\ Kind(h, x - Prev(h, x)) # Terminator
          /\ Size(h, x - Prev(h, x)) = Prev(h, x)
      BY <2>1 DEF Layout, Backward
    <3>3. x - Prev(h, x) # o /\ x - Prev(h, x) # p
      BY <2>1, <2>3, <3>2, <1>1, <1>2
    <3>4. /\ Kind(g, x - Prev(h, x)) = Kind(h, x - Prev(h, x))
          /\ Size(g, x - Prev(h, x)) = Size(h, x - Prev(h, x))
      BY <3>2, <3>3 DEF Joined
    <3> QED BY <2>1, <3>1, <3>2, <3>3, <3>4
  <2> QED BY <2>2, <2>3
<1>8. Ended(g)
  <2>1. PICK t \in DOMAIN h : /\ Kind(h, t) = Terminator
                              /\ \A x \in DOMAIN h : x <= t /\ (Kind(h, x) = Terminator => x = t)
    BY DEF Layout, Ended
  <2>2. t # o /\ t # p /\ Free # Terminator
    BY <2>1, Numbers DEF Follow
  <2> QED BY <2>1, <2>2 DEF Ended, Joined
<1> QED BY <1>4, <1>5, <1>6, <1>7, <1>8 DEF Layout

\* Filling or emptying a block in place keeps the tiling.
LEMMA RefillLayout ==
  ASSUME NEW h, Layout(h), NEW o \in DOMAIN h, NEW k, NEW g,
         Kind(h, o) # Terminator, k # Terminator, Written(h, g, o, k, Size(h, o), Prev(h, o))
  PROVE  Layout(g)
<1>1. /\ DOMAIN g = DOMAIN h /\ Heads(g)
      /\ \A x \in DOMAIN h : Size(g, x) = Size(h, x) /\ Prev(g, x) = Prev(h, x)
      /\ \A x \in DOMAIN h : Kind(g, x) # Terminator <=> Kind(h, x) # Terminator
      /\ \A x \in DOMAIN h : Kind(g, x) = Terminator <=> Kind(h, x) = Terminator
  BY DEF Written
<1>2. Started(g)
  BY <1>1 DEF Started, Layout
<1>3. Onward(g)
  BY <1>1 DEF Onward, Layout
<1>4. Backward(g)
  BY <1>1 DEF Backward, Layout
<1>5. Ended(g)
  BY <1>1 DEF Ended, Layout
<1> QED BY <1>1, <1>2, <1>3, <1>4, <1>5 DEF Layout

\* g is h with the last n of the free block at o cut off.
WasCut(h, g, o, n) ==
  LET rest == Size(h, o) - n
  IN /\ Heads(g) /\ DOMAIN g = DOMAIN h \cup {o + rest}
     /\ Kind(g, o) = Free /\ Size(g, o) = rest /\ Prev(g, o) = Prev(h, o)
     /\ Kind(g, o + rest) = n /\ Size(g, o + rest) = n /\ Prev(g, o + rest) = rest
     /\ Prev(g, o + Size(h, o)) = n
     /\ \A x \in DOMAIN h \ {o} :
          /\ Kind(g, x) = Kind(h, x) /\ Size(g, x) = Size(h, x)
          /\ x # o + Size(h, o) => Prev(g, x) = Prev(h, x)

\* A free block that can be cut.
CanCut(h, o, n) == /\ o \in FreeOf(h) /\ n \in Nat /\ n >= MinBlock
                   /\ Size(h, o) - n >= MinBlock

\* Where the cut goes, no block begins.
LEMMA CutPlace ==
  ASSUME NEW h, Layout(h), NEW o, NEW n, CanCut(h, o, n)
  PROVE  /\ o \in Nat /\ Size(h, o) \in Nat /\ Prev(h, o) \in Nat
         /\ Size(h, o) - n \in Nat /\ Size(h, o) - n >= 2 /\ n >= 2
         /\ o + (Size(h, o) - n) \notin DOMAIN h
         /\ o + Size(h, o) \in DOMAIN h /\ o + Size(h, o) # o
         /\ o + Size(h, o) # o + (Size(h, o) - n)
         /\ o + (Size(h, o) - n) \in Nat /\ o + (Size(h, o) - n) # o
<1>1. /\ o \in DOMAIN h /\ Kind(h, o) # Terminator
      /\ o \in Nat /\ Size(h, o) \in Nat /\ Prev(h, o) \in Nat
  BY HeaderParts, Numbers DEF Layout, CanCut, FreeOf
<1>2. /\ o + Size(h, o) \in DOMAIN h
      /\ \A x \in DOMAIN h : x <= o \/ x >= o + Size(h, o)
  BY <1>1 DEF Layout, Onward
<1>3. n \in Nat /\ n >= MinBlock /\ Size(h, o) - n >= MinBlock /\ MinBlock \in Nat /\ MinBlock >= 2
  BY Numbers DEF CanCut
<1> QED BY <1>1, <1>2, <1>3

\* Cut cuts.
LEMMA CutShape ==
  ASSUME NEW h, Layout(h), NEW o, NEW n, CanCut(h, o, n)
  PROVE  WasCut(h, Cut(h, o, n), o, n)
<1> DEFINE rest == Size(h, o) - n
           m == o + rest
           e == o + Size(h, o)
           a == Put(h, o, FreeHeader(rest, h[o].prev_size))
           b == Put(a, m, Header(n, rest))
           g == Tag(b, e, n)
<1>1. /\ o \in DOMAIN h /\ o \in Nat /\ Size(h, o) \in Nat /\ Prev(h, o) \in Nat /\ Heads(h)
      /\ rest \in Nat /\ rest >= 2 /\ n >= 2 /\ m \notin DOMAIN h /\ e \in DOMAIN h
      /\ e # o /\ e # m /\ m # o /\ m \in Nat /\ n \in Nat
  BY CutPlace DEF Layout, CanCut, FreeOf
<1>2. Cut(h, o, n) = g
  BY DEF Cut
<1>3. Written(h, a, o, Free, rest, Prev(h, o))
  BY <1>1, PutFree DEF Prev
<1> HIDE DEF rest, m, e, a
<1>a. Heads(a)
  BY <1>3 DEF Written
<1>4. Written(a, b, m, n, n, rest)
  BY <1>1, <1>a, PutUsed
<1>5. Tagged(b, g, e, n)
  BY <1>1, <1>3, <1>4, TagTags DEF Written
<1> HIDE DEF g, a, b
<1>6. WasCut(h, g, o, n) 
  <2>1. /\ Heads(g) /\ DOMAIN g = DOMAIN h \cup {m}
        /\ Kind(g, o) = Free /\ Size(g, o) = rest /\ Prev(g, o) = Prev(h, o)
        /\ Kind(g, m) = n /\ Size(g, m) = n /\ Prev(g, m) = rest
        /\ Prev(g, e) = n
        /\ \A x \in DOMAIN h \ {o} :
             /\ Kind(g, x) = Kind(h, x) /\ Size(g, x) = Size(h, x)
             /\ x # e => Prev(g, x) = Prev(h, x)
    BY <1>1, <1>3, <1>4, <1>5 DEF Written, Tagged
  <2> QED BY <2>1 DEF WasCut, rest, m, e
<1> QED BY <1>2, <1>6

\* Cutting keeps the tiling.
LEMMA CutLayout ==
  ASSUME NEW h, Layout(h), NEW o, NEW n, CanCut(h, o, n), NEW g, WasCut(h, g, o, n)
  PROVE  Layout(g)
<1> DEFINE rest == Size(h, o) - n
           m == o + rest
           e == o + Size(h, o)
<1>1. /\ o \in DOMAIN h /\ o \in Nat /\ Size(h, o) \in Nat /\ Prev(h, o) \in Nat
      /\ rest \in Nat /\ rest >= MinBlock /\ n >= MinBlock /\ m \notin DOMAIN h /\ e \in DOMAIN h
      /\ e # o /\ e # m /\ m # o /\ m \in Nat /\ n \in Nat /\ e # 0 /\ m # 0
      /\ m = o + rest /\ e = m + n /\ e - n = m /\ m - rest = o
  BY CutPlace DEF Layout, CanCut, FreeOf
<1>2. /\ Heads(g) /\ DOMAIN g = DOMAIN h \cup {m}
      /\ Kind(g, o) = Free /\ Size(g, o) = rest /\ Prev(g, o) = Prev(h, o)
      /\ Kind(g, m) = n /\ Size(g, m) = n /\ Prev(g, m) = rest
      /\ Prev(g, e) = n
      /\ \A x \in DOMAIN h \ {o} :
           /\ Kind(g, x) = Kind(h, x) /\ Size(g, x) = Size(h, x)
           /\ x # e => Prev(g, x) = Prev(h, x)
  BY DEF WasCut
<1>3. /\ Kind(h, o) = Free /\ Free # Terminator /\ n # Terminator
      /\ Prev(h, e) = Size(h, o)
      /\ \A x \in DOMAIN h : x <= o \/ x >= e
      /\ \A x \in DOMAIN h : x \in Nat /\ Size(h, x) \in Nat /\ Prev(h, x) \in Nat
  <2>1. Kind(h, o) = Free /\ Free # Terminator /\ n # Terminator
    BY <1>1, Numbers DEF CanCut, FreeOf
  <2>2. /\ Prev(h, e) = Size(h, o)
        /\ \A x \in DOMAIN h : x <= o \/ x >= e
    BY <1>1, <2>1 DEF Layout, Onward
  <2>3. \A x \in DOMAIN h : x \in Nat /\ Size(h, x) \in Nat /\ Prev(h, x) \in Nat
    BY HeaderParts DEF Layout
  <2> QED BY <2>1, <2>2, <2>3
<1> HIDE DEF rest, m
<1>4. Started(g)
  BY <1>1, <1>2 DEF Layout, Started
<1>5. Onward(g)
  <2> SUFFICES ASSUME NEW x \in DOMAIN g, Kind(g, x) # Terminator
               PROVE  /\ Size(g, x) >= MinBlock
                      /\ x + Size(g, x) \in DOMAIN g /\ Prev(g, x + Size(g, x)) = Size(g, x)
                      /\ \A y \in DOMAIN g : y <= x \/ y >= x + Size(g, x)
    BY DEF Onward
  <2>1. CASE x = o
    BY <2>1, <1>1, <1>2, <1>3
  <2>2. CASE x = m
    BY <2>2, <1>1, <1>2, <1>3, Numbers
  <2>3. CASE x # o /\ x # m
    <3>1. x \in DOMAIN h /\ Kind(g, x) = Kind(h, x) /\ Size(g, x) = Size(h, x)
      BY <2>3, <1>2
    <3>2. /\ Size(h, x) >= MinBlock
          /\ x + Size(h, x) \in DOMAIN h /\ Prev(h, x + Size(h, x)) = Size(h, x)
          /\ \A y \in DOMAIN h : y <= x \/ y >= x + Size(h, x)
      BY <3>1 DEF Layout, Onward
    <3>3. x + Size(h, x) # e
      BY <2>3, <3>1, <3>2, <1>1, <1>3
    <3>4. Prev(g, x + Size(h, x)) = Prev(h, x + Size(h, x))
      BY <3>2, <3>3, <1>2
    <3>5. m <= x \/ m >= x + Size(h, x)
      BY <2>3, <3>1, <3>2, <1>1, <1>3, Numbers
    <3> QED BY <3>1, <3>2, <3>4, <3>5, <1>2
  <2> QED BY <2>1, <2>2, <2>3
<1>6. Backward(g)
  <2> SUFFICES ASSUME NEW x \in DOMAIN g \ {0}
               PROVE  /\ Prev(g, x) >= MinBlock /\ x - Prev(g, x) \in DOMAIN g
                      /\ Kind(g, x - Prev(g, x)) # Terminator
                      /\ Size(g, x - Prev(g, x)) = Prev(g, x)
    BY DEF Backward
  <2>1. CASE x = e
    BY <2>1, <1>1, <1>2, <1>3
  <2>2. CASE x = m
    BY <2>2, <1>1, <1>2, <1>3
  <2>3. CASE x # e /\ x # m
    <3>1. x \in DOMAIN h \ {0} /\ Prev(g, x) = Prev(h, x)
      BY <2>3, <1>1, <1>2
    <3>2. /\ Prev(h, x) >= MinBlock /\ x - Prev(h, x) \in DOMAIN h
          /\ Kind(h, x - Prev(h, x)) # Terminator
          /\ Size(h, x - Prev(h, x)) = Prev(h, x)
      BY <3>1 DEF Layout, Backward
    <3>3. x - Prev(h, x) # o
      BY <2>3, <3>1, <3>2, <1>1, <1>3
    <3> QED BY <3>1, <3>2, <3>3, <1>2
  <2> QED BY <2>1, <2>2, <2>3
<1>7. Ended(g)
  <2>1. PICK t \in DOMAIN h : /\ Kind(h, t) = Terminator
                              /\ \A x \in DOMAIN h : x <= t /\ (Kind(h, x) = Terminator => x = t)
    BY DEF Layout, Ended
  <2>2. m <= t
    BY <2>1, <1>1, <1>3
  <2> QED BY <2>1, <2>2, <1>2, <1>3 DEF Ended
<1> QED BY <1>2, <1>4, <1>5, <1>6, <1>7 DEF Layout

\* As many multiples of ChunkSize as are needed hold the request.
LEMMA CapacityHolds ==
  ASSUME NEW n \in Request
  PROVE  Capacity(n) \in Nat /\ Capacity(n) >= n
<1> DEFINE y == Overhead + n + ChunkSize - 1
<1>1. n \in Nat /\ Overhead \in Nat /\ ChunkSize \in Nat /\ ChunkSize > 0
  BY XmemAssumption, Numbers
<1>2. y \in Nat
  BY <1>1
<1> HIDE DEF y
<1>3. y = ChunkSize * (y \div ChunkSize) + (y % ChunkSize) /\ y % ChunkSize < ChunkSize
      /\ y % ChunkSize \in Nat /\ y \div ChunkSize \in Nat
  BY <1>1, <1>2
<1> DEFINE k == (y \div ChunkSize) * ChunkSize
<1>4. k = y - (y % ChunkSize) /\ k \in Int
  BY <1>1, <1>2, <1>3
<1> HIDE DEF k
<1>5. k - Overhead >= n /\ k - Overhead \in Nat
  BY <1>1, <1>3, <1>4 DEF y
<1> QED BY <1>5 DEF Capacity, k, y

\* A new chunk, split or whole.
SplitChunk(n) ==
  LET rest == Capacity(n) - n
  IN Terminated(Put(Put(<<>>, 0, Header(n, First)), n, FreeHeader(rest, n)), Capacity(n), rest)
WholeChunk(n) ==
  Terminated(Put(<<>>, 0, Header(Capacity(n), First)), Capacity(n), Capacity(n))

\* A new chunk that is split: one block in use, one free.
LEMMA SplitLayout ==
  ASSUME NEW n \in Request, Capacity(n) - n >= MinBlock
  PROVE  /\ Layout(SplitChunk(n)) /\ FreeOf(SplitChunk(n)) = {n}
         /\ Apart(SplitChunk(n), {}) /\ UsedOf(SplitChunk(n)) = {0}
         /\ Size(SplitChunk(n), 0) = n /\ Ends(SplitChunk(n)) = {Capacity(n)}
<1> DEFINE cap == Capacity(n)
           rest == cap - n
           a == Put(<<>>, 0, Header(n, First))
           b == Put(a, n, FreeHeader(rest, n))
           g == Put(b, cap, Header(Terminator, rest))
<1>1. /\ n \in Nat /\ n >= MinBlock /\ n >= 2 /\ cap \in Nat /\ rest \in Nat /\ rest >= MinBlock
      /\ rest >= 2 /\ cap = n + rest /\ Free = 0 /\ Terminator = 1 /\ First = 0
  BY Numbers, CapacityHolds
<1>2. g = SplitChunk(n)
  BY DEF SplitChunk, Terminated
<1>3. Heads(<<>>) /\ DOMAIN <<>> = {}
  BY DEF Heads
<1> HIDE DEF cap, rest
<1>4. Written(<<>>, a, 0, n, n, 0)
  BY <1>1, <1>3, PutUsed
<1> HIDE DEF a
<1>a. Heads(a)
  BY <1>4 DEF Written
<1>5. Written(a, b, n, Free, rest, n)
  BY <1>1, <1>a, PutFree
<1> HIDE DEF b
<1>b. Heads(b)
  BY <1>5 DEF Written
<1>6. Written(b, g, cap, Terminator, Terminator, rest)
  BY <1>1, <1>b, PutUsed
<1> HIDE DEF a, b, g
<1>7. /\ Heads(g) /\ DOMAIN g = {0, n, cap}
      /\ Kind(g, 0) = n /\ Size(g, 0) = n /\ Prev(g, 0) = 0
      /\ Kind(g, n) = Free /\ Size(g, n) = rest /\ Prev(g, n) = n
      /\ Kind(g, cap) = Terminator /\ Prev(g, cap) = rest
  BY <1>1, <1>3, <1>4, <1>5, <1>6 DEF Written
<1>8. Layout(g)
  BY <1>1, <1>7 DEF Layout, Started, Onward, Backward, Ended
<1>9. FreeOf(g) = {n} /\ UsedOf(g) = {0} /\ Apart(g, {})
  BY <1>1, <1>7 DEF FreeOf, UsedOf, Apart
<1>10. Ends(g) = {cap}
  BY <1>1, <1>7 DEF Ends
<1> QED BY <1>2, <1>7, <1>8, <1>9, <1>10 DEF cap

\* A new chunk that is not: one block in use.
LEMMA WholeLayout ==
  ASSUME NEW n \in Request
  PROVE  /\ Layout(WholeChunk(n)) /\ FreeOf(WholeChunk(n)) = {}
         /\ Apart(WholeChunk(n), {}) /\ UsedOf(WholeChunk(n)) = {0}
         /\ Size(WholeChunk(n), 0) = Capacity(n) /\ Ends(WholeChunk(n)) = {Capacity(n)}
<1> DEFINE cap == Capacity(n)
           a == Put(<<>>, 0, Header(cap, First))
           g == Put(a, cap, Header(Terminator, cap))
<1>1. /\ cap \in Nat /\ cap >= MinBlock /\ cap >= 2
      /\ Free = 0 /\ Terminator = 1 /\ First = 0
  BY Numbers, CapacityHolds
<1>2. g = WholeChunk(n)
  BY DEF WholeChunk, Terminated
<1>3. Heads(<<>>) /\ DOMAIN <<>> = {}
  BY DEF Heads
<1> HIDE DEF cap
<1>4. Written(<<>>, a, 0, cap, cap, 0)
  BY <1>1, <1>3, PutUsed
<1> HIDE DEF a
<1>a. Heads(a)
  BY <1>4 DEF Written
<1>6. Written(a, g, cap, Terminator, Terminator, cap)
  BY <1>1, <1>a, PutUsed
<1> HIDE DEF a, g
<1>7. /\ Heads(g) /\ DOMAIN g = {0, cap}
      /\ Kind(g, 0) = cap /\ Size(g, 0) = cap /\ Prev(g, 0) = 0
      /\ Kind(g, cap) = Terminator /\ Prev(g, cap) = cap
  BY <1>1, <1>3, <1>4, <1>6 DEF Written
<1>8. Layout(g)
  BY <1>1, <1>7 DEF Layout, Started, Onward, Backward, Ended
<1>9. FreeOf(g) = {} /\ UsedOf(g) = {0} /\ Apart(g, {})
  BY <1>1, <1>7 DEF FreeOf, UsedOf, Apart
<1>10. Ends(g) = {cap}
  BY <1>1, <1>7 DEF Ends
<1> QED BY <1>2, <1>7, <1>8, <1>9, <1>10 DEF cap

-----------------------------------------------------------------------------
(* What the operations do to the blocks of a chunk.                        *)

\* A chunk as every operation leaves it.
Sound(h) == Layout(h) /\ Apart(h, {})

\* Exactly the blocks of U are in use in g, those of h as large as they were.
InUse(h, g, U) == /\ UsedOf(g) = U
                  /\ \A x \in U \cap UsedOf(h) : Size(g, x) = Size(h, x)

\* Cutting a free block leaves it free; what was cut off is in use.
LEMMA CutStep ==
  ASSUME NEW h, Sound(h), NEW o, NEW n, CanCut(h, o, n),
         NEW g, g = Cut(h, o, n), NEW m, m = o + (Size(h, o) - n)
  PROVE  /\ Sound(g) /\ FreeOf(g) = FreeOf(h)
         /\ InUse(h, g, UsedOf(h) \cup {m})
         /\ Size(g, m) = n /\ m \in Nat /\ m \notin UsedOf(h) /\ Ends(g) = Ends(h)
<1> DEFINE e == o + Size(h, o)
<1>1. WasCut(h, g, o, n) /\ Layout(g) /\ Layout(h)
  BY CutShape, CutLayout DEF Sound
<1>2. /\ o \in DOMAIN h /\ Kind(h, o) = Free /\ n # Free /\ n # Terminator
      /\ m \in Nat /\ m \notin DOMAIN h /\ m # o /\ m + n = e /\ e \in DOMAIN h
  BY <1>1, CutPlace, Numbers DEF CanCut, FreeOf
<1>3. /\ DOMAIN g = DOMAIN h \cup {m} /\ Kind(g, o) = Free /\ Size(g, o) = Size(h, o) - n
      /\ Kind(g, m) = n /\ Size(g, m) = n
      /\ \A x \in DOMAIN h \ {o} : Kind(g, x) = Kind(h, x) /\ Size(g, x) = Size(h, x)
  BY <1>1 DEF WasCut
<1> HIDE DEF e
<1>4. FreeOf(g) = FreeOf(h)
  BY <1>2, <1>3 DEF FreeOf
<1>5. UsedOf(g) = UsedOf(h) \cup {m} /\ InUse(h, g, UsedOf(h) \cup {m})
  BY <1>2, <1>3 DEF UsedOf, InUse
<1>6. Apart(g, {})
  <2> SUFFICES ASSUME NEW x \in FreeOf(g) PROVE Kind(g, x + Size(g, x)) # Free
    BY DEF Apart
  <2>1. CASE x = o
    BY <2>1, <1>2, <1>3
  <2>2. CASE x # o
    <3>1. x \in FreeOf(h) /\ x \in DOMAIN h /\ Size(g, x) = Size(h, x) /\ Kind(h, x) # Terminator
      BY <2>2, <1>3, <1>4, Numbers DEF FreeOf
    <3>2. Kind(h, x + Size(h, x)) # Free /\ x + Size(h, x) \in DOMAIN h
      BY <3>1 DEF Sound, Apart, Layout, Onward
    <3> QED BY <3>1, <3>2, <1>2, <1>3
  <2> QED BY <2>1, <2>2
<1>7. Sound(g)
  BY <1>1, <1>6 DEF Sound
<1>8. Ends(g) = Ends(h)
  BY <1>2, <1>3, Numbers DEF Ends
<1> QED BY <1>2, <1>3, <1>4, <1>5, <1>7, <1>8 DEF UsedOf

\* A free block that is handed out whole is in use.
LEMMA FillStep ==
  ASSUME NEW h, Sound(h), NEW o \in FreeOf(h), NEW g, g = Put(h, o, Header(Size(h, o), h[o].prev_size))
  PROVE  /\ Sound(g) /\ FreeOf(g) = FreeOf(h) \ {o}
         /\ InUse(h, g, UsedOf(h) \cup {o}) /\ Size(g, o) = Size(h, o) /\ o \notin UsedOf(h)
         /\ Ends(g) = Ends(h)
<1>1. /\ Layout(h) /\ Heads(h) /\ o \in DOMAIN h /\ o \in Nat /\ Prev(h, o) \in Nat
      /\ Kind(h, o) = Free /\ Kind(h, o) # Terminator
  BY HeaderParts, Numbers DEF FreeOf, Sound, Layout
<1>2. Size(h, o) >= MinBlock /\ Size(h, o) \in Nat \ {0}
  BY <1>1, HeaderParts, Numbers DEF Layout, Onward
<1>3. Written(h, g, o, Size(h, o), Size(h, o), Prev(h, o))
  BY <1>1, <1>2, PutUsed DEF Prev
<1>4. Size(h, o) # Terminator /\ Size(h, o) # Free
  BY <1>2, Numbers
<1>5. Layout(g)
  BY <1>1, <1>3, <1>4, RefillLayout
<1>6. /\ DOMAIN g = DOMAIN h /\ Kind(g, o) = Size(h, o) /\ Size(g, o) = Size(h, o)
      /\ \A x \in DOMAIN h \ {o} : Kind(g, x) = Kind(h, x) /\ Size(g, x) = Size(h, x)
  BY <1>1, <1>3 DEF Written
<1>7. FreeOf(g) = FreeOf(h) \ {o}
  BY <1>1, <1>4, <1>6 DEF FreeOf
<1>8. InUse(h, g, UsedOf(h) \cup {o}) /\ o \notin UsedOf(h)
  BY <1>1, <1>4, <1>6 DEF UsedOf, InUse
<1>9. Apart(g, {})
  <2> SUFFICES ASSUME NEW x \in FreeOf(g) PROVE Kind(g, x + Size(g, x)) # Free
    BY DEF Apart
  <2>1. x \in FreeOf(h) /\ x \in DOMAIN h /\ Size(g, x) = Size(h, x) /\ Kind(h, x) # Terminator
    BY <1>6, <1>7, Numbers DEF FreeOf
  <2>2. Kind(h, x + Size(h, x)) # Free /\ x + Size(h, x) \in DOMAIN h
    BY <2>1 DEF Sound, Apart, Layout, Onward
  <2> QED BY <2>1, <2>2, <1>4, <1>6
<1>10. Ends(g) = Ends(h)
  BY <1>1, <1>4, <1>6 DEF Ends
<1> QED BY <1>5, <1>6, <1>7, <1>8, <1>9, <1>10 DEF Sound

\* Where the block that is freed begins, once it is joined with the one before.
At(h, o) == IF h[Before(h, o)].size = Free THEN Before(h, o) ELSE o

\* Freeing a block and joining it with the one before it.
LEMMA JoinPrevStep ==
  ASSUME NEW h, Sound(h), NEW o \in UsedOf(h), NEW g, g = JoinPrev(h, o), NEW at, at = At(h, o)
  PROVE  /\ Layout(g) /\ Apart(g, {at}) /\ at \in FreeOf(g)
         /\ FreeOf(g) = FreeOf(h) \cup {at}
         /\ at # o => at \in FreeOf(h)
         /\ InUse(h, g, UsedOf(h) \ {o}) /\ Ends(g) = Ends(h)
<1>1. /\ Layout(h) /\ Heads(h) /\ o \in DOMAIN h /\ o \in Nat /\ Prev(h, o) \in Nat
      /\ Kind(h, o) # Free /\ Kind(h, o) # Terminator /\ Size(h, o) = Kind(h, o)
      /\ Size(h, o) \in Nat
  BY HeaderParts DEF UsedOf, Sound, Layout
<1>2. \A x \in FreeOf(h) : /\ x \in DOMAIN h /\ x \in Nat /\ Size(h, x) \in Nat
                           /\ Size(h, x) >= 2 /\ Kind(h, x) # Terminator
                           /\ x + Size(h, x) \in DOMAIN h
                           /\ Prev(h, x + Size(h, x)) = Size(h, x)
                           /\ Kind(h, x + Size(h, x)) # Free
  BY <1>1, HeaderParts, Numbers DEF FreeOf, Layout, Onward, Sound, Apart
<1> DEFINE p == Before(h, o)
<1>3. CASE h[p].size = Free
  <2>1. at = p /\ g = Join(h, p, o)
    BY <1>3 DEF At, JoinPrev
  <2>2. o # 0
    BY <1>1, <1>3 DEF Layout, Started, Before, Prev, Kind
  <2>3. p = o - Prev(h, o)
    BY DEF Before, Prev
  <2>4. p \in DOMAIN h /\ Kind(h, p) = Free /\ Size(h, p) = Prev(h, o) /\ p + Size(h, p) = o
    BY <1>1, <1>3, <2>2, <2>3, HeaderParts DEF Layout, Backward, Kind
  <2> HIDE DEF p
  <2>5. Follow(h, p, o)
    BY <1>1, <2>4, Numbers DEF Follow
  <2>6. Joined(h, g, p, o) /\ Layout(g)
    BY <1>1, <2>1, <2>5, JoinShape, JoinedLayout
  <2>7. /\ DOMAIN g = DOMAIN h \ {o} /\ Kind(g, p) = Free
        /\ \A x \in DOMAIN h \ {o, p} : Kind(g, x) = Kind(h, x) /\ Size(g, x) = Size(h, x)
    BY <2>6 DEF Joined
  <2>8. p # o /\ p \in FreeOf(h)
    BY <1>1, <2>4 DEF FreeOf
  <2>9. FreeOf(g) = FreeOf(h) \cup {at} /\ InUse(h, g, UsedOf(h) \ {o})
    BY <1>1, <2>1, <2>4, <2>7, <2>8 DEF FreeOf, UsedOf, InUse
  <2>10. Apart(g, {at})
    <3> SUFFICES ASSUME NEW x \in FreeOf(g) \ {p} PROVE Kind(g, x + Size(g, x)) # Free
      BY <2>1 DEF Apart
    <3>1. x \in FreeOf(h) /\ x # o /\ Size(g, x) = Size(h, x)
      BY <2>1, <2>7, <2>8, <2>9, <1>1 DEF FreeOf
    <3>2. x + Size(h, x) # o
      BY <1>1, <1>2, <2>3, <2>4, <2>8, <3>1
    <3> QED BY <1>2, <2>4, <2>7, <3>1, <3>2
  <2>11. Ends(g) = Ends(h)
    BY <1>1, <2>4, <2>7, Numbers DEF Ends
  <2> QED BY <2>1, <2>6, <2>7, <2>8, <2>9, <2>10, <2>11
<1>4. CASE h[p].size # Free
  <2>1. at = o /\ g = Put(h, o, FreeHeader(h[o].size, h[o].prev_size))
    BY <1>4 DEF At, JoinPrev
  <2>2. Written(h, g, o, Free, Size(h, o), Prev(h, o))
    BY <1>1, <2>1, PutFree DEF Prev, Kind
  <2>3. Layout(g)
    BY <1>1, <2>2, Numbers, RefillLayout
  <2>4. /\ DOMAIN g = DOMAIN h /\ Kind(g, o) = Free
        /\ \A x \in DOMAIN h : Size(g, x) = Size(h, x)
        /\ \A x \in DOMAIN h \ {o} : Kind(g, x) = Kind(h, x)
    BY <1>1, <2>2 DEF Written
  <2>5. FreeOf(g) = FreeOf(h) \cup {at} /\ InUse(h, g, UsedOf(h) \ {o})
    BY <1>1, <2>1, <2>4 DEF FreeOf, UsedOf, InUse
  <2>6. Apart(g, {at})
    <3> SUFFICES ASSUME NEW x \in FreeOf(g) \ {o} PROVE Kind(g, x + Size(g, x)) # Free
      BY <2>1 DEF Apart
    <3>1. x \in FreeOf(h)
      BY <2>1, <2>5
    <3>2. x + Size(h, x) # o
      <4>1. SUFFICES ASSUME x + Size(h, x) = o PROVE FALSE
        OBVIOUS
      <4>2. p = x
        BY <4>1, <1>2, <3>1 DEF Before, Prev
      <4> QED BY <4>2, <3>1, <1>4 DEF FreeOf, Kind
    <3> QED BY <1>2, <2>4, <3>1, <3>2
  <2>7. Ends(g) = Ends(h)
    BY <1>1, <2>4, Numbers DEF Ends
  <2> QED BY <2>1, <2>3, <2>4, <2>5, <2>6, <2>7, <1>1 DEF FreeOf
<1> QED BY <1>3, <1>4

\* Joining a free block with the one after it.
LEMMA JoinNextStep ==
  ASSUME NEW h, Layout(h), NEW at \in FreeOf(h), Apart(h, {at}), NEW g, g = JoinNext(h, at)
  PROVE  /\ Sound(g) /\ at \in FreeOf(g) /\ InUse(h, g, UsedOf(h)) /\ Ends(g) = Ends(h)
         /\ Kind(h, After(h, at)) = Free =>
              /\ After(h, at) \in FreeOf(h) /\ FreeOf(g) = FreeOf(h) \ {After(h, at)}
         /\ Kind(h, After(h, at)) # Free => FreeOf(g) = FreeOf(h)
<1>1. \A x \in FreeOf(h) : /\ x \in DOMAIN h /\ x \in Nat /\ Size(h, x) \in Nat
                           /\ Size(h, x) >= 2 /\ Kind(h, x) # Terminator /\ Kind(h, x) = Free
                           /\ x + Size(h, x) \in DOMAIN h
                           /\ Prev(h, x + Size(h, x)) = Size(h, x)
                           /\ x # at => Kind(h, x + Size(h, x)) # Free
  BY HeaderParts, Numbers DEF FreeOf, Layout, Onward, Apart
<1> DEFINE q == After(h, at)
<1>2. q = at + Size(h, at) /\ q \in DOMAIN h /\ q # at
  BY <1>1 DEF After
<1>3. CASE Kind(h, q) # Free
  <2>1. g = h
    BY <1>3 DEF JoinNext, Kind
  <2>2. Apart(h, {})
    BY <1>1, <1>2, <1>3 DEF Apart
  <2> QED BY <1>3, <2>1, <2>2 DEF Sound, InUse
<1>4. CASE Kind(h, q) = Free
  <2>1. g = Join(h, at, q)
    BY <1>4 DEF JoinNext, Kind
  <2>2. q \in FreeOf(h)
    BY <1>2, <1>4 DEF FreeOf
  <2> HIDE DEF q
  <2>3. Follow(h, at, q)
    BY <1>1, <1>2, <2>2 DEF Follow
  <2>4. Joined(h, g, at, q) /\ Layout(g)
    BY <2>1, <2>3, JoinShape, JoinedLayout
  <2>5. /\ DOMAIN g = DOMAIN h \ {q} /\ Kind(g, at) = Free
        /\ Size(g, at) = Size(h, at) + Size(h, q)
        /\ \A x \in DOMAIN h \ {q, at} : Kind(g, x) = Kind(h, x) /\ Size(g, x) = Size(h, x)
    BY <2>4 DEF Joined
  <2>6. FreeOf(g) = FreeOf(h) \ {q} /\ InUse(h, g, UsedOf(h)) /\ at \in FreeOf(g)
    BY <1>1, <1>2, <1>4, <2>5 DEF FreeOf, UsedOf, InUse
  <2>7. Apart(g, {})
    <3> SUFFICES ASSUME NEW x \in FreeOf(g) PROVE Kind(g, x + Size(g, x)) # Free
      BY DEF Apart
    <3>1. CASE x = at
      <4>1. x + Size(g, x) = q + Size(h, q)
        BY <1>1, <1>2, <2>2, <2>5, <3>1
      <4>2. Kind(h, q + Size(h, q)) # Free /\ q + Size(h, q) \in DOMAIN h /\ q + Size(h, q) # q
        BY <1>1, <1>2, <2>2
      <4> QED BY <4>1, <4>2, <1>1, <2>5
    <3>2. CASE x # at
      <4>1. x \in FreeOf(h) /\ x # q /\ x \in DOMAIN h /\ Size(g, x) = Size(h, x)
        BY <3>2, <2>5, <2>6 DEF FreeOf
      <4> QED BY <4>1, <3>2, <1>1, <2>2, <2>5
    <3> QED BY <3>1, <3>2
  <2>8. Ends(g) = Ends(h)
    <3>1. Kind(h, at) # Terminator /\ Kind(h, q) # Terminator /\ Kind(g, at) # Terminator
      BY <1>1, <2>2, <2>5, Numbers
    <3> QED BY <2>5, <3>1 DEF Ends
  <2> QED BY <1>4, <2>2, <2>4, <2>6, <2>7, <2>8 DEF Sound, q
<1> QED BY <1>3, <1>4

\* Blocks of a chunk share nothing.
LEMMA BlocksDisjoint ==
  ASSUME NEW h, Layout(h), NEW x \in UsedOf(h), NEW y \in UsedOf(h), x # y
  PROVE  x + Size(h, x) <= y \/ y + Size(h, y) <= x
<1>1. x \in Nat /\ y \in Nat /\ Size(h, x) \in Nat /\ Size(h, y) \in Nat
  BY HeaderParts DEF UsedOf, Layout
<1>2. y <= x \/ y >= x + Size(h, x)
  BY DEF UsedOf, Layout, Onward
<1>3. x <= y \/ x >= y + Size(h, y)
  BY DEF UsedOf, Layout, Onward
<1> QED BY <1>1, <1>2, <1>3

\* A free block that begins a chunk and is followed by the terminator is all
\* there is in it.
LEMMA NothingElse ==
  ASSUME NEW h, Layout(h), NEW o \in FreeOf(h), Prev(h, o) = 0,
         Kind(h, o + Size(h, o)) = Terminator
  PROVE  FreeOf(h) = {o} /\ UsedOf(h) = {} /\ Size(h, o) \in Nat
<1> DEFINE e == o + Size(h, o)
<1>1. /\ o \in DOMAIN h /\ Kind(h, o) = Free /\ Kind(h, o) # Terminator
      /\ \A x \in DOMAIN h : x \in Nat /\ Size(h, x) \in Nat /\ Prev(h, x) \in Nat
  BY HeaderParts, Numbers DEF FreeOf, Layout
<1>2. o = 0
  BY <1>1, Numbers DEF Layout, Backward
<1>3. e \in DOMAIN h /\ \A x \in DOMAIN h : x <= o \/ x >= e
  BY <1>1 DEF Layout, Onward
<1>4. \A x \in DOMAIN h : x <= e
  <2>1. PICK t \in DOMAIN h : /\ Kind(h, t) = Terminator
                              /\ \A x \in DOMAIN h : x <= t /\ (Kind(h, x) = Terminator => x = t)
    BY DEF Layout, Ended
  <2> QED BY <2>1, <1>3
<1>5. DOMAIN h = {o, e}
  BY <1>1, <1>2, <1>3, <1>4
<1> QED BY <1>1, <1>2, <1>5, Numbers DEF FreeOf, UsedOf

-----------------------------------------------------------------------------
(* The list.                                                               *)

Injective(s) == \A i, j \in DOMAIN s : s[i] = s[j] => i = j

Push(b, s) == <<b>> \o s

\* Putting a block at the head.
LEMMA Pushed ==
  ASSUME NEW S, NEW s \in Seq(S), Injective(s), NEW b \in S, b \notin ToSet(s)
  PROVE  /\ Push(b, s) \in Seq(S) /\ Injective(Push(b, s))
         /\ ToSet(Push(b, s)) = ToSet(s) \cup {b}
<1> DEFINE r == <<b>> \o s
<1>1. /\ r \in Seq(S) /\ DOMAIN r = 1..Len(s) + 1 /\ DOMAIN s = 1..Len(s) /\ Len(s) \in Nat
      /\ r[1] = b /\ \A i \in 1..Len(s) : r[i + 1] = s[i]
  OBVIOUS
<1>2. \A k \in DOMAIN r : k = 1 \/ \E i \in DOMAIN s : k = i + 1
  <2> SUFFICES ASSUME NEW k \in DOMAIN r, k # 1 PROVE \E i \in DOMAIN s : k = i + 1
    OBVIOUS
  <2>1. k - 1 \in DOMAIN s /\ k = (k - 1) + 1
    BY <1>1
  <2> QED BY <2>1
<1> HIDE DEF r
<1>3. ToSet(r) = ToSet(s) \cup {b}
  <2>1. \A k \in DOMAIN r : r[k] \in ToSet(s) \cup {b}
    BY <1>1, <1>2 DEF ToSet
  <2>2. \A i \in DOMAIN s : i + 1 \in DOMAIN r /\ r[i + 1] = s[i]
    BY <1>1
  <2>3. 1 \in DOMAIN r /\ r[1] = b
    BY <1>1
  <2> QED BY <2>1, <2>2, <2>3 DEF ToSet
<1>4. Injective(r)
  <2> SUFFICES ASSUME NEW k \in DOMAIN r, NEW l \in DOMAIN r, r[k] = r[l] PROVE k = l
    BY DEF Injective
  <2>1. CASE k = 1 /\ l = 1
    BY <2>1
  <2>2. CASE k = 1 /\ l # 1
    BY <2>2, <1>1, <1>2 DEF ToSet
  <2>3. CASE k # 1 /\ l = 1
    BY <2>3, <1>1, <1>2 DEF ToSet
  <2>4. CASE k # 1 /\ l # 1
    <3>1. PICK i \in DOMAIN s, j \in DOMAIN s : k = i + 1 /\ l = j + 1
      BY <2>4, <1>2
    <3>2. s[i] = s[j]
      BY <3>1, <1>1
    <3> QED BY <3>1, <3>2 DEF Injective
  <2> QED BY <2>1, <2>2, <2>3, <2>4
<1> QED BY <1>1, <1>3, <1>4 DEF r, Push

\* Taking a block out.
LEMMA Unlinked ==
  ASSUME NEW S, NEW s \in Seq(S), Injective(s), NEW b \in ToSet(s)
  PROVE  /\ Unlink(s, b) \in Seq(S) /\ Injective(Unlink(s, b))
         /\ ToSet(Unlink(s, b)) = ToSet(s) \ {b}
<1> DEFINE i == CHOOSE k \in DOMAIN s : s[k] = b
           r == SubSeq(s, 1, i - 1) \o SubSeq(s, i + 1, Len(s))
<1>1. i \in DOMAIN s /\ s[i] = b /\ DOMAIN s = 1..Len(s) /\ Len(s) \in Nat
  BY DEF ToSet
<1>2. r = Unlink(s, b)
  BY DEF Unlink, RemoveAt
<1> HIDE DEF i
<1>3. /\ SubSeq(s, 1, i - 1) \in Seq(S) /\ Len(SubSeq(s, 1, i - 1)) = i - 1
      /\ \A k \in 1..i - 1 : SubSeq(s, 1, i - 1)[k] = s[k]
  BY <1>1
<1>4. /\ SubSeq(s, i + 1, Len(s)) \in Seq(S) /\ Len(SubSeq(s, i + 1, Len(s))) = Len(s) - i
      /\ \A k \in 1..Len(s) - i : SubSeq(s, i + 1, Len(s))[k] = s[i + k]
  BY <1>1
<1> DEFINE u == SubSeq(s, 1, i - 1)
           v == SubSeq(s, i + 1, Len(s))
<1>5. r = u \o v
  OBVIOUS
<1> HIDE DEF u, v, r
<1>6. /\ r \in Seq(S) /\ DOMAIN r = 1..Len(s) - 1
      /\ \A k \in 1..i - 1 : r[k] = s[k]
      /\ \A k \in i..Len(s) - 1 : r[k] = s[k + 1]
  <2>1. /\ u \in Seq(S) /\ Len(u) = i - 1 /\ v \in Seq(S) /\ Len(v) = Len(s) - i
        /\ \A k \in 1..i - 1 : u[k] = s[k]
        /\ \A k \in 1..Len(s) - i : v[k] = s[i + k]
    BY <1>3, <1>4 DEF u, v
  <2>2. r \in Seq(S) /\ DOMAIN r = 1..Len(s) - 1
    <3>a. u \in Seq(S) /\ v \in Seq(S)
      BY <2>1
    <3>b. (u \o v) \in Seq(S) /\ Len(u \o v) = Len(u) + Len(v)
      BY <3>a
    <3>1. r \in Seq(S) /\ Len(r) = Len(u) + Len(v)
      BY <1>5, <3>b
    <3>2. DOMAIN r = 1..Len(r)
      BY <3>1
    <3>3. Len(r) = Len(s) - 1
      BY <1>1, <2>1, <3>1
    <3> QED BY <3>1, <3>2, <3>3
  <2>3. \A k \in 1..i - 1 : r[k] = s[k]
    BY <1>1, <1>5, <2>1
  <2>4. ASSUME NEW k \in i..Len(s) - 1 PROVE r[k] = s[k + 1]
    <3>1. r[k] = v[k - (i - 1)] /\ k - (i - 1) \in 1..Len(s) - i
      BY <1>1, <1>5, <2>1
    <3>2. i + (k - (i - 1)) = k + 1
      BY <1>1
    <3> QED BY <3>1, <3>2, <2>1
  <2> QED BY <2>2, <2>3, <2>4
<1> DEFINE from(k) == IF k < i THEN k ELSE k + 1
<1>7. /\ \A k \in DOMAIN r : from(k) \in DOMAIN s \ {i} /\ r[k] = s[from(k)]
      /\ \A k, l \in DOMAIN r : from(k) = from(l) => k = l
  BY <1>1, <1>6
<1>8. \A k \in DOMAIN s \ {i} : \E l \in DOMAIN r : r[l] = s[k]
  <2> SUFFICES ASSUME NEW k \in DOMAIN s \ {i} PROVE \E l \in DOMAIN r : r[l] = s[k]
    OBVIOUS
  <2>1. CASE k < i
    BY <2>1, <1>1, <1>6
  <2>2. CASE k > i
    <3>1. k - 1 \in i..Len(s) - 1 /\ k - 1 \in DOMAIN r /\ (k - 1) + 1 = k
      BY <2>2, <1>1, <1>6
    <3>2. r[k - 1] = s[k]
      BY <3>1, <1>6
    <3> QED BY <3>1, <3>2
  <2> QED BY <2>1, <2>2, <1>1
<1> HIDE DEF from
<1>9. Injective(r)
  BY <1>7 DEF Injective
<1>10. ToSet(r) = ToSet(s) \ {b}
  BY <1>1, <1>7, <1>8 DEF ToSet, Injective
<1> QED BY <1>2, <1>6, <1>9, <1>10

\* The first index of a sequence at which something holds.
LEMMA FirstIndex ==
  ASSUME NEW S, S \subseteq Nat, S # {}
  PROVE  \E i \in S : \A j \in S : ~(j < i)
<1> DEFINE Below == {p \in Nat \X Nat : p[1] < p[2]}
<1>1. IsWellFoundedOn(Below, Nat)
  BY NatLessThanWellFounded DEF OpToRel
<1>2. PICK i \in S : \A j \in S : ~(<<j, i>> \in Below)
  BY <1>1, WFMin
<1>3. ASSUME NEW j \in S PROVE ~(j < i)
  <2>1. <<j, i>> \in Nat \X Nat /\ <<j, i>>[1] = j /\ <<j, i>>[2] = i
    OBVIOUS
  <2> QED BY <1>2, <2>1
<1> QED BY <1>3

\* The first fit exists where a block fits.
LEMMA FirstFits ==
  ASSUME NEW S, free_blocks \in Seq(S), NEW n, \E i \in DOMAIN free_blocks : Fits(i, n)
  PROVE  FirstFit(n) \in DOMAIN free_blocks /\ Fits(FirstFit(n), n)
<1> DEFINE hits == {i \in DOMAIN free_blocks : Fits(i, n)}
<1>1. hits \subseteq Nat /\ hits # {} /\ DOMAIN free_blocks = 1..Len(free_blocks)
  OBVIOUS
<1>2. PICK i \in hits : \A j \in hits : ~(j < i)
  BY <1>1, FirstIndex
<1>3. \A j \in 1..i - 1 : ~Fits(j, n)
  BY <1>1, <1>2
<1> QED BY <1>2, <1>3 DEF FirstFit

-----------------------------------------------------------------------------
(* The invariant.                                                          *)

Types == /\ mem = [c \in Chunk |-> mem[c]]
         /\ pieces \subseteq Chunk \X Nat \X Request
         /\ allocated_size \in Int /\ total_size \in Int

\* Every chunk that is mapped is tiled, no two free blocks in it touch.
Chunks == \A c \in Chunk : Mapped(c) => Sound(mem[c])

\* The list holds exactly the free blocks, each once.
Linked == /\ free_blocks \in Seq(Chunk \X Nat) /\ Injective(free_blocks)
          /\ \A c \in Chunk, o \in Nat :
               <<c, o>> \in ToSet(free_blocks) <=> o \in FreeOf(mem[c])

\* The blocks in use are exactly the pieces handed out, each is as large as
\* was asked for.
Held ==
  /\ \A c \in Chunk, o \in Nat :
       o \in UsedOf(mem[c]) <=> \E n \in Request : <<c, o, n>> \in pieces
  /\ \A c \in Chunk, o \in Nat, n, k \in Request :
       <<c, o, n>> \in pieces /\ <<c, o, k>> \in pieces => n = k
  /\ \A c \in Chunk, o \in Nat, n \in Request :
       <<c, o, n>> \in pieces => Size(mem[c], o) >= n

HeapInv == Types /\ Chunks /\ Linked /\ Held

\* A step that hands out n at m of chunk c, which becomes g.
Handed(c, g, m, n) ==
  /\ c \in Chunk /\ m \in Nat /\ n \in Request /\ mem' = [mem EXCEPT ![c] = g]
  /\ Sound(g) /\ m \notin UsedOf(mem[c]) /\ InUse(mem[c], g, UsedOf(mem[c]) \cup {m})
  /\ Size(g, m) >= n
  /\ pieces' = pieces \cup {<<c, m, n>>}

\* A step that takes back the block at o of chunk c, which becomes g.
Taken(c, g, o) ==
  /\ c \in Chunk /\ o \in UsedOf(mem[c]) /\ mem' = [mem EXCEPT ![c] = g]
  /\ g = <<>> \/ Sound(g)
  /\ InUse(mem[c], g, UsedOf(mem[c]) \ {o})
  /\ pieces' = {b \in pieces : <<b[1], b[2]>> # <<c, o>>}

\* The list after a step: exactly the free blocks, with those of g for c.
Relinked(c, g) ==
  /\ free_blocks' \in Seq(Chunk \X Nat) /\ Injective(free_blocks')
  /\ \A d \in Chunk, o \in Nat :
       <<d, o>> \in ToSet(free_blocks') <=> o \in FreeOf(IF d = c THEN g ELSE mem[d])

Counted == allocated_size' \in Int /\ total_size' \in Int

\* The block at m of g is counted, and so is the chunk when it is new.
Paid(c, g, m) ==
  /\ allocated_size' = allocated_size + Size(g, m)
  /\ Mapped(c) => total_size' = total_size /\ Ends(g) = Ends(mem[c])
  /\ ~Mapped(c) => \E t \in Nat : Ends(g) = {t} /\ total_size' = total_size + t

\* The block at o is counted no more, nor is the chunk when it is given back.
Repaid(c, g, o) ==
  /\ allocated_size' = allocated_size - Size(mem[c], o)
  /\ g # <<>> => total_size' = total_size /\ Ends(g) = Ends(mem[c])
  /\ g = <<>> => \E t \in Nat : Ends(mem[c]) = {t} /\ total_size' = total_size - t

\* A chunk that is not mapped has no blocks.
LEMMA NothingIn == FreeOf(<<>>) = {} /\ UsedOf(<<>>) = {}
BY DEF FreeOf, UsedOf

\* The blocks of a chunk begin at natural numbers.
LEMMA BlocksNat ==
  ASSUME HeapInv, NEW c \in Chunk
  PROVE  FreeOf(mem[c]) \subseteq Nat /\ UsedOf(mem[c]) \subseteq Nat
<1>1. CASE Mapped(c)
  BY <1>1 DEF HeapInv, Chunks, Sound, Layout, Heads, FreeOf, UsedOf
<1>2. CASE ~Mapped(c)
  BY <1>2, NothingIn DEF Mapped
<1> QED BY <1>1, <1>2

\* The list's part of the invariant.
LEMMA RelinkedInv ==
  ASSUME HeapInv, NEW c \in Chunk, NEW g, mem' = [mem EXCEPT ![c] = g], Relinked(c, g)
  PROVE  Linked'
<1>1. \A d \in Chunk : mem'[d] = IF d = c THEN g ELSE mem[d]
  BY DEF HeapInv, Types
<1> QED BY <1>1 DEF Relinked, Linked, Injective, ToSet

\* Handing out a block keeps the invariant.
LEMMA HandedInv ==
  ASSUME HeapInv, NEW c, NEW g, NEW m, NEW n, Handed(c, g, m, n), Relinked(c, g), Counted
  PROVE  HeapInv'
<1>1. /\ c \in Chunk /\ m \in Nat /\ n \in Request /\ Sound(g)
      /\ mem' = [d \in Chunk |-> IF d = c THEN g ELSE mem[d]]
      /\ pieces' = pieces \cup {<<c, m, n>>}
  BY DEF Handed, HeapInv, Types
<1>2. Types'
  BY <1>1 DEF HeapInv, Types, Counted
<1>3. Chunks'
  BY <1>1 DEF HeapInv, Chunks, Mapped
<1>4. Linked'
  BY <1>1, RelinkedInv DEF Handed
<1>5. Held'
  <2>1. \A d \in Chunk, o \in Nat :
          o \in UsedOf(mem'[d]) <=> o \in UsedOf(mem[d]) \/ (d = c /\ o = m)
    BY <1>1 DEF Handed, InUse
  <2>2. \A d \in Chunk, o \in Nat, k \in Request :
          <<d, o, k>> \in pieces' <=> <<d, o, k>> \in pieces \/ (d = c /\ o = m /\ k = n)
    BY <1>1
  <2>3. \A k \in Request : <<c, m, k>> \notin pieces
    BY <1>1 DEF Handed, HeapInv, Held
  <2>4. \A d \in Chunk, o \in Nat :
          o \in UsedOf(mem'[d]) <=> \E k \in Request : <<d, o, k>> \in pieces'
    <3> SUFFICES ASSUME NEW d \in Chunk, NEW o \in Nat
                 PROVE  o \in UsedOf(mem'[d]) <=> \E k \in Request : <<d, o, k>> \in pieces'
      OBVIOUS
    <3>1. o \in UsedOf(mem[d]) <=> \E k \in Request : <<d, o, k>> \in pieces
      BY DEF HeapInv, Held
    <3>2. CASE d = c /\ o = m
      BY <3>2, <2>1, <2>2, <1>1
    <3>3. CASE ~(d = c /\ o = m)
      BY <3>1, <3>3, <2>1, <2>2
    <3> QED BY <3>2, <3>3
  <2>5. \A d \in Chunk, o \in Nat, k, l \in Request :
          <<d, o, k>> \in pieces' /\ <<d, o, l>> \in pieces' => k = l
    BY <2>2, <2>3 DEF HeapInv, Held
  <2>6. ASSUME NEW d \in Chunk, NEW o \in Nat, NEW k \in Request, <<d, o, k>> \in pieces'
        PROVE  Size(mem'[d], o) >= k
    <3>1. CASE d = c /\ o = m /\ k = n
      BY <3>1, <1>1 DEF Handed
    <3>2. CASE <<d, o, k>> \in pieces
      <4>1. o \in UsedOf(mem[d]) /\ Size(mem[d], o) >= k
        BY <3>2 DEF HeapInv, Held
      <4>2. Size(mem'[d], o) = Size(mem[d], o)
        BY <4>1, <1>1 DEF Handed, InUse
      <4> QED BY <4>1, <4>2
    <3> QED BY <2>2, <2>6, <3>1, <3>2
  <2> QED BY <2>4, <2>5, <2>6 DEF Held
<1> QED BY <1>2, <1>3, <1>4, <1>5 DEF HeapInv

\* Taking a block back keeps the invariant.
LEMMA TakenInv ==
  ASSUME HeapInv, NEW c, NEW g, NEW o, Taken(c, g, o), Relinked(c, g), Counted
  PROVE  HeapInv'
<1>1. /\ c \in Chunk /\ (g = <<>> \/ Sound(g)) /\ o \in UsedOf(mem[c])
      /\ mem' = [d \in Chunk |-> IF d = c THEN g ELSE mem[d]]
      /\ pieces' = {b \in pieces : <<b[1], b[2]>> # <<c, o>>}
  BY DEF Taken, HeapInv, Types
<1>2. Types'
  BY <1>1 DEF HeapInv, Types, Counted
<1>3. Chunks'
  BY <1>1 DEF HeapInv, Chunks, Mapped
<1>4. Linked'
  BY <1>1, RelinkedInv DEF Taken
<1>5. Held'
  <2>1. \A d \in Chunk, x \in Nat :
          x \in UsedOf(mem'[d]) <=> x \in UsedOf(mem[d]) /\ ~(d = c /\ x = o)
    BY <1>1 DEF Taken, InUse
  <2>2. \A d \in Chunk, x \in Nat, k \in Request :
          <<d, x, k>> \in pieces' <=> <<d, x, k>> \in pieces /\ ~(d = c /\ x = o)
    BY <1>1
  <2>3. \A d \in Chunk, x \in Nat :
          x \in UsedOf(mem'[d]) <=> \E k \in Request : <<d, x, k>> \in pieces'
    BY <2>1, <2>2 DEF HeapInv, Held
  <2>4. \A d \in Chunk, x \in Nat, k, l \in Request :
          <<d, x, k>> \in pieces' /\ <<d, x, l>> \in pieces' => k = l
    BY <2>2 DEF HeapInv, Held
  <2>5. ASSUME NEW d \in Chunk, NEW x \in Nat, NEW k \in Request, <<d, x, k>> \in pieces'
        PROVE  Size(mem'[d], x) >= k
    <3>1. x \in UsedOf(mem[d]) /\ ~(d = c /\ x = o) /\ Size(mem[d], x) >= k
      BY <2>2, <2>5 DEF HeapInv, Held
    <3>2. Size(mem'[d], x) = Size(mem[d], x)
      BY <3>1, <1>1 DEF Taken, InUse
    <3> QED BY <3>1, <3>2
  <2> QED BY <2>3, <2>4, <2>5 DEF Held
<1> QED BY <1>2, <1>3, <1>4, <1>5 DEF HeapInv

-----------------------------------------------------------------------------
(* The actions.                                                            *)

\* The block the list is searched for.
LEMMA FitBlock ==
  ASSUME HeapInv, NEW n \in Request, \E i \in DOMAIN free_blocks : Fits(i, n)
  PROVE  LET b == free_blocks[FirstFit(n)]
         IN /\ b \in Chunk \X Nat /\ b = <<b[1], b[2]>> /\ b \in ToSet(free_blocks)
            /\ Mapped(b[1]) /\ Sound(mem[b[1]])
            /\ b[2] \in FreeOf(mem[b[1]]) /\ Size(mem[b[1]], b[2]) >= n
<1> DEFINE b == free_blocks[FirstFit(n)]
<1>1. free_blocks \in Seq(Chunk \X Nat)
  BY DEF HeapInv, Linked
<1>2. FirstFit(n) \in DOMAIN free_blocks /\ Fits(FirstFit(n), n)
  BY <1>1, FirstFits
<1>3. b \in Chunk \X Nat /\ b \in ToSet(free_blocks)
  BY <1>1, <1>2 DEF ToSet
<1>4. b = <<b[1], b[2]>> /\ b[1] \in Chunk /\ b[2] \in Nat
  BY <1>3
<1>5. Size(mem[b[1]], b[2]) >= n
  BY <1>2 DEF Fits, FreeSize
<1> HIDE DEF b
<1>6. b[2] \in FreeOf(mem[b[1]])
  BY <1>3, <1>4 DEF HeapInv, Linked
<1>7. Mapped(b[1])
  BY <1>6, NothingIn DEF Mapped
<1> QED BY <1>3, <1>4, <1>5, <1>6, <1>7 DEF b, HeapInv, Chunks

\* Each way to allocate hands out a block.
LEMMA AllocCutHands ==
  ASSUME HeapInv, NEW n \in Request, AllocCut(n)
  PROVE  \E c, g, m : Handed(c, g, m, n) /\ Relinked(c, g) /\ Counted /\ Paid(c, g, m)
<1> DEFINE c == free_blocks[FirstFit(n)][1]
           o == free_blocks[FirstFit(n)][2]
           h == mem[c]
           rest == Size(h, o) - n
           g == Cut(h, o, n)
           m == o + rest
<1>1. /\ c \in Chunk /\ Sound(h) /\ o \in FreeOf(h) /\ Size(h, o) >= n /\ Mapped(c)
  BY FitBlock DEF AllocCut
<1>2. /\ rest > MinBlock /\ mem' = [mem EXCEPT ![c] = Cut(@, o, n)]
      /\ pieces' = pieces \cup {<<c, m, n>>}
      /\ allocated_size' = allocated_size + n
      /\ free_blocks' = free_blocks /\ total_size' = total_size
  BY DEF AllocCut
<1>3. mem' = [mem EXCEPT ![c] = g]
  BY <1>2
<1>4. n \in Nat /\ n >= MinBlock /\ MinBlock \in Nat
  BY Numbers
<1>5. Size(h, o) \in Nat
  BY <1>1, HeaderParts DEF Sound, Layout, FreeOf
<1> HIDE DEF c, o
<1>6. CanCut(h, o, n)
  BY <1>1, <1>2, <1>4, <1>5 DEF CanCut
<1>7. /\ Sound(g) /\ FreeOf(g) = FreeOf(h)
      /\ InUse(h, g, UsedOf(h) \cup {m}) /\ Size(g, m) = n /\ m \in Nat /\ m \notin UsedOf(h)
      /\ Ends(g) = Ends(h)
  BY <1>1, <1>6, CutStep
<1> HIDE DEF h, g, rest, m
<1>8. Handed(c, g, m, n)
  <2>1. m \notin UsedOf(mem[c]) /\ InUse(mem[c], g, UsedOf(mem[c]) \cup {m})
    BY <1>7 DEF h
  <2>2. Size(g, m) >= n
    BY <1>4, <1>7
  <2>3. c \in Chunk /\ m \in Nat /\ Sound(g) /\ pieces' = pieces \cup {<<c, m, n>>}
    BY <1>1, <1>2, <1>7
  <2> QED BY <2>1, <2>2, <2>3, <1>3 DEF Handed
<1>9. Relinked(c, g)
  BY <1>1, <1>2, <1>7 DEF Relinked, HeapInv, Linked, h
<1>10. Counted
  BY <1>2, <1>4 DEF Counted, HeapInv, Types
<1>11. Paid(c, g, m)
  BY <1>1, <1>2, <1>7 DEF Paid, h
<1> QED BY <1>8, <1>9, <1>10, <1>11

\* A block that is not worth splitting.
LEMMA AllocWholeHands ==
  ASSUME HeapInv, NEW n \in Request, AllocWhole(n)
  PROVE  \E c, g, m : Handed(c, g, m, n) /\ Relinked(c, g) /\ Counted /\ Paid(c, g, m)
<1> DEFINE b == free_blocks[FirstFit(n)]
           c == b[1]
           o == b[2]
           h == mem[c]
           g == Put(h, o, Header(Size(h, o), h[o].prev_size))
<1>1. /\ c \in Chunk /\ o \in Nat /\ Sound(h) /\ o \in FreeOf(h) /\ Size(h, o) >= n
      /\ b = <<c, o>> /\ b \in ToSet(free_blocks) /\ Mapped(c)
  BY FitBlock DEF AllocWhole
<1>2. /\ free_blocks' = Unlink(free_blocks, <<c, o>>)
      /\ mem' = [mem EXCEPT ![c] = Put(@, o, Header(Size(h, o), @[o].prev_size))]
      /\ allocated_size' = allocated_size + Size(h, o)
      /\ pieces' = pieces \cup {<<c, o, n>>}
      /\ total_size' = total_size
  BY DEF AllocWhole
<1>3. mem' = [mem EXCEPT ![c] = g]
  BY <1>2
<1>4. Size(h, o) \in Nat
  BY <1>1, HeaderParts DEF Sound, Layout, FreeOf
<1> HIDE DEF c, o
<1>5. /\ Sound(g) /\ FreeOf(g) = FreeOf(h) \ {o}
      /\ InUse(h, g, UsedOf(h) \cup {o}) /\ Size(g, o) = Size(h, o) /\ o \notin UsedOf(h)
      /\ Ends(g) = Ends(h)
  BY <1>1, FillStep
<1> HIDE DEF h, g
<1>6. Handed(c, g, o, n)
  BY <1>1, <1>2, <1>3, <1>5 DEF Handed, h
<1>7. /\ free_blocks' \in Seq(Chunk \X Nat) /\ Injective(free_blocks')
      /\ ToSet(free_blocks') = ToSet(free_blocks) \ {<<c, o>>}
  <2>1. free_blocks \in Seq(Chunk \X Nat) /\ Injective(free_blocks)
    BY DEF HeapInv, Linked
  <2>2. <<c, o>> \in ToSet(free_blocks)
    BY <1>1
  <2> DEFINE r == Unlink(free_blocks, <<c, o>>)
  <2>3. r \in Seq(Chunk \X Nat) /\ Injective(r) /\ ToSet(r) = ToSet(free_blocks) \ {<<c, o>>}
    BY <2>1, <2>2, Unlinked
  <2>4. free_blocks' = r
    BY <1>2
  <2> HIDE DEF r
  <2> QED BY <2>3, <2>4 DEF Injective, ToSet
<1>8. Relinked(c, g)
  BY <1>1, <1>5, <1>7 DEF Relinked, HeapInv, Linked, h
<1>9. Counted
  BY <1>2, <1>4 DEF Counted, HeapInv, Types
<1>10. Paid(c, g, o)
  BY <1>1, <1>2, <1>5 DEF Paid, h
<1> QED BY <1>6, <1>8, <1>9, <1>10

\* A new chunk.
LEMMA AllocChunkHands ==
  ASSUME HeapInv, NEW n \in Request, AllocChunk(n)
  PROVE  \E c, g, m : Handed(c, g, m, n) /\ Relinked(c, g) /\ Counted /\ Paid(c, g, m)
<1>1. PICK c \in Chunk :
        /\ ~Mapped(c)
        /\ \/ /\ Capacity(n) - n > MinBlock
              /\ mem' = [mem EXCEPT ![c] = SplitChunk(n)]
              /\ free_blocks' = <<<<c, n>>>> \o free_blocks
              /\ allocated_size' = allocated_size + n
           \/ /\ mem' = [mem EXCEPT ![c] = WholeChunk(n)]
              /\ allocated_size' = allocated_size + Capacity(n)
              /\ free_blocks' = free_blocks
        /\ total_size' = total_size + Capacity(n)
        /\ pieces' = pieces \cup {<<c, 0, n>>}
  BY DEF AllocChunk, SplitChunk, WholeChunk
<1>2. /\ n \in Nat /\ n >= MinBlock /\ MinBlock \in Nat /\ MinBlock >= 2
      /\ Capacity(n) \in Nat /\ Capacity(n) >= n
      /\ allocated_size \in Int /\ total_size \in Int
  BY Numbers, CapacityHolds DEF HeapInv, Types
<1>3. mem[c] = <<>> /\ FreeOf(mem[c]) = {} /\ UsedOf(mem[c]) = {}
  BY <1>1, NothingIn DEF Mapped
<1>4. Counted
  BY <1>1, <1>2 DEF Counted
<1>5. CASE /\ Capacity(n) - n > MinBlock
           /\ mem' = [mem EXCEPT ![c] = SplitChunk(n)]
           /\ free_blocks' = <<<<c, n>>>> \o free_blocks
           /\ allocated_size' = allocated_size + n
  <2> DEFINE g == SplitChunk(n)
  <2>1. Sound(g) /\ FreeOf(g) = {n} /\ Size(g, 0) = n /\ UsedOf(g) = {0} /\ Ends(g) = {Capacity(n)}
    BY <1>2, <1>5, SplitLayout DEF Sound
  <2> HIDE DEF g
  <2>4. InUse(mem[c], g, UsedOf(mem[c]) \cup {0})
    BY <1>3, <2>1 DEF InUse
  <2>5. Handed(c, g, 0, n)
    BY <1>1, <1>2, <1>3, <1>5, <2>1, <2>4 DEF Handed, g
  <2>6. <<c, n>> \notin ToSet(free_blocks)
    BY <1>2, <1>3 DEF HeapInv, Linked
  <2>7. /\ free_blocks' \in Seq(Chunk \X Nat) /\ Injective(free_blocks')
        /\ ToSet(free_blocks') = ToSet(free_blocks) \cup {<<c, n>>}
    <3> DEFINE b == <<c, n>>
               r == Push(b, free_blocks)
    <3>1. /\ free_blocks \in Seq(Chunk \X Nat) /\ Injective(free_blocks)
          /\ b \in Chunk \X Nat /\ b \notin ToSet(free_blocks)
      BY <1>2, <2>6 DEF HeapInv, Linked
    <3>2. free_blocks' = r
      BY <1>5 DEF Push
    <3> HIDE DEF b
    <3>3. r \in Seq(Chunk \X Nat) /\ Injective(r) /\ ToSet(r) = ToSet(free_blocks) \cup {b}
      BY <3>1, Pushed
    <3> HIDE DEF r
    <3>4. ToSet(free_blocks') = ToSet(r)
      BY <3>2 DEF ToSet
    <3>5. Injective(free_blocks')
      BY <3>2, <3>3 DEF Injective
    <3> QED BY <3>2, <3>3, <3>4, <3>5 DEF b
  <2>8. Relinked(c, g)
    BY <1>3, <2>1, <2>7 DEF Relinked, HeapInv, Linked
  <2>9. Paid(c, g, 0)
    BY <1>1, <1>2, <1>5, <2>1 DEF Paid
  <2> QED BY <1>4, <2>5, <2>8, <2>9
<1>6. CASE /\ mem' = [mem EXCEPT ![c] = WholeChunk(n)]
           /\ free_blocks' = free_blocks
           /\ allocated_size' = allocated_size + Capacity(n)
  <2> DEFINE g == WholeChunk(n)
  <2>1. /\ Sound(g) /\ FreeOf(g) = {} /\ Size(g, 0) = Capacity(n) /\ UsedOf(g) = {0}
        /\ Ends(g) = {Capacity(n)}
    BY WholeLayout DEF Sound
  <2> HIDE DEF g
  <2>2. InUse(mem[c], g, UsedOf(mem[c]) \cup {0})
    BY <1>3, <2>1 DEF InUse
  <2>3. Handed(c, g, 0, n)
    BY <1>1, <1>2, <1>3, <1>6, <2>1, <2>2 DEF Handed, g
  <2>4. Relinked(c, g)
    BY <1>3, <1>6, <2>1 DEF Relinked, HeapInv, Linked
  <2>5. Paid(c, g, 0)
    BY <1>1, <1>2, <1>6, <2>1 DEF Paid
  <2> QED BY <1>4, <2>3, <2>4, <2>5
<1> QED BY <1>1, <1>5, <1>6

\* What FreeBlock computes.
Prevs(c, o) == JoinPrev(mem[c], o)
Behind(c, o) == After(Prevs(c, o), At(mem[c], o))
Result(c, o) == JoinNext(Prevs(c, o), At(mem[c], o))
List1(c, o) == IF At(mem[c], o) = o THEN <<<<c, o>>>> \o free_blocks ELSE free_blocks
List2(c, o) == IF Kind(Prevs(c, o), Behind(c, o)) = Free
               THEN Unlink(List1(c, o), <<c, Behind(c, o)>>) ELSE List1(c, o)
Released(c, o) == Size(Result(c, o), At(mem[c], o))
Left(c, o) == allocated_size - mem[c][o].size

\* FreeBlock in these terms.
LEMMA FreeBlockDoes ==
  ASSUME NEW c, NEW o, FreeBlock(c, o)
  PROVE  /\ allocated_size' = Left(c, o)
         /\ pieces' = {b \in pieces : <<b[1], b[2]>> # <<c, o>>}
         /\ \/ /\ Prev(Result(c, o), At(mem[c], o)) = 0
               /\ Kind(Result(c, o), At(mem[c], o) + Released(c, o)) = Terminator
               /\ Spare(Released(c, o), Left(c, o))
               /\ mem' = [mem EXCEPT ![c] = <<>>]
               /\ free_blocks' = Unlink(List2(c, o), <<c, At(mem[c], o)>>)
               /\ total_size' = total_size - Released(c, o)
            \/ /\ mem' = [mem EXCEPT ![c] = Result(c, o)]
               /\ free_blocks' = List2(c, o)
               /\ total_size' = total_size
BY DEF FreeBlock, Prevs, Behind, Result, List1, List2, Released, Left, At, Kind, Prev, First

\* The chunk and the list after the two joins.
LEMMA Merged ==
  ASSUME HeapInv, NEW c \in Chunk, NEW o \in UsedOf(mem[c])
  PROVE  /\ Sound(Result(c, o)) /\ InUse(mem[c], Result(c, o), UsedOf(mem[c]) \ {o})
         /\ At(mem[c], o) \in FreeOf(Result(c, o)) /\ o \in Nat /\ At(mem[c], o) \in Nat
         /\ Ends(Result(c, o)) = Ends(mem[c])
         /\ List2(c, o) \in Seq(Chunk \X Nat) /\ Injective(List2(c, o))
         /\ \A d \in Chunk, x \in Nat : <<d, x>> \in ToSet(List2(c, o)) <=>
              x \in FreeOf(IF d = c THEN Result(c, o) ELSE mem[d])
<1> DEFINE h == mem[c]
           at == At(h, o)
           p == Prevs(c, o)
           g == Result(c, o)
           q == Behind(c, o)
           l1 == List1(c, o)
           l2 == List2(c, o)
<1>1. Sound(h) /\ o \in UsedOf(h) /\ o \in Nat /\ o \notin FreeOf(h) /\ FreeOf(h) \subseteq Nat
  BY BlocksNat, NothingIn DEF HeapInv, Chunks, Mapped, UsedOf, FreeOf
<1>2. p = JoinPrev(h, o) /\ g = JoinNext(p, at) /\ q = After(p, at)
  BY DEF Prevs, Result, Behind
<1> HIDE DEF h, at, p, g, q
<1>3. /\ Layout(p) /\ Apart(p, {at}) /\ at \in FreeOf(p)
      /\ FreeOf(p) = FreeOf(h) \cup {at}
      /\ at # o => at \in FreeOf(h)
      /\ InUse(h, p, UsedOf(h) \ {o}) /\ Ends(p) = Ends(h)
  BY <1>1, <1>2, JoinPrevStep DEF at
<1>4. /\ Sound(g) /\ at \in FreeOf(g) /\ InUse(p, g, UsedOf(p)) /\ Ends(g) = Ends(p)
      /\ Kind(p, q) = Free => q \in FreeOf(p) /\ FreeOf(g) = FreeOf(p) \ {q}
      /\ Kind(p, q) # Free => FreeOf(g) = FreeOf(p)
  BY <1>2, <1>3, JoinNextStep
<1>5. InUse(h, g, UsedOf(h) \ {o})
  BY <1>3, <1>4 DEF InUse
<1>6. at \in Nat /\ FreeOf(p) \subseteq Nat
  BY <1>1, <1>3
<1>7. /\ free_blocks \in Seq(Chunk \X Nat) /\ Injective(free_blocks)
      /\ \A d \in Chunk, x \in Nat :
           <<d, x>> \in ToSet(free_blocks) <=> x \in FreeOf(IF d = c THEN h ELSE mem[d])
  BY DEF HeapInv, Linked, h
<1>8. /\ l1 \in Seq(Chunk \X Nat) /\ Injective(l1)
      /\ \A d \in Chunk, x \in Nat :
           <<d, x>> \in ToSet(l1) <=> x \in FreeOf(IF d = c THEN p ELSE mem[d])
  <2>1. CASE at = o
    <3>1. l1 = <<<<c, o>>>> \o free_blocks
      BY <2>1 DEF List1, at, h
    <3>2. <<c, o>> \notin ToSet(free_blocks) /\ <<c, o>> \in Chunk \X Nat
      BY <1>1, <1>7
    <3>3. l1 \in Seq(Chunk \X Nat) /\ Injective(l1) /\ ToSet(l1) = ToSet(free_blocks) \cup {<<c, o>>}
      <4> DEFINE b == <<c, o>>
                 r == Push(b, free_blocks)
      <4>1. b \in Chunk \X Nat /\ b \notin ToSet(free_blocks) /\ l1 = r
        BY <3>1, <3>2 DEF Push
      <4> HIDE DEF b, l1
      <4>2. r \in Seq(Chunk \X Nat) /\ Injective(r) /\ ToSet(r) = ToSet(free_blocks) \cup {b}
        BY <4>1, <1>7, Pushed
      <4> HIDE DEF r
      <4> QED BY <4>1, <4>2 DEF b
    <3> HIDE DEF l1
    <3> QED BY <3>3, <2>1, <1>1, <1>3, <1>7
  <2>2. CASE at # o
    <3>1. l1 = free_blocks
      BY <2>2 DEF List1, at, h
    <3>2. FreeOf(p) = FreeOf(h)
      BY <2>2, <1>3
    <3> QED BY <3>1, <3>2, <1>7
  <2> QED BY <2>1, <2>2
<1>9. /\ l2 \in Seq(Chunk \X Nat) /\ Injective(l2)
      /\ \A d \in Chunk, x \in Nat :
           <<d, x>> \in ToSet(l2) <=> x \in FreeOf(IF d = c THEN g ELSE mem[d])
  <2>1. CASE Kind(p, q) = Free
    <3>1. l2 = Unlink(l1, <<c, q>>)
      BY <2>1 DEF List2, p, q
    <3> HIDE DEF l1, l2
    <3>2. <<c, q>> \in ToSet(l1)
      BY <2>1, <1>4, <1>6, <1>8
    <3>3. l2 \in Seq(Chunk \X Nat) /\ Injective(l2) /\ ToSet(l2) = ToSet(l1) \ {<<c, q>>}
      BY <3>1, <3>2, <1>8, Unlinked
    <3> QED BY <3>3, <2>1, <1>4, <1>8
  <2>2. CASE Kind(p, q) # Free
    <3>1. l2 = l1
      BY <2>2 DEF List2, p, q
    <3>2. FreeOf(g) = FreeOf(p)
      BY <2>2, <1>4
    <3> QED BY <3>1, <3>2, <1>8
  <2> QED BY <2>1, <2>2
<1> QED BY <1>1, <1>3, <1>4, <1>5, <1>6, <1>9 DEF g, h, at

\* When the chunk is released nothing else is in it.
LEMMA ReleasedEmpty ==
  ASSUME HeapInv, NEW c \in Chunk, NEW o \in UsedOf(mem[c]),
         Prev(Result(c, o), At(mem[c], o)) = 0,
         Kind(Result(c, o), At(mem[c], o) + Released(c, o)) = Terminator
  PROVE  /\ FreeOf(Result(c, o)) = {At(mem[c], o)} /\ UsedOf(Result(c, o)) = {}
         /\ Ends(mem[c]) = {Released(c, o)} /\ Released(c, o) \in Nat
<1> DEFINE g == Result(c, o)
           at == At(mem[c], o)
<1>1. Layout(g) /\ at \in FreeOf(g) /\ Ends(g) = Ends(mem[c])
  BY Merged DEF Sound
<1>2. Prev(g, at) = 0 /\ Kind(g, at + Size(g, at)) = Terminator
  BY DEF Released
<1> HIDE DEF g, at
<1>3. FreeOf(g) = {at} /\ UsedOf(g) = {}
  BY <1>1, <1>2, NothingElse
<1>4. at \in DOMAIN g /\ Kind(g, at) # Terminator /\ Size(g, at) \in Nat
  BY <1>1, HeaderParts, Numbers DEF FreeOf, Layout
<1>5. at = 0
  BY <1>1, <1>2, <1>4, Numbers DEF Layout, Backward
<1>6. Size(g, at) \in Ends(g)
  BY <1>1, <1>2, <1>4, <1>5 DEF Ends, Layout, Onward
<1>7. \A x, y \in Ends(g) : x = y
  BY <1>1 DEF Ends, Layout, Ended
<1> QED BY <1>1, <1>3, <1>4, <1>6, <1>7 DEF g, at, Released

\* free takes the block back.
LEMMA FreeBlockTakes ==
  ASSUME HeapInv, NEW c \in Chunk, NEW o \in UsedOf(mem[c]), FreeBlock(c, o)
  PROVE  \E g : Taken(c, g, o) /\ Relinked(c, g) /\ Counted /\ Repaid(c, g, o)
<1> DEFINE at == At(mem[c], o)
           g == Result(c, o)
           l2 == List2(c, o)
<1>1. /\ Sound(g) /\ InUse(mem[c], g, UsedOf(mem[c]) \ {o}) /\ Ends(g) = Ends(mem[c])
      /\ at \in FreeOf(g) /\ at \in Nat
      /\ l2 \in Seq(Chunk \X Nat) /\ Injective(l2)
      /\ \A d \in Chunk, x \in Nat :
           <<d, x>> \in ToSet(l2) <=> x \in FreeOf(IF d = c THEN g ELSE mem[d])
  BY Merged
<1>2. /\ allocated_size' = Left(c, o)
      /\ pieces' = {b \in pieces : <<b[1], b[2]>> # <<c, o>>}
  BY DEF FreeBlock, Left
<1>3. Left(c, o) \in Int /\ Released(c, o) \in Int /\ total_size \in Int
  <2>1. mem[c][o].size \in Int
    <3>1. Mapped(c) /\ o \in DOMAIN mem[c]
      BY NothingIn DEF Mapped, UsedOf
    <3>2. Kind(mem[c], o) \in Nat
      BY <3>1, HeaderParts DEF HeapInv, Chunks, Sound, Layout
    <3> QED BY <3>2 DEF Kind
  <2>2. Released(c, o) \in Nat
    BY <1>1, HeaderParts DEF Sound, Layout, FreeOf, Released
  <2> QED BY <2>1, <2>2 DEF Left, HeapInv, Types
<1>6. allocated_size' = allocated_size - Size(mem[c], o)
  BY <1>2 DEF Left, UsedOf, Kind, Size
<1>4. CASE /\ Prev(Result(c, o), At(mem[c], o)) = 0
           /\ Kind(Result(c, o), At(mem[c], o) + Released(c, o)) = Terminator
           /\ mem' = [mem EXCEPT ![c] = <<>>]
           /\ free_blocks' = Unlink(List2(c, o), <<c, At(mem[c], o)>>)
           /\ total_size' = total_size - Released(c, o)
  <2>1. FreeOf(g) = {at} /\ UsedOf(g) = {} /\ Ends(mem[c]) = {Released(c, o)} /\ Released(c, o) \in Nat
    BY <1>4, ReleasedEmpty
  <2> HIDE DEF g, l2, at
  <2>2. UsedOf(mem[c]) \ {o} = {}
    BY <1>1, <2>1 DEF InUse
  <2>3. Taken(c, <<>>, o)
    BY <1>2, <1>4, <2>2, NothingIn DEF Taken, InUse
  <2> DEFINE r == Unlink(l2, <<c, at>>)
  <2>4. <<c, at>> \in ToSet(l2)
    BY <1>1
  <2>5. r \in Seq(Chunk \X Nat) /\ Injective(r) /\ ToSet(r) = ToSet(l2) \ {<<c, at>>}
    BY <1>1, <2>4, Unlinked
  <2>6. free_blocks' = r
    BY <1>4 DEF at, l2
  <2> HIDE DEF r
  <2>7. Injective(free_blocks') /\ ToSet(free_blocks') = ToSet(r)
    BY <2>5, <2>6 DEF Injective, ToSet
  <2>8. Relinked(c, <<>>)
    BY <1>1, <2>1, <2>5, <2>6, <2>7, NothingIn DEF Relinked
  <2>9. Counted
    BY <1>2, <1>3, <1>4 DEF Counted
  <2>10. Repaid(c, <<>>, o)
    BY <1>4, <1>6, <2>1 DEF Repaid
  <2> QED BY <2>3, <2>8, <2>9, <2>10
<1>5. CASE /\ mem' = [mem EXCEPT ![c] = Result(c, o)]
           /\ free_blocks' = List2(c, o)
           /\ total_size' = total_size
  <2>1. Taken(c, g, o)
    BY <1>1, <1>2, <1>5 DEF Taken
  <2>2. free_blocks' = l2
    BY <1>5
  <2> HIDE DEF g, l2, at
  <2>3. Injective(free_blocks') /\ ToSet(free_blocks') = ToSet(l2)
    BY <1>1, <2>2 DEF Injective, ToSet
  <2>4. Relinked(c, g)
    BY <1>1, <2>2, <2>3 DEF Relinked
  <2>5. Counted
    BY <1>2, <1>3, <1>5 DEF Counted
  <2>6. g # <<>>
    BY <1>1 DEF Sound, Layout, Started
  <2>7. Repaid(c, g, o)
    BY <1>1, <1>5, <1>6, <2>6 DEF Repaid
  <2> QED BY <2>1, <2>4, <2>5, <2>7
<1> QED BY FreeBlockDoes, <1>4, <1>5

-----------------------------------------------------------------------------
(* The invariant holds.                                                    *)

\* At first nothing is mapped.
LEMMA InitInv == ASSUME Init PROVE HeapInv
<1>1. mem = [c \in Chunk |-> <<>>] /\ free_blocks = <<>> /\ pieces = {}
      /\ allocated_size = 0 /\ total_size = 0
  BY DEF Init
<1>2. \A c \in Chunk : mem[c] = <<>> /\ FreeOf(mem[c]) = {} /\ UsedOf(mem[c]) = {}
  BY <1>1, NothingIn
<1>3. Types /\ Chunks /\ Held
  BY <1>1, <1>2 DEF Types, Chunks, Held, Mapped
<1>4. Linked
  BY <1>1, <1>2 DEF Linked, Injective, ToSet
<1> QED BY <1>3, <1>4 DEF HeapInv

\* A step of alloc hands out a block, a step of free takes one back.
LEMMA Steps ==
  ASSUME HeapInv, Next
  PROVE  \/ \E c, g, m, n : Handed(c, g, m, n) /\ Relinked(c, g) /\ Counted /\ Paid(c, g, m)
         \/ \E c, g, o : Taken(c, g, o) /\ Relinked(c, g) /\ Counted /\ Repaid(c, g, o)
<1>1. CASE Alloc
  BY <1>1, AllocCutHands, AllocWholeHands, AllocChunkHands DEF Alloc
<1>2. CASE FreeAny
  <2>1. PICK b \in pieces : FreeBlock(b[1], b[2])
    BY <1>2 DEF FreeAny
  <2>2. /\ b \in Chunk \X Nat \X Request /\ b = <<b[1], b[2], b[3]>>
        /\ b[1] \in Chunk /\ b[2] \in Nat /\ b[3] \in Request
    BY DEF HeapInv, Types
  <2>3. b[2] \in UsedOf(mem[b[1]])
    BY <2>2 DEF HeapInv, Held
  <2> QED BY <2>1, <2>2, <2>3, FreeBlockTakes
<1> QED BY <1>1, <1>2 DEF Next

\* Every step keeps the invariant.
LEMMA NextInv == ASSUME HeapInv, [Next]_vars PROVE HeapInv'
<1>1. CASE Next
  BY <1>1, Steps, HandedInv, TakenInv
<1>2. CASE UNCHANGED vars
  <2>1. /\ mem' = mem /\ free_blocks' = free_blocks /\ pieces' = pieces
        /\ allocated_size' = allocated_size /\ total_size' = total_size
    BY <1>2 DEF vars
  <2>2. Types' /\ Chunks' /\ Held'
    BY <2>1 DEF HeapInv, Types, Chunks, Held, Mapped
  <2>3. Linked'
    BY <2>1 DEF HeapInv, Linked, Injective, ToSet
  <2> QED BY <2>2, <2>3 DEF HeapInv
<1> QED BY <1>1, <1>2

\* The invariant holds in every state: alloc and free keep the tiling, the list
\* and the blocks in use in step.
THEOREM AlwaysHeapInv == Spec => []HeapInv
<1>1. Init => HeapInv
  BY InitInv
<1>2. HeapInv /\ [Next]_vars => HeapInv'
  BY NextInv
<1> QED BY <1>1, <1>2, PTL DEF Spec

-----------------------------------------------------------------------------
(* What it gives.                                                          *)

\* An injective sequence is as long as its range is large.
LEMMA LengthIsCardinality ==
  ASSUME NEW S, NEW s \in Seq(S), Injective(s)
  PROVE  Len(s) = Cardinality(ToSet(s))
<1>1. Len(s) \in Nat /\ DOMAIN s = 1..Len(s) /\ s \in [1..Len(s) -> S]
  OBVIOUS
<1>2. s \in Bijection(1..Len(s), ToSet(s))
  <2>1. s \in [1..Len(s) -> ToSet(s)]
    BY <1>1 DEF ToSet
  <2>2. \A i, j \in 1..Len(s) : s[i] = s[j] => i = j
    BY <1>1 DEF Injective
  <2>3. \A x \in ToSet(s) : \E i \in 1..Len(s) : s[i] = x
    BY <1>1 DEF ToSet
  <2> QED BY <2>1, <2>2, <2>3 DEF Bijection, Injection, Surjection, IsInjective
<1>3. ExistsBijection(1..Len(s), ToSet(s))
  BY <1>2 DEF ExistsBijection
<1>4. IsFiniteSet(1..Len(s)) /\ Cardinality(1..Len(s)) = Len(s)
  BY <1>1, FS_Interval
<1> QED BY <1>3, <1>4, FS_Bijection

\* The invariant implies the tiling.
LEMMA TiledNow == ASSUME HeapInv PROVE ChunksTiled
<1>1. Tiling
  <2> SUFFICES ASSUME NEW c \in Chunk, Mapped(c)
               PROVE  /\ 0 \in DOMAIN mem[c] /\ mem[c][0].prev_size = First
                      /\ Cardinality({o \in DOMAIN mem[c] : mem[c][o].size = Terminator}) = 1
                      /\ \A o \in Blocks(c) :
                           /\ After(mem[c], o) \in DOMAIN mem[c]
                           /\ mem[c][After(mem[c], o)].prev_size = Size(mem[c], o)
                           /\ \A x \in DOMAIN mem[c] : ~(o < x /\ x < After(mem[c], o))
    BY DEF Tiling, MappedChunks
  <2> DEFINE h == mem[c]
  <2>1. Layout(h)
    BY DEF HeapInv, Chunks, Sound
  <2>2. \A x \in DOMAIN h : x \in Nat /\ Size(h, x) \in Nat
    BY <2>1, HeaderParts DEF Layout
  <2> HIDE DEF h
  <2>3. 0 \in DOMAIN h /\ h[0].prev_size = First
    BY <2>1, Numbers DEF Layout, Started, Prev
  <2>4. Cardinality({o \in DOMAIN h : h[o].size = Terminator}) = 1
    <3>1. PICK t \in DOMAIN h : /\ Kind(h, t) = Terminator
                                /\ \A x \in DOMAIN h : x <= t /\ (Kind(h, x) = Terminator => x = t)
      BY <2>1 DEF Layout, Ended
    <3>2. {o \in DOMAIN h : h[o].size = Terminator} = {t}
      BY <3>1 DEF Kind
    <3> QED BY <3>2, FS_Singleton
  <2>5. ASSUME NEW o \in DOMAIN h, h[o].size # Terminator
        PROVE  /\ After(h, o) \in DOMAIN h /\ h[After(h, o)].prev_size = Size(h, o)
               /\ \A x \in DOMAIN h : ~(o < x /\ x < After(h, o))
    <3>1. /\ After(h, o) = o + Size(h, o)
          /\ o + Size(h, o) \in DOMAIN h /\ Prev(h, o + Size(h, o)) = Size(h, o)
          /\ \A x \in DOMAIN h : x <= o \/ x >= o + Size(h, o)
      BY <2>1, <2>5 DEF After, Layout, Onward, Kind
    <3> QED BY <3>1, <2>2 DEF Prev
  <2> QED BY <2>3, <2>4, <2>5 DEF Blocks, h
<1>2. ToSet(free_blocks) = FreeOnes
  <2>1. free_blocks \in Seq(Chunk \X Nat)
    BY DEF HeapInv, Linked
  <2>2. ToSet(free_blocks) \subseteq Chunk \X Nat
    BY <2>1 DEF ToSet
  <2>3. FreeOnes \subseteq Chunk \X Nat
    <3> SUFFICES ASSUME NEW c \in Chunk, NEW o \in DOMAIN mem[c], IsFree(c, o)
                 PROVE  o \in Nat
      BY DEF FreeOnes
    <3> QED BY BlocksNat DEF FreeOf, IsFree, Kind
  <2>4. \A c \in Chunk, o \in Nat : <<c, o>> \in FreeOnes <=> o \in FreeOf(mem[c])
    BY DEF FreeOnes, FreeOf, IsFree, Kind
  <2>5. \A c \in Chunk, o \in Nat : <<c, o>> \in ToSet(free_blocks) <=> <<c, o>> \in FreeOnes
    BY <2>4 DEF HeapInv, Linked
  <2> HIDE DEF FreeOnes
  <2> QED BY <2>2, <2>3, <2>5
<1>3. Len(free_blocks) = Cardinality(FreeOnes)
  BY <1>2, LengthIsCardinality DEF HeapInv, Linked
<1>4. ASSUME NEW c \in Chunk, NEW o \in Blocks(c), IsFree(c, o)
      PROVE  mem[c][After(mem[c], o)].size # Free
  <2>1. o \in FreeOf(mem[c])
    BY <1>4 DEF Blocks, IsFree, FreeOf, Kind
  <2>2. Apart(mem[c], {})
    BY <2>1, NothingIn DEF HeapInv, Chunks, Mapped, Sound
  <2> QED BY <2>1, <2>2 DEF Apart, Kind, After
<1> QED BY <1>1, <1>2, <1>3, <1>4 DEF ChunksTiled, FreeListExact

\* The blocks tile each chunk up to its terminator, the sizes of the previous
\* blocks are right, and the list holds exactly the free blocks, no two of
\* which touch.
THEOREM TilingKept == Spec => []ChunksTiled
<1>1. HeapInv => ChunksTiled
  BY TiledNow
<1> QED BY <1>1, AlwaysHeapInv, PTL

\* What a step that gives a chunk back leaves.
LEMMA ReleaseStep ==
  ASSUME HeapInv, Next, NEW d \in Chunk, Mapped(d), mem'[d] = <<>>
  PROVE  /\ \A b \in pieces' : b[1] # d
         /\ 2 * (total_size' - allocated_size') >= allocated_size'
<1>1. \A b \in pieces' : b[1] # d
  <2>1. HeapInv'
    BY NextInv
  <2>2. UsedOf(mem'[d]) = {}
    BY NothingIn
  <2>3. \A o \in Nat, n \in Request : <<d, o, n>> \notin pieces'
    BY <2>1, <2>2 DEF HeapInv, Held
  <2>4. pieces' \subseteq Chunk \X Nat \X Request
    BY <2>1 DEF HeapInv, Types
  <2> SUFFICES ASSUME NEW b \in pieces', b[1] = d PROVE FALSE
    OBVIOUS
  <2>5. b = <<d, b[2], b[3]>> /\ b[2] \in Nat /\ b[3] \in Request
    BY <2>4
  <2> QED BY <2>3, <2>5
<1>2. \A g : Sound(g) => g # <<>>
  BY DEF Sound, Layout, Started
<1>3. CASE Alloc
  <2>1. PICK c, g, m, n : Handed(c, g, m, n)
    BY <1>3, AllocCutHands, AllocWholeHands, AllocChunkHands DEF Alloc
  <2>2. mem'[d] = IF d = c THEN g ELSE mem[d]
    BY <2>1 DEF Handed, HeapInv, Types
  <2> QED BY <1>2, <2>1, <2>2 DEF Handed, Mapped
<1>4. CASE FreeAny
  <2>1. PICK b \in pieces : FreeBlock(b[1], b[2])
    BY <1>4 DEF FreeAny
  <2> DEFINE c == b[1]
             o == b[2]
             t == total_size - Released(c, o)
             l == Left(c, o)
  <2>2. /\ b \in Chunk \X Nat \X Request /\ b = <<c, o, b[3]>>
        /\ c \in Chunk /\ o \in Nat /\ b[3] \in Request
    BY DEF HeapInv, Types
  <2>3. FreeBlock(c, o) /\ o \in UsedOf(mem[c])
    BY <2>1, <2>2 DEF HeapInv, Held
  <2> HIDE DEF c, o
  <2>4. Sound(Result(c, o))
    BY <2>2, <2>3, Merged
  <2>5. \A g : mem' = [mem EXCEPT ![c] = g] => mem'[d] = IF d = c THEN g ELSE mem[d]
    BY DEF HeapInv, Types
  <2>6. mem' # [mem EXCEPT ![c] = Result(c, o)]
    BY <1>2, <2>4, <2>5 DEF Mapped
  <2>7. allocated_size' = l /\ total_size' = t /\ Spare(Released(c, o), l)
    BY <2>3, <2>6, FreeBlockDoes
  <2>8. l \in Int /\ t \in Int
    <3>1. HeapInv'
      BY NextInv
    <3> QED BY <2>7, <3>1 DEF HeapInv, Types
  <2>9. t > (l * 3) \div 2
    BY <2>7 DEF Spare
  <2> HIDE DEF t, l
  <2>10. 2 * (t - l) >= l
    BY <2>8, <2>9
  <2> QED BY <1>1, <2>7, <2>10
<1> QED BY <1>1, <1>3, <1>4 DEF Next

\* A chunk is given back only when nothing in it is in use, and what stays
\* leaves half as much free as is in use.
THEOREM ReleaseCorrect == Spec => ReleaseKeepsSpare
<1>1. HeapInv /\ [Next]_vars =>
        [\A c \in Chunk : Mapped(c) /\ mem'[c] = <<>> =>
           /\ \A b \in pieces' : b[1] # c
           /\ 2 * (total_size' - allocated_size') >= allocated_size']_vars
  BY ReleaseStep
<1> QED BY <1>1, AlwaysHeapInv, PTL DEF Spec, ReleaseKeepsSpare

-----------------------------------------------------------------------------
(* The allocator is a heap.                                                *)

Live == {<<b[1], b[2], mem[b[1]][b[2]].size, b[3]>> : b \in pieces}
Item(b) == <<b[1], b[2], Size(mem[b[1]], b[2]), b[3]>>

\* The pieces in use, with the size of their blocks.
Items == {Item(b) : b \in pieces}

\* They are the pieces the heap sees.
LEMMA LiveItems == HeapInv => Live = Items
<1> SUFFICES ASSUME HeapInv PROVE Live = Items
  OBVIOUS
<1>1. ASSUME NEW b \in pieces PROVE mem[b[1]][b[2]].size = Size(mem[b[1]], b[2])
  <2>1. b = <<b[1], b[2], b[3]>> /\ b[1] \in Chunk /\ b[2] \in Nat /\ b[3] \in Request
    BY DEF HeapInv, Types
  <2>2. b[2] \in UsedOf(mem[b[1]])
    BY <2>1 DEF HeapInv, Held
  <2> QED BY <2>2 DEF UsedOf, Kind, Size
<1> QED BY <1>1 DEF Live, Item, Items

\* What a piece is.
LEMMA PieceParts ==
  ASSUME HeapInv, NEW b \in pieces
  PROVE  /\ b = <<b[1], b[2], b[3]>> /\ b[1] \in Chunk /\ b[2] \in Nat /\ b[3] \in Request
         /\ b[2] \in UsedOf(mem[b[1]])
<1>1. b = <<b[1], b[2], b[3]>> /\ b[1] \in Chunk /\ b[2] \in Nat /\ b[3] \in Request
  BY DEF HeapInv, Types
<1> QED BY <1>1 DEF HeapInv, Held

\* Handing out a block allocates in the heap.
LEMMA HandedLive ==
  ASSUME HeapInv, HeapInv', NEW c, NEW g, NEW m, NEW n, Handed(c, g, m, n)
  PROVE  LET x == <<c, m, Size(g, m), n>>
         IN /\ Live' = Live \cup {x} /\ x \notin Live
            /\ c \in Chunk /\ n \in Request /\ Size(g, m) >= n
            /\ \A y \in Live : c # y[1] \/ m + Size(g, m) <= y[2] \/ y[2] + y[3] <= m
<1> DEFINE x == <<c, m, Size(g, m), n>>
<1>1. /\ c \in Chunk /\ m \in Nat /\ n \in Request /\ Layout(g) /\ m \notin UsedOf(mem[c])
      /\ UsedOf(g) = UsedOf(mem[c]) \cup {m}
      /\ \A o \in UsedOf(mem[c]) : Size(g, o) = Size(mem[c], o)
      /\ Size(g, m) >= n /\ pieces' = pieces \cup {<<c, m, n>>}
      /\ \A d \in Chunk : mem'[d] = IF d = c THEN g ELSE mem[d]
  BY DEF Handed, Sound, InUse, HeapInv, Types
<1>2. \A b \in pieces : Item(b)' = Item(b)
  <2> SUFFICES ASSUME NEW b \in pieces PROVE Size(mem'[b[1]], b[2]) = Size(mem[b[1]], b[2])
    BY DEF Item
  <2> QED BY <1>1, PieceParts
<1>3. Item(<<c, m, n>>)' = x
  BY <1>1 DEF Item
<1>a. (HeapInv => Live = Items)'
  BY LiveItems, PTL
<1>4. Live' = {Item(b)' : b \in pieces'}
  BY <1>a DEF Items
<1>5. Live = {Item(b) : b \in pieces}
  BY LiveItems DEF Items
<1>6. Live' = Live \cup {x}
  BY <1>1, <1>2, <1>3, <1>4, <1>5
<1>7. ASSUME NEW b \in pieces
      PROVE  /\ Item(b) # x
             /\ c # b[1] \/ m + Size(g, m) <= b[2] \/ b[2] + Size(mem[b[1]], b[2]) <= m
  <2>1. b[1] = c => b[2] # m
    BY <1>1, PieceParts
  <2>2. Item(b) # x
    BY <2>1 DEF Item
  <2>3. CASE b[1] = c
    <3>1. b[2] \in UsedOf(mem[c])
      BY <2>3, PieceParts
    <3>2. b[2] \in UsedOf(g) /\ m \in UsedOf(g) /\ b[2] # m /\ Size(g, b[2]) = Size(mem[c], b[2])
      BY <1>1, <3>1
    <3>3. m + Size(g, m) <= b[2] \/ b[2] + Size(g, b[2]) <= m
      BY <1>1, <3>2, BlocksDisjoint
    <3> QED BY <2>2, <2>3, <3>2, <3>3
  <2> QED BY <2>2, <2>3
<1>8. x \notin Live /\ \A y \in Live : c # y[1] \/ m + Size(g, m) <= y[2] \/ y[2] + y[3] <= m
  BY <1>5, <1>7 DEF Item
<1> QED BY <1>1, <1>6, <1>8

\* Taking it back releases there.
LEMMA TakenLive ==
  ASSUME HeapInv, HeapInv', NEW c, NEW g, NEW o, Taken(c, g, o)
  PROVE  \E x \in Live : Live' = Live \ {x}
<1>1. /\ c \in Chunk /\ o \in UsedOf(mem[c])
      /\ UsedOf(g) = UsedOf(mem[c]) \ {o}
      /\ \A u \in UsedOf(mem[c]) \ {o} : Size(g, u) = Size(mem[c], u)
      /\ pieces' = {b \in pieces : <<b[1], b[2]>> # <<c, o>>}
      /\ \A d \in Chunk : mem'[d] = IF d = c THEN g ELSE mem[d]
  BY DEF Taken, InUse, HeapInv, Types
<1>2. o \in Nat
  BY <1>1, BlocksNat
<1>3. PICK n \in Request : <<c, o, n>> \in pieces
  BY <1>1, <1>2 DEF HeapInv, Held
<1> DEFINE p == <<c, o, n>>
<1>4. pieces' = pieces \ {p}
  <2>1. ASSUME NEW b \in pieces, b[1] = c, b[2] = o PROVE b = p
    <3>1. b = <<c, o, b[3]>> /\ b[3] \in Request
      BY <2>1, PieceParts
    <3>2. b[3] = n
      BY <1>1, <1>2, <1>3, <3>1 DEF HeapInv, Held
    <3> QED BY <3>1, <3>2
  <2> QED BY <1>1, <2>1
<1>5. \A b \in pieces \ {p} : Item(b)' = Item(b) /\ Item(b) # Item(p)
  <2> SUFFICES ASSUME NEW b \in pieces \ {p}
               PROVE  /\ Size(mem'[b[1]], b[2]) = Size(mem[b[1]], b[2])
                      /\ ~(b[1] = c /\ b[2] = o)
    BY DEF Item
  <2>1. ~(b[1] = c /\ b[2] = o)
    BY <1>1, <1>4
  <2> QED BY <1>1, <2>1, PieceParts
<1>a. (HeapInv => Live = Items)'
  BY LiveItems, PTL
<1>6. Live' = {Item(b)' : b \in pieces'} /\ Live = {Item(b) : b \in pieces}
  BY <1>a, LiveItems DEF Items
<1> HIDE DEF p
<1>7. Live' = Live \ {Item(p)}
  BY <1>4, <1>5, <1>6
<1> QED BY <1>3, <1>6, <1>7 DEF p

\* Every step is one of the heap or leaves it alone.
LEMMA HeapStep == ASSUME HeapInv, [Next]_vars PROVE Abstract!Next \/ UNCHANGED Live
<1>1. HeapInv'
  BY NextInv
<1>2. CASE Next
  <2>1. CASE \E c, g, m, n : Handed(c, g, m, n)
    <3>1. PICK c, g, m, n : Handed(c, g, m, n)
      BY <2>1
    <3> DEFINE x == <<c, m, Size(g, m), n>>
    <3>2. /\ Live' = Live \cup {x} /\ x \notin Live
          /\ c \in Chunk /\ n \in Request /\ Size(g, m) >= n
          /\ \A y \in Live : c # y[1] \/ m + Size(g, m) <= y[2] \/ y[2] + y[3] <= m
      BY <1>1, <3>1, HandedLive
    <3>3. x \in Live' \ Live /\ \A y \in Live : Abstract!Disjoint(x, y)
      BY <3>2 DEF Abstract!Disjoint
    <3>4. x[1] \in Chunk /\ x[4] \in Request /\ x[3] >= x[4]
      BY <3>2
    <3> HIDE DEF x
    <3>5. Abstract!Allocate
      BY <3>2, <3>3, <3>4 DEF Abstract!Allocate, Live
    <3> QED BY <3>5 DEF Abstract!Next
  <2>2. CASE \E c, g, o : Taken(c, g, o)
    <3>1. \E x \in Live : Live' = Live \ {x}
      BY <1>1, <2>2, TakenLive
    <3>2. Abstract!Release
      BY <3>1 DEF Abstract!Release, Live
    <3> QED BY <3>2 DEF Abstract!Next
  <2> QED BY <1>2, <2>1, <2>2, Steps
<1>3. CASE UNCHANGED vars
  BY <1>3 DEF vars, Live
<1> QED BY <1>2, <1>3

\* Every piece handed out is as large as was asked for and shares nothing with
\* another one until it is given back.
THEOREM AllocatorIsHeap == Spec => ImplementsHeap
<1>1. Init => Abstract!Init
  BY DEF Init, Abstract!Init
<1>2. HeapInv /\ [Next]_vars => [Abstract!Next]_Live
  BY HeapStep
<1> QED BY <1>1, <1>2, AlwaysHeapInv, PTL DEF Spec, ImplementsHeap, Abstract!Spec, Live
-----------------------------------------------------------------------------
(* Sums over a set, as FiniteSetsExt folds them.                           *)

Pick(s) == CHOOSE x \in s : TRUE

\* it gives the sum of w over each subset of S.
IsSum(it, w, S) == it = [s \in SUBSET S |-> IF s = {} THEN 0 ELSE w[Pick(s)] + it[s \ {Pick(s)}]]
SumOf(w, S) == (CHOOSE it : IsSum(it, w, S))[S]

\* What is picked is an element.
LEMMA Picked == ASSUME NEW s, s # {} PROVE Pick(s) \in s
BY DEF Pick

\* The equation of such a function.
LEMMA SumSteps ==
  ASSUME NEW it, NEW w, NEW S, IsSum(it, w, S)
  PROVE  /\ it[{}] = 0
         /\ \A s \in SUBSET S : s # {} => it[s] = w[Pick(s)] + it[s \ {Pick(s)}]
<1> DEFINE F == [s \in SUBSET S |-> IF s = {} THEN 0 ELSE w[Pick(s)] + it[s \ {Pick(s)}]]
<1>1. it = F
  BY DEF IsSum
<1>2. F[{}] = 0
  OBVIOUS
<1>3. \A s \in SUBSET S : s # {} => F[s] = w[Pick(s)] + it[s \ {Pick(s)}]
  OBVIOUS
<1> HIDE DEF F
<1> QED BY <1>1, <1>2, <1>3

\* The sets of at most n elements.
UpTo(S, n) == {s \in SUBSET S : Cardinality(s) <= n}

\* The function up to sets of n elements.
SumTo(f, w, S, n) ==
  f = [s \in UpTo(S, n) |-> IF s = {} THEN 0 ELSE w[Pick(s)] + f[s \ {Pick(s)}]]

\* One element less.
LEMMA OneLess ==
  ASSUME NEW S, IsFiniteSet(S), NEW s \in SUBSET S, NEW x \in s
  PROVE  /\ IsFiniteSet(s) /\ Cardinality(s) \in Nat /\ Cardinality(s \ {x}) \in Nat
         /\ Cardinality(s \ {x}) = Cardinality(s) - 1 /\ s \ {x} \in SUBSET S
<1>1. IsFiniteSet(s)
  BY FS_Subset
<1> QED BY <1>1, FS_RemoveElement, FS_CardinalityType

\* There is one up to every size.
LEMMA SumsUpTo ==
  ASSUME NEW S, IsFiniteSet(S), NEW w
  PROVE  \A n \in Nat : \E f : SumTo(f, w, S, n)
<1> DEFINE bad == {n \in Nat : ~\E f : SumTo(f, w, S, n)}
<1> SUFFICES ASSUME bad # {} PROVE FALSE
  OBVIOUS
<1>1. PICK n \in bad : \A j \in bad : ~(j < n)
  BY FirstIndex
<1>2. n \in Nat /\ ~\E f : SumTo(f, w, S, n)
  OBVIOUS
<1>3. CASE n = 0
  <2>1. \A s \in UpTo(S, 0) : s = {}
    <3> SUFFICES ASSUME NEW s \in SUBSET S, Cardinality(s) <= 0 PROVE s = {}
      BY DEF UpTo
    <3>1. IsFiniteSet(s) /\ Cardinality(s) \in Nat
      BY FS_Subset, FS_CardinalityType
    <3> QED BY <3>1, FS_EmptySet
  <2> DEFINE f == [s \in UpTo(S, 0) |-> 0]
  <2>2. SumTo(f, w, S, 0)
    BY <2>1 DEF SumTo
  <2> QED BY <1>2, <1>3, <2>2
<1>4. CASE n # 0
  <2>1. n - 1 \in Nat /\ n - 1 \notin bad
    BY <1>1, <1>2, <1>4
  <2>2. PICK f : SumTo(f, w, S, n - 1)
    BY <2>1
  <2> DEFINE B(k, s) == IF s = {} THEN 0 ELSE w[Pick(s)] + k[s \ {Pick(s)}]
             g == [s \in UpTo(S, n) |-> B(f, s)]
  <2>3. \A s \in UpTo(S, n - 1) : s \in UpTo(S, n) /\ f[s] = B(f, s)
    <3>1. f = [s \in UpTo(S, n - 1) |-> B(f, s)]
      BY <2>2 DEF SumTo
    <3>2. ASSUME NEW s \in UpTo(S, n - 1) PROVE s \in UpTo(S, n)
      <4>1. s \in SUBSET S /\ Cardinality(s) \in Nat /\ Cardinality(s) <= n - 1
        BY FS_Subset, FS_CardinalityType DEF UpTo
      <4> QED BY <1>2, <4>1 DEF UpTo
    <3> HIDE DEF B
    <3>3. \A s \in UpTo(S, n - 1) : [t \in UpTo(S, n - 1) |-> B(f, t)][s] = B(f, s)
      OBVIOUS
    <3> QED BY <3>1, <3>2, <3>3
  <2>4. \A s \in UpTo(S, n - 1) : g[s] = f[s]
    BY <2>3
  <2>5. ASSUME NEW s \in UpTo(S, n), s # {} PROVE s \ {Pick(s)} \in UpTo(S, n - 1)
    <3>1. s \in SUBSET S /\ Pick(s) \in s /\ Cardinality(s) <= n
      BY <2>5, Picked DEF UpTo
    <3>2. Cardinality(s \ {Pick(s)}) = Cardinality(s) - 1 /\ Cardinality(s) \in Nat /\ s \ {Pick(s)} \in SUBSET S
      BY <3>1, OneLess
    <3>3. Cardinality(s \ {Pick(s)}) <= n - 1
      BY <1>2, <3>1, <3>2
    <3> QED BY <3>2, <3>3 DEF UpTo
  <2>6. \A s \in UpTo(S, n) : B(f, s) = B(g, s)
    <3> HIDE DEF g
    <3> QED BY <2>4, <2>5
  <2>7. g = [s \in UpTo(S, n) |-> B(g, s)]
    <3> DEFINE gg == g
    <3>1. gg = [s \in UpTo(S, n) |-> B(f, s)] /\ \A s \in UpTo(S, n) : B(f, s) = B(gg, s)
      BY <2>6
    <3> HIDE DEF gg, B
    <3>2. gg = [s \in UpTo(S, n) |-> B(gg, s)]
      BY <3>1
    <3> QED BY <3>2 DEF gg
  <2>8. SumTo(g, w, S, n)
    <3> HIDE DEF g
    <3> QED BY <2>7 DEF SumTo
  <2> QED BY <1>2, <2>8
<1> QED BY <1>3, <1>4

\* There is one for every finite set.
LEMMA SumExists ==
  ASSUME NEW S, IsFiniteSet(S), NEW w
  PROVE  IsSum(CHOOSE it : IsSum(it, w, S), w, S)
<1>1. Cardinality(S) \in Nat
  BY FS_CardinalityType
<1>2. PICK f : SumTo(f, w, S, Cardinality(S))
  BY <1>1, SumsUpTo
<1>3. UpTo(S, Cardinality(S)) = SUBSET S
  BY FS_Subset DEF UpTo
<1>4. IsSum(f, w, S)
  BY <1>2, <1>3 DEF SumTo, IsSum
<1> QED BY <1>4

\* Sums of natural numbers are natural.
LEMMA SumsNat ==
  ASSUME NEW S, IsFiniteSet(S), NEW w, \A x \in S : w[x] \in Nat, NEW it, IsSum(it, w, S)
  PROVE  \A s \in SUBSET S : it[s] \in Nat
<1> DEFINE bad == {n \in Nat : \E s \in SUBSET S : Cardinality(s) = n /\ it[s] \notin Nat}
<1>1. ASSUME NEW s \in SUBSET S, it[s] \notin Nat PROVE FALSE
  <2>1. Cardinality(s) \in bad
    BY <1>1, FS_Subset, FS_CardinalityType
  <2>2. PICK n \in bad : \A j \in bad : ~(j < n)
    BY <2>1, FirstIndex
  <2>3. PICK t \in SUBSET S : Cardinality(t) = n /\ it[t] \notin Nat
    BY <2>2
  <2>a. it[{}] = 0
    BY SumSteps
  <2>4. t # {}
    BY <2>3, <2>a
  <2> DEFINE p == Pick(t)
  <2>5. p \in t /\ it[t] = w[p] + it[t \ {p}]
    BY <2>4, Picked, SumSteps
  <2> HIDE DEF p
  <2>6. t \ {p} \in SUBSET S /\ Cardinality(t \ {p}) \in Nat /\ Cardinality(t \ {p}) < n /\ n \in Nat
    BY <2>3, <2>5, OneLess
  <2>7. it[t \ {p}] \in Nat
    BY <2>2, <2>6
  <2>8. w[p] \in Nat
    BY <2>5
  <2> QED BY <2>3, <2>5, <2>7, <2>8
<1> QED BY <1>1

\* The sum does not depend on the order of the elements.
LEMMA AnyElement ==
  ASSUME NEW S, IsFiniteSet(S), NEW w, \A x \in S : w[x] \in Nat, NEW it, IsSum(it, w, S)
  PROVE  \A s \in SUBSET S : \A x \in s : it[s] = w[x] + it[s \ {x}]
<1> DEFINE Ok(s, x) == it[s] = w[x] + it[s \ {x}]
           bad == {n \in Nat : \E s \in SUBSET S : Cardinality(s) = n /\ \E x \in s : ~Ok(s, x)}
<1>1. ASSUME NEW s0 \in SUBSET S, NEW x0 \in s0, ~Ok(s0, x0) PROVE FALSE
  <2>1. Cardinality(s0) \in bad
    BY <1>1, FS_Subset, FS_CardinalityType
  <2>2. PICK n \in bad : \A j \in bad : ~(j < n)
    BY <2>1, FirstIndex
  <2>3. PICK s \in SUBSET S : Cardinality(s) = n /\ \E x \in s : ~Ok(s, x)
    BY <2>2
  <2>4. PICK x \in s : ~Ok(s, x)
    BY <2>3
  <2> DEFINE p == Pick(s)
  <2>5. p \in s /\ it[s] = w[p] + it[s \ {p}]
    BY <2>4, Picked, SumSteps
  <2> HIDE DEF p
  <2>6. p # x
    BY <2>4, <2>5
  <2>7. /\ s \ {p} \in SUBSET S /\ Cardinality(s \ {p}) \in Nat /\ Cardinality(s \ {p}) < n
        /\ s \ {x} \in SUBSET S /\ Cardinality(s \ {x}) \in Nat /\ Cardinality(s \ {x}) < n
        /\ n \in Nat
    BY <2>3, <2>4, <2>5, OneLess
  <2>8. Ok(s \ {p}, x)
    <3>1. Cardinality(s \ {p}) \notin bad
      BY <2>2, <2>7
    <3>2. x \in s \ {p}
      BY <2>4, <2>6
    <3> HIDE DEF Ok
    <3> QED BY <2>7, <3>1, <3>2
  <2>9. Ok(s \ {x}, p)
    <3>1. Cardinality(s \ {x}) \notin bad
      BY <2>2, <2>7
    <3>2. p \in s \ {x}
      BY <2>5, <2>6
    <3> HIDE DEF Ok
    <3> QED BY <2>7, <3>1, <3>2
  <2>10. PICK r : r = (s \ {p}) \ {x}
    OBVIOUS
  <2>11. (s \ {x}) \ {p} = r /\ r \in SUBSET S
    BY <2>7, <2>10
  <2>12. it[r] \in Nat /\ w[p] \in Nat /\ w[x] \in Nat
    BY <2>4, <2>5, <2>11, SumsNat
  <2>13. it[s \ {p}] = w[x] + it[r] /\ it[s \ {x}] = w[p] + it[r]
    BY <2>8, <2>9, <2>10, <2>11
  <2>14. it[s] = w[p] + (w[x] + it[r]) /\ it[s] # w[x] + (w[p] + it[r])
    BY <2>4, <2>5, <2>13
  <2> QED BY <2>12, <2>14
<1> QED BY <1>1

\* Equal weights give equal sums.
LEMMA SumsAgree ==
  ASSUME NEW S, IsFiniteSet(S), NEW w, NEW it, IsSum(it, w, S),
         NEW R, IsFiniteSet(R), NEW v, NEW jt, IsSum(jt, v, R)
  PROVE  \A s \in SUBSET S : s \subseteq R /\ (\A x \in s : w[x] = v[x]) => it[s] = jt[s]
<1> DEFINE Same(s) == \A x \in s : w[x] = v[x]
           bad == {n \in Nat : \E s \in SUBSET S :
                     /\ s \subseteq R /\ Cardinality(s) = n /\ Same(s) /\ it[s] # jt[s]}
<1>1. ASSUME NEW s \in SUBSET S, s \subseteq R, Same(s), it[s] # jt[s] PROVE FALSE
  <2>1. Cardinality(s) \in bad
    BY <1>1, FS_Subset, FS_CardinalityType
  <2>2. PICK n \in bad : \A j \in bad : ~(j < n)
    BY <2>1, FirstIndex
  <2>3. PICK t \in SUBSET S : t \subseteq R /\ Cardinality(t) = n /\ Same(t) /\ it[t] # jt[t]
    BY <2>2
  <2>4. t # {}
    BY <2>3, SumSteps
  <2> DEFINE p == Pick(t)
  <2>5. p \in t /\ it[t] = w[p] + it[t \ {p}] /\ jt[t] = v[p] + jt[t \ {p}]
    <3>1. p \in t
      BY <2>4, Picked
    <3>2. it[t] = w[p] + it[t \ {p}]
      BY <2>4, SumSteps
    <3>3. jt[t] = v[p] + jt[t \ {p}]
      BY <2>3, <2>4, SumSteps
    <3> QED BY <3>1, <3>2, <3>3
  <2> HIDE DEF p
  <2>6. t \ {p} \in SUBSET S /\ Cardinality(t \ {p}) \in Nat /\ Cardinality(t \ {p}) < n /\ n \in Nat
    BY <2>3, <2>5, OneLess
  <2>7. Same(t \ {p}) /\ w[p] = v[p] /\ t \ {p} \subseteq R
    BY <2>3, <2>5
  <2>8. it[t \ {p}] = jt[t \ {p}]
    <3>1. Cardinality(t \ {p}) \notin bad
      BY <2>2, <2>6
    <3> HIDE DEF Same
    <3> QED BY <2>6, <2>7, <3>1
  <2> QED BY <2>3, <2>5, <2>7, <2>8
<1> QED BY <1>1

-----------------------------------------------------------------------------
(* What the proofs use of a sum.                                           *)

\* The sum of natural numbers is natural, that of nothing is 0.
LEMMA SumType ==
  ASSUME NEW S, IsFiniteSet(S), NEW w, \A x \in S : w[x] \in Nat
  PROVE  SumOf(w, S) \in Nat
BY SumExists, SumsNat DEF SumOf

\* Nothing sums up to 0.
LEMMA SumEmpty == ASSUME NEW w PROVE SumOf(w, {}) = 0
<1>1. IsFiniteSet({})
  BY FS_EmptySet
<1>2. PICK it : it = CHOOSE k : IsSum(k, w, {})
  OBVIOUS
<1>3. IsSum(it, w, {})
  BY <1>1, <1>2, SumExists
<1> QED BY <1>2, <1>3, SumSteps DEF SumOf

\* The sum depends on the weights of the elements only.
LEMMA SumSame ==
  ASSUME NEW S, IsFiniteSet(S), NEW w, NEW v, \A x \in S : w[x] = v[x]
  PROVE  SumOf(w, S) = SumOf(v, S)
<1>1. PICK it : it = CHOOSE k : IsSum(k, w, S)
  OBVIOUS
<1>2. PICK jt : jt = CHOOSE k : IsSum(k, v, S)
  OBVIOUS
<1>3. IsSum(it, w, S) /\ IsSum(jt, v, S)
  BY <1>1, <1>2, SumExists
<1>4. it[S] = jt[S]
  BY <1>3, SumsAgree
<1> QED BY <1>1, <1>2, <1>4 DEF SumOf

\* One element more.
LEMMA SumAdds ==
  ASSUME NEW S, IsFiniteSet(S), NEW x, x \notin S, NEW w, NEW v,
         \A y \in S : v[y] \in Nat /\ w[y] = v[y], w[x] \in Nat
  PROVE  SumOf(w, S \cup {x}) = SumOf(v, S) + w[x]
<1>1. PICK R : R = S \cup {x}
  OBVIOUS
<1>2. IsFiniteSet(R) /\ x \in R /\ R \ {x} = S /\ S \subseteq R /\ \A y \in R : w[y] \in Nat
  BY <1>1, FS_AddElement
<1>3. PICK it : it = CHOOSE k : IsSum(k, w, R)
  OBVIOUS
<1>4. PICK jt : jt = CHOOSE k : IsSum(k, v, S)
  OBVIOUS
<1>5. IsSum(it, w, R) /\ IsSum(jt, v, S)
  BY <1>2, <1>3, <1>4, SumExists
<1>6. it[R] = w[x] + it[S]
  BY <1>2, <1>5, AnyElement
<1>7. it[S] = jt[S]
  BY <1>2, <1>5, SumsAgree
<1>8. jt[S] \in Nat
  BY <1>5, SumsNat
<1>9. SumOf(w, R) = it[R] /\ SumOf(v, S) = jt[S]
  BY <1>3, <1>4 DEF SumOf
<1> QED BY <1>1, <1>2, <1>6, <1>7, <1>8, <1>9

-----------------------------------------------------------------------------
(* The counters.                                                           *)

Caps == [c \in MappedChunks |-> Cap(c)]
Sizes == [b \in pieces |-> Size(mem[b[1]], b[2])]

\* The two counters are the sums of the chunks and of the blocks in use.
Counters == /\ IsFiniteSet(MappedChunks) /\ total_size = SumOf(Caps, MappedChunks)
            /\ IsFiniteSet(pieces) /\ allocated_size = SumOf(Sizes, pieces)

\* The one terminator of a chunk is its size.
LEMMA CapIsEnd ==
  ASSUME NEW c, NEW t, Ends(mem[c]) = {t}
  PROVE  Cap(c) = t
<1> DEFINE h == mem[c]
<1>1. t \in DOMAIN h /\ Kind(h, t) = Terminator
  BY DEF Ends
<1>2. \A x \in DOMAIN h : Kind(h, x) = Terminator => x = t
  BY DEF Ends
<1> QED BY <1>1, <1>2 DEF Cap, Kind

\* A tiled chunk has one.
LEMMA HasEnd ==
  ASSUME NEW h, Layout(h)
  PROVE  \E t \in Nat : Ends(h) = {t}
<1>1. PICK t \in DOMAIN h : /\ Kind(h, t) = Terminator
                            /\ \A x \in DOMAIN h : x <= t /\ (Kind(h, x) = Terminator => x = t)
  BY DEF Layout, Ended
<1>2. Ends(h) = {t} /\ t \in Nat
  BY <1>1 DEF Ends, Layout, Heads
<1> QED BY <1>2

\* What is summed is natural.
LEMMA CapsNat ==
  ASSUME HeapInv
  PROVE  /\ \A c \in MappedChunks : Caps[c] = Cap(c) /\ Cap(c) \in Nat
         /\ \A b \in pieces : Sizes[b] = Size(mem[b[1]], b[2]) /\ Size(mem[b[1]], b[2]) \in Nat
<1>1. ASSUME NEW c \in MappedChunks PROVE Cap(c) \in Nat
  <2>1. Layout(mem[c])
    BY DEF MappedChunks, HeapInv, Chunks, Sound
  <2>2. PICK t \in Nat : Ends(mem[c]) = {t}
    BY <2>1, HasEnd
  <2> QED BY <2>2, CapIsEnd
<1>2. ASSUME NEW b \in pieces PROVE Size(mem[b[1]], b[2]) \in Nat
  <2>1. b[1] \in Chunk /\ b[2] \in UsedOf(mem[b[1]])
    BY PieceParts
  <2>2. Mapped(b[1])
    BY <2>1, NothingIn DEF Mapped
  <2>3. Layout(mem[b[1]])
    BY <2>1, <2>2 DEF HeapInv, Chunks, Sound
  <2> QED BY <2>1, <2>3, HeaderParts DEF Layout, UsedOf
<1> QED BY <1>1, <1>2 DEF Caps, Sizes

\* The capacity of a chunk whose terminator stays stays.
LEMMA CapKept ==
  ASSUME HeapInv, NEW c \in MappedChunks, mem'[c] # <<>>, Ends(mem'[c]) = Ends(mem[c])
  PROVE  Caps'[c] = Caps[c] /\ c \in MappedChunks'
<1>1. c \in Chunk /\ Layout(mem[c])
  BY DEF MappedChunks, HeapInv, Chunks, Sound
<1>2. PICK t \in Nat : Ends(mem[c]) = {t}
  BY <1>1, HasEnd
<1>3. Cap(c) = t
  BY <1>2, CapIsEnd
<1>4. t \in DOMAIN mem'[c] /\ mem'[c][t].size = Terminator
      /\ \A x \in DOMAIN mem'[c] : mem'[c][x].size = Terminator => x = t
  BY <1>2 DEF Ends, Kind
<1>5. Cap(c)' = t
  BY <1>4 DEF Cap
<1>6. c \in MappedChunks'
  BY <1>1 DEF MappedChunks, Mapped
<1> QED BY <1>3, <1>5, <1>6 DEF Caps

\* A step that hands out a block counts it.
LEMMA HandedCounters ==
  ASSUME HeapInv, HeapInv', Counters, NEW c, NEW g, NEW m, NEW n,
         Handed(c, g, m, n), Paid(c, g, m)
  PROVE  Counters'
<1>1. /\ c \in Chunk /\ m \in Nat /\ n \in Request /\ Sound(g) /\ m \notin UsedOf(mem[c])
      /\ UsedOf(g) = UsedOf(mem[c]) \cup {m}
      /\ \A o \in UsedOf(mem[c]) : Size(g, o) = Size(mem[c], o)
      /\ pieces' = pieces \cup {<<c, m, n>>}
      /\ \A d \in Chunk : mem'[d] = IF d = c THEN g ELSE mem[d]
      /\ g # <<>>
  BY DEF Handed, InUse, HeapInv, Types, Sound, Layout, Started
<1>2. IsFiniteSet(pieces') /\ allocated_size' = SumOf(Sizes', pieces')
  <2>1. <<c, m, n>> \notin pieces
    BY <1>1 DEF HeapInv, Held
  <2>2. PICK x : x = <<c, m, n>>
    OBVIOUS
  <2>3. PICK w : w = Sizes'
    OBVIOUS
  <2>4. PICK v : v = Sizes
    OBVIOUS
  <2>5. x \notin pieces /\ pieces' = pieces \cup {x} /\ IsFiniteSet(pieces)
    BY <1>1, <2>1, <2>2 DEF Counters
  <2>6. ASSUME NEW b \in pieces PROVE v[b] \in Nat /\ w[b] = v[b]
    <3>1. v[b] \in Nat /\ v[b] = Size(mem[b[1]], b[2])
      BY <2>4, CapsNat
    <3>2. w[b] = Size(mem'[b[1]], b[2])
      BY <2>3, <2>5 DEF Sizes
    <3>3. Size(mem'[b[1]], b[2]) = Size(mem[b[1]], b[2])
      BY <1>1, PieceParts
    <3> QED BY <3>1, <3>2, <3>3
  <2>7. w[x] = Size(g, m) /\ w[x] \in Nat
    <3>1. x \in pieces' /\ x[1] = c /\ x[2] = m
      BY <2>2, <2>5
    <3>2. w[x] = Size(mem'[c], m)
      BY <2>3, <3>1 DEF Sizes
    <3>3. mem'[c] = g
      BY <1>1
    <3>4. m \in DOMAIN g /\ Heads(g)
      BY <1>1 DEF UsedOf, Sound, Layout
    <3>5. Size(g, m) \in Nat
      BY <3>4, HeaderParts
    <3> QED BY <3>2, <3>3, <3>5
  <2>8. SumOf(w, pieces \cup {x}) = SumOf(v, pieces) + w[x]
    BY <2>5, <2>6, <2>7, SumAdds
  <2>9. allocated_size' = SumOf(v, pieces) + Size(g, m)
    BY <2>4 DEF Counters, Paid
  <2>10. IsFiniteSet(pieces')
    BY <2>5, FS_AddElement
  <2> QED BY <2>3, <2>5, <2>7, <2>8, <2>9, <2>10
<1>3. IsFiniteSet(MappedChunks') /\ total_size' = SumOf(Caps', MappedChunks')
  <2>1. MappedChunks' = MappedChunks \cup {c}
    BY <1>1 DEF MappedChunks, Mapped
  <2>2. PICK w : w = Caps'
    OBVIOUS
  <2>3. PICK v : v = Caps
    OBVIOUS
  <2>4. ASSUME NEW d \in MappedChunks PROVE v[d] \in Nat /\ w[d] = v[d]
    <3>1. v[d] \in Nat
      BY <2>3, CapsNat
    <3>2. d \in Chunk /\ mem[d] # <<>> /\ Mapped(d)
      BY DEF MappedChunks, Mapped
    <3>3. mem'[d] # <<>> /\ Ends(mem'[d]) = Ends(mem[d])
      BY <1>1, <3>2 DEF Paid
    <3> QED BY <2>2, <2>3, <3>1, <3>3, CapKept
  <2>5. IsFiniteSet(MappedChunks)
    BY DEF Counters
  <2>6. CASE Mapped(c)
    <3>1. MappedChunks' = MappedChunks /\ total_size' = total_size
      BY <1>1, <2>1, <2>6 DEF MappedChunks, Paid
    <3>2. SumOf(w, MappedChunks) = SumOf(v, MappedChunks)
      BY <2>4, <2>5, SumSame
    <3> QED BY <2>2, <2>3, <2>5, <3>1, <3>2 DEF Counters
  <2>7. CASE ~Mapped(c)
    <3>1. PICK t \in Nat : Ends(g) = {t} /\ total_size' = total_size + t
      BY <2>7 DEF Paid
    <3>2. c \notin MappedChunks
      BY <2>7 DEF MappedChunks
    <3>3. w[c] = t
      <4>1. t \in DOMAIN mem'[c] /\ mem'[c][t].size = Terminator
            /\ \A x \in DOMAIN mem'[c] : mem'[c][x].size = Terminator => x = t
        BY <1>1, <3>1 DEF Ends, Kind
      <4>2. Cap(c)' = t
        BY <4>1 DEF Cap
      <4> QED BY <2>1, <2>2, <4>2 DEF Caps
    <3>4. SumOf(w, MappedChunks \cup {c}) = SumOf(v, MappedChunks) + w[c]
      BY <2>4, <2>5, <3>1, <3>2, <3>3, SumAdds
    <3>5. total_size = SumOf(v, MappedChunks)
      BY <2>3 DEF Counters
    <3>6. IsFiniteSet(MappedChunks')
      BY <2>1, <2>5, FS_AddElement
    <3> QED BY <2>1, <2>2, <3>1, <3>3, <3>4, <3>5, <3>6
  <2> QED BY <2>6, <2>7
<1> QED BY <1>2, <1>3 DEF Counters

\* A step that takes a block back counts it no more.
LEMMA TakenCounters ==
  ASSUME HeapInv, Counters, NEW c, NEW g, NEW o, Taken(c, g, o), Repaid(c, g, o)
  PROVE  Counters'
<1>1. /\ c \in Chunk /\ o \in UsedOf(mem[c]) /\ Mapped(c)
      /\ UsedOf(g) = UsedOf(mem[c]) \ {o}
      /\ \A u \in UsedOf(mem[c]) \ {o} : Size(g, u) = Size(mem[c], u)
      /\ pieces' = {b \in pieces : <<b[1], b[2]>> # <<c, o>>}
      /\ \A d \in Chunk : mem'[d] = IF d = c THEN g ELSE mem[d]
  BY NothingIn DEF Taken, InUse, HeapInv, Types, Mapped
<1>2. IsFiniteSet(pieces') /\ allocated_size' = SumOf(Sizes', pieces')
  <2>1. o \in Nat
    BY <1>1, BlocksNat
  <2>2. PICK n \in Request : <<c, o, n>> \in pieces
    BY <1>1, <2>1 DEF HeapInv, Held
  <2>3. PICK x : x = <<c, o, n>>
    OBVIOUS
  <2>4. x \in pieces /\ x[1] = c /\ x[2] = o
    BY <2>2, <2>3
  <2>5. pieces' = pieces \ {x}
    <3>1. ASSUME NEW b \in pieces, b[1] = c, b[2] = o PROVE b = x
      <4>1. b = <<c, o, b[3]>> /\ b[3] \in Request
        BY <3>1, PieceParts
      <4>2. b[3] = n
        BY <1>1, <2>1, <2>2, <4>1 DEF HeapInv, Held
      <4> QED BY <2>3, <4>1, <4>2
    <3> QED BY <1>1, <2>4, <3>1
  <2>6. PICK R : R = pieces'
    OBVIOUS
  <2>7. PICK w : w = Sizes
    OBVIOUS
  <2>8. PICK v : v = Sizes'
    OBVIOUS
  <2>9. R \cup {x} = pieces /\ x \notin R /\ IsFiniteSet(R) /\ R \subseteq pieces
    <3>1. IsFiniteSet(pieces)
      BY DEF Counters
    <3> QED BY <2>4, <2>5, <2>6, <3>1, FS_Subset
  <2>10. ASSUME NEW b \in R PROVE v[b] \in Nat /\ w[b] = v[b]
    <3>1. b \in pieces /\ b # x
      BY <2>9
    <3>2. w[b] \in Nat /\ w[b] = Size(mem[b[1]], b[2])
      BY <2>7, <3>1, CapsNat
    <3>3. v[b] = Size(mem'[b[1]], b[2])
      BY <2>6, <2>8 DEF Sizes
    <3>4. ~(b[1] = c /\ b[2] = o)
      BY <1>1, <2>6, <3>1
    <3>5. Size(mem'[b[1]], b[2]) = Size(mem[b[1]], b[2])
      BY <1>1, <3>1, <3>4, PieceParts
    <3> QED BY <3>2, <3>3, <3>5
  <2>11. w[x] = Size(mem[c], o) /\ w[x] \in Nat
    BY <2>4, <2>7, CapsNat
  <2>12. SumOf(w, R \cup {x}) = SumOf(v, R) + w[x]
    <3>1. IsFiniteSet(R) /\ x \notin R
      BY <2>9
    <3>2. \A y \in R : v[y] \in Nat /\ w[y] = v[y]
      BY <2>10
    <3>3. w[x] \in Nat
      BY <2>11
    <3> QED BY <3>1, <3>2, <3>3, SumAdds
  <2>13. allocated_size = SumOf(v, R) + Size(mem[c], o)
    BY <2>7, <2>9, <2>11, <2>12 DEF Counters
  <2>14. SumOf(v, R) \in Nat
    BY <2>9, <2>10, SumType
  <2>15. allocated_size' = allocated_size - Size(mem[c], o) /\ Size(mem[c], o) \in Nat
    BY <2>11 DEF Repaid
  <2>16. allocated_size' = SumOf(v, R)
    BY <2>13, <2>14, <2>15
  <2> QED BY <2>6, <2>8, <2>9, <2>16
<1>3. IsFiniteSet(MappedChunks') /\ total_size' = SumOf(Caps', MappedChunks')
  <2>1. PICK w : w = Caps
    OBVIOUS
  <2>2. PICK v : v = Caps'
    OBVIOUS
  <2>3. IsFiniteSet(MappedChunks) /\ total_size = SumOf(w, MappedChunks) /\ c \in MappedChunks
    BY <1>1, <2>1 DEF Counters, MappedChunks
  <2>4. ASSUME NEW d \in MappedChunks, d # c \/ g # <<>> PROVE v[d] \in Nat /\ w[d] = v[d]
    <3>1. w[d] \in Nat
      BY <2>1, CapsNat
    <3>2. d \in Chunk /\ mem[d] # <<>>
      BY DEF MappedChunks, Mapped
    <3>3. mem'[d] # <<>> /\ Ends(mem'[d]) = Ends(mem[d])
      BY <1>1, <2>4, <3>2 DEF Repaid
    <3> QED BY <2>1, <2>2, <3>1, <3>3, CapKept
  <2>5. CASE g # <<>>
    <3>1. MappedChunks' = MappedChunks
      BY <1>1, <2>5 DEF MappedChunks, Mapped
    <3>2. total_size' = total_size
      BY <2>5 DEF Repaid
    <3>3. SumOf(w, MappedChunks) = SumOf(v, MappedChunks)
      BY <2>3, <2>4, <2>5, SumSame
    <3> QED BY <2>2, <2>3, <3>1, <3>2, <3>3
  <2>6. CASE g = <<>>
    <3>1. MappedChunks' = MappedChunks \ {c}
      BY <1>1, <2>6 DEF MappedChunks, Mapped
    <3>2. PICK t \in Nat : Ends(mem[c]) = {t} /\ total_size' = total_size - t
      BY <2>6 DEF Repaid
    <3>3. w[c] = t
      BY <2>1, <2>3, <3>2, CapIsEnd, CapsNat
    <3>4. PICK R : R = MappedChunks \ {c}
      OBVIOUS
    <3>5. R \cup {c} = MappedChunks /\ c \notin R /\ IsFiniteSet(R)
      BY <2>3, <3>4, FS_Subset
    <3>6. \A d \in R : v[d] \in Nat /\ w[d] = v[d]
      BY <2>4, <3>4
    <3>7. SumOf(w, R \cup {c}) = SumOf(v, R) + w[c]
      BY <3>2, <3>3, <3>5, <3>6, SumAdds
    <3>8. SumOf(v, R) \in Nat
      BY <3>5, <3>6, SumType
    <3>9. total_size = SumOf(v, R) + t
      <4>1. total_size = SumOf(w, R \cup {c})
        BY <2>3, <3>5
      <4> QED BY <3>3, <3>7, <4>1
    <3>10. total_size' = SumOf(v, R)
      BY <3>2, <3>8, <3>9
    <3> QED BY <2>2, <3>1, <3>4, <3>5, <3>10
  <2> QED BY <2>5, <2>6
<1> QED BY <1>2, <1>3 DEF Counters

\* Every step keeps the counters exact.
LEMMA NextCounters == ASSUME HeapInv, Counters, [Next]_vars PROVE Counters'
<1>1. HeapInv'
  BY NextInv
<1>2. CASE Next
  BY <1>1, <1>2, Steps, HandedCounters, TakenCounters
<1>3. CASE UNCHANGED vars
  <2>1. Caps' = Caps /\ MappedChunks' = MappedChunks /\ Sizes' = Sizes /\ pieces' = pieces
        /\ allocated_size' = allocated_size /\ total_size' = total_size
    BY <1>3 DEF vars, Caps, Cap, MappedChunks, Mapped, Sizes
  <2> QED BY <2>1 DEF Counters
<1> QED BY <1>2, <1>3

\* At first nothing is counted.
LEMMA InitCounters == ASSUME Init PROVE Counters
<1>1. MappedChunks = {} /\ pieces = {} /\ allocated_size = 0 /\ total_size = 0
  BY DEF Init, MappedChunks, Mapped
<1> QED BY <1>1, SumEmpty, FS_EmptySet DEF Counters

\* The fold of FiniteSetsExt is the sum over the chunks,
LEMMA FoldOfCaps ==
  ASSUME IsFiniteSet(MappedChunks)
  PROVE  MapThenSumSet(Cap, MappedChunks) = SumOf(Caps, MappedChunks)
<1> DEFINE R(jt) == jt = [s \in SUBSET MappedChunks |->
                            IF s = {} THEN 0 ELSE Cap(Pick(s)) + jt[s \ {Pick(s)}]]
<1>1. MapThenSumSet(Cap, MappedChunks) = (CHOOSE jt : R(jt))[MappedChunks]
  BY DEF MapThenSumSet, MapThenFoldSet, Pick
<1>2. PICK S : S = MappedChunks
  OBVIOUS
<1>3. PICK w : w = Caps
  OBVIOUS
<1>4. \A s \in SUBSET S : s # {} => w[Pick(s)] = Cap(Pick(s))
  BY <1>2, <1>3, Picked DEF Caps
<1>5. \A jt : R(jt) <=> IsSum(jt, w, S)
  <2> SUFFICES ASSUME NEW jt PROVE R(jt) <=> IsSum(jt, w, S)
    OBVIOUS
  <2>1. [s \in SUBSET S |-> IF s = {} THEN 0 ELSE Cap(Pick(s)) + jt[s \ {Pick(s)}]]
          = [s \in SUBSET S |-> IF s = {} THEN 0 ELSE w[Pick(s)] + jt[s \ {Pick(s)}]]
    BY <1>4
  <2> QED BY <1>2, <2>1 DEF IsSum
<1>6. PICK kt : IsSum(kt, w, S)
  BY <1>2, SumExists
<1>7. PICK jt : jt = CHOOSE k : R(k)
  OBVIOUS
<1>8. IsSum(jt, w, S)
  <2>1. R(kt)
    BY <1>5, <1>6
  <2>2. R(CHOOSE k : R(k))
    <3> HIDE DEF R
    <3> QED BY <2>1
  <2>3. R(jt)
    BY <1>7, <2>2
  <2> QED BY <1>5, <2>3
<1>9. PICK it : it = CHOOSE k : IsSum(k, w, S)
  OBVIOUS
<1>10. IsSum(it, w, S)
  BY <1>2, <1>9, SumExists
<1>11. it[S] = jt[S]
  BY <1>2, <1>8, <1>10, SumsAgree
<1>12. SumOf(w, S) = it[S]
  BY <1>9 DEF SumOf
<1> HIDE DEF R
<1> QED BY <1>1, <1>2, <1>3, <1>7, <1>11, <1>12

\* and over the blocks in use.
LEMMA FoldOfSizes ==
  ASSUME IsFiniteSet(pieces)
  PROVE  MapThenSumSet(LAMBDA b : Size(mem[b[1]], b[2]), pieces) = SumOf(Sizes, pieces)
<1> DEFINE Of(b) == Size(mem[b[1]], b[2])
           R(jt) == jt = [s \in SUBSET pieces |->
                            IF s = {} THEN 0 ELSE Of(Pick(s)) + jt[s \ {Pick(s)}]]
<1>1. MapThenSumSet(LAMBDA b : Size(mem[b[1]], b[2]), pieces) = (CHOOSE jt : R(jt))[pieces]
  BY DEF MapThenSumSet, MapThenFoldSet, Pick
<1>2. PICK S : S = pieces
  OBVIOUS
<1>3. PICK w : w = Sizes
  OBVIOUS
<1>4. \A s \in SUBSET S : s # {} => w[Pick(s)] = Of(Pick(s))
  BY <1>2, <1>3, Picked DEF Sizes
<1> HIDE DEF Of
<1>5. \A jt : R(jt) <=> IsSum(jt, w, S)
  <2> SUFFICES ASSUME NEW jt PROVE R(jt) <=> IsSum(jt, w, S)
    OBVIOUS
  <2>1. [s \in SUBSET S |-> IF s = {} THEN 0 ELSE Of(Pick(s)) + jt[s \ {Pick(s)}]]
          = [s \in SUBSET S |-> IF s = {} THEN 0 ELSE w[Pick(s)] + jt[s \ {Pick(s)}]]
    BY <1>4
  <2> QED BY <1>2, <2>1 DEF IsSum
<1>6. PICK kt : IsSum(kt, w, S)
  BY <1>2, SumExists
<1>7. PICK jt : jt = CHOOSE k : R(k)
  OBVIOUS
<1>8. IsSum(jt, w, S)
  <2>1. R(kt)
    BY <1>5, <1>6
  <2>2. R(CHOOSE k : R(k))
    <3> HIDE DEF R
    <3> QED BY <2>1
  <2>3. R(jt)
    BY <1>7, <2>2
  <2> QED BY <1>5, <2>3
<1>9. PICK it : it = CHOOSE k : IsSum(k, w, S)
  OBVIOUS
<1>10. IsSum(it, w, S)
  BY <1>2, <1>9, SumExists
<1>11. it[S] = jt[S]
  BY <1>2, <1>8, <1>10, SumsAgree
<1>12. SumOf(w, S) = it[S]
  BY <1>9 DEF SumOf
<1> HIDE DEF R
<1> QED BY <1>1, <1>2, <1>3, <1>7, <1>11, <1>12

\* The types follow: sums of sizes are natural.
LEMMA TypesNow ==
  ASSUME HeapInv, Counters
  PROVE  TypeOK
<1>1. ASSUME NEW c \in Chunk, NEW o \in DOMAIN mem[c]
      PROVE  /\ o \in Nat /\ mem[c][o].prev_size \in Nat
             /\ mem[c][o].size \in {Free, Terminator} \cup {n \in Nat : n >= MinBlock}
             /\ mem[c][o].size = Terminator \/ Size(mem[c], o) >= MinBlock
  <2>1. Mapped(c)
    BY DEF Mapped
  <2>2. Layout(mem[c])
    BY <2>1 DEF HeapInv, Chunks, Sound
  <2>3. /\ o \in Nat /\ Kind(mem[c], o) \in Nat /\ Prev(mem[c], o) \in Nat
        /\ Kind(mem[c], o) # Free => Size(mem[c], o) = Kind(mem[c], o)
    BY <2>2, HeaderParts DEF Layout
  <2>4. Kind(mem[c], o) # Terminator => Size(mem[c], o) >= MinBlock
    BY <2>2 DEF Layout, Onward
  <2> QED BY <2>3, <2>4 DEF Kind, Prev
<1>2. free_blocks \in Seq(Chunk \X Nat) /\ pieces \subseteq Chunk \X Nat \X Request
  BY DEF HeapInv, Types, Linked
<1>3. PICK w, v : w = Sizes /\ v = Caps
  OBVIOUS
<1>4. /\ \A b \in pieces : w[b] \in Nat
      /\ \A c \in MappedChunks : v[c] \in Nat
  BY <1>3, CapsNat
<1>5. SumOf(w, pieces) \in Nat /\ SumOf(v, MappedChunks) \in Nat
  BY <1>4, SumType DEF Counters
<1>6. allocated_size \in Nat /\ total_size \in Nat
  BY <1>3, <1>5 DEF Counters
<1> QED BY <1>1, <1>2, <1>6 DEF TypeOK

\* The counters by which a chunk is given back agree in every state with the
\* chunks that are mapped and the blocks that are in use.
THEOREM BookkeepingKept == Spec => []BookkeepingExact
<1>1. Init => HeapInv /\ Counters
  BY InitInv, InitCounters
<1>2. HeapInv /\ Counters /\ [Next]_vars => (HeapInv /\ Counters)'
  BY NextInv, NextCounters
<1>3. HeapInv /\ Counters => BookkeepingExact
  BY FoldOfCaps, FoldOfSizes, TypesNow DEF Counters, CountersExact, BookkeepingExact
<1> QED BY <1>1, <1>2, <1>3, PTL DEF Spec
=============================================================================
