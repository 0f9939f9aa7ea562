-------------------------- MODULE BlockCacheProofs --------------------------
(***************************************************************************)
(* Proofs about ExecLock for any finite set of threads: how far the        *)
(* release in uw_thread_leave weakens the lock, and that it is never lost. *)
(* Then proofs about BlockCache, for any addresses, predictions and jumps: *)
(* a thread executes the code of its own address; the cache holds the      *)
(* newest block of an address as long as no accesses to it have overlapped; *)
(* and a block that is still used is destroyed only after such an overlap, *)
(* or after two threads have compiled one address at a time.               *)
(***************************************************************************)
EXTENDS BlockCache, FiniteSetTheorems, WellFoundedInduction, TLAPS

-----------------------------------------------------------------------------
\* The lock.

\* Each clear of the flag pays for at most one acquisition.
TicketInv ==
    Cardinality(Executing) + (IF exec_lock THEN 0 ELSE 1) <= 1 + breaks

\* The inductive invariant.
IInv == TypeOK /\ TicketInv /\ LockHasHolder

\* The number of threads that execute is finite.
LEMMA ExecutingFinite ==
  /\ IsFiniteSet(Executing)
  /\ Cardinality(Executing) \in Nat
<1>1. Executing \subseteq Thread
  BY DEF Executing
<1>2. IsFiniteSet(Executing)
  BY <1>1, ExecAssumption, FS_Subset
<1> QED BY <1>2, FS_CardinalityType

\* The initial state satisfies the invariant.
LEMMA IInvInit == Init => IInv
<1> SUFFICES ASSUME Init PROVE IInv
  OBVIOUS
<1>1. TypeOK
  BY ExecAssumption DEF Init, TypeOK, Pc
<1>2. Executing = {}
  BY DEF Init, Executing
<1>3. TicketInv
  BY <1>2, FS_EmptySet DEF Init, TicketInv
<1>4. LockHasHolder
  BY DEF Init, LockHasHolder
<1> QED BY <1>1, <1>3, <1>4 DEF IInv

\* Every step preserves the invariant.
LEMMA IInvStep == IInv /\ [Next]_vars => IInv'
<1> SUFFICES ASSUME IInv, [Next]_vars PROVE IInv'
  OBVIOUS
<1> USE ExecAssumption DEF Goto
<1>1. TypeOK /\ TicketInv /\ LockHasHolder
  BY DEF IInv
<1>2. IsFiniteSet(Executing) /\ Cardinality(Executing) \in Nat
  BY ExecutingFinite
<1>3. ASSUME NEW t \in Thread, Acquire(t) \/ SyscallExit(t)
      PROVE  IInv'
  <2>1. TypeOK'
    BY <1>3, <1>1 DEF TypeOK, Pc, Acquire, SyscallExit
  <2>2. /\ t \notin Executing /\ Executing' = Executing \cup {t}
        /\ exec_lock = FALSE /\ exec_lock' = TRUE /\ breaks' = breaks
    BY <1>3, <1>1 DEF TypeOK, Executing, Acquire, SyscallExit
  <2>3. Cardinality(Executing') = Cardinality(Executing) + 1
    BY <2>2, <1>2, FS_AddElement
  <2>4. TicketInv'
    BY <2>2, <2>3, <1>1, <1>2 DEF TicketInv, TypeOK
  <2>5. LockHasHolder'
    BY <2>2 DEF LockHasHolder
  <2> QED BY <2>1, <2>4, <2>5 DEF IInv
<1>4. ASSUME NEW t \in Thread, Release(t) \/ SyscallEnter(t)
      PROVE  IInv'
  <2>1. TypeOK'
    BY <1>4, <1>1 DEF TypeOK, Pc, Release, SyscallEnter
  <2>2. /\ t \in Executing /\ Executing' = Executing \ {t}
        /\ exec_lock' = FALSE /\ breaks' = breaks
    BY <1>4, <1>1 DEF TypeOK, Executing, Release, SyscallEnter
  <2>3. Cardinality(Executing') = Cardinality(Executing) - 1
    BY <2>2, <1>2, FS_RemoveElement
  <2>4. TicketInv'
    BY <2>2, <2>3, <1>1, <1>2 DEF TicketInv, TypeOK
  <2>5. LockHasHolder'
    BY <2>2 DEF LockHasHolder
  <2> QED BY <2>1, <2>4, <2>5 DEF IInv
<1>5. ASSUME NEW t \in Thread, Leave(t)
      PROVE  IInv'
  <2>1. breaks' \in Nat
    BY <1>5, <1>1 DEF TypeOK, Leave
  <2>2. exec_lock' \in BOOLEAN
    BY <1>5 DEF Leave
  <2>3. pc' \in [Thread -> Pc] /\ pc'[InitialThread] # "new"
    BY <1>5, <1>1 DEF TypeOK, Pc, Leave
  <2>4. TypeOK'
    BY <2>1, <2>3, <2>2 DEF TypeOK
  <2>5. Executing' = Executing /\ exec_lock' = FALSE /\ breaks' = breaks + 1
    BY <1>5, <1>1 DEF TypeOK, Executing, Leave
  <2>6. TicketInv'
    BY <2>5, <1>1, <1>2 DEF TicketInv, TypeOK
  <2>7. LockHasHolder'
    BY <2>5 DEF LockHasHolder
  <2> QED BY <2>4, <2>6, <2>7 DEF IInv
<1>6. ASSUME NEW t \in Thread, NEW u \in Thread,
             Lookup(t) \/ Return(t) \/ Create(t, u)
      PROVE  IInv'
  <2>1. TypeOK'
    BY <1>6, <1>1 DEF TypeOK, Pc, Lookup, Return, Create
  <2>2. Executing' = Executing /\ exec_lock' = exec_lock /\ breaks' = breaks
    BY <1>6, <1>1 DEF TypeOK, Executing, Lookup, Return, Create
  <2>3. TicketInv' /\ LockHasHolder'
    BY <2>2, <1>1 DEF TicketInv, LockHasHolder
  <2> QED BY <2>1, <2>3 DEF IInv
<1>7. CASE UNCHANGED vars
  BY <1>7 DEF vars, IInv, TypeOK, TicketInv, LockHasHolder, Executing
<1> QED BY <1>3, <1>4, <1>5, <1>6, <1>7 DEF Next

\* Type correctness.
THEOREM TypeCorrect == Spec => []TypeOK
<1>1. Spec => []IInv
  BY IInvInit, IInvStep, PTL DEF Spec
<1>2. IInv => TypeOK
  BY DEF IInv
<1> QED BY <1>1, <1>2, PTL

\* Before the first thread leaves, one block at a time is executed; each
\* thread that leaves lets at most one more in.
THEOREM ExecutorsCorrect == Spec => []ExecutorsBounded
<1>1. Spec => []IInv
  BY IInvInit, IInvStep, PTL DEF Spec
<1>2. IInv => ExecutorsBounded
  BY ExecutingFinite DEF IInv, TypeOK, TicketInv, ExecutorsBounded
<1> QED BY <1>1, <1>2, PTL

\* A set flag is always somebody's who will clear it.
THEOREM LockNeverLost == Spec => []LockHasHolder
<1>1. Spec => []IInv
  BY IInvInit, IInvStep, PTL DEF Spec
<1>2. IInv => LockHasHolder
  BY DEF IInv
<1> QED BY <1>1, <1>2, PTL

-----------------------------------------------------------------------------
\* What the proofs about the block cache rest on.

\* A set of numbers that is not empty has a least one.
LEMMA LeastExists ==
  ASSUME NEW S, S \subseteq Nat, S # {}
  PROVE  \E x \in S : \A y \in S : x <= y
<1> DEFINE R == {p \in Nat \X Nat : p[1] < p[2]}
<1>1. IsWellFoundedOn(R, Nat)
  BY NatLessThanWellFounded DEF OpToRel
<1>2. PICK x \in S : \A y \in S : ~ (<<y, x>> \in R)
  BY <1>1, WFMin
<1>3. ASSUME NEW y \in S PROVE x <= y
  <2>1. <<y, x>> \in Nat \X Nat /\ <<y, x>>[1] = y /\ <<y, x>>[2] = x
    OBVIOUS
  <2>2. ~(y < x)
    BY <1>2, <2>1
  <2> QED BY <2>2
<1> QED BY <1>3

\* Sequences with one element replaced, and without their last.
LEMMA Replaced ==
  ASSUME NEW S, NEW s \in Seq(S), NEW k \in 1..Len(s), NEW x \in S
  PROVE  /\ [s EXCEPT ![k] = x] \in Seq(S)
         /\ Len([s EXCEPT ![k] = x]) = Len(s)
         /\ \A j \in 1..Len(s) : [s EXCEPT ![k] = x][j] = IF j = k THEN x ELSE s[j]
  OBVIOUS

LEMMA Front ==
  ASSUME NEW S, NEW s \in Seq(S), NEW n \in Nat, n < Len(s)
  PROVE  /\ SubSeq(s, 1, n) \in Seq(S) /\ Len(SubSeq(s, 1, n)) = n
         /\ \A j \in 1..n : SubSeq(s, 1, n)[j] = s[j]
  OBVIOUS

-----------------------------------------------------------------------------
(* The inductive invariant.                                                *)

\* Block b is code of address a.  Once it is, it always is: blocks are only
\* appended, and no step changes the address of one.
CodeOf(b, a) == b \in Block /\ blocks[b].addr = a

BlockRec == [addr : Addr, live : BOOLEAN, pred : Seq(Nat)]
FrameRec == [addr : Addr, depth : Nat, blk : Nat, compiling : BOOLEAN, i : Nat]

\* Types of the variables of the cache.
Types ==
  /\ blocks \in Seq(BlockRec)
  /\ cache \in [Addr -> Nat]
  /\ eip \in [Thread -> Addr]
  /\ cur \in [Thread -> Nat]
  /\ work \in [Thread -> Seq(FrameRec)]
  /\ raced \in BOOLEAN
  /\ overlapped \in BOOLEAN
  /\ writing \subseteq Thread

\* A block has a prediction for each successor known at compile time, and one
\* that is filled in is code of it.
PredictionsFiled ==
  \A b \in Block :
    /\ Len(blocks[b].pred) = Len(Predicted[blocks[b].addr])
    /\ \A k \in 1..Len(blocks[b].pred) :
         blocks[b].pred[k] # NoBlock => CodeOf(blocks[b].pred[k], Predicted[blocks[b].addr][k])

\* What is cached is filed under its address, and, while the table is intact,
\* alive and its newest block.
CacheFiled ==
  /\ \A a \in Addr : cache[a] # NoBlock => CodeOf(cache[a], a)
  /\ ~overlapped =>
       /\ \A a \in Addr : cache[a] # NoBlock =>
            /\ blocks[cache[a]].live
            /\ \A b \in Block : blocks[b].addr = a => b <= cache[a]
       /\ \A b \in Block : blocks[b].live => cache[blocks[b].addr] = b

\* From the look-up of its block until the next one a thread's block is code
\* of its eip; a syscall does not change that.
HasBlock == {"spin", "execute", "syscall", "spin_return"}
CurFiled ==
  \A t \in Thread : /\ cur[t] # NoBlock => cur[t] \in Block
                    /\ pc[t] \in HasBlock => CodeOf(cur[t], eip[t])

\* The activations of a look-up: the first is for eip, each further one for
\* the prediction that the one below it is filling in; only the last can be
\* without its block, and only that one can be compiling.
FrameOK(f) ==
  /\ f.i \in Nat \ {0} /\ f.depth <= MaxDepth
  /\ f.blk # NoBlock => CodeOf(f.blk, f.addr) /\ ~f.compiling
CallOK(f, g) ==
  /\ f.blk # NoBlock /\ f.i <= Len(Predicted[f.addr])
  /\ g.addr = Predicted[f.addr][f.i]
StackOK(t) ==
  /\ work[t] # <<>> => pc[t] = "lookup" /\ work[t][1].addr = eip[t]
  /\ \A k \in 1..Len(work[t]) : FrameOK(work[t][k]) /\ work[t][k].depth = k - 1
  /\ \A k \in 1..Len(work[t]) - 1 : CallOK(work[t][k], work[t][k + 1])
Stacks == \A t \in Thread : StackOK(t)

\* Without a race an address that is being compiled is not cached and is
\* compiled by one thread, and no block was ever destroyed.
NoRace ==
  ~raced /\ ~overlapped =>
    /\ \A t \in Thread, a \in Addr : Compiling(t, a) =>
         cache[a] = NoBlock /\ \A u \in Thread \ {t} : ~Compiling(u, a)
    /\ \A b \in Block : blocks[b].live

\* A thread that writes the table has compiled the block it puts there.
Writers == \A t \in writing : Looking(t) /\ Top(t).compiling

CacheInv == /\ Types /\ PredictionsFiled /\ CacheFiled /\ CurFiled /\ Stacks /\ NoRace /\ Writers

-----------------------------------------------------------------------------
(* Code of an address stays code of it, and a look-up that is not touched  *)
(* stays in order.                                                         *)

Grows == \A b \in Block, a \in Addr : CodeOf(b, a) => CodeOf(b, a)'

LEMMA SameBlocksGrow == ASSUME UNCHANGED blocks PROVE Grows
  BY DEF Grows, CodeOf, Block

LEMMA StackStays ==
  ASSUME Types, Grows, NEW t \in Thread, StackOK(t), work'[t] = work[t],
         work[t] # <<>> => pc'[t] = pc[t] /\ eip'[t] = eip[t]
  PROVE  StackOK(t)'
<1>1. \A k \in 1..Len(work[t]) : work[t][k] \in FrameRec
  BY DEF Types
<1>2. ASSUME NEW f \in FrameRec, FrameOK(f) PROVE FrameOK(f)'
  BY <1>2 DEF FrameOK, Grows, CodeOf, FrameRec
<1>3. ASSUME NEW f, NEW g, CallOK(f, g) PROVE CallOK(f, g)'
  BY <1>3 DEF CallOK
<1> QED BY <1>1, <1>2, <1>3 DEF StackOK

LEMMA WritersStay ==
  ASSUME Writers, NEW t \in Thread, writing' \subseteq writing, t \notin writing',
         \A u \in writing' : u # t => work'[u] = work[u] /\ pc'[u] = pc[u]
  PROVE  Writers'
<1> SUFFICES ASSUME NEW u \in writing' PROVE (Looking(u) /\ Top(u).compiling)'
  BY DEF Writers
<1>1. u \in writing /\ u # t /\ work'[u] = work[u] /\ pc'[u] = pc[u]
  OBVIOUS
<1>2. Looking(u) /\ Top(u).compiling
  BY <1>1 DEF Writers
<1> QED BY <1>1, <1>2 DEF Looking, Top

\* A thread whose last activation does not compile does not write.
LEMMA NotWriting ==
  ASSUME Writers, NEW t \in Thread, ~Looking(t) \/ ~Top(t).compiling
  PROVE  t \notin writing
BY DEF Writers

-----------------------------------------------------------------------------
(* The initial state, and steps that leave the blocks as they are.         *)

LEMMA CacheInvInit == CacheInit => CacheInv
<1> SUFFICES ASSUME CacheInit PROVE CacheInv
  OBVIOUS
<1> USE CacheAssumption DEF CacheInit, NoBlock
<1>1. Block = {}
  BY DEF Block
<1>2. Types
  <2>1. blocks \in Seq(BlockRec) /\ <<>> \in Seq(FrameRec)
    OBVIOUS
  <2>2. work \in [Thread -> Seq(FrameRec)]
    BY <2>1
  <2> QED BY <2>1, <2>2 DEF Types
<1>3. PredictionsFiled /\ CacheFiled
  BY <1>1 DEF PredictionsFiled, CacheFiled
<1>4. CurFiled
  BY DEF CurFiled, Init, HasBlock
<1>5. Stacks
  BY DEF Stacks, StackOK
<1>6. NoRace /\ Writers
  BY <1>1 DEF NoRace, Compiling, Writers
<1> QED BY <1>2, <1>3, <1>4, <1>5, <1>6 DEF CacheInv

\* A step of the execution lock keeps a thread that looks a block up where it
\* is, and brings nobody to a block who did not have one.
LEMMA LockStepInv ==
  ASSUME TypeOK, CacheInv, NEW t \in Thread, LockStep(t)
  PROVE  CacheInv'
<1> USE DEF CacheInv
<1>1. UNCHANGED cacheVars
  BY DEF LockStep
<1>2. \A u \in Thread : /\ pc'[u] \in HasBlock => pc[u] \in HasBlock
                        /\ pc[u] = "lookup" => pc'[u] = "lookup"
  BY DEF LockStep, TypeOK, Acquire, SyscallEnter, Return, SyscallExit, Leave, Create, Goto, HasBlock
<1>3. Types' /\ PredictionsFiled' /\ CacheFiled' /\ NoRace'
  BY <1>1 DEF cacheVars, tableVars, Types, PredictionsFiled, CacheFiled, NoRace, Compiling, CodeOf, Block
<1>4. CurFiled'
  BY <1>1, <1>2 DEF cacheVars, CurFiled, CodeOf, Block
<1>5. Stacks'
  <2> SUFFICES ASSUME NEW u \in Thread PROVE StackOK(u)'
    BY DEF Stacks
  <2>1. StackOK(u) /\ UNCHANGED <<work, eip, blocks>>
    BY <1>1 DEF Stacks, cacheVars
  <2>2. work[u] # <<>> => pc'[u] = pc[u]
    BY <2>1, <1>2 DEF StackOK
  <2> QED BY <2>1, <2>2, SameBlocksGrow, StackStays
<1>6. Writers'
  <2> SUFFICES ASSUME NEW u \in writing PROVE (Looking(u) /\ Top(u).compiling)'
    BY <1>1 DEF Writers, cacheVars, tableVars
  <2>1. u \in Thread /\ Looking(u) /\ Top(u).compiling
    BY DEF Writers, Types
  <2> QED BY <1>1, <1>2, <2>1 DEF Looking, Top, cacheVars
<1> QED BY <1>3, <1>4, <1>5, <1>6

\* A block ends at an exit: the thread has to look its next block up.
LEMMA BlockEndsInv ==
  ASSUME TypeOK, CacheInv, NEW t \in Thread, BlockEnds(t)
  PROVE  CacheInv'
<1> USE CacheAssumption DEF CacheInv
<1>1. UNCHANGED <<cache, blocks, cur, work, raced, writing, overlapped>>
  BY DEF BlockEnds, tableVars
<1>2. pc[t] = "execute" /\ pc' = [pc EXCEPT ![t] = "lookup"]
  BY DEF BlockEnds, Release, Goto
<1>3. CodeOf(cur[t], eip[t])
  BY <1>2 DEF CurFiled, HasBlock
<1>4. PICK a \in Jumps[blocks[cur[t]].addr] : eip' = [eip EXCEPT ![t] = a]
  BY DEF BlockEnds
<1>5. a \in Addr
  BY <1>3, <1>4 DEF CodeOf, Types
<1>6. work[t] = <<>>
  BY <1>2 DEF Stacks, StackOK
<1>7. Types'
  BY <1>1, <1>4, <1>5 DEF Types
<1>8. PredictionsFiled' /\ CacheFiled' /\ NoRace'
  BY <1>1 DEF PredictionsFiled, CacheFiled, NoRace, Compiling, CodeOf, Block
<1>9. CurFiled'
  BY <1>1, <1>2, <1>4 DEF CurFiled, CodeOf, Block, HasBlock, TypeOK, Types
<1>10. Stacks'
  <2> SUFFICES ASSUME NEW u \in Thread PROVE StackOK(u)'
    BY DEF Stacks
  <2>1. StackOK(u)
    BY DEF Stacks
  <2>2. work'[u] # <<>> => u # t /\ pc'[u] = pc[u] /\ eip'[u] = eip[u]
    BY <1>1, <1>2, <1>4, <1>6 DEF TypeOK, Types
  <2> QED BY <1>1, <2>1, <2>2, SameBlocksGrow, StackStays
<1>11. Writers'
  <2>1. t \notin writing
    BY <1>6, NotWriting DEF Looking
  <2> QED BY <1>1, <1>2, <2>1, WritersStay DEF TypeOK, Types
<1> QED BY <1>7, <1>9, <1>10, <1>8, <1>11

\* A look-up begins.
LEMMA LookUpInv ==
  ASSUME TypeOK, CacheInv, NEW t \in Thread, LookUp(t)
  PROVE  CacheInv'
<1> USE CacheAssumption DEF CacheInv
<1>1. /\ UNCHANGED <<vars, cache, blocks, eip, cur, raced, writing>>
      /\ pc[t] = "lookup" /\ work[t] = <<>>
      /\ work' = [work EXCEPT ![t] = <<Frame(eip[t], 0)>>]
      /\ overlapped' \in BOOLEAN /\ (~overlapped' => ~overlapped)
  BY DEF LookUp, ReadBegins
<1>2. Frame(eip[t], 0) \in FrameRec
  BY DEF Types, Frame, FrameRec, NoBlock
<1>3. Types'
  BY <1>1, <1>2 DEF Types
<1>4. PredictionsFiled' /\ CacheFiled' /\ CurFiled'
  BY <1>1 DEF vars, PredictionsFiled, CacheFiled, CurFiled, CodeOf, Block
<1>5. Stacks'
  <2> SUFFICES ASSUME NEW u \in Thread PROVE StackOK(u)'
    BY DEF Stacks
  <2>1. CASE u = t
    <3>1. PICK f : f = Frame(eip[t], 0)
      OBVIOUS
    <3>2. work'[u] = <<f>> /\ eip'[u] = f.addr /\ pc'[u] = "lookup" /\ f.depth = 0
      BY <1>1, <2>1, <3>1 DEF Types, vars, Frame
    <3>3. f.i = 1 /\ f.blk = NoBlock
      BY <3>1 DEF Frame
    <3>4. FrameOK(f)'
      BY <3>2, <3>3, CacheAssumption DEF FrameOK
    <3>5. /\ work'[u][1] = f
          /\ \A k \in 1..Len(work'[u]) : k = 1
          /\ \A k \in 1..Len(work'[u]) - 1 : FALSE
      BY <3>2
    <3> HIDE DEF FrameOK, CallOK
    <3> QED BY <3>2, <3>4, <3>5 DEF StackOK
  <2>2. CASE u # t
    <3>1. work'[u] = work[u] /\ StackOK(u)
      BY <1>1, <2>2 DEF Types, Stacks
    <3> QED BY <1>1, <3>1, SameBlocksGrow, StackStays DEF vars
  <2> QED BY <2>1, <2>2
<1>6. NoRace'
  <2>1. \A u \in Thread, a \in Addr : Compiling(u, a)' => Compiling(u, a)
    <3> SUFFICES ASSUME NEW u \in Thread, NEW a \in Addr, Compiling(u, a)' PROVE Compiling(u, a)
      OBVIOUS
    <3>1. CASE u = t
      <4>1. work'[u] = <<Frame(eip[t], 0)>>
        BY <1>1, <3>1 DEF Types
      <4> QED BY <4>1 DEF Compiling, Frame
    <3>2. CASE u # t
      BY <1>1, <3>2 DEF Types, Compiling
    <3> QED BY <3>1, <3>2
  <2> QED BY <1>1, <2>1 DEF NoRace, Block
<1>7. Writers'
  <2>1. t \notin writing
    BY <1>1, NotWriting DEF Looking
  <2> QED BY <1>1, <2>1, WritersStay DEF Types, vars
<1> QED BY <1>3, <1>4, <1>5, <1>6, <1>7

\* A prediction is used: it is code of eip.
LEMMA TakePredictionInv ==
  ASSUME TypeOK, CacheInv, NEW t \in Thread, TakePrediction(t)
  PROVE  CacheInv'
<1> USE CacheAssumption DEF CacheInv
<1>1. /\ UNCHANGED <<cache, blocks, eip, work, raced, writing, overlapped>>
      /\ pc[t] = "lookup" /\ pc' = [pc EXCEPT ![t] = "spin"]
      /\ work[t] = <<>> /\ Prediction(t) # NoBlock
      /\ cur' = [cur EXCEPT ![t] = Prediction(t)]
  BY DEF TakePrediction, Lookup, Goto, tableVars
<1>2. CodeOf(Prediction(t), eip[t])
  <2> DEFINE b == blocks[cur[t]]
             hits == {k \in DOMAIN b.pred : Predicted[b.addr][k] = eip[t]}
  <2>1. cur[t] # NoBlock /\ cur[t] \in Block
    BY <1>1 DEF Prediction, CurFiled
  <2>2. b \in BlockRec
    BY <2>1 DEF Types, Block
  <2>3. DOMAIN b.pred = 1..Len(b.pred) /\ Len(b.pred) \in Nat
    BY <2>2 DEF BlockRec
  <2>4. hits # {} /\ Prediction(t) = b.pred[CHOOSE k \in hits : \A j \in hits : k <= j]
    BY <1>1, <2>1 DEF Prediction
  <2>5. \E k \in hits : \A j \in hits : k <= j
    <3>1. hits \subseteq Nat
      BY <2>3
    <3> HIDE DEF hits
    <3> QED BY <3>1, <2>4, LeastExists
  <2>6. PICK k \in hits : Prediction(t) = b.pred[k]
    BY <2>4, <2>5
  <2> QED BY <2>1, <2>3, <2>6, <1>1 DEF PredictionsFiled
<1>3. Types'
  <2>1. Prediction(t) \in Nat
    <3>1. Prediction(t) \in 1..Len(blocks) /\ Len(blocks) \in Nat
      BY <1>2 DEF CodeOf, Block, Types
    <3> HIDE DEF CacheInv
    <3> QED BY <3>1
  <2>2. cur' \in [Thread -> Nat]
    BY <1>1, <2>1 DEF Types
  <2> QED BY <1>1, <2>2 DEF Types
<1>4. PredictionsFiled' /\ CacheFiled' /\ NoRace'
  BY <1>1 DEF PredictionsFiled, CacheFiled, NoRace, Compiling, CodeOf, Block
<1>5. CurFiled'
  BY <1>1, <1>2 DEF CurFiled, CodeOf, Block, TypeOK, Types, HasBlock
<1>6. Stacks'
  <2> SUFFICES ASSUME NEW u \in Thread PROVE StackOK(u)'
    BY DEF Stacks
  <2>1. StackOK(u) /\ UNCHANGED <<work, eip, blocks>>
    BY <1>1 DEF Stacks
  <2>2. work[u] # <<>> => pc'[u] = pc[u]
    BY <2>1, <1>1 DEF TypeOK
  <2> QED BY <2>1, <2>2, SameBlocksGrow, StackStays
<1>7. Writers'
  <2>1. t \notin writing
    BY <1>1, NotWriting DEF Looking
  <2> QED BY <1>1, <2>1, WritersStay DEF TypeOK, Types
<1> QED BY <1>3, <1>4, <1>5, <1>6, <1>7

-----------------------------------------------------------------------------
(* An activation in work[t]: what the invariant says of the last one.      *)

LEMMA TopFrame ==
  ASSUME CacheInv, NEW t \in Thread, Looking(t)
  PROVE  /\ Len(work[t]) \in Nat \ {0}
         /\ Top(t) \in FrameRec /\ FrameOK(Top(t))
         /\ \A k \in 1..Len(work[t]) : work[t][k] \in FrameRec /\ FrameOK(work[t][k])
         /\ \A k \in 1..Len(work[t]) - 1 : work[t][k].blk # NoBlock /\ ~work[t][k].compiling
<1>1. work[t] \in Seq(FrameRec) /\ work[t] # <<>> /\ StackOK(t)
  BY DEF CacheInv, Types, Stacks, Looking
<1>2. Len(work[t]) \in Nat \ {0}
  BY <1>1
<1>3. \A k \in 1..Len(work[t]) : work[t][k] \in FrameRec /\ FrameOK(work[t][k])
  BY <1>1 DEF StackOK
<1>4. \A k \in 1..Len(work[t]) - 1 : work[t][k].blk # NoBlock /\ ~work[t][k].compiling
  BY <1>1, <1>2, <1>3 DEF StackOK, CallOK, FrameOK
<1> QED BY <1>2, <1>3, <1>4 DEF Top

\* The address of an activation is one.
LEMMA CodeInBlock ==
  ASSUME CacheInv, NEW b, NEW a, CodeOf(b, a)
  PROVE  b \in Block /\ b \in Nat \ {0} /\ b # NoBlock /\ blocks[b] \in BlockRec /\ a \in Addr
<1>1. b \in Block /\ blocks[b].addr = a /\ blocks \in Seq(BlockRec)
  BY DEF CacheInv, Types, CodeOf
<1>2. b \in Nat \ {0} /\ b \in 1..Len(blocks)
  BY <1>1 DEF Block
<1>3. blocks[b] \in BlockRec
  BY <1>1, <1>2
<1> QED BY <1>1, <1>2, <1>3 DEF NoBlock, BlockRec

\* The block an activation has is returned to the loop: the look-up is over.
LEMMA LastReturn ==
  ASSUME TypeOK, CacheInv, NEW t \in Thread, Looking(t), NEW b, CodeOf(b, Top(t).addr),
         Len(work[t]) = 1, ReturnBlock(t, b), UNCHANGED <<cache, eip, raced, writing, overlapped>>,
         t \notin writing
  PROVE  CacheInv'
<1> USE DEF CacheInv
<1>1. /\ UNCHANGED <<cache, blocks, eip, raced, writing, overlapped>>
      /\ pc[t] = "lookup" /\ pc' = [pc EXCEPT ![t] = "spin"]
      /\ cur' = [cur EXCEPT ![t] = b]
      /\ work' = [work EXCEPT ![t] = <<>>]
  BY DEF ReturnBlock, Lookup, Goto
<1>2. CodeOf(b, eip[t])
  BY DEF Stacks, StackOK, Looking, Top
<1>3. Types'
  <2>1. work' \in [Thread -> Seq(FrameRec)]
    BY <1>1 DEF Types
  <2> QED BY <1>1, <1>2, <2>1, CodeInBlock DEF Types
<1>4. PredictionsFiled' /\ CacheFiled'
  BY <1>1 DEF PredictionsFiled, CacheFiled, CodeOf, Block
<1>5. CurFiled'
  BY <1>1, <1>2 DEF CurFiled, CodeOf, Block, TypeOK, Types, HasBlock
<1>6. Stacks'
  <2> SUFFICES ASSUME NEW u \in Thread PROVE StackOK(u)'
    BY DEF Stacks
  <2>1. CASE u = t
    BY <1>1, <2>1 DEF Types, StackOK
  <2>2. CASE u # t
    <3>1. work'[u] = work[u] /\ pc'[u] = pc[u] /\ eip'[u] = eip[u] /\ StackOK(u)
      BY <1>1, <2>2 DEF Types, TypeOK, Stacks
    <3> QED BY <1>1, <3>1, SameBlocksGrow, StackStays
  <2> QED BY <2>1, <2>2
<1>7. NoRace'
  <2>1. \A u \in Thread, a \in Addr : Compiling(u, a)' => Compiling(u, a)
    BY <1>1 DEF Types, Compiling
  <2> QED BY <1>1, <2>1 DEF NoRace, Block
<1>8. Writers'
  BY <1>1, WritersStay DEF TypeOK, Types
<1> QED BY <1>3, <1>4, <1>5, <1>6, <1>7, <1>8

\* A prediction of a block is filled in.
LEMMA Filled ==
  ASSUME NEW r \in BlockRec, NEW k \in 1..Len(r.pred), NEW b \in Nat
  PROVE  LET f == [r EXCEPT !.pred[k] = b]
         IN /\ f \in BlockRec /\ f.addr = r.addr /\ f.live = r.live /\ Len(f.pred) = Len(r.pred)
            /\ \A j \in 1..Len(r.pred) : f.pred[j] = IF j = k THEN b ELSE r.pred[j]
<1> DEFINE p == [r.pred EXCEPT ![k] = b]
           f == [r EXCEPT !.pred[k] = b]
<1>1. r.pred \in Seq(Nat)
  BY DEF BlockRec
<1>2. p \in Seq(Nat) /\ Len(p) = Len(r.pred) /\ \A j \in 1..Len(r.pred) : p[j] = IF j = k THEN b ELSE r.pred[j]
  BY <1>1, Replaced
<1>3. f = [r EXCEPT !.pred = p]
  BY DEF BlockRec
<1> HIDE DEF p
<1>4. f.pred = p /\ f.addr = r.addr /\ f.live = r.live /\ f \in BlockRec
  BY <1>2, <1>3 DEF BlockRec
<1> QED BY <1>2, <1>4

Fill(s, B, k, b) == [s EXCEPT ![B].pred[k] = b]
\* z is s with that one prediction changed.
FilledOK(z, s, B, k, b) ==
  /\ z \in Seq(BlockRec) /\ Len(z) = Len(s)
  /\ \A x \in 1..Len(s) : /\ z[x].addr = s[x].addr /\ z[x].live = s[x].live
                          /\ Len(z[x].pred) = Len(s[x].pred)
                          /\ \A j \in 1..Len(s[x].pred) :
                               z[x].pred[j] = IF x = B /\ j = k THEN b ELSE s[x].pred[j]

LEMMA PredictionFilled ==
  ASSUME NEW s \in Seq(BlockRec), NEW B \in 1..Len(s), NEW k \in 1..Len(s[B].pred), NEW b \in Nat
  PROVE  FilledOK(Fill(s, B, k, b), s, B, k, b)
<1> DEFINE f == [s[B] EXCEPT !.pred[k] = b]
           z == [s EXCEPT ![B] = f]
<1>1. s[B] \in BlockRec
  OBVIOUS
<1>2. f \in BlockRec /\ f.addr = s[B].addr /\ f.live = s[B].live
      /\ Len(f.pred) = Len(s[B].pred)
      /\ \A j \in 1..Len(s[B].pred) : f.pred[j] = IF j = k THEN b ELSE s[B].pred[j]
  BY <1>1, Filled
<1> HIDE DEF f
<1>3. z \in Seq(BlockRec) /\ Len(z) = Len(s) /\ \A x \in 1..Len(s) : z[x] = IF x = B THEN f ELSE s[x]
  BY <1>2, Replaced
<1> HIDE DEF z
<1>4. ASSUME NEW x \in 1..Len(s)
      PROVE  /\ z[x].addr = s[x].addr /\ z[x].live = s[x].live /\ Len(z[x].pred) = Len(s[x].pred)
             /\ \A j \in 1..Len(s[x].pred) :
                  z[x].pred[j] = IF x = B /\ j = k THEN b ELSE s[x].pred[j]
  BY <1>2, <1>3
<1>5. FilledOK(z, s, B, k, b)
  BY <1>3, <1>4 DEF FilledOK
<1> QED BY <1>5 DEF z, f, Fill

\* The activation that asked goes on to its next prediction.
LEMMA NextPrediction ==
  ASSUME NEW f \in FrameRec
  PROVE  LET g == [f EXCEPT !.i = @ + 1]
         IN /\ g \in FrameRec /\ g.addr = f.addr /\ g.depth = f.depth /\ g.blk = f.blk
            /\ g.compiling = f.compiling /\ g.i = f.i + 1
  BY DEF FrameRec

\* Z is the first n activations of W, the last of them with its next prediction.
ResumedOK(Z, W, n) ==
  /\ Z \in Seq(FrameRec) /\ Len(Z) = n
  /\ \A k \in 1..n : /\ Z[k].addr = W[k].addr /\ Z[k].depth = W[k].depth /\ Z[k].blk = W[k].blk
                     /\ Z[k].compiling = W[k].compiling
                     /\ Z[k].i = IF k = n THEN W[k].i + 1 ELSE W[k].i

LEMMA Resumed ==
  ASSUME NEW W \in Seq(FrameRec), NEW n \in Nat \ {0}, Len(W) = n + 1,
         NEW Z, Z = [SubSeq(W, 1, n) EXCEPT ![n].i = @ + 1]
  PROVE  ResumedOK(Z, W, n)
<1> DEFINE Y == SubSeq(W, 1, n)
           g == [Y[n] EXCEPT !.i = @ + 1]
           X == [Y EXCEPT ![n] = g]
<1>1. Y \in Seq(FrameRec) /\ Len(Y) = n /\ \A j \in 1..n : Y[j] = W[j]
  BY Front
<1> HIDE DEF Y
<1>2. Y[n] \in FrameRec /\ n \in 1..Len(Y)
  BY <1>1
<1>3. /\ g \in FrameRec /\ g.addr = Y[n].addr /\ g.depth = Y[n].depth /\ g.blk = Y[n].blk
      /\ g.compiling = Y[n].compiling /\ g.i = Y[n].i + 1
  BY <1>2, NextPrediction
<1> HIDE DEF g
<1>4. X \in Seq(FrameRec) /\ Len(X) = n /\ \A j \in 1..n : X[j] = IF j = n THEN g ELSE Y[j]
  BY <1>1, <1>2, <1>3, Replaced
<1> HIDE DEF X
<1>5. ASSUME NEW k \in 1..n
      PROVE  /\ X[k].addr = W[k].addr /\ X[k].depth = W[k].depth /\ X[k].blk = W[k].blk
             /\ X[k].compiling = W[k].compiling
             /\ X[k].i = IF k = n THEN W[k].i + 1 ELSE W[k].i
  BY <1>1, <1>3, <1>4
<1>6. Z = X
  BY DEF X, g, Y
<1> QED BY <1>4, <1>5, <1>6 DEF ResumedOK

\* It is returned to the activation that asked for it, which files it under the
\* prediction it is at.
LEMMA InnerReturn ==
  ASSUME TypeOK, CacheInv, NEW t \in Thread, Looking(t), NEW b,
         b = NoBlock \/ CodeOf(b, Top(t).addr),
         Len(work[t]) # 1, ReturnBlock(t, b), UNCHANGED <<cache, eip, raced, writing, overlapped>>,
         t \notin writing
  PROVE  CacheInv'
<1>1. PICK W, X, n : W = work[t] /\ X = work'[t] /\ n = Len(W) - 1
  OBVIOUS
<1>2. PICK B, i : B = W[n].blk /\ i = W[n].i
  OBVIOUS
<1>3. Types /\ PredictionsFiled /\ CacheFiled /\ CurFiled /\ Stacks /\ NoRace
  BY DEF CacheInv
<1>4. W \in Seq(FrameRec) /\ n \in Nat \ {0} /\ Len(W) = n + 1
  BY <1>3, <1>1, TopFrame DEF Types
<1>5. /\ UNCHANGED <<vars, cache, eip, cur, raced, writing, overlapped>>
      /\ blocks' = [blocks EXCEPT ![B].pred[i] = b]
      /\ work' = [work EXCEPT ![t] = [SubSeq(W, 1, n) EXCEPT ![n].i = @ + 1]]
  BY <1>1, <1>2 DEF ReturnBlock, Pop
<1>6. /\ W[n] \in FrameRec /\ FrameOK(W[n]) /\ CallOK(W[n], W[n + 1]) /\ W[n + 1] = Top(t)
  <2>1. Top(t) = W[n + 1] /\ n \in 1..Len(W) /\ n \in 1..Len(W) - 1
    <3>1. Top(t) = W[Len(W)]
      BY <1>1 DEF Top
    <3> QED BY <1>4, <3>1
  <2>2. CallOK(W[n], W[n + 1])
    BY <2>1, <1>3, <1>1 DEF Stacks, StackOK
  <2> QED BY <2>1, <2>2, <1>1, TopFrame
<1>7. CodeOf(B, W[n].addr) /\ i \in Nat \ {0} /\ i <= Len(Predicted[W[n].addr])
      /\ (b = NoBlock \/ CodeOf(b, Predicted[W[n].addr][i]))
  BY <1>6, <1>2 DEF FrameOK, CallOK
<1>8. B \in Block /\ blocks[B].addr = W[n].addr /\ blocks[B] \in BlockRec /\ b \in Nat
  BY <1>7, CodeInBlock DEF CodeOf, NoBlock
<1>9. i \in 1..Len(blocks[B].pred)
  <2>1. Len(blocks[B].pred) = Len(Predicted[W[n].addr])
    BY <1>8, <1>3 DEF PredictionsFiled
  <2>2. Len(blocks[B].pred) \in Nat
    BY <1>8 DEF BlockRec
  <2> QED BY <1>7, <2>1, <2>2
<1>10. X \in Seq(FrameRec) /\ Len(X) = n
      /\ \A k \in 1..n : /\ X[k].addr = W[k].addr /\ X[k].depth = W[k].depth /\ X[k].blk = W[k].blk
                         /\ X[k].compiling = W[k].compiling
                         /\ X[k].i = IF k = n THEN W[k].i + 1 ELSE W[k].i
  <2>1. X = [SubSeq(W, 1, n) EXCEPT ![n].i = @ + 1]
    <3>1. work \in [Thread -> Seq(FrameRec)] /\ X = work'[t]
      BY <1>3, <1>1 DEF Types
    <3> QED BY <1>5, <3>1
  <2>2. W \in Seq(FrameRec)
    BY <1>4
  <2>3. n \in Nat \ {0}
    BY <1>4
  <2>4. Len(W) = n + 1
    BY <1>4
  <2>5. ResumedOK(X, W, n)
    BY <2>1, <2>2, <2>3, <2>4, Resumed, Zenon
  <2> QED BY <2>5 DEF ResumedOK
<1>11. /\ blocks' \in Seq(BlockRec) /\ Len(blocks') = Len(blocks)
      /\ \A x \in 1..Len(blocks) :
           /\ blocks'[x].addr = blocks[x].addr /\ blocks'[x].live = blocks[x].live
           /\ Len(blocks'[x].pred) = Len(blocks[x].pred)
           /\ \A j \in 1..Len(blocks[x].pred) :
                blocks'[x].pred[j] = IF x = B /\ j = i THEN b ELSE blocks[x].pred[j]
  <2>1. blocks \in Seq(BlockRec) /\ B \in 1..Len(blocks)
    BY <1>8, <1>3 DEF Types, Block
  <2>2. b \in Nat
    BY <1>8
  <2>3. blocks' = Fill(blocks, B, i, b)
    BY <1>5, Zenon DEF Fill
  <2>4. FilledOK(Fill(blocks, B, i, b), blocks, B, i, b)
    BY <1>9, <2>1, <2>2, PredictionFilled
  <2> QED BY <2>3, <2>4, Zenon DEF FilledOK
<1>12. \A u \in Thread : u # t => work'[u] = work[u]
  BY <1>5, <1>3 DEF Types
<1>13. work' \in [Thread -> Seq(FrameRec)]
  <2>1. [SubSeq(W, 1, n) EXCEPT ![n].i = @ + 1] \in Seq(FrameRec)
    <3>1. PICK Z : Z = [SubSeq(W, 1, n) EXCEPT ![n].i = @ + 1]
      OBVIOUS
    <3>2. ResumedOK(Z, W, n)
      BY <1>4, <3>1, Resumed, Zenon
    <3> QED BY <3>1, <3>2 DEF ResumedOK
  <2> QED BY <1>5, <1>3, <2>1 DEF Types
<1>14. StackOK(t)
  BY <1>3 DEF Stacks
<1>15. \A u \in Thread \ {t} : StackOK(u)
  BY <1>3 DEF Stacks
<1>16. UNCHANGED <<pc, cache, eip, cur, raced, writing, overlapped>>
  BY <1>5 DEF vars
<1>17. Looking(t)
  OBVIOUS
<1>18. Block' = Block /\ Block = 1..Len(blocks)
  BY <1>11 DEF Block
<1>19. Grows
  BY <1>11, <1>18 DEF Grows, CodeOf
<1>20. Types'
  BY <1>11, <1>13, <1>16, <1>3 DEF Types
<1>21. PredictionsFiled'
  <2> SUFFICES ASSUME NEW x \in Block
               PROVE  /\ Len(blocks'[x].pred) = Len(Predicted[blocks'[x].addr])
                      /\ \A k \in 1..Len(blocks'[x].pred) : blocks'[x].pred[k] # NoBlock =>
                           blocks'[x].pred[k] \in Block
                           /\ blocks'[blocks'[x].pred[k]].addr = Predicted[blocks'[x].addr][k]
    BY <1>18 DEF PredictionsFiled, CodeOf, NoBlock
  <2>1. /\ Len(blocks[x].pred) = Len(Predicted[blocks[x].addr])
        /\ \A k \in 1..Len(blocks[x].pred) : blocks[x].pred[k] # NoBlock =>
             CodeOf(blocks[x].pred[k], Predicted[blocks[x].addr][k])
    BY <1>3 DEF PredictionsFiled
  <2>2. ASSUME NEW k \in 1..Len(blocks[x].pred), blocks'[x].pred[k] # NoBlock
        PROVE  CodeOf(blocks'[x].pred[k], Predicted[blocks'[x].addr][k])
    <3>1. blocks'[x].addr = blocks[x].addr
      BY <1>11, <1>18
    <3>2. CASE x = B /\ k = i
      <4>1. blocks'[x].pred[k] = b
        BY <1>11, <1>18, <3>2
      <4>2. Predicted[blocks'[x].addr][k] = Predicted[W[n].addr][i]
        BY <1>8, <3>1, <3>2, Zenon
      <4> QED BY <1>7, <2>2, <4>1, <4>2, Zenon
    <3>3. CASE ~(x = B /\ k = i)
      <4>1. blocks'[x].pred[k] = blocks[x].pred[k]
        BY <1>11, <1>18, <3>3
      <4> QED BY <2>1, <2>2, <3>1, <4>1, Zenon
    <3> QED BY <3>2, <3>3
  <2>3. ASSUME NEW c, NEW a, CodeOf(c, a) PROVE c \in Block /\ blocks'[c].addr = a
    BY <1>11, <1>18, <2>3 DEF CodeOf
  <2>4. \A k \in 1..Len(blocks'[x].pred) : blocks'[x].pred[k] # NoBlock =>
          /\ blocks'[x].pred[k] \in Block
          /\ blocks'[blocks'[x].pred[k]].addr = Predicted[blocks'[x].addr][k]
    BY <1>11, <1>18, <2>2, <2>3
  <2> QED BY <1>11, <1>18, <2>1, <2>4
<1>22. CacheFiled'
  <2>1. ASSUME NEW a \in Addr, cache[a] # NoBlock
        PROVE  cache[a] \in Block /\ blocks'[cache[a]].addr = a
    BY <1>11, <1>18, <1>3, <2>1 DEF CacheFiled, CodeOf
  <2>2. ASSUME ~overlapped, NEW a \in Addr, cache[a] # NoBlock
        PROVE  /\ blocks'[cache[a]].live
               /\ \A x \in Block : blocks'[x].addr = a => x <= cache[a]
    BY <1>11, <1>18, <1>3, <2>1, <2>2 DEF CacheFiled
  <2>3. ASSUME ~overlapped, NEW x \in Block, blocks'[x].live PROVE cache[blocks'[x].addr] = x
    BY <1>11, <1>18, <1>3, <2>3 DEF CacheFiled
  <2> QED BY <1>16, <1>18, <2>1, <2>2, <2>3 DEF CacheFiled, CodeOf
<1>23. CurFiled'
  BY <1>11, <1>16, <1>18, <1>3 DEF CurFiled, CodeOf
<1>24. StackOK(t)'
  <2>1. /\ pc[t] = "lookup" /\ W[1].addr = eip[t]
        /\ \A k \in 1..n : FrameOK(W[k]) /\ W[k].depth = k - 1 /\ W[k] \in FrameRec
        /\ \A k \in 1..n - 1 : CallOK(W[k], W[k + 1])
    <3>1. W # <<>> /\ pc[t] = "lookup"
      BY <1>1, <1>17 DEF Looking
    <3>2. W[1].addr = eip[t] /\ \A k \in 1..Len(W) : FrameOK(W[k]) /\ W[k].depth = k - 1
      BY <3>1, <1>1, <1>14 DEF StackOK
    <3>3. \A k \in 1..Len(W) - 1 : CallOK(W[k], W[k + 1])
      BY <1>1, <1>14 DEF StackOK
    <3>4. \A k \in 1..Len(W) : W[k] \in FrameRec
      BY <1>4
    <3>5. Len(W) - 1 = n /\ 1..n \subseteq 1..Len(W)
      BY <1>4
    <3> QED BY <3>1, <3>2, <3>3, <3>4, <3>5
  <2>2. ASSUME NEW k \in 1..n PROVE FrameOK(X[k])' /\ X[k].depth = k - 1
    <3>1. X[k].i \in Nat \ {0} /\ X[k].depth <= MaxDepth /\ X[k].depth = k - 1
      BY <1>10, <2>1, SMTT(30) DEF FrameOK
    <3>2. ASSUME W[k].blk # NoBlock PROVE CodeOf(W[k].blk, W[k].addr)' /\ ~W[k].compiling
      <4>1. CodeOf(W[k].blk, W[k].addr) /\ ~W[k].compiling
        BY <2>1, <3>2 DEF FrameOK
      <4>2. W[k].blk \in Block /\ W[k].addr \in Addr
        BY <4>1, CodeInBlock
      <4> QED BY <1>19, <4>1, <4>2 DEF Grows
    <3> QED BY <1>10, <3>1, <3>2 DEF FrameOK, NoBlock
  <2>3. ASSUME NEW k \in 1..n - 1 PROVE CallOK(X[k], X[k + 1])
    <3>1. k \in 1..n /\ k + 1 \in 1..n /\ k # n
      BY <1>4
    <3> QED BY <1>10, <2>1, <3>1 DEF CallOK
  <2>4. X[1].addr = eip[t]
    BY <1>4, <1>10, <2>1
  <2> QED BY <1>10, <1>16, <1>1, <2>1, <2>2, <2>3, <2>4 DEF StackOK
<1>25. Stacks'
  BY <1>12, <1>15, <1>16, <1>19, <1>24, <1>3, StackStays DEF Stacks
<1>26. NoRace'
  <2>1. ASSUME NEW u \in Thread, NEW a \in Addr, Compiling(u, a)' PROVE Compiling(u, a)
    <3>1. CASE u # t
      BY <1>12, <2>1, <3>1 DEF Compiling
    <3>2. CASE u = t
      <4>1. PICK k \in 1..n : X[k].compiling
        BY <1>1, <1>10, <2>1, <3>2 DEF Compiling
      <4>2. W[k].compiling
        BY <1>10, <4>1
      <4> QED BY <1>4, <1>1, <4>2, TopFrame
    <3> QED BY <3>1, <3>2
  <2> QED BY <1>11, <1>16, <1>18, <2>1, <1>3 DEF NoRace
<1>27. Writers'
  BY <1>12, <1>16, <1>3, WritersStay DEF Types, CacheInv
<1> QED BY <1>20, <1>21, <1>22, <1>23, <1>25, <1>26, <1>27 DEF CacheInv

-----------------------------------------------------------------------------
(* A look-up finds its block or begins to compile it.                      *)

\* The last of some activations, changed.
LEMMA LastReplaced ==
  ASSUME NEW W \in Seq(FrameRec), NEW n \in Nat, n = Len(W), n # 0, NEW f \in FrameRec
  PROVE  /\ [W EXCEPT ![n] = f] \in Seq(FrameRec) /\ Len([W EXCEPT ![n] = f]) = n
         /\ \A k \in 1..n - 1 : [W EXCEPT ![n] = f][k] = W[k]
         /\ [W EXCEPT ![n] = f][n] = f
<1>1. n \in 1..Len(W)
  OBVIOUS
<1> QED BY <1>1, Replaced

\* An activation that gets no further than its last frame is in order if that
\* frame is.
LEMMA StackChanges ==
  ASSUME CacheInv, Grows, NEW t \in Thread, Looking(t), NEW W, W = work[t], NEW X, X = work'[t],
         UNCHANGED <<pc, eip>>, NEW n \in Nat \ {0}, Len(W) = n, Len(X) = n,
         \A k \in 1..n - 1 : X[k] = W[k],
         X[n].addr = W[n].addr, X[n].depth = W[n].depth, FrameOK(X[n])'
  PROVE  StackOK(t)'
<1>1. StackOK(t) /\ pc[t] = "lookup" /\ W # <<>>
  BY DEF CacheInv, Stacks, Looking
<1>2. /\ W[1].addr = eip[t]
      /\ \A k \in 1..n : FrameOK(W[k]) /\ W[k].depth = k - 1
      /\ \A k \in 1..n - 1 : CallOK(W[k], W[k + 1])
  BY <1>1 DEF StackOK
<1>3. ASSUME NEW k \in 1..n - 1 PROVE FrameOK(X[k])'
  <2>1. X[k] = W[k] /\ FrameOK(W[k]) /\ k \in 1..Len(W)
    BY <1>2
  <2>2. ASSUME W[k].blk # NoBlock PROVE CodeOf(W[k].blk, W[k].addr)'
    <3>1. CodeOf(W[k].blk, W[k].addr)
      BY <2>1, <2>2 DEF FrameOK
    <3> QED BY <3>1, CodeInBlock DEF Grows
  <2> QED BY <2>1, <2>2 DEF FrameOK, NoBlock
<1>4. ASSUME NEW k \in 1..n - 1 PROVE CallOK(X[k], X[k + 1])
  <2>1. X[k] = W[k] /\ X[k + 1].addr = W[k + 1].addr
    <3>1. CASE k + 1 = n
      BY <3>1
    <3>2. CASE k + 1 # n
      BY <3>2
    <3> QED BY <3>1, <3>2
  <2> QED BY <1>2, <2>1 DEF CallOK
<1>5. \A k \in 1..n : FrameOK(X[k])' /\ X[k].depth = k - 1
  <2> TAKE k \in 1..n
  <2>1. CASE k = n
    BY <1>2, <2>1
  <2>2. CASE k # n
    <3>1. k \in 1..n - 1
      BY <2>2
    <3> QED BY <1>2, <1>3, <3>1
  <2> QED BY <2>1, <2>2
<1>6. X[1].addr = eip[t]
  BY <1>2
<1> QED BY <1>1, <1>4, <1>5, <1>6 DEF StackOK

LEMMA CompilingStarts ==
  ASSUME TypeOK, CacheInv, NEW t \in Thread, Looking(t),
         Top(t).blk = NoBlock, ~overlapped => cache[Top(t).addr] = NoBlock,
         work' = [work EXCEPT ![t][Len(work[t])].compiling = TRUE],
         raced' = (raced \/ \E u \in Thread \ {t} : Compiling(u, Top(t).addr)),
         UNCHANGED <<vars, blocks, cur, cache, eip, writing, overlapped>>, t \notin writing
  PROVE  CacheInv'
<1>1. PICK W, X, n : W = work[t] /\ X = work'[t] /\ n = Len(W)
  OBVIOUS
<1>2. Types /\ PredictionsFiled /\ CacheFiled /\ CurFiled /\ Stacks /\ NoRace
  BY DEF CacheInv
<1>3. W \in Seq(FrameRec) /\ n \in Nat \ {0} /\ Top(t) = W[n] /\ W[n] \in FrameRec /\ FrameOK(W[n])
  BY <1>2, <1>1, TopFrame DEF Types, Top
<1>4. PICK f : f = [W[n] EXCEPT !.compiling = TRUE]
  OBVIOUS
<1>5. f \in FrameRec /\ f.addr = W[n].addr /\ f.depth = W[n].depth /\ f.blk = W[n].blk
      /\ f.i = W[n].i /\ f.compiling = TRUE
  BY <1>3, <1>4 DEF FrameRec
<1>6. work' = [work EXCEPT ![t] = [W EXCEPT ![n] = f]]
  BY <1>4, <1>1
<1>7. X = [W EXCEPT ![n] = f] /\ \A u \in Thread \ {t} : work'[u] = work[u]
  BY <1>6, <1>1, <1>2 DEF Types
<1>8. X \in Seq(FrameRec) /\ Len(X) = n /\ X[n] = f /\ \A k \in 1..n - 1 : X[k] = W[k]
  BY <1>3, <1>5, <1>7, <1>1, LastReplaced
<1>9. Types'
  <2>1. work' \in [Thread -> Seq(FrameRec)]
    BY <1>6, <1>7, <1>8, <1>2 DEF Types
  <2>2. raced' \in BOOLEAN
    OBVIOUS
  <2> QED BY <2>1, <2>2, <1>2 DEF Types
<1>10. PredictionsFiled' /\ CacheFiled' /\ CurFiled'
  BY <1>2 DEF PredictionsFiled, CacheFiled, CurFiled, CodeOf, Block, vars
<1>11. Stacks'
  <2>1. FrameOK(f)'
    BY <1>3, <1>5 DEF FrameOK
  <2>2. UNCHANGED <<pc, eip>>
    BY DEF vars
  <2>3. StackOK(t)'
    <3>1. FrameOK(X[n])' /\ X[n].addr = W[n].addr /\ X[n].depth = W[n].depth
      BY <1>5, <1>8, <2>1 DEF FrameOK
    <3>2. Grows
      BY SameBlocksGrow
    <3> QED BY <1>1, <1>3, <1>8, <2>2, <3>1, <3>2, StackChanges, ZenonT(30)
  <2> QED BY <1>7, <1>2, <2>2, <2>3, SameBlocksGrow, StackStays DEF Stacks
<1>12. NoRace'
  <2> SUFFICES ASSUME ~raced', ~overlapped
               PROVE  /\ \A u \in Thread, a \in Addr : Compiling(u, a)' =>
                           cache[a] = NoBlock /\ \A v \in Thread \ {u} : ~Compiling(v, a)'
                      /\ \A b \in Block : blocks[b].live
    BY DEF NoRace, Block
  <2>1. ~raced /\ \A u \in Thread \ {t} : ~Compiling(u, W[n].addr)
    BY <1>3
  <2>2. /\ \A u \in Thread, a \in Addr : Compiling(u, a) =>
             cache[a] = NoBlock /\ \A v \in Thread \ {u} : ~Compiling(v, a)
        /\ \A b \in Block : blocks[b].live
    BY <2>1, <1>2 DEF NoRace
  <2>3. \A u \in Thread \ {t}, a \in Addr : Compiling(u, a)' = Compiling(u, a)
    BY <1>7 DEF Compiling
  <2>4. ASSUME NEW a \in Addr, Compiling(t, a)' PROVE a = W[n].addr
    <3>1. PICK k \in 1..n : X[k].compiling /\ X[k].addr = a
      <4>1. PICK k \in DOMAIN X : X[k].compiling /\ X[k].addr = a
        BY <1>1, <2>4 DEF Compiling
      <4>2. DOMAIN X = 1..n
        BY <1>8
      <4> QED BY <4>1, <4>2
    <3>2. k = n
      BY <1>3, <1>8, <1>1, <3>1, TopFrame
    <3> QED BY <1>5, <1>8, <3>1, <3>2
  <2> QED BY <1>3, <2>1, <2>2, <2>3, <2>4
<1>13. Writers'
  BY <1>7, WritersStay DEF CacheInv, vars, Types
<1> QED BY <1>9, <1>10, <1>11, <1>12, <1>13 DEF CacheInv

-----------------------------------------------------------------------------
(* compile_block.                                                          *)

\* A thread begins to write the table.
LEMMA BeginInsertInv ==
  ASSUME TypeOK, CacheInv, NEW t \in Thread, BeginInsert(t)
  PROVE  CacheInv'
<1> USE DEF CacheInv
<1>1. /\ UNCHANGED <<vars, cache, blocks, eip, cur, work, raced>>
      /\ Looking(t) /\ Top(t).compiling /\ writing' = writing \cup {t}
      /\ overlapped' \in BOOLEAN /\ (~overlapped' => ~overlapped)
  BY DEF BeginInsert, WriteBegins, Types
<1>2. Types' /\ PredictionsFiled' /\ CacheFiled' /\ CurFiled' /\ NoRace'
  BY <1>1 DEF vars, Types, PredictionsFiled, CacheFiled, CurFiled, NoRace, Compiling, CodeOf, Block
<1>3. Stacks'
  BY <1>1, SameBlocksGrow, StackStays DEF Stacks, vars
<1>4. Writers'
  BY <1>1 DEF Writers, Looking, Top, vars
<1> QED BY <1>2, <1>3, <1>4

\* The new block is the last; the one that was cached is destroyed.
Extended(old, a) == Append(Destroy(old), NewBlock(a))
LEMMA BlockAdded ==
  ASSUME Types, NEW a \in Addr, NEW old, blocks' = Extended(old, a)
  PROVE  /\ blocks' \in Seq(BlockRec) /\ Len(blocks') = Len(blocks) + 1
         /\ blocks'[Len(blocks) + 1] = NewBlock(a)
         /\ \A b \in Block : /\ blocks'[b].addr = blocks[b].addr /\ blocks'[b].pred = blocks[b].pred
                             /\ blocks'[b].live = (b # old /\ blocks[b].live)
<1> DEFINE r(b) == IF b = old THEN [blocks[b] EXCEPT !.live = FALSE] ELSE blocks[b]
           s == [b \in Block |-> r(b)]
<1>1. ASSUME NEW b \in Block
      PROVE  /\ r(b) \in BlockRec /\ r(b).addr = blocks[b].addr /\ r(b).pred = blocks[b].pred
             /\ r(b).live = (b # old /\ blocks[b].live)
  <2>1. blocks[b] \in BlockRec
    BY DEF Types, Block
  <2> QED BY <2>1 DEF BlockRec
<1>2. Block = 1..Len(blocks) /\ Len(blocks) \in Nat
  BY DEF Block, Types
<1>3. NewBlock(a) \in BlockRec
  <2>1. Predicted[a] \in Seq(Addr)
    BY CacheAssumption
  <2>2. [k \in DOMAIN Predicted[a] |-> NoBlock] \in Seq(Nat)
    BY <2>1 DEF NoBlock
  <2> QED BY <2>2 DEF NewBlock, BlockRec
<1> HIDE DEF r
<1>4. s \in Seq(BlockRec) /\ Len(s) = Len(blocks) /\ \A b \in Block : s[b] = r(b)
  <2>1. s \in [1..Len(blocks) -> BlockRec]
    BY <1>1, <1>2
  <2> QED BY <1>2, <2>1
<1>5. blocks' = Append(s, NewBlock(a))
  BY DEF r, Extended, Destroy
<1> HIDE DEF s
<1>6. /\ blocks' \in Seq(BlockRec) /\ Len(blocks') = Len(blocks) + 1
      /\ blocks'[Len(blocks) + 1] = NewBlock(a) /\ \A b \in Block : blocks'[b] = s[b]
  BY <1>2, <1>3, <1>4, <1>5
<1> QED BY <1>1, <1>4, <1>6

LEMMA InsertInv ==
  ASSUME TypeOK, CacheInv, NEW t \in Thread, Insert(t)
  PROVE  CacheInv'
<1>1. PICK W, X, n, a, N :
        /\ W = work[t] /\ X = work'[t] /\ n = Len(W) /\ a = Top(t).addr /\ N = Len(blocks) + 1
  OBVIOUS
<1>2. Types /\ PredictionsFiled /\ CacheFiled /\ CurFiled /\ Stacks /\ NoRace
  BY DEF CacheInv
<1>3. /\ Looking(t) /\ Top(t).compiling /\ UNCHANGED <<pc, eip, cur, raced, overlapped>>
      /\ writing' = writing \ {t}
  BY DEF Insert, vars, Writers, CacheInv
<1>4. W \in Seq(FrameRec) /\ n \in Nat \ {0} /\ Top(t) = W[n] /\ W[n] \in FrameRec /\ FrameOK(W[n])
      /\ W[n].compiling /\ W[n].addr = a
  BY <1>2, <1>3, <1>1, TopFrame DEF Types, Top
<1>e. PICK e \in {N} \cup {c \in Block : overlapped /\ blocks[c].addr = a} :
        work' = [work EXCEPT ![t][n].compiling = FALSE, ![t][n].blk = e]
  BY <1>1, Zenon DEF Insert, HasCompiled
<1>o. PICK old \in {NoBlock} \cup Block :
        /\ Meets(a, old) /\ blocks' = Append(Destroy(old), NewBlock(a))
        /\ cache' = [cache EXCEPT ![a] = N]
  BY <1>1, Zenon DEF Insert
<1>m. ~overlapped => old = cache[a] /\ e = N
  BY <1>e, <1>o DEF Meets, Damaged
<1>5. PICK f : f = [W[n] EXCEPT !.compiling = FALSE, !.blk = e]
  OBVIOUS
<1>6. N \in Nat \ {0} /\ a \in Addr /\ Len(blocks) \in Nat /\ e \in Nat
  <2>1. a \in Addr
    BY <1>4 DEF FrameRec
  <2>2. Len(blocks) \in Nat
    BY <1>2 DEF Types
  <2>3. N \in Nat \ {0}
    BY <2>2, <1>1
  <2>4. e \in {N} \cup 1..Len(blocks)
    BY <1>e DEF Block
  <2> QED BY <2>1, <2>2, <2>3, <2>4
<1>7. f \in FrameRec /\ f.addr = a /\ f.depth = W[n].depth /\ f.blk = e
      /\ f.i = W[n].i /\ ~f.compiling
  BY <1>4, <1>5, <1>6 DEF FrameRec
<1>8. work' = [work EXCEPT ![t] = [W EXCEPT ![n] = f]]
  <2>1. work'[t] = [W EXCEPT ![n] = f]
    BY <1>5, <1>1, <1>e, <1>2, <1>4 DEF Types
  <2> QED BY <2>1, <1>e, <1>2 DEF Types
<1>9. X = [W EXCEPT ![n] = f] /\ \A u \in Thread \ {t} : work'[u] = work[u]
  BY <1>8, <1>1, <1>2 DEF Types
<1>10. X \in Seq(FrameRec) /\ Len(X) = n /\ X[n] = f /\ \A k \in 1..n - 1 : X[k] = W[k]
  BY <1>4, <1>7, <1>9, <1>1, LastReplaced
<1>11. /\ blocks' \in Seq(BlockRec) /\ Len(blocks') = N /\ blocks'[N] = NewBlock(a)
      /\ \A b \in Block : /\ blocks'[b].addr = blocks[b].addr /\ blocks'[b].pred = blocks[b].pred
                          /\ blocks'[b].live = (b # old /\ blocks[b].live)
  <2>1. blocks' = Extended(old, a)
    BY <1>o DEF Extended
  <2>2. Len(blocks) + 1 = N
    BY <1>1
  <2> QED BY <1>6, <1>2, <2>1, <2>2, BlockAdded
<1>12. /\ Block' = Block \cup {N} /\ N \notin Block /\ Block \subseteq Nat
      /\ \A b \in Block : b < N /\ b # NoBlock
      /\ N # NoBlock
  BY <1>6, <1>11, <1>1 DEF Block, NoBlock
<1>13. /\ blocks'[N].addr = a /\ blocks'[N].live
      /\ Len(blocks'[N].pred) = Len(Predicted[a])
      /\ \A k \in 1..Len(Predicted[a]) : blocks'[N].pred[k] = NoBlock
  <2>1. Predicted[a] \in Seq(Addr)
    BY <1>6, CacheAssumption
  <2> QED BY <1>11, <2>1 DEF NewBlock
<1>14. cache' = [cache EXCEPT ![a] = N]
  BY <1>o
<1>15. Grows
  BY <1>11, <1>12 DEF Grows, CodeOf
<1>16. Types'
  <2>1. work' \in [Thread -> Seq(FrameRec)]
    BY <1>8, <1>9, <1>10, <1>2 DEF Types
  <2>2. cache' \in [Addr -> Nat]
    BY <1>6, <1>14, <1>2 DEF Types
  <2> QED BY <1>11, <1>3, <2>1, <2>2, <1>2 DEF Types
<1>17. PredictionsFiled'
  <2>1. ASSUME NEW b \in Block
        PROVE  /\ Len(blocks'[b].pred) = Len(Predicted[blocks'[b].addr])
               /\ \A k \in 1..Len(blocks'[b].pred) : blocks'[b].pred[k] # NoBlock =>
                    /\ blocks'[b].pred[k] \in Block'
                    /\ blocks'[blocks'[b].pred[k]].addr = Predicted[blocks'[b].addr][k]
    <3>1. /\ Len(blocks[b].pred) = Len(Predicted[blocks[b].addr])
          /\ \A k \in 1..Len(blocks[b].pred) : blocks[b].pred[k] # NoBlock =>
               CodeOf(blocks[b].pred[k], Predicted[blocks[b].addr][k])
      BY <1>2 DEF PredictionsFiled
    <3>2. ASSUME NEW c, NEW d, CodeOf(c, d) PROVE c \in Block' /\ blocks'[c].addr = d
      BY <1>11, <1>12, <3>2 DEF CodeOf
    <3>3. blocks'[b].pred = blocks[b].pred /\ blocks'[b].addr = blocks[b].addr
      BY <1>11
    <3> QED BY <3>1, <3>2, <3>3
  <2>2. ASSUME NEW b \in Block'
        PROVE  /\ Len(blocks'[b].pred) = Len(Predicted[blocks'[b].addr])
               /\ \A k \in 1..Len(blocks'[b].pred) : blocks'[b].pred[k] # NoBlock =>
                    /\ blocks'[b].pred[k] \in Block'
                    /\ blocks'[blocks'[b].pred[k]].addr = Predicted[blocks'[b].addr][k]
    <3>1. CASE b \in Block
      BY <2>1, <3>1
    <3>2. CASE b = N
      BY <1>13, <3>2
    <3> QED BY <1>12, <3>1, <3>2
  <2> QED BY <2>2 DEF PredictionsFiled, CodeOf, NoBlock
<1>18. CacheFiled'
  <2>1. ASSUME NEW c \in Addr, cache'[c] # NoBlock
        PROVE  cache'[c] \in Block' /\ blocks'[cache'[c]].addr = c
    <3>1. CASE c = a
      <4>1. cache'[c] = N
        BY <1>6, <1>14, <1>2, <3>1 DEF Types
      <4> QED BY <1>6, <1>12, <1>13, <3>1, <4>1
    <3>2. CASE c # a
      <4>1. cache'[c] = cache[c]
        BY <1>14, <1>2, <3>2 DEF Types
      <4>2. cache[c] \in Block /\ blocks[cache[c]].addr = c
        BY <1>2, <2>1, <4>1 DEF CacheFiled, CodeOf
      <4> QED BY <1>11, <1>12, <4>1, <4>2
    <3> QED BY <3>1, <3>2
  <2>2. ASSUME ~overlapped, NEW c \in Addr, cache'[c] # NoBlock
        PROVE  /\ blocks'[cache'[c]].live
               /\ \A b \in Block' : blocks'[b].addr = c => b <= cache'[c]
    <3>1. CASE c = a
      <4>1. cache'[c] = N
        BY <1>6, <1>14, <1>2, <3>1 DEF Types
      <4> QED BY <1>6, <1>12, <1>13, <3>1, <4>1
    <3>2. CASE c # a
      <4>1. cache'[c] = cache[c]
        BY <1>14, <1>2, <3>2 DEF Types
      <4>2. /\ cache[c] \in Block /\ blocks[cache[c]].addr = c /\ blocks[cache[c]].live
            /\ \A b \in Block : blocks[b].addr = c => b <= cache[c]
        BY <1>2, <2>2, <4>1 DEF CacheFiled, CodeOf
      <4>3. cache[c] # old
        <5>1. CASE old = NoBlock
          BY <1>12, <4>2, <5>1
        <5>2. CASE old # NoBlock
          BY <1>6, <1>2, <1>m, <2>2, <3>2, <4>2, <5>2 DEF CacheFiled, CodeOf
        <5> QED BY <5>1, <5>2
      <4>4. blocks'[cache[c]].live
        BY <1>11, <4>2, <4>3
      <4>5. ASSUME NEW b \in Block', blocks'[b].addr = c PROVE b <= cache[c]
        <5>1. b \in Block
          BY <1>12, <1>13, <3>2, <4>5
        <5> QED BY <1>11, <4>2, <4>5, <5>1
      <4> QED BY <4>1, <4>4, <4>5
    <3> QED BY <3>1, <3>2
  <2>3. ASSUME ~overlapped, NEW b \in Block', blocks'[b].live PROVE cache'[blocks'[b].addr] = b
    <3>1. CASE b = N
      BY <1>6, <1>13, <1>14, <1>2, <3>1 DEF Types
    <3>2. CASE b # N
      <4>1. b \in Block /\ b # old /\ blocks[b].live /\ blocks'[b].addr = blocks[b].addr
        BY <1>11, <1>12, <2>3, <3>2
      <4>2. cache[blocks[b].addr] = b
        BY <1>2, <2>3, <4>1 DEF CacheFiled
      <4>3. blocks[b].addr # a
        BY <1>m, <2>3, <4>1, <4>2
      <4>4. blocks[b].addr \in Addr
        <5>1. blocks[b] \in BlockRec
          BY <1>2, <4>1 DEF Types, Block
        <5> QED BY <5>1 DEF BlockRec
      <4> QED BY <1>14, <1>2, <4>1, <4>2, <4>3, <4>4 DEF Types
    <3> QED BY <3>1, <3>2
  <2> QED BY <1>3, <2>1, <2>2, <2>3 DEF CacheFiled, CodeOf, NoBlock
<1>19. CurFiled'
  <2>1. ASSUME NEW u \in Thread
        PROVE  /\ cur[u] # NoBlock => cur[u] \in Block'
               /\ pc[u] \in HasBlock => cur[u] \in Block' /\ blocks'[cur[u]].addr = eip[u]
    BY <1>11, <1>12, <1>2 DEF CurFiled, CodeOf
  <2> QED BY <1>3, <2>1 DEF CurFiled, CodeOf, NoBlock, HasBlock
<1>20. Stacks'
  <2>1. FrameOK(X[n])'
    <3>1. f.i \in Nat \ {0} /\ f.depth <= MaxDepth
      BY <1>4, <1>7 DEF FrameOK
    <3>2. CodeOf(e, a)'
      BY <1>e, <1>11, <1>12, <1>13 DEF CodeOf
    <3> QED BY <1>7, <1>10, <3>1, <3>2 DEF FrameOK
  <2>2. UNCHANGED <<pc, eip>> /\ X[n].addr = W[n].addr /\ X[n].depth = W[n].depth
    BY <1>4, <1>7, <1>10, <1>3
  <2>3. StackOK(t)'
    BY <1>1, <1>3, <1>4, <1>10, <1>15, <2>1, <2>2, StackChanges
  <2> QED BY <1>9, <1>15, <1>2, <2>2, <2>3, StackStays DEF Stacks
<1>21. NoRace'
  <2> SUFFICES ASSUME ~raced, ~overlapped
               PROVE  /\ \A u \in Thread, c \in Addr : Compiling(u, c)' =>
                           cache'[c] = NoBlock /\ \A v \in Thread \ {u} : ~Compiling(v, c)'
                      /\ \A b \in Block' : blocks'[b].live
    BY <1>3 DEF NoRace, NoBlock
  <2>1. /\ \A u \in Thread, c \in Addr : Compiling(u, c) =>
             cache[c] = NoBlock /\ \A v \in Thread \ {u} : ~Compiling(v, c)
        /\ \A b \in Block : blocks[b].live
    BY <1>2 DEF NoRace
  <2>2. Compiling(t, a)
    <3>1. n \in DOMAIN work[t] /\ work[t][n].compiling /\ work[t][n].addr = a
      BY <1>4, <1>1
    <3> QED BY <3>1 DEF Compiling
  <2>3. old = NoBlock
    BY <1>6, <1>m, <2>1, <2>2
  <2>4. \A u \in Thread \ {t}, c \in Addr : Compiling(u, c)' = Compiling(u, c)
    BY <1>9 DEF Compiling
  <2>5. ASSUME NEW c \in Addr PROVE ~Compiling(t, c)'
    <3>1. SUFFICES ASSUME NEW k \in 1..n, X[k].compiling PROVE FALSE
      BY <1>1, <1>10 DEF Compiling
    <3>2. k # n
      BY <1>7, <1>10, <3>1
    <3>3. k \in 1..n - 1 /\ W[k].compiling
      BY <1>4, <1>10, <3>1, <3>2
    <3> QED BY <1>3, <1>1, <3>3, TopFrame
  <2>6. ASSUME NEW u \in Thread, NEW c \in Addr, Compiling(u, c)' PROVE cache'[c] = NoBlock
    <3>1. u # t /\ Compiling(u, c)
      BY <2>4, <2>5, <2>6
    <3>2. c # a /\ cache[c] = NoBlock
      BY <1>6, <2>1, <2>2, <3>1
    <3> QED BY <1>14, <1>2, <3>2 DEF Types
  <2>7. \A b \in Block' : blocks'[b].live
    BY <1>11, <1>12, <1>13, <2>1, <2>3
  <2> QED BY <2>1, <2>4, <2>5, <2>6, <2>7
<1>22. Writers'
  BY <1>3, <1>9, <1>2, WritersStay DEF Types, CacheInv
<1> QED BY <1>16, <1>17, <1>18, <1>19, <1>20, <1>21, <1>22 DEF CacheInv

-----------------------------------------------------------------------------
(* The steps of a look-up.                                                 *)

\* The frame of a new activation.
LEMMA NewFrame ==
  ASSUME NEW a \in Addr, NEW d \in Nat
  PROVE  LET f == Frame(a, d)
         IN f \in FrameRec /\ f.addr = a /\ f.depth = d /\ f.blk = NoBlock /\ ~f.compiling /\ f.i = 1
  BY DEF Frame, FrameRec, NoBlock

LEMMA Appended ==
  ASSUME NEW S, NEW s \in Seq(S), NEW x \in S
  PROVE  /\ Append(s, x) \in Seq(S) /\ Len(Append(s, x)) = Len(s) + 1
         /\ \A j \in 1..Len(s) : Append(s, x)[j] = s[j]
         /\ Append(s, x)[Len(s) + 1] = x
  OBVIOUS

LEMMA DescendInv ==
  ASSUME CacheInv, NEW t \in Thread, Descend(t)
  PROVE  CacheInv'
<1>1. PICK W, X, n, p : /\ W = work[t] /\ X = work'[t] /\ n = Len(W)
                        /\ p = Predicted[Top(t).addr][Top(t).i]
  OBVIOUS
<1>2. Types /\ PredictionsFiled /\ CacheFiled /\ CurFiled /\ Stacks /\ NoRace
  BY DEF CacheInv
<1>3. /\ Looking(t) /\ Top(t).blk # NoBlock /\ MorePredictions(t)
      /\ UNCHANGED <<pc, cache, blocks, eip, cur, raced, writing>>
      /\ overlapped' \in BOOLEAN /\ (~overlapped' => ~overlapped)
  BY DEF Descend, vars, ReadBegins, CacheInv, Types
<1>4. /\ W \in Seq(FrameRec) /\ n \in Nat \ {0} /\ Top(t) = W[n] /\ W[n] \in FrameRec
      /\ FrameOK(W[n]) /\ Len(W) = n
  BY <1>2, <1>3, <1>1, TopFrame DEF Types, Top
<1>5. /\ W[n].i \in 1..Len(Predicted[W[n].addr]) /\ W[n].depth < MaxDepth
      /\ p = Predicted[W[n].addr][W[n].i] /\ W[n].addr \in Addr /\ W[n].depth \in Nat
  <2>1. W[n].addr \in Addr /\ W[n].depth \in Nat
    BY <1>4 DEF FrameRec
  <2>2. Predicted[W[n].addr] \in Seq(Addr)
    BY <2>1, CacheAssumption
  <2>3. W[n].i \in Nat \ {0} /\ Len(Predicted[W[n].addr]) \in Nat
    BY <1>4, <2>2 DEF FrameOK
  <2>4. W[n].i <= Len(Predicted[W[n].addr]) /\ W[n].depth < MaxDepth
    BY <1>4, <1>3 DEF MorePredictions
  <2>5. p = Predicted[W[n].addr][W[n].i]
    BY <1>4, <1>1
  <2>6. W[n].i \in 1..Len(Predicted[W[n].addr])
    BY <2>3, <2>4
  <2> QED BY <2>1, <2>4, <2>5, <2>6
<1>6. p \in Addr
  <2>1. Predicted[W[n].addr] \in Seq(Addr)
    BY <1>5, CacheAssumption
  <2> QED BY <1>5, <2>1
<1>7. PICK f : f = Frame(p, W[n].depth + 1)
  OBVIOUS
<1>8. f \in FrameRec /\ f.addr = p /\ f.depth = W[n].depth + 1 /\ f.blk = NoBlock
      /\ ~f.compiling /\ f.i = 1
  <2>1. W[n].depth + 1 \in Nat
    BY <1>5
  <2> QED BY <1>6, <1>7, <2>1, NewFrame
<1>9. work' = [work EXCEPT ![t] = Append(W, f)]
  BY <1>4, <1>5, <1>7, <1>1 DEF Descend
<1>10. X = Append(W, f) /\ \A u \in Thread \ {t} : work'[u] = work[u]
  BY <1>9, <1>2, <1>1 DEF Types
<1>11. X \in Seq(FrameRec) /\ Len(X) = n + 1 /\ X[n + 1] = f /\ \A k \in 1..n : X[k] = W[k]
  BY <1>4, <1>8, <1>10, Appended
<1>12. Types'
  <2>1. work' \in [Thread -> Seq(FrameRec)]
    BY <1>9, <1>10, <1>11, <1>2 DEF Types
  <2> QED BY <1>3, <2>1, <1>2 DEF Types
<1>13. PredictionsFiled' /\ CacheFiled' /\ CurFiled'
  BY <1>2, <1>3 DEF PredictionsFiled, CacheFiled, CurFiled, CodeOf, Block
<1>14. StackOK(t)'
  <2>1. pc[t] = "lookup" /\ W # <<>> /\ StackOK(t)
    BY <1>2, <1>3, <1>1 DEF Looking, Stacks
  <2>2. /\ W[1].addr = eip[t] /\ \A k \in 1..n : FrameOK(W[k]) /\ W[k].depth = k - 1
        /\ \A k \in 1..n - 1 : CallOK(W[k], W[k + 1])
    BY <1>4, <1>1, <2>1 DEF StackOK
  <2>3. ASSUME NEW k \in 1..n + 1 PROVE FrameOK(X[k]) /\ X[k].depth = k - 1
    <3>1. CASE k = n + 1
      <4>1. X[k] = f /\ n \in 1..n /\ W[n].depth = n - 1
        BY <1>4, <1>11, <2>2, <3>1
      <4>2. f.depth = n /\ f.depth <= MaxDepth
        BY <1>4, <1>5, <1>8, <4>1, CacheAssumption
      <4>3. FrameOK(f)
        BY <1>8, <4>2 DEF FrameOK
      <4> QED BY <1>4, <3>1, <4>1, <4>2, <4>3
    <3>2. CASE k # n + 1
      <4>1. k \in 1..n
        BY <1>4, <3>2
      <4> QED BY <1>11, <2>2, <4>1
    <3> QED BY <3>1, <3>2
  <2>4. ASSUME NEW k \in 1..n PROVE CallOK(X[k], X[k + 1])
    <3>1. CASE k = n
      <4>1. X[k] = W[n] /\ X[k + 1] = f
        BY <1>4, <1>11, <3>1
      <4> QED BY <1>4, <1>5, <1>8, <1>3, <4>1 DEF CallOK
    <3>2. CASE k # n
      <4>1. k \in 1..n - 1 /\ k + 1 \in 1..n
        BY <1>4, <3>2
      <4> QED BY <1>11, <2>2, <4>1
    <3> QED BY <3>1, <3>2
  <2>5. ASSUME NEW g, FrameOK(g) PROVE FrameOK(g)'
    BY <1>3, <2>5 DEF FrameOK, CodeOf, Block
  <2>6. \A k \in 1..n + 1 : FrameOK(X[k])'
    BY <2>3, <2>5
  <2>7. X[1].addr = eip[t]
    BY <1>4, <1>11, <2>2
  <2>8. work'[t] = X /\ Len(work'[t]) = n + 1 /\ Len(work'[t]) - 1 = n
        /\ pc'[t] = "lookup" /\ eip'[t] = eip[t]
    BY <1>4, <1>11, <1>3, <1>1, <2>1
  <2> QED BY <2>3, <2>4, <2>6, <2>7, <2>8 DEF StackOK, CallOK
<1>15. Stacks'
  BY <1>10, <1>14, <1>2, <1>3, SameBlocksGrow, StackStays DEF Stacks
<1>16. NoRace'
  <2>1. ASSUME NEW u \in Thread, NEW a \in Addr, Compiling(u, a)' PROVE Compiling(u, a)
    <3>1. CASE u # t
      BY <1>10, <2>1, <3>1 DEF Compiling
    <3>2. CASE u = t
      <4>1. PICK k \in 1..n + 1 : X[k].compiling /\ X[k].addr = a
        BY <1>11, <1>1, <2>1, <3>2 DEF Compiling
      <4>2. k \in 1..n
        BY <1>4, <1>8, <1>11, <4>1
      <4>3. k \in DOMAIN W /\ W[k].compiling /\ W[k].addr = a
        BY <1>4, <1>11, <4>1, <4>2
      <4> QED BY <1>1, <3>2, <4>3 DEF Compiling
    <3> QED BY <3>1, <3>2
  <2> QED BY <1>2, <1>3, <2>1 DEF NoRace, Block
<1>17. Writers'
  <2>1. t \notin writing
    BY <1>3, <1>4, NotWriting DEF CacheInv, FrameOK
  <2> QED BY <1>3, <1>10, <2>1, WritersStay DEF CacheInv, Types
<1> QED BY <1>12, <1>13, <1>15, <1>16, <1>17 DEF CacheInv

\* An activation returns code of its address.
LEMMA ReturnInv ==
  ASSUME TypeOK, CacheInv, NEW t \in Thread, Looking(t), NEW b, CodeOf(b, Top(t).addr),
         ReturnBlock(t, b), UNCHANGED <<cache, eip, raced, writing, overlapped>>,
         t \notin writing
  PROVE  CacheInv'
<1>1. CASE Len(work[t]) = 1
  BY <1>1, LastReturn
<1>2. CASE Len(work[t]) # 1
  BY <1>2, InnerReturn
<1> QED BY <1>1, <1>2

LEMMA FindInv ==
  ASSUME TypeOK, CacheInv, NEW t \in Thread, Find(t)
  PROVE  CacheInv'
<1>1. /\ Looking(t) /\ Top(t).blk = NoBlock /\ ~Top(t).compiling
      /\ UNCHANGED <<cache, eip, writing, overlapped>>
  BY DEF Find, Reading
<1>2. Top(t).addr \in Addr
  <2>1. Top(t) \in FrameRec
    BY <1>1, TopFrame
  <2> QED BY <2>1 DEF FrameRec
<1>3. t \notin writing
  BY <1>1, NotWriting DEF CacheInv
<1>4. PICK b \in {NoBlock} \cup Block :
        /\ Meets(Top(t).addr, b)
        /\ IF b # NoBlock
           THEN ReturnBlock(t, b) /\ UNCHANGED raced
           ELSE /\ work' = [work EXCEPT ![t][Len(work[t])].compiling = TRUE]
                /\ raced' = (raced \/ \E u \in Thread \ {t} : Compiling(u, Top(t).addr))
                /\ UNCHANGED <<vars, blocks, cur>>
  BY Zenon DEF Find
<1>5. CASE b # NoBlock
  <2>1. ReturnBlock(t, b) /\ UNCHANGED raced
    BY <1>4, <1>5, Zenon
  <2>2. CodeOf(b, Top(t).addr)
    BY <1>2, <1>4, <1>5 DEF Meets, Damaged, CacheInv, CacheFiled, CodeOf
  <2> QED BY <1>1, <1>3, <2>1, <2>2, ReturnInv
<1>6. CASE b = NoBlock
  <2>1. /\ work' = [work EXCEPT ![t][Len(work[t])].compiling = TRUE]
        /\ raced' = (raced \/ \E u \in Thread \ {t} : Compiling(u, Top(t).addr))
        /\ UNCHANGED <<vars, blocks, cur>>
    BY <1>4, <1>6, Zenon
  <2>2. UNCHANGED <<vars, blocks, cur, cache, eip, writing, overlapped>>
    BY <1>1, <2>1
  <2>3. ~overlapped => cache[Top(t).addr] = NoBlock
    BY <1>4, <1>6 DEF Meets, Damaged
  <2> QED BY <1>1, <1>3, <2>1, <2>2, <2>3, CompilingStarts, Zenon
<1> QED BY <1>5, <1>6

LEMMA FindUnfilledInv ==
  ASSUME TypeOK, CacheInv, NEW t \in Thread, FindUnfilled(t)
  PROVE  CacheInv'
<1>1. /\ Looking(t) /\ ~Top(t).compiling /\ ReturnBlock(t, NoBlock)
      /\ UNCHANGED <<cache, eip, raced, writing, overlapped>>
  BY Zenon DEF FindUnfilled, Reading
<1>2. Len(work[t]) # 1
  BY <1>1, TopFrame DEF FindUnfilled
<1>3. t \notin writing
  BY <1>1, NotWriting DEF CacheInv
<1> QED BY <1>1, <1>2, <1>3, InnerReturn

LEMMA CompiledInv ==
  ASSUME TypeOK, CacheInv, NEW t \in Thread, Compiled(t)
  PROVE  CacheInv'
<1>1. /\ Looking(t) /\ Top(t).blk # NoBlock /\ ReturnBlock(t, Top(t).blk)
      /\ UNCHANGED <<cache, eip, raced, writing, overlapped>>
  BY Zenon DEF Compiled, tableVars
<1>2. CodeOf(Top(t).blk, Top(t).addr) /\ ~Top(t).compiling
  BY <1>1, TopFrame DEF FrameOK
<1>3. t \notin writing
  BY <1>2, NotWriting DEF CacheInv
<1> QED BY <1>1, <1>2, <1>3, ReturnInv

-----------------------------------------------------------------------------
(* The composition.                                                        *)

\* The cache changes nothing of what ExecLock is about: every step of the
\* composition is one of the lock's, or leaves the lock as it is.
LEMMA StepImplements == [CacheNext]_allVars => [Next]_vars
<1> SUFFICES ASSUME [CacheNext]_allVars PROVE [Next]_vars
  OBVIOUS
<1>1. CASE UNCHANGED allVars
  BY <1>1 DEF allVars
<1>2. ASSUME NEW t \in Thread, LookUp(t) \/ Descend(t) \/ BeginInsert(t) \/ Insert(t)
      PROVE  UNCHANGED vars
  BY <1>2, Zenon DEF LookUp, Descend, BeginInsert, Insert
<1>3. ASSUME NEW t \in Thread, NEW b, ReturnBlock(t, b) PROVE Lookup(t) \/ UNCHANGED vars
  BY <1>3, Zenon DEF ReturnBlock
<1>4. ASSUME NEW t \in Thread, Find(t) \/ FindUnfilled(t) \/ Compiled(t)
      PROVE  Lookup(t) \/ UNCHANGED vars
  BY <1>3, <1>4, Zenon DEF Find, FindUnfilled, Compiled
<1>5. ASSUME NEW t \in Thread, TakePrediction(t) PROVE Lookup(t)
  BY <1>5 DEF TakePrediction
<1>6. ASSUME NEW t \in Thread, BlockEnds(t) PROVE Release(t)
  BY <1>6 DEF BlockEnds
<1>7. ASSUME NEW t \in Thread, LockStep(t)
      PROVE  \/ Acquire(t) \/ SyscallEnter(t) \/ Return(t) \/ SyscallExit(t) \/ Leave(t)
             \/ \E u \in Thread : Create(t, u)
  BY <1>7 DEF LockStep
<1> QED BY <1>1, <1>2, <1>4, <1>5, <1>6, <1>7, Zenon DEF CacheNext, CacheStep, Next

\* Every step keeps the invariant.
LEMMA CacheInvStep == TypeOK /\ CacheInv /\ [CacheNext]_allVars => CacheInv'
<1> SUFFICES ASSUME TypeOK, CacheInv, [CacheNext]_allVars PROVE CacheInv'
  OBVIOUS
<1>1. CASE UNCHANGED allVars
  BY <1>1 DEF allVars, cacheVars, tableVars, vars, CacheInv, Types, PredictionsFiled, CacheFiled, CurFiled,
              Stacks, StackOK, FrameOK, CallOK, NoRace, Compiling, CodeOf, Block, Writers, Looking, Top
<1>2. CASE CacheNext
  <2> SUFFICES ASSUME NEW t \in Thread, CacheStep(t) \/ BlockEnds(t) \/ LockStep(t) PROVE CacheInv'
    BY <1>2 DEF CacheNext
  <2>1. CASE LookUp(t)
    BY <2>1, LookUpInv
  <2>2. CASE TakePrediction(t)
    BY <2>2, TakePredictionInv
  <2>3. CASE Find(t)
    BY <2>3, FindInv
  <2>4. CASE Insert(t)
    BY <2>4, InsertInv
  <2>5. CASE Descend(t)
    BY <2>5, DescendInv
  <2>6. CASE Compiled(t)
    BY <2>6, CompiledInv
  <2>7. CASE BlockEnds(t)
    BY <2>7, BlockEndsInv
  <2>8. CASE LockStep(t)
    BY <2>8, LockStepInv
  <2>9. CASE FindUnfilled(t)
    BY <2>9, FindUnfilledInv
  <2>10. CASE BeginInsert(t)
    BY <2>10, BeginInsertInv
  <2> QED BY <2>1, <2>2, <2>3, <2>4, <2>5, <2>6, <2>7, <2>8, <2>9, <2>10 DEF CacheStep
<1> QED BY <1>1, <1>2

\* The composition implements the execution lock.
THEOREM CacheImplementsLock == CacheSpec => Spec
<1>1. CacheInit => Init
  BY DEF CacheInit
<1> QED BY <1>1, StepImplements, PTL DEF CacheSpec, Spec

LEMMA CacheInvAlways == CacheSpec => [](IInv /\ CacheInv)
<1>1. CacheInit => IInv /\ CacheInv
  BY CacheInvInit, IInvInit DEF CacheInit
<1>2. IInv /\ CacheInv /\ [CacheNext]_allVars => (IInv /\ CacheInv)'
  BY CacheInvStep, StepImplements, IInvStep DEF IInv
<1> QED BY <1>1, <1>2, PTL DEF CacheSpec

\* At most one thread executes a block, whatever the others do to the cache.
THEOREM CacheKeepsExclusion == CacheSpec => []ExecutorsBounded
  BY CacheImplementsLock, ExecutorsCorrect, PTL

\* The types of the cache; a look-up is never more than MaxDepth + 1 activations deep.
LEMMA CacheTypes == CacheInv => CacheTypeOK
<1> SUFFICES ASSUME CacheInv PROVE CacheTypeOK
  OBVIOUS
<1>1. Types /\ PredictionsFiled /\ CacheFiled /\ CurFiled /\ Stacks /\ NoRace
  BY DEF CacheInv
<1>2. cache \in [Addr -> {NoBlock} \cup Block]
  BY <1>1 DEF Types, CacheFiled, CodeOf
<1>3. ASSUME NEW b \in Block
      PROVE  /\ blocks[b].addr \in Addr /\ blocks[b].live \in BOOLEAN
             /\ \A k \in DOMAIN blocks[b].pred : blocks[b].pred[k] \in {NoBlock} \cup Block
  <2>1. blocks[b] \in BlockRec
    BY <1>1 DEF Types, Block
  <2>2. DOMAIN blocks[b].pred = 1..Len(blocks[b].pred)
    BY <2>1 DEF BlockRec
  <2>3. \A k \in 1..Len(blocks[b].pred) : blocks[b].pred[k] # NoBlock => blocks[b].pred[k] \in Block
    BY <1>1 DEF PredictionsFiled, CodeOf
  <2> QED BY <2>1, <2>2, <2>3 DEF BlockRec
<1>4. eip \in [Thread -> Addr] /\ cur \in [Thread -> {NoBlock} \cup Block]
  BY <1>1 DEF Types, CurFiled
<1>5. ASSUME NEW t \in Thread PROVE Len(work[t]) <= MaxDepth + 1
  <2>1. work[t] \in Seq(FrameRec) /\ Len(work[t]) \in Nat
    BY <1>1 DEF Types
  <2>2. CASE Len(work[t]) = 0
    BY <2>2, CacheAssumption
  <2>3. CASE Len(work[t]) # 0
    <3>1. Len(work[t]) \in 1..Len(work[t])
      BY <2>1, <2>3
    <3>2. /\ work[t][Len(work[t])].depth <= MaxDepth
          /\ work[t][Len(work[t])].depth = Len(work[t]) - 1
      BY <1>1, <3>1 DEF Stacks, StackOK, FrameOK
    <3> QED BY <2>1, <3>2, CacheAssumption
  <2> QED BY <2>2, <2>3
<1>6. \A t \in writing : t \in Thread /\ Looking(t) /\ Top(t).compiling
  BY <1>1 DEF CacheInv, Writers, Types
<1> QED BY <1>2, <1>3, <1>4, <1>5, <1>6 DEF CacheTypeOK

\* As long as no accesses to the table have overlapped, the newest block of an
\* address is the one that is cached, and the only one alive.
THEOREM NewestCached == CacheSpec => []CacheHoldsNewest
<1>1. IInv /\ CacheInv => CacheHoldsNewest
  <2> SUFFICES ASSUME IInv, CacheInv PROVE CacheHoldsNewest
    OBVIOUS
  <2>1. TypeOK /\ CacheTypeOK
    BY CacheTypes DEF IInv
  <2>2. CacheFiled
    BY DEF CacheInv
  <2> QED BY <2>1, <2>2 DEF CacheHoldsNewest, CacheFiled
<1> QED BY <1>1, CacheInvAlways, PTL

\* A thread executes code of the address it is at, whatever others compile,
\* file or destroy between its look-up and its turn.
THEOREM OwnAddressExecuted == CacheSpec => []ExecutesItsAddress
<1>1. CacheInv => ExecutesItsAddress
  <2> SUFFICES ASSUME CacheInv PROVE ExecutesItsAddress
    OBVIOUS
  <2>1. CurFiled /\ PredictionsFiled /\ blocks \in Seq(BlockRec)
    BY DEF CacheInv, Types
  <2>2. \A t \in Thread : pc[t] \in {"spin", "execute"} => blocks[cur[t]].addr = eip[t]
    BY <2>1 DEF CurFiled, HasBlock, CodeOf
  <2>3. ASSUME NEW b \in Block, NEW k \in DOMAIN blocks[b].pred, blocks[b].pred[k] # NoBlock
        PROVE  blocks[blocks[b].pred[k]].addr = Predicted[blocks[b].addr][k]
    <3>1. blocks[b] \in BlockRec
      BY <2>1 DEF Block
    <3>2. k \in 1..Len(blocks[b].pred)
      BY <3>1 DEF BlockRec
    <3> QED BY <2>1, <2>3, <3>2 DEF PredictionsFiled, CodeOf
  <2> QED BY <2>2, <2>3 DEF ExecutesItsAddress
<1> QED BY <1>1, CacheInvAlways, PTL

\* As long as no two threads compile one address at a time and no accesses to
\* the table overlap, no block is destroyed and no address has two.
THEOREM DestructionIsRace == CacheSpec => []DestroyedMeansRace
<1>1. CacheInv => DestroyedMeansRace
  <2> SUFFICES ASSUME CacheInv, ~raced, ~overlapped
               PROVE  /\ Sound
                      /\ \A a, b \in Block : blocks[a].addr = blocks[b].addr => a = b
    BY DEF DestroyedMeansRace
  <2>1. \A b \in Block : blocks[b].live
    BY DEF CacheInv, NoRace
  <2>2. \A b \in Block : blocks[b].live => cache[blocks[b].addr] = b
    BY DEF CacheInv, CacheFiled
  <2> QED BY <2>1, <2>2 DEF Sound
<1> QED BY <1>1, CacheInvAlways, PTL
=============================================================================
