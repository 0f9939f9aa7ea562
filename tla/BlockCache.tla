----------------------------- MODULE BlockCache -----------------------------
(* The cache of compiled blocks of the JIT (uwin-jit/basic_block_cache.cpp, *)
(* basic_block.h) and the loop that looks a block up in it and executes it  *)
(* (jit_cpu_loop.cpp), composed with the execution lock: the lock is taken  *)
(* around the execution of a block, never around a look-up, so the cache, a *)
(* std::unordered_map that nothing guards, is read and extended by several  *)
(* threads at once.  A read or a write of the table is therefore not one    *)
(* step.  As long as no write overlaps another access the table is what the *)
(* code means it to be; from then on an access may miss what was filed or   *)
(* come upon an older block.  It may also crash or go round for ever, as a  *)
(* thread may that uses a destroyed block: a crash is a behaviour that ends *)
(* there, and nothing is claimed to go on once one is possible (~Sound).    *)
(*                                                                          *)
(* A block predicts the blocks that can follow it.  Looking an address up   *)
(* compiles it when it is not cached, and then, to a bounded depth, what it *)
(* predicts.  To put a block in the cache destroys the one that was there.  *)
EXTENDS ExecLock, Sequences

CONSTANTS Addr,        \* guest addresses of blocks
          Entry,       \* where threads start
          Predicted,   \* per address, the successors known at compile time
          Jumps,       \* per address, the successors there really are
          MaxDepth,    \* max_depth
          MaxBlocks,   \* bound: blocks compiled
          MaxAfter     \* bound: accesses that end after the table was damaged

ASSUME CacheAssumption ==
  /\ Entry \in Addr
  /\ Predicted \in [Addr -> Seq(Addr)] /\ Jumps \in [Addr -> SUBSET Addr]
  /\ MaxDepth \in Nat /\ MaxBlocks \in Nat /\ MaxAfter \in Nat

VARIABLES cache,       \* address -> the block filed last, 0: none
          blocks,      \* all blocks ever compiled
          eip, cur,    \* per thread, ctx->EIP() and the local basic_block
          work,        \* per thread, activations of get_native_basic_block_recur
          writing,     \* the threads inside cache[eip] = ...
          raced,       \* history: two threads have compiled an address at a time
          overlapped,  \* history: a write of the table has overlapped another access
          after        \* accesses that have ended after that

tableVars == <<writing, overlapped, after>>
cacheVars == <<cache, blocks, eip, cur, work, raced, tableVars>>
allVars == <<vars, cacheVars>>

NoBlock == 0
Block == 1..Len(blocks)
NewBlock(a) == [addr |-> a, live |-> TRUE,
                pred |-> [k \in DOMAIN Predicted[a] |-> NoBlock]]
Frame(a, depth) == [addr |-> a, depth |-> depth, blk |-> NoBlock,
                    compiling |-> FALSE, i |-> 1]

CacheInit ==
  /\ Init
  /\ cache = [a \in Addr |-> NoBlock] /\ blocks = <<>>
  /\ eip = [t \in Thread |-> Entry] /\ cur = [t \in Thread |-> NoBlock]
  /\ work = [t \in Thread |-> <<>>] /\ writing = {}
  /\ raced = FALSE /\ overlapped = FALSE /\ after = 0

Top(t) == work[t][Len(work[t])]
Pop(t) == SubSeq(work[t], 1, Len(work[t]) - 1)
Compiling(t, a) == \E k \in DOMAIN work[t] : work[t][k].compiling /\ work[t][k].addr = a
Looking(t) == pc[t] = "lookup" /\ work[t] # <<>>

\* t is inside cache.find: an activation begins with it.
Reading(t) == Looking(t) /\ Top(t).blk = NoBlock /\ ~Top(t).compiling

\* t begins to read, or to write, the table.
ReadBegins(t) == /\ overlapped' = (overlapped \/ writing # {})
                 /\ UNCHANGED <<writing, after>>
WriteBegins(t) == /\ writing' = writing \cup {t}
                  /\ overlapped' = (overlapped \/ \E u \in Thread \ {t} : u \in writing \/ Reading(u))
                  /\ UNCHANGED after

\* An access to the entry of a comes upon block b.  A table that was written
\* while it was accessed may have lost nodes, or have several for a key.
Damaged == overlapped /\ after < MaxAfter /\ after' = after + 1
Meets(a, b) == \/ Damaged /\ (b # NoBlock => blocks[b].addr = a)
               \/ ~overlapped /\ b = cache[a] /\ UNCHANGED after

(* Mutant of Prediction: the first prediction there is. *)
PredictionBad(t) ==
  IF cur[t] = NoBlock THEN NoBlock
  ELSE LET b == blocks[cur[t]]
           hits == {k \in DOMAIN b.pred : b.pred[k] # NoBlock}
       IN IF hits = {} THEN NoBlock ELSE b.pred[CHOOSE k \in hits : \A j \in hits : k <= j]

(* The successor of the current block that was predicted for eip.           *)
Prediction(t) ==
  IF cur[t] = NoBlock THEN NoBlock
  ELSE LET b == blocks[cur[t]]
           hits == {k \in DOMAIN b.pred : Predicted[b.addr][k] = eip[t]}
       IN IF hits = {} THEN NoBlock ELSE b.pred[CHOOSE k \in hits : \A j \in hits : k <= j]

(* get_native_basic_block_predicted: no look at the cache.                  *)
TakePrediction(t) ==
  /\ work[t] = <<>> /\ Prediction(t) # NoBlock
  /\ Lookup(t)
  /\ cur' = [cur EXCEPT ![t] = Prediction(t)]
  /\ UNCHANGED <<cache, blocks, eip, work, raced, tableVars>>

LookUp(t) ==
  /\ pc[t] = "lookup" /\ work[t] = <<>> /\ Prediction(t) = NoBlock
  /\ work' = [work EXCEPT ![t] = <<Frame(eip[t], 0)>>]
  /\ ReadBegins(t)
  /\ UNCHANGED <<vars, cache, blocks, eip, cur, raced>>

(* Mutant of ReturnBlock: the same prediction is looked up again. *)
ReturnBlockBad(t, b) ==
  IF Len(work[t]) = 1
  THEN /\ Lookup(t)
       /\ cur' = [cur EXCEPT ![t] = b]
       /\ work' = [work EXCEPT ![t] = <<>>]
       /\ UNCHANGED blocks
  ELSE LET n == Len(work[t]) - 1
           caller == work[t][n]
       IN /\ blocks' = [blocks EXCEPT ![caller.blk].pred[caller.i] = b]
          /\ work' = [work EXCEPT ![t] = Pop(t)]
          /\ UNCHANGED <<vars, cur>>

(* An activation returns block b: to the loop, or to the activation that    *)
(* fills in its next prediction.                                            *)
ReturnBlock(t, b) ==
  IF Len(work[t]) = 1
  THEN /\ Lookup(t)
       /\ cur' = [cur EXCEPT ![t] = b]
       /\ work' = [work EXCEPT ![t] = <<>>]
       /\ UNCHANGED blocks
  ELSE LET n == Len(work[t]) - 1
           caller == work[t][n]
       IN /\ blocks' = [blocks EXCEPT ![caller.blk].pred[caller.i] = b]
          /\ work' = [work EXCEPT ![t] = [Pop(t) EXCEPT ![n].i = @ + 1]]
          /\ UNCHANGED <<vars, cur>>

(* Mutant of Find: what is cached is compiled again. *)
FindBad(t) ==
  /\ Reading(t)
  /\ work' = [work EXCEPT ![t][Len(work[t])].compiling = TRUE]
  /\ raced' = (raced \/ \E u \in Thread \ {t} : Compiling(u, Top(t).addr))
  /\ UNCHANGED <<vars, cache, blocks, eip, cur, tableVars>>

(* cache.find ends: with a block, or the address is to be compiled.         *)
Find(t) ==
  /\ Reading(t)
  /\ \E b \in {NoBlock} \cup Block :
       /\ Meets(Top(t).addr, b)
       /\ IF b # NoBlock
          THEN ReturnBlock(t, b) /\ UNCHANGED raced
          ELSE /\ work' = [work EXCEPT ![t][Len(work[t])].compiling = TRUE]
               /\ raced' = (raced \/ \E u \in Thread \ {t} : Compiling(u, Top(t).addr))
               /\ UNCHANGED <<vars, blocks, cur>>
  /\ UNCHANGED <<cache, eip, writing, overlapped>>

(* cache.find ends at a node that a concurrent write has linked in and not  *)
(* given its block yet: a prediction is left empty.  (For the loop it is a  *)
(* crash.)                                                                  *)
FindUnfilled(t) ==
  /\ Reading(t) /\ Damaged /\ Len(work[t]) > 1
  /\ ReturnBlock(t, NoBlock)
  /\ UNCHANGED <<cache, eip, raced, writing, overlapped>>

(* compile_block: the block is compiled, ...                                *)
BeginInsert(t) ==
  /\ Looking(t) /\ Top(t).compiling /\ t \notin writing /\ Len(blocks) < MaxBlocks
  /\ WriteBegins(t)
  /\ UNCHANGED <<vars, cache, blocks, eip, cur, work, raced>>

Destroy(old) == [b \in Block |-> IF b = old THEN [blocks[b] EXCEPT !.live = FALSE] ELSE blocks[b]]
\* .get() finds the new block, or what an overlapping write has put in its place.
HasCompiled(t, a) ==
  \E b \in {Len(blocks) + 1} \cup {c \in Block : overlapped /\ blocks[c].addr = a} :
    work' = [work EXCEPT ![t][Len(work[t])].compiling = FALSE, ![t][Len(work[t])].blk = b]

(* Mutant of Insert: the block that is there stays. *)
InsertBad(t) ==
  /\ t \in writing /\ Len(blocks) < MaxBlocks
  /\ LET a == Top(t).addr
     IN \E old \in {NoBlock} \cup Block :
        /\ Meets(a, old)
        /\ blocks' = Append(Destroy(old), NewBlock(a))
        /\ cache' = [cache EXCEPT ![a] = IF old = NoBlock THEN Len(blocks) + 1 ELSE old]
  /\ HasCompiled(t, Top(t).addr) /\ writing' = writing \ {t}
  /\ UNCHANGED <<vars, eip, cur, raced, overlapped>>

(* ... then stored; a block that another thread has stored in the meantime  *)
(* is destroyed, code and all.                                              *)
Insert(t) ==
  /\ t \in writing /\ Len(blocks) < MaxBlocks
  /\ LET a == Top(t).addr
     IN \E old \in {NoBlock} \cup Block :
        /\ Meets(a, old)
        /\ blocks' = Append(Destroy(old), NewBlock(a))
        /\ cache' = [cache EXCEPT ![a] = Len(blocks) + 1]
  /\ HasCompiled(t, Top(t).addr) /\ writing' = writing \ {t}
  /\ UNCHANGED <<vars, eip, cur, raced, overlapped>>

MorePredictions(t) == /\ Top(t).depth < MaxDepth
                      /\ Top(t).i <= Len(Predicted[Top(t).addr])

Descend(t) ==
  /\ Looking(t) /\ Top(t).blk # NoBlock /\ MorePredictions(t)
  /\ work' = [work EXCEPT ![t] =
                Append(@, Frame(Predicted[Top(t).addr][Top(t).i], Top(t).depth + 1))]
  /\ ReadBegins(t)
  /\ UNCHANGED <<vars, cache, blocks, eip, cur, raced>>

Compiled(t) ==
  /\ Looking(t) /\ Top(t).blk # NoBlock /\ ~MorePredictions(t)
  /\ ReturnBlock(t, Top(t).blk)
  /\ UNCHANGED <<cache, eip, raced, tableVars>>

(* The block ends at one of its exits. *)
BlockEnds(t) ==
  /\ Release(t)
  /\ \E a \in Jumps[blocks[cur[t]].addr] : eip' = [eip EXCEPT ![t] = a]
  /\ UNCHANGED <<cache, blocks, cur, work, raced, tableVars>>

CacheStep(t) == LookUp(t) \/ TakePrediction(t) \/ Find(t) \/ FindUnfilled(t)
                \/ BeginInsert(t) \/ Insert(t) \/ Descend(t) \/ Compiled(t)

LockStep(t) == /\ \/ Acquire(t) \/ SyscallEnter(t) \/ Return(t) \/ SyscallExit(t) \/ Leave(t)
                  \/ \E u \in Thread : Create(t, u)
               /\ UNCHANGED cacheVars

CacheNext == \E t \in Thread : CacheStep(t) \/ BlockEnds(t) \/ LockStep(t)

CacheSpec == CacheInit /\ [][CacheNext]_allVars

(* The fairness of ExecLock; compiling takes finite time. *)
FairCacheSpec ==
  /\ CacheSpec
  /\ \A t \in Thread :
       /\ WF_allVars(CacheStep(t))
       /\ WF_allVars(BlockEnds(t) \/ (SyscallEnter(t) /\ UNCHANGED cacheVars))
       /\ SF_allVars(Acquire(t) /\ UNCHANGED cacheVars)
       /\ SF_allVars(SyscallExit(t) /\ UNCHANGED cacheVars)

-----------------------------------------------------------------------------

CacheTypeOK ==
  /\ cache \in [Addr -> {NoBlock} \cup Block]
  /\ \A b \in Block : /\ blocks[b].addr \in Addr /\ blocks[b].live \in BOOLEAN
                      /\ \A k \in DOMAIN blocks[b].pred : blocks[b].pred[k] \in {NoBlock} \cup Block
  /\ eip \in [Thread -> Addr] /\ cur \in [Thread -> {NoBlock} \cup Block]
  /\ \A t \in writing : t \in Thread /\ Looking(t) /\ Top(t).compiling
  /\ \A t \in Thread : Len(work[t]) <= MaxDepth + 1

(* A thread never executes the code of another address than its eip's:      *)
(* every entry of the cache and every prediction is about the address it is *)
(* filed under.                                                             *)
ExecutesItsAddress ==
  /\ \A t \in Thread : pc[t] \in {"spin", "execute"} => blocks[cur[t]].addr = eip[t]
  /\ \A b \in Block : \A k \in DOMAIN blocks[b].pred :
       blocks[b].pred[k] # NoBlock =>
         blocks[blocks[b].pred[k]].addr = Predicted[blocks[b].addr][k]

\* Nothing can crash: the table is intact, and no block has been destroyed.
Sound == ~overlapped /\ \A b \in Block : blocks[b].live

(* The table is damaged or a block destroyed, and so something can crash,   *)
(* only after two threads have compiled the same address at a time or a     *)
(* write of the table has overlapped another access, whatever the addresses *)
(* of the two; in a program of one thread it never is.                      *)
DestroyedMeansRace ==
  ~raced /\ ~overlapped =>
    Sound /\ \A a, b \in Block : blocks[a].addr = blocks[b].addr => a = b

(* As long as no accesses to the table have overlapped, the newest block of *)
(* an address is the one that is cached and the only one alive, even if     *)
(* several threads have compiled it: a look-up that has not yet found its   *)
(* block never finds one that was destroyed; the older ones are gone for    *)
(* whoever still has them.  (With the types of both parts.)                 *)
CacheHoldsNewest ==
  /\ TypeOK /\ CacheTypeOK
  /\ ~overlapped =>
       /\ \A a \in Addr : cache[a] # NoBlock =>
            blocks[cache[a]].live /\ \A b \in Block : blocks[b].addr = a => b <= cache[a]
       /\ \A b \in Block : blocks[b].live => cache[blocks[b].addr] = b

(* As long as nothing can crash the look-up of an address ends, although   *)
(* the code it compiles on the way may be full of loops; and a thread that  *)
(* wants to execute its block does.                                         *)
LookupEnds == \A t \in Thread :
    pc[t] = "lookup" ~> pc[t] = "spin" \/ Len(blocks) = MaxBlocks \/ ~Sound
SpinnersExecute == \A t \in Thread :
    pc[t] \in {"spin", "spin_return"} ~> pc[t] = "execute" \/ ~Sound
BlocksExecute == LookupEnds /\ SpinnersExecute
=============================================================================
