------------------------ MODULE CriticalSectionProofs ------------------------
(***************************************************************************)
(* Proofs about CriticalSection for any set of threads and any nesting:    *)
(* mutual exclusion, the soundness of the unsynchronised owner test, that  *)
(* the critical section implements a recursive lock, and that LockCount is *)
(* exact and no wake-up of a waiter is lost.                               *)
(***************************************************************************)
EXTENDS CriticalSection, FiniteSetTheorems, TLAPS

\* The right to the lock is one token: a thread inside has it, or a thread
\* about to post, or the semaphore.
TokenInv ==
    /\ LockSemaphore = 1 => \A u \in Thread : ~ Inside(u) /\ pc[u] # "post"
    /\ \A t \in Thread : pc[t] = "post" =>
          \A u \in Thread : ~ Inside(u) /\ (pc[u] = "post" => u = t)

\* While the token exists LockCount is not -1, so that no newcomer takes the
\* lock with its increment; the holder's enters are all counted.
CountInv ==
    /\ LockSemaphore = 1 => LockCount >= 0
    /\ \A t \in Thread :
         /\ pc[t] \in {"set_owner", "set_recursion", "clear_owner", "dec",
                       "post"} => LockCount >= 0
         /\ pc[t] = "in" =>
              RecursionCount >= 1 /\ LockCount >= RecursionCount - 1
         /\ pc[t] = "dec_nested" \/ (pc[t] = "check" /\ OwningThread = t) =>
              RecursionCount >= 1 /\ LockCount >= RecursionCount

\* Where OwningThread can and must name a thread.
OwnerInv == \A t \in Thread :
    /\ pc[t] \in {"out", "wait", "set_owner", "dec", "post"} => OwningThread # t
    /\ pc[t] \in {"set_recursion", "in", "dec_nested", "clear_owner"} =>
          OwningThread = t

\* The inductive invariant.
IInv == TypeOK /\ MutualExclusion /\ TokenInv /\ CountInv /\ OwnerInv

\* The initial state satisfies the invariant.
LEMMA IInvInit == Init => IInv
  BY CsAssumption
     DEF Init, IInv, TypeOK, Pc, MutualExclusion, TokenInv, CountInv, OwnerInv,
         Inside, Holds

\* Every step preserves the invariant.
LEMMA IInvStep == IInv /\ [Next]_vars => IInv'
<1> SUFFICES ASSUME IInv, [Next]_vars PROVE IInv'
  OBVIOUS
<1> USE CsAssumption DEF IInv, TypeOK, Pc, Goto, Inside, Holds
<1>1. ASSUME NEW t \in Thread, EnterInc(t)
      PROVE  IInv'
  <2>1. TypeOK'
    BY <1>1 DEF EnterInc, TokenInv, CountInv
  <2>2. MutualExclusion'
    BY <1>1 DEF EnterInc, MutualExclusion, TokenInv, CountInv, OwnerInv
  <2>3. TokenInv'
    BY <1>1 DEF EnterInc, MutualExclusion, TokenInv, CountInv, OwnerInv
  <2>4. CountInv'
    BY <1>1 DEF EnterInc, MutualExclusion, TokenInv, CountInv, OwnerInv
  <2>5. OwnerInv'
    BY <1>1 DEF EnterInc, MutualExclusion, CountInv, OwnerInv
  <2> HIDE DEF TypeOK
  <2> QED BY <2>1, <2>2, <2>3, <2>4, <2>5
<1>2. ASSUME NEW t \in Thread, EnterOwned(t)
      PROVE  IInv'
  <2>1. TypeOK'
    BY <1>2 DEF EnterOwned, TokenInv, CountInv
  <2>2. MutualExclusion'
    BY <1>2 DEF EnterOwned, MutualExclusion, TokenInv, CountInv, OwnerInv
  <2>3. TokenInv'
    BY <1>2 DEF EnterOwned, MutualExclusion, TokenInv, CountInv, OwnerInv
  <2>4. CountInv'
    BY <1>2 DEF EnterOwned, MutualExclusion, TokenInv, CountInv, OwnerInv
  <2>5. OwnerInv'
    BY <1>2 DEF EnterOwned, MutualExclusion, OwnerInv
  <2> HIDE DEF TypeOK
  <2> QED BY <2>1, <2>2, <2>3, <2>4, <2>5
<1>3. ASSUME NEW t \in Thread, EnterNotOwned(t)
      PROVE  IInv'
  <2>1. TypeOK'
    BY <1>3 DEF EnterNotOwned, TokenInv, CountInv
  <2>2. MutualExclusion'
    BY <1>3 DEF EnterNotOwned, MutualExclusion, TokenInv, CountInv, OwnerInv
  <2>3. TokenInv'
    BY <1>3 DEF EnterNotOwned, MutualExclusion, TokenInv, CountInv, OwnerInv
  <2>4. CountInv'
    BY <1>3 DEF EnterNotOwned, MutualExclusion, TokenInv, CountInv, OwnerInv
  <2>5. OwnerInv'
    BY <1>3 DEF EnterNotOwned, MutualExclusion, OwnerInv
  <2> HIDE DEF TypeOK
  <2> QED BY <2>1, <2>2, <2>3, <2>4, <2>5
<1>4. ASSUME NEW t \in Thread, SemWait(t)
      PROVE  IInv'
  <2>1. TypeOK'
    BY <1>4 DEF SemWait, TokenInv, CountInv
  <2>2. MutualExclusion'
    BY <1>4 DEF SemWait, MutualExclusion, TokenInv, CountInv, OwnerInv
  <2>3. TokenInv'
    BY <1>4 DEF SemWait, MutualExclusion, TokenInv, CountInv, OwnerInv
  <2>4. CountInv'
    BY <1>4 DEF SemWait, MutualExclusion, TokenInv, CountInv, OwnerInv
  <2>5. OwnerInv'
    BY <1>4 DEF SemWait, MutualExclusion, OwnerInv
  <2> HIDE DEF TypeOK
  <2> QED BY <2>1, <2>2, <2>3, <2>4, <2>5
<1>5. ASSUME NEW t \in Thread, SetOwner(t)
      PROVE  IInv'
  <2>1. TypeOK'
    BY <1>5 DEF SetOwner, TokenInv, CountInv
  <2>2. MutualExclusion'
    BY <1>5 DEF SetOwner, MutualExclusion, TokenInv, CountInv, OwnerInv
  <2>3. TokenInv'
    BY <1>5 DEF SetOwner, MutualExclusion, TokenInv, CountInv, OwnerInv
  <2>4. CountInv'
    BY <1>5 DEF SetOwner, MutualExclusion, TokenInv, CountInv, OwnerInv
  <2>5. OwnerInv'
    BY <1>5 DEF SetOwner, MutualExclusion, OwnerInv
  <2> HIDE DEF TypeOK
  <2> QED BY <2>1, <2>2, <2>3, <2>4, <2>5
<1>6. ASSUME NEW t \in Thread, SetRecursion(t)
      PROVE  IInv'
  <2>1. TypeOK'
    BY <1>6 DEF SetRecursion, TokenInv, CountInv
  <2>2. MutualExclusion'
    BY <1>6 DEF SetRecursion, MutualExclusion, TokenInv, CountInv, OwnerInv
  <2>3. TokenInv'
    BY <1>6 DEF SetRecursion, MutualExclusion, TokenInv, CountInv, OwnerInv
  <2>4. CountInv'
    BY <1>6 DEF SetRecursion, MutualExclusion, TokenInv, CountInv, OwnerInv
  <2>5. OwnerInv'
    BY <1>6 DEF SetRecursion, MutualExclusion, OwnerInv
  <2> HIDE DEF TypeOK
  <2> QED BY <2>1, <2>2, <2>3, <2>4, <2>5
<1>7. ASSUME NEW t \in Thread, LeaveRec(t)
      PROVE  IInv'
  <2>1. TypeOK'
    BY <1>7 DEF LeaveRec, TokenInv, CountInv
  <2>2. MutualExclusion'
    BY <1>7 DEF LeaveRec, MutualExclusion, TokenInv, CountInv, OwnerInv
  <2>3. TokenInv'
    BY <1>7 DEF LeaveRec, MutualExclusion, TokenInv, CountInv, OwnerInv
  <2>4. CountInv'
    BY <1>7 DEF LeaveRec, MutualExclusion, TokenInv, CountInv, OwnerInv
  <2>5. OwnerInv'
    BY <1>7 DEF LeaveRec, MutualExclusion, OwnerInv
  <2> HIDE DEF TypeOK
  <2> QED BY <2>1, <2>2, <2>3, <2>4, <2>5
<1>8. ASSUME NEW t \in Thread, LeaveNested(t)
      PROVE  IInv'
  <2>1. TypeOK'
    BY <1>8 DEF LeaveNested, TokenInv, CountInv
  <2>2. MutualExclusion'
    BY <1>8 DEF LeaveNested, MutualExclusion, TokenInv, CountInv, OwnerInv
  <2>3. TokenInv'
    BY <1>8 DEF LeaveNested, MutualExclusion, TokenInv, CountInv, OwnerInv
  <2>4. CountInv'
    BY <1>8 DEF LeaveNested, MutualExclusion, TokenInv, CountInv, OwnerInv
  <2>5. OwnerInv'
    BY <1>8 DEF LeaveNested, MutualExclusion, OwnerInv
  <2> HIDE DEF TypeOK
  <2> QED BY <2>1, <2>2, <2>3, <2>4, <2>5
<1>9. ASSUME NEW t \in Thread, ClearOwner(t)
      PROVE  IInv'
  <2>1. TypeOK'
    BY <1>9 DEF ClearOwner, TokenInv, CountInv
  <2>2. MutualExclusion'
    BY <1>9 DEF ClearOwner, MutualExclusion, TokenInv, CountInv, OwnerInv
  <2>3. TokenInv'
    BY <1>9 DEF ClearOwner, MutualExclusion, TokenInv, CountInv, OwnerInv
  <2>4. CountInv'
    BY <1>9 DEF ClearOwner, MutualExclusion, TokenInv, CountInv, OwnerInv
  <2>5. OwnerInv'
    BY <1>9 DEF ClearOwner, MutualExclusion, OwnerInv
  <2> HIDE DEF TypeOK
  <2> QED BY <2>1, <2>2, <2>3, <2>4, <2>5
<1>10. ASSUME NEW t \in Thread, LeaveDec(t)
      PROVE  IInv'
  <2>1. TypeOK'
    BY <1>10 DEF LeaveDec, TokenInv, CountInv
  <2>2. MutualExclusion'
    BY <1>10 DEF LeaveDec, MutualExclusion, TokenInv, CountInv, OwnerInv
  <2>3. TokenInv'
    BY <1>10 DEF LeaveDec, MutualExclusion, TokenInv, CountInv, OwnerInv
  <2>4. CountInv'
    BY <1>10 DEF LeaveDec, MutualExclusion, TokenInv, CountInv, OwnerInv
  <2>5. OwnerInv'
    BY <1>10 DEF LeaveDec, MutualExclusion, OwnerInv
  <2> HIDE DEF TypeOK
  <2> QED BY <2>1, <2>2, <2>3, <2>4, <2>5
<1>11. ASSUME NEW t \in Thread, SemPost(t)
      PROVE  IInv'
  <2>1. TypeOK'
    BY <1>11 DEF SemPost, TokenInv, CountInv
  <2>2. MutualExclusion'
    BY <1>11 DEF SemPost, MutualExclusion, TokenInv, CountInv, OwnerInv
  <2>3. TokenInv'
    BY <1>11 DEF SemPost, MutualExclusion, TokenInv, CountInv, OwnerInv
  <2>4. CountInv'
    BY <1>11 DEF SemPost, MutualExclusion, TokenInv, CountInv, OwnerInv
  <2>5. OwnerInv'
    BY <1>11 DEF SemPost, MutualExclusion, OwnerInv
  <2> HIDE DEF TypeOK
  <2> QED BY <2>1, <2>2, <2>3, <2>4, <2>5
<1>12. CASE UNCHANGED vars
  BY <1>12 DEF vars, MutualExclusion, TokenInv, CountInv, OwnerInv
<1> QED BY <1>1, <1>2, <1>3, <1>4, <1>5, <1>6, <1>7, <1>8, <1>9, <1>10, <1>11, <1>12 DEF Next, Enter, Leave

\* Type correctness; the semaphore of a critical section stays binary.
THEOREM TypeCorrect == Spec => []TypeOK
<1>1. Spec => []IInv
  BY IInvInit, IInvStep, PTL DEF Spec
<1>2. IInv => TypeOK
  BY DEF IInv
<1> QED BY <1>1, <1>2, PTL

\* No two threads are between Enter and Leave.
THEOREM MutexCorrect == Spec => []MutualExclusion
<1>1. Spec => []IInv
  BY IInvInit, IInvStep, PTL DEF Spec
<1>2. IInv => MutualExclusion
  BY DEF IInv
<1> QED BY <1>1, <1>2, PTL

\* The test Thread == OwningThread is right although nothing orders it.
THEOREM OwnerCorrect == Spec => []OwnerIsInside
<1>1. Spec => []IInv
  BY IInvInit, IInvStep, PTL DEF Spec
<1>2. IInv => OwnerIsInside
  BY DEF IInv, OwnerIsInside, OwnerInv, Inside, Holds, TypeOK, Pc
<1> QED BY <1>1, <1>2, PTL

-----------------------------------------------------------------------------
(* Refinement of RecursiveLock.                                            *)

\* The abstract holder is the one thread that holds, if there is one.
HolderOK ==
    /\ \A t \in Thread : Holds(t) =>
         /\ abs_holder = t
         /\ abs_depth = IF pc[t] \in {"set_owner", "set_recursion"} THEN 1
                                                       ELSE RecursionCount
    /\ (\A t \in Thread : ~ Holds(t)) => abs_holder = NULL /\ abs_depth = 0

\* HolderOK follows from mutual exclusion.
LEMMA HolderFacts == IInv => HolderOK
<1> SUFFICES ASSUME IInv PROVE HolderOK
  OBVIOUS
<1>1. ASSUME NEW t \in Thread, Holds(t)
      PROVE  abs_holder = t
  <2>1. \A u \in Thread : Holds(u) => u = t
    BY <1>1 DEF IInv, MutualExclusion, Inside
  <2> QED BY <1>1, <2>1 DEF abs_holder
<1>2. ASSUME NEW t \in Thread, Holds(t)
      PROVE  abs_depth = IF pc[t] \in {"set_owner", "set_recursion"} THEN 1
                                                    ELSE RecursionCount
  BY <1>1, <1>2, CsAssumption DEF abs_depth
<1>3. (\A t \in Thread : ~ Holds(t)) => abs_holder = NULL /\ abs_depth = 0
  BY DEF abs_holder, abs_depth
<1> QED BY <1>1, <1>2, <1>3 DEF HolderOK

\* The step gives the free lock to t.
Acquires(t) == /\ \A u \in Thread : ~ Holds(u)
               /\ pc'[t] = "set_owner"
               /\ Holds(t)'

\* The step changes neither the holder nor the depth.
Keeps == \A t \in Thread :
    /\ Holds(t)' <=> Holds(t)
    /\ Holds(t) => (IF pc'[t] \in {"set_owner", "set_recursion"}
                    THEN 1 ELSE RecursionCount')
                 = (IF pc[t] \in {"set_owner", "set_recursion"}
                    THEN 1 ELSE RecursionCount)

\* Every step is a step of the recursive lock or changes nothing of it.
LEMMA LockStep ==
  IInv /\ IInv' /\ [Next]_vars => [Lock!Next]_<<abs_holder, abs_depth>>
<1> SUFFICES ASSUME IInv, IInv', [Next]_vars
             PROVE  [Lock!Next]_<<abs_holder, abs_depth>>
  OBVIOUS
<1> USE CsAssumption DEF Goto
<1>a. HolderOK /\ HolderOK'
  BY HolderFacts, PTL
<1>b. TypeOK /\ MutualExclusion /\ TokenInv /\ CountInv /\ OwnerInv
  BY DEF IInv
<1>c. ASSUME NEW t \in Thread, Acquires(t)
      PROVE  Lock!Acquire(t)
  BY <1>a, <1>c DEF Acquires, HolderOK, Lock!Acquire
<1>d. ASSUME Keeps
      PROVE  UNCHANGED <<abs_holder, abs_depth>>
  <2>1. CASE \E t \in Thread : Holds(t)
    BY <1>a, <1>d, <2>1 DEF Keeps, HolderOK
  <2>2. CASE \A t \in Thread : ~ Holds(t)
    BY <1>a, <1>d, <2>2 DEF Keeps, HolderOK
  <2> QED BY <2>1, <2>2
<1>1. ASSUME NEW t \in Thread, EnterInc(t)
      PROVE  Acquires(t) \/ Keeps
  <2>1. CASE LockCount = -1
    <3>1. \A u \in Thread : ~ Holds(u)
      BY <1>b, <2>1 DEF CountInv, Holds, TypeOK
    <3>2. pc'[t] = "set_owner"
      BY <1>1, <1>b, <2>1 DEF EnterInc, TypeOK
    <3> QED BY <3>1, <3>2 DEF Acquires, Holds
  <2>2. CASE LockCount # -1
    BY <1>1, <1>b, <2>2 DEF EnterInc, Keeps, Holds, OwnerInv, TypeOK
  <2> QED BY <2>1, <2>2
<1>2. ASSUME NEW t \in Thread, EnterOwned(t)
      PROVE  Lock!Reacquire(t)
  <2>1. /\ Holds(t) /\ Holds(t)' /\ pc[t] = "check" /\ pc'[t] = "in"
        /\ RecursionCount' = RecursionCount + 1
    BY <1>2, <1>b DEF EnterOwned, Holds, TypeOK
  <2> QED BY <1>a, <2>1 DEF HolderOK, Lock!Reacquire
<1>3. ASSUME NEW t \in Thread, EnterNotOwned(t)
      PROVE  Keeps
  BY <1>3, <1>b DEF EnterNotOwned, Keeps, Holds, TypeOK
<1>4. ASSUME NEW t \in Thread, SemWait(t)
      PROVE  Acquires(t)
  BY <1>4, <1>b DEF SemWait, Acquires, Holds, TypeOK, TokenInv, Inside
<1>5. ASSUME NEW t \in Thread, SetOwner(t) \/ SetRecursion(t)
      PROVE  Keeps
  BY <1>5, <1>b DEF SetOwner, SetRecursion, Keeps, Holds, TypeOK, OwnerInv,
                    MutualExclusion, Inside
<1>6. ASSUME NEW t \in Thread, LeaveRec(t)
      PROVE  Lock!Release(t)
  <2>1. /\ Holds(t) /\ pc[t] = "in" /\ RecursionCount \in Nat
        /\ RecursionCount >= 1 /\ RecursionCount' = RecursionCount - 1
    BY <1>6, <1>b DEF LeaveRec, Holds, TypeOK, CountInv
  <2>2. abs_holder = t /\ abs_depth = RecursionCount
    BY <1>a, <2>1 DEF HolderOK
  <2>3. CASE RecursionCount = 1
    <3>1. \A u \in Thread : ~ Holds(u)'
      BY <1>6, <1>b, <2>1, <2>3 DEF LeaveRec, Holds, TypeOK, MutualExclusion, Inside
    <3> QED BY <1>a, <2>1, <2>2, <2>3, <3>1 DEF HolderOK, Lock!Release
  <2>4. CASE RecursionCount # 1
    <3>1. Holds(t)' /\ pc'[t] = "dec_nested"
      BY <1>6, <1>b, <2>1, <2>4 DEF LeaveRec, Holds, TypeOK
    <3> QED BY <1>a, <2>1, <2>2, <2>4, <3>1 DEF HolderOK, Lock!Release
  <2> QED BY <2>3, <2>4
<1>7. ASSUME NEW t \in Thread, LeaveNested(t) \/ LeaveDec(t) \/ SemPost(t)
      PROVE  Keeps
  BY <1>7, <1>b DEF LeaveNested, LeaveDec, SemPost, Keeps, Holds, TypeOK
<1>8. ASSUME NEW t \in Thread, ClearOwner(t)
      PROVE  Keeps
  BY <1>8, <1>b DEF ClearOwner, Keeps, Holds, TypeOK, OwnerInv
<1>9. CASE UNCHANGED vars
  BY <1>9 DEF vars, abs_holder, abs_depth, Holds
<1> QED
  BY <1>1, <1>2, <1>3, <1>4, <1>5, <1>6, <1>7, <1>8, <1>9, <1>c, <1>d
     DEF Next, Enter, Leave, Lock!Next

\* A critical section is a recursive lock, for any threads and any nesting.
THEOREM Refinement == Spec => ImplementsLock
<1>1. Spec => []IInv
  BY IInvInit, IInvStep, PTL DEF Spec
<1>2. Init => Lock!Init
  BY DEF Init, Lock!Init, abs_holder, abs_depth, Holds
<1> QED BY <1>1, <1>2, LockStep, PTL DEF Spec, ImplementsLock, Lock!Spec

-----------------------------------------------------------------------------
(* Waiters.                                                                *)

\* The threads that wait for the lock.
Waiters == {t \in Thread : Waiting(t)}

\* What a thread inside has added to LockCount.
Share(t) == IF pc[t] = "in" THEN RecursionCount
            ELSE IF pc[t] \in {"check", "dec_nested"} THEN RecursionCount + 1
            ELSE 1

\* LockCount + 1 is the share of the thread inside plus the waiters; they are
\* finitely many, however many threads there are, because each of them has
\* made a step.
ShareInv == /\ IsFiniteSet(Waiters)
            /\ \A t \in Thread :
                  Inside(t) => LockCount + 1 = Share(t) + Cardinality(Waiters)
            /\ (\A t \in Thread : ~ Inside(t)) =>
                  LockCount + 1 = Cardinality(Waiters)

\* While LockCount is not -1 the token exists.
ServerInv == LockCount >= 0 => \/ LockSemaphore = 1
                               \/ \E t \in Thread : Inside(t) \/ pc[t] = "post"

\* Who waits changes only with a step of that thread.
LEMMA WaitersStep ==
    ASSUME IInv, NEW t \in Thread,
           EnterInc(t) \/ Enter(t) \/ SemWait(t) \/ LeaveRec(t) \/ Leave(t)
    PROVE  /\ \A u \in Thread \ {t} : /\ pc'[u] = pc[u]
                                      /\ Waiting(u)' <=> Waiting(u)
                                      /\ Inside(u)' <=> Inside(u)
           /\ pc' \in [Thread -> Pc]
<1> USE CsAssumption DEF IInv, TypeOK, Goto, Waiting, Inside, Holds
<1>1. CASE EnterInc(t) \/ LeaveRec(t) \/ SemWait(t)
  BY <1>1 DEF EnterInc, LeaveRec, SemWait, Pc
<1>2. CASE Enter(t)
  BY <1>2 DEF Enter, EnterOwned, EnterNotOwned, SetOwner, SetRecursion, OwnerInv,
              MutualExclusion, Pc
<1>3. CASE Leave(t)
  BY <1>3 DEF Leave, LeaveNested, ClearOwner, LeaveDec, SemPost, OwnerInv, Pc
<1> QED BY <1>1, <1>2, <1>3

\* The set of waiters after a step of t.
LEMMA WaitersAfter ==
    ASSUME IsFiniteSet(Waiters), NEW t \in Thread,
           \A u \in Thread \ {t} : Waiting(u)' <=> Waiting(u)
    PROVE  /\ IsFiniteSet(Waiters')
           /\ Cardinality(Waiters) \in Nat /\ Cardinality(Waiters') \in Nat
           /\ (Waiting(t)' <=> Waiting(t)) =>
                 Cardinality(Waiters') = Cardinality(Waiters)
           /\ Waiting(t)' /\ ~ Waiting(t) =>
                 Cardinality(Waiters') = Cardinality(Waiters) + 1
           /\ ~ Waiting(t)' /\ Waiting(t) =>
                 Cardinality(Waiters') = Cardinality(Waiters) - 1
<1>1. CASE Waiting(t)' <=> Waiting(t)
  <2>1. Waiters' = Waiters
    BY <1>1 DEF Waiters
  <2> QED BY <1>1, <2>1, FS_CardinalityType
<1>2. CASE Waiting(t)' /\ ~ Waiting(t)
  <2>1. Waiters' = Waiters \cup {t} /\ t \notin Waiters
    BY <1>2 DEF Waiters
  <2> QED BY <1>2, <2>1, FS_AddElement, FS_CardinalityType
<1>3. CASE ~ Waiting(t)' /\ Waiting(t)
  <2>1. Waiters' = Waiters \ {t} /\ t \in Waiters
    BY <1>3 DEF Waiters
  <2> QED BY <1>3, <2>1, FS_RemoveElement, FS_CardinalityType
<1> QED BY <1>1, <1>2, <1>3

LEMMA ServedStep ==
    IInv /\ ShareInv /\ ServerInv /\ [Next]_vars => ShareInv' /\ ServerInv'
<1> SUFFICES ASSUME IInv, ShareInv, ServerInv, [Next]_vars
             PROVE  ShareInv' /\ ServerInv'
  OBVIOUS
<1> USE CsAssumption
<1>0. /\ LockCount \in Int /\ LockCount >= -1 /\ RecursionCount \in Nat
      /\ LockSemaphore \in {0, 1} /\ pc \in [Thread -> Pc]
  BY DEF IInv, TypeOK
<1>1. CASE UNCHANGED vars
  BY <1>1 DEF vars, ShareInv, ServerInv, Waiters, Waiting, Share, Inside, Holds
<1>2. ASSUME NEW t \in Thread,
             EnterInc(t) \/ Enter(t) \/ SemWait(t) \/ LeaveRec(t) \/ Leave(t)
      PROVE  ShareInv' /\ ServerInv'
  <2>1. /\ \A u \in Thread \ {t} : /\ pc'[u] = pc[u]
                                   /\ Waiting(u)' <=> Waiting(u)
                                   /\ Inside(u)' <=> Inside(u)
        /\ pc' \in [Thread -> Pc]
    BY <1>2, WaitersStep
  <2>2. PICK n : n = Cardinality(Waiters)
    OBVIOUS
  <2>3. PICK m : m = Cardinality(Waiters')
    OBVIOUS
  <2>4. /\ IsFiniteSet(Waiters')
        /\ n \in Nat /\ m \in Nat
        /\ (Waiting(t)' <=> Waiting(t)) => m = n
        /\ Waiting(t)' /\ ~ Waiting(t) => m = n + 1
        /\ ~ Waiting(t)' /\ Waiting(t) => m = n - 1
    BY <2>1, <2>2, <2>3, WaitersAfter DEF ShareInv
  <2>5. /\ \A u \in Thread : Inside(u) => LockCount + 1 = Share(u) + n
        /\ (\A u \in Thread : ~ Inside(u)) => LockCount + 1 = n
    BY <2>2 DEF ShareInv
  <2>6. SUFFICES /\ \A u \in Thread : Inside(u)' => LockCount' + 1 = Share(u)' + m
                 /\ (\A u \in Thread : ~ Inside(u)') => LockCount' + 1 = m
                 /\ ServerInv'
    BY <2>3, <2>4 DEF ShareInv
  <2>7. MutualExclusion /\ TokenInv /\ CountInv /\ OwnerInv
    BY DEF IInv
  <2>8. CASE EnterInc(t)
    BY <1>0, <2>1, <2>4, <2>5, <2>7, <2>8
       DEF EnterInc, Inside, Holds, Waiting, Share, ServerInv, CountInv,
           OwnerInv, MutualExclusion
  <2>9. CASE EnterOwned(t)
    BY <1>0, <2>1, <2>4, <2>5, <2>7, <2>9
       DEF EnterOwned, Goto, Inside, Holds, Waiting, Share, ServerInv,
           MutualExclusion
  <2>10. CASE EnterNotOwned(t)
    BY <1>0, <2>1, <2>4, <2>5, <2>7, <2>10
       DEF EnterNotOwned, Goto, Inside, Holds, Waiting, Share, ServerInv
  <2>11. CASE SemWait(t)
    BY <1>0, <2>1, <2>4, <2>5, <2>7, <2>11
       DEF SemWait, Goto, Inside, Holds, Waiting, Share, ServerInv, TokenInv
  <2>12. CASE SetOwner(t) \/ SetRecursion(t)
    BY <1>0, <2>1, <2>4, <2>5, <2>7, <2>12
       DEF SetOwner, SetRecursion, Goto, Inside, Holds, Waiting, Share,
           ServerInv, MutualExclusion
  <2>13. CASE LeaveRec(t)
    BY <1>0, <2>1, <2>4, <2>5, <2>7, <2>13
       DEF LeaveRec, Inside, Holds, Waiting, Share, ServerInv, MutualExclusion,
           CountInv
  <2>14. CASE LeaveNested(t) \/ ClearOwner(t)
    BY <1>0, <2>1, <2>4, <2>5, <2>7, <2>14
       DEF LeaveNested, ClearOwner, Goto, Inside, Holds, Waiting, Share,
           ServerInv, MutualExclusion, OwnerInv
  <2>15. CASE LeaveDec(t)
    BY <1>0, <2>1, <2>4, <2>5, <2>7, <2>15
       DEF LeaveDec, Inside, Holds, Waiting, Share, ServerInv, MutualExclusion
  <2>16. CASE SemPost(t)
    BY <1>0, <2>1, <2>4, <2>5, <2>7, <2>16
       DEF SemPost, Goto, Inside, Holds, Waiting, Share, ServerInv, TokenInv
  <2> QED BY <1>2, <2>8, <2>9, <2>10, <2>11, <2>12, <2>13, <2>14, <2>15, <2>16
          DEF Enter, Leave
<1> QED BY <1>1, <1>2 DEF Next

\* LockCountExact says the same as ShareInv: at most one thread is inside, so
\* that its summands are the share of that thread.
LEMMA ShareIsExact == IInv /\ ShareInv => LockCountExact
<1> SUFFICES ASSUME IInv, ShareInv PROVE LockCountExact
  OBVIOUS
<1> DEFINE nested == IF \E t \in Thread : pc[t] \in {"in", "check"} /\ Holds(t)
                     THEN RecursionCount ELSE 0
           pending == {t \in Thread : \/ pc[t] \in {"set_owner", "set_recursion",
                                                    "clear_owner", "dec"}
                                      \/ pc[t] = "check" /\ Holds(t)}
           leaving == IF \E t \in Thread : pc[t] = "dec_nested"
                      THEN RecursionCount + 1 ELSE 0
<1>1. RecursionCount \in Nat /\ Cardinality(Waiters) \in Nat
  BY FS_CardinalityType DEF IInv, TypeOK, ShareInv
<1>2. CASE \A t \in Thread : ~ Inside(t)
  <2>1. nested = 0 /\ leaving = 0 /\ pending = {}
    BY <1>2 DEF Inside, Holds
  <2>2. Cardinality(pending) = 0
    BY <2>1, FS_EmptySet
  <2>3. LockCount + 1 = Cardinality(Waiters)
    BY <1>2 DEF ShareInv
  <2> HIDE DEF nested, pending, leaving
  <2>4. LockCount + 1 = nested + leaving + Cardinality(pending)
                               + Cardinality(Waiters)
    BY <1>1, <2>1, <2>2, <2>3
  <2> QED BY <2>4 DEF LockCountExact, Waiters, nested, pending, leaving
<1>3. ASSUME NEW t \in Thread, Inside(t)
      PROVE  LockCountExact
  <2>1. \A u \in Thread : Inside(u) => u = t
    BY <1>3 DEF IInv, MutualExclusion
  <2>2. \A u \in Thread : /\ u \in pending => u = t
                          /\ pc[u] = "dec_nested" => u = t
                          /\ Holds(u) => u = t
    BY <2>1 DEF Inside, Holds
  <2>3. LockCount + 1 = Share(t) + Cardinality(Waiters)
    BY <1>3 DEF ShareInv
  <2>4. nested + leaving + Cardinality(pending) = Share(t)
    <3>1. CASE pc[t] = "in"
      <4>1. nested = RecursionCount /\ leaving = 0 /\ pending = {}
        BY <2>2, <3>1 DEF Holds
      <4>2. Cardinality(pending) = 0
        BY <4>1, FS_EmptySet
      <4> HIDE DEF nested, leaving, pending
      <4> QED BY <1>1, <3>1, <4>1, <4>2 DEF Share
    <3>2. CASE pc[t] = "check"
      <4>1. nested = RecursionCount /\ leaving = 0 /\ pending = {t}
        BY <1>3, <2>2, <3>2 DEF Inside, Holds
      <4>2. Cardinality(pending) = 1
        BY <4>1, FS_Singleton
      <4> HIDE DEF nested, leaving, pending
      <4> QED BY <1>1, <3>2, <4>1, <4>2 DEF Share
    <3>3. CASE pc[t] = "dec_nested"
      <4>1. nested = 0 /\ leaving = RecursionCount + 1 /\ pending = {}
        BY <2>2, <3>3 DEF Holds
      <4>2. Cardinality(pending) = 0
        BY <4>1, FS_EmptySet
      <4> HIDE DEF nested, leaving, pending
      <4> QED BY <1>1, <3>3, <4>1, <4>2 DEF Share
    <3>4. CASE pc[t] \in {"set_owner", "set_recursion", "clear_owner", "dec"}
      <4>1. nested = 0 /\ leaving = 0 /\ pending = {t}
        BY <2>2, <3>4 DEF Holds
      <4>2. Cardinality(pending) = 1
        BY <4>1, FS_Singleton
      <4> HIDE DEF nested, leaving, pending
      <4> QED BY <1>1, <3>4, <4>1, <4>2 DEF Share
    <3> QED BY <1>3, <3>1, <3>2, <3>3, <3>4 DEF Inside, Holds
  <2> HIDE DEF nested, leaving, pending
  <2>5. LockCount + 1 = nested + leaving + Cardinality(pending)
                               + Cardinality(Waiters)
    BY <2>3, <2>4
  <2> QED BY <2>5 DEF LockCountExact, Waiters, nested, pending, leaving
<1> QED BY <1>2, <1>3

\* LockCount counts the waiters exactly, and no thread waits for a lock that
\* nobody is there to hand over: the wake-up of a waiter is never lost.
THEOREM NoLostWakeup == Spec => []WaitersAreServed
<1>1. Init => ShareInv /\ ServerInv
  <2> SUFFICES ASSUME Init PROVE ShareInv /\ ServerInv
    OBVIOUS
  <2>1. Waiters = {} /\ \A t \in Thread : ~ Inside(t)
    BY CsAssumption DEF Init, Waiters, Waiting, Inside, Holds
  <2>2. LockCount = -1
    BY DEF Init
  <2> QED BY <2>1, <2>2, FS_EmptySet DEF ShareInv, ServerInv
<1>2. IInv /\ ShareInv /\ ServerInv => WaitersAreServed
  <2> SUFFICES ASSUME IInv, ShareInv, ServerInv,
                      NEW t \in Thread, Waiting(t)
               PROVE  \/ LockSemaphore = 1
                      \/ \E u \in Thread : Inside(u) \/ pc[u] = "post"
    BY ShareIsExact DEF WaitersAreServed
  <2>1. t \in Waiters
    BY DEF Waiters
  <2>2. Cardinality(Waiters) \in Nat /\ Cardinality(Waiters) # 0
    BY <2>1, FS_CardinalityType, FS_EmptySet DEF ShareInv
  <2>3. CASE \A u \in Thread : ~ Inside(u)
    <3>1. LockCount >= 0
      BY <2>2, <2>3 DEF ShareInv, IInv, TypeOK
    <3> QED BY <3>1 DEF ServerInv
  <2> QED BY <2>3
<1> QED BY <1>1, <1>2, IInvInit, IInvStep, ServedStep, PTL DEF Spec
=============================================================================
