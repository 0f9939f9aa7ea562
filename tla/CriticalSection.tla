--------------------------- MODULE CriticalSection ---------------------------
(***************************************************************************)
(* EnterCriticalSection and LeaveCriticalSection of KERNEL32               *)
(* (src/uwin/target_dlls/KERNEL32/kernel32.c): an interlocked LockCount, a *)
(* semaphore to wait on, and the OwningThread and RecursionCount fields    *)
(* that are read and written without any synchronisation.  Every access to *)
(* one of the fields is a step of its own.                                 *)
(*                                                                         *)
(* The guest is assumed to call Leave only while it is inside ("unless the *)
(* program is totally screwed").  DeleteCriticalSection is left out: it    *)
(* closes a handle, which HandleTable models.                              *)
(***************************************************************************)
EXTENDS Integers, FiniteSets

CONSTANTS Thread,
          NULL,
          MaxDepth      \* bound: how often a thread may nest its enters

ASSUME CsAssumption == NULL \notin Thread /\ MaxDepth \in Nat \ {0}

VARIABLES LockCount, OwningThread, RecursionCount,
          LockSemaphore,    \* its count
          pc

vars == <<LockCount, OwningThread, RecursionCount, LockSemaphore, pc>>

\* InitializeCriticalSection.
Init == /\ LockCount = -1
        /\ OwningThread = NULL
        /\ RecursionCount = 0
        /\ LockSemaphore = 0
        /\ pc = [t \in Thread |-> "out"]

Goto(t, from, to) == pc[t] = from /\ pc' = [pc EXCEPT ![t] = to]

-----------------------------------------------------------------------------
(* EnterCriticalSection, from outside or again from inside.                *)

\* InterlockedIncrement(&LockCount) != 0.
EnterInc(t) ==
    /\ pc[t] \in {"out", "in"}
    /\ pc[t] = "in" => RecursionCount < MaxDepth
    /\ LockCount' = LockCount + 1
    /\ pc' = [pc EXCEPT ![t] = IF LockCount' = 0 THEN "set_owner" ELSE "check"]
    /\ UNCHANGED <<OwningThread, RecursionCount, LockSemaphore>>

\* Thread == OwningThread: RecursionCount++ and return.
EnterOwned(t) ==
    /\ OwningThread = t
    /\ Goto(t, "check", "in")
    /\ RecursionCount' = RecursionCount + 1
    /\ UNCHANGED <<LockCount, OwningThread, LockSemaphore>>

\* Another thread owns it, or none does yet.
EnterNotOwned(t) ==
    /\ OwningThread # t
    /\ Goto(t, "check", "wait")
    /\ UNCHANGED <<LockCount, OwningThread, RecursionCount, LockSemaphore>>

\* Mutant of SemWait: the wait times out and the result is ignored.
SemWaitTimeout(t) ==
    /\ Goto(t, "wait", "set_owner")
    /\ LockSemaphore' = IF LockSemaphore > 0 THEN LockSemaphore - 1 ELSE 0
    /\ UNCHANGED <<LockCount, OwningThread, RecursionCount>>

\* ksem_wait(LockSemaphore, KSEM_TMO_INF).
SemWait(t) ==
    /\ Goto(t, "wait", "set_owner")
    /\ LockSemaphore > 0
    /\ LockSemaphore' = LockSemaphore - 1
    /\ UNCHANGED <<LockCount, OwningThread, RecursionCount>>

SetOwner(t) ==
    /\ Goto(t, "set_owner", "set_recursion")
    /\ OwningThread' = t
    /\ UNCHANGED <<LockCount, RecursionCount, LockSemaphore>>

\* Mutant of SetRecursion: only an uncontended enter resets the count.
SetRecursionMissing(t) ==
    /\ Goto(t, "set_recursion", "in")
    /\ RecursionCount' = IF LockCount = 0 THEN 1 ELSE RecursionCount
    /\ UNCHANGED <<LockCount, OwningThread, LockSemaphore>>

SetRecursion(t) ==
    /\ Goto(t, "set_recursion", "in")
    /\ RecursionCount' = 1
    /\ UNCHANGED <<LockCount, OwningThread, LockSemaphore>>

-----------------------------------------------------------------------------
(* LeaveCriticalSection.                                                   *)

\* --RecursionCount.
LeaveRec(t) ==
    /\ pc[t] = "in"
    /\ RecursionCount' = RecursionCount - 1
    /\ pc' = [pc EXCEPT ![t] = IF RecursionCount' # 0 THEN "dec_nested"
                                                      ELSE "clear_owner"]
    /\ UNCHANGED <<LockCount, OwningThread, LockSemaphore>>

\* Mutant of LeaveNested: the nested enters stay counted.
LeaveNestedNoDec(t) ==
    /\ Goto(t, "dec_nested", "in")
    /\ UNCHANGED <<LockCount, OwningThread, RecursionCount, LockSemaphore>>

LeaveNested(t) ==
    /\ Goto(t, "dec_nested", "in")
    /\ LockCount' = LockCount - 1
    /\ UNCHANGED <<OwningThread, RecursionCount, LockSemaphore>>

\* Mutant of ClearOwner: OwningThread keeps the thread that left.
ClearOwnerNot(t) ==
    /\ Goto(t, "clear_owner", "dec")
    /\ UNCHANGED <<LockCount, OwningThread, RecursionCount, LockSemaphore>>

ClearOwner(t) ==
    /\ Goto(t, "clear_owner", "dec")
    /\ OwningThread' = NULL
    /\ UNCHANGED <<LockCount, RecursionCount, LockSemaphore>>

\* Mutant of LeaveDec: a single waiter is not seen.
LeaveDecLost(t) ==
    /\ pc[t] = "dec"
    /\ LockCount' = LockCount - 1
    /\ pc' = [pc EXCEPT ![t] = IF LockCount' > 0 THEN "post" ELSE "out"]
    /\ UNCHANGED <<OwningThread, RecursionCount, LockSemaphore>>

\* -1 != InterlockedDecrement(&LockCount).
LeaveDec(t) ==
    /\ pc[t] = "dec"
    /\ LockCount' = LockCount - 1
    /\ pc' = [pc EXCEPT ![t] = IF LockCount' # -1 THEN "post" ELSE "out"]
    /\ UNCHANGED <<OwningThread, RecursionCount, LockSemaphore>>

SemPost(t) ==
    /\ Goto(t, "post", "out")
    /\ LockSemaphore' = LockSemaphore + 1
    /\ UNCHANGED <<LockCount, OwningThread, RecursionCount>>

-----------------------------------------------------------------------------
Enter(t) == EnterOwned(t) \/ EnterNotOwned(t) \/ SetOwner(t) \/ SetRecursion(t)

Leave(t) == LeaveNested(t) \/ ClearOwner(t) \/ LeaveDec(t) \/ SemPost(t)

Next == \E t \in Thread :
          EnterInc(t) \/ Enter(t) \/ SemWait(t) \/ LeaveRec(t) \/ Leave(t)

Spec == Init /\ [][Next]_vars

\* A Leave at nesting depth d.
LeaveFrom(t, d) == RecursionCount = d /\ LeaveRec(t)

\* Threads inside the two functions keep running, a thread that is inside
\* leaves for good in the end, and the semaphore does not starve a waiter for
\* ever.
FairSpec == /\ Spec
            /\ \A t \in Thread : /\ WF_vars(Enter(t)) /\ WF_vars(Leave(t))
                                 /\ \A d \in 1 .. MaxDepth : SF_vars(LeaveFrom(t, d))
                                 /\ SF_vars(SemWait(t))

-----------------------------------------------------------------------------
(* Properties.                                                             *)

Pc == {"out", "check", "wait", "set_owner", "set_recursion", "in",
       "dec_nested", "clear_owner", "dec", "post"}

\* Types; the semaphore is binary.
TypeOK == /\ LockCount \in Int /\ LockCount >= -1
          /\ OwningThread \in Thread \cup {NULL}
          /\ RecursionCount \in Nat
          /\ LockSemaphore \in {0, 1}
          /\ pc \in [Thread -> Pc]

\* The thread has the lock and has not begun to give it back.
Holds(t) == \/ pc[t] \in {"set_owner", "set_recursion", "in", "dec_nested"}
            \/ pc[t] = "check" /\ OwningThread = t

\* The thread still has the right to touch OwningThread and RecursionCount.
Inside(t) == Holds(t) \/ pc[t] \in {"clear_owner", "dec"}

\* "only one thread at a time can actually change it" (kernel32.c:373).
MutualExclusion == \A t, u \in Thread : Inside(t) /\ Inside(u) => t = u

\* The unsynchronised test Thread == OwningThread is right: OwningThread names
\* a thread only while that thread is inside, and names it from the time it
\* is in until it is out.
OwnerIsInside == \A t \in Thread :
    /\ OwningThread = t => Inside(t)
    /\ pc[t] \in {"in", "dec_nested"} => OwningThread = t

\* A thread in "check" or "wait" that does not own the lock.
Waiting(t) == pc[t] = "wait" \/ (pc[t] = "check" /\ OwningThread # t)

\* LockCount is -1 plus the threads waiting plus the enters of the holder.
LockCountExact ==
    LET nested == IF \E t \in Thread : pc[t] \in {"in", "check"} /\ Holds(t)
                  THEN RecursionCount ELSE 0
        pending == {t \in Thread : \/ pc[t] \in {"set_owner", "set_recursion",
                                                 "clear_owner", "dec"}
                                   \/ pc[t] = "check" /\ Holds(t)}
        leaving == IF \E t \in Thread : pc[t] = "dec_nested"
                   THEN RecursionCount + 1 ELSE 0
    IN  LockCount + 1 = nested + leaving + Cardinality(pending)
                               + Cardinality({t \in Thread : Waiting(t)})

\* The count is exact, and someone is there to wake a thread that waits: a
\* thread inside, a thread about to post, or a post that has not been consumed.
WaitersAreServed ==
    /\ LockCountExact
    /\ (\E t \in Thread : Waiting(t)) =>
         \/ LockSemaphore = 1
         \/ \E t \in Thread : Inside(t) \/ pc[t] = "post"

abs_holder == IF \E t \in Thread : Holds(t)
              THEN CHOOSE t \in Thread : Holds(t) ELSE NULL
abs_depth == IF abs_holder = NULL THEN 0
             ELSE IF pc[abs_holder] \in {"set_owner", "set_recursion"} THEN 1
             ELSE RecursionCount

Lock == INSTANCE RecursiveLock WITH holder <- abs_holder, depth <- abs_depth

\* The critical section is a recursive lock.
ImplementsLock == Lock!Spec

\* A thread that has called Enter gets in.
EnterReturns == \A t \in Thread : pc[t] = "wait" ~> pc[t] = "in"
=============================================================================
