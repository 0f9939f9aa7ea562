------------------------ MODULE CriticalSectionHalfix ------------------------
(***************************************************************************)
(* The critical section on the interpreter.  CriticalSection lets          *)
(* InterlockedIncrement and InterlockedDecrement be single steps, as they  *)
(* are in the JIT build, where a guest thread runs only while it has the   *)
(* execution lock.  The interpreter has no such lock: threads interpret at *)
(* the same time, the LOCK prefix of XADD is checked for validity only     *)
(* (decoder.c), and the instruction loads its operand and stores the sum   *)
(* in two host accesses.                                                   *)
(***************************************************************************)
EXTENDS CriticalSection

VARIABLE loaded     \* LockCount as an XADD of the thread has loaded it

varsHalfix == <<vars, loaded>>

InitHalfix == Init /\ loaded = [t \in Thread |-> NULL]

Load(t) ==
    /\ loaded[t] = NULL
    /\ pc[t] \in {"out", "in", "dec_nested", "dec"}
    /\ pc[t] = "in" => RecursionCount < MaxDepth
    /\ loaded' = [loaded EXCEPT ![t] = LockCount]
    /\ UNCHANGED vars

\* The operand is loaded a second time for the value the instruction returns;
\* the host's compiler may merge the two loads.
Store(t, d, next(_)) ==
    /\ loaded[t] # NULL
    /\ loaded' = [loaded EXCEPT ![t] = NULL]
    /\ LockCount' = loaded[t] + d
    /\ \E old \in {loaded[t], LockCount} : pc' = [pc EXCEPT ![t] = next(old + d)]
    /\ UNCHANGED <<OwningThread, RecursionCount, LockSemaphore>>

StoreEnter(t) ==
    /\ pc[t] \in {"out", "in"}
    /\ Store(t, 1, LAMBDA n : IF n = 0 THEN "set_owner" ELSE "check")

StoreNested(t) == pc[t] = "dec_nested" /\ Store(t, -1, LAMBDA n : "in")

StoreDec(t) ==
    /\ pc[t] = "dec"
    /\ Store(t, -1, LAMBDA n : IF n # -1 THEN "post" ELSE "out")

\* A step that does not touch LockCount.
Elsewhere(t) ==
    /\ loaded[t] = NULL
    /\ Enter(t) \/ SemWait(t) \/ LeaveRec(t) \/ ClearOwner(t) \/ SemPost(t)
    /\ UNCHANGED loaded

NextHalfix == \E t \in Thread : \/ Load(t) \/ StoreEnter(t) \/ StoreNested(t) \/ StoreDec(t)
                                \/ Elsewhere(t)

SpecHalfix == InitHalfix /\ [][NextHalfix]_varsHalfix
=============================================================================
