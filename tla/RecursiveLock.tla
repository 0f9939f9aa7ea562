---------------------------- MODULE RecursiveLock ----------------------------
(***************************************************************************)
(* What a critical section promises the guest's threads: at most one holds *)
(* it, and it is free again after as many leaves as enters.                *)
(***************************************************************************)
EXTENDS Naturals

CONSTANTS Thread, NULL

VARIABLES holder,   \* the thread inside, or NULL
          depth     \* how many times it has entered

Init == holder = NULL /\ depth = 0

Acquire(t) == /\ holder = NULL
              /\ holder' = t
              /\ depth' = 1

Reacquire(t) == /\ holder = t
                /\ depth' = depth + 1
                /\ UNCHANGED holder

Release(t) == /\ holder = t
              /\ depth' = depth - 1
              /\ holder' = IF depth = 1 THEN NULL ELSE t

Next == \E t \in Thread : Acquire(t) \/ Reacquire(t) \/ Release(t)

Spec == Init /\ [][Next]_<<holder, depth>>
=============================================================================
