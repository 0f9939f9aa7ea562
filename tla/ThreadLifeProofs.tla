-------------------------- MODULE ThreadLifeProofs --------------------------
(***************************************************************************)
(* Proofs about ThreadLife, for any set of threads, either cpu loop and any *)
(* bound on the suspend counts.                                            *)
(***************************************************************************)
EXTENDS ThreadLife, TLAPS

\* The new thread has not yet left the handshake.
Starting == {"none", "entry", "init_lock", "init_set", "init_unlock"}

\* The creator is in uw_thread_create.
Creating == {"init_check", "init_wait", "init_free", "newref"}

\* One creator per created thread, and the thread it creates exists.
OneCreator ==
    /\ \A c, d \in Thread : /\ pc[c] \in Creating
                            /\ pc[d] \in Creating
                            /\ tgt[c] = tgt[d]
                            => c = d
    /\ \A c \in Thread : pc[c] \in Creating => pc[tgt[c]] # "none"

\* The new thread holds init_mutex around its store to init_done; who sees
\* the store with the mutex free finds the thread past the handshake.
Handshake ==
    /\ \A t \in Thread : pc[t] \in {"init_set", "init_unlock"} => init_mutex[t] = t
    /\ \A t \in Thread : init_done[t] =>
                           pc[t] \notin {"none", "entry", "init_lock", "init_set"}
    /\ \A c \in Thread : pc[c] \in {"init_free", "newref"} => pc[tgt[c]] \notin Starting

\* running and handles against the place where the thread is.
Progress ==
    /\ \A t \in Thread : running[t] <=> pc[t] \notin {"none", "entry", "delref",
                                                 "delref_failed", "gone"}
    /\ \A t \in Thread : handles[t] # "none" => pc[t] \notin Starting

\* The inductive invariant.
IInv == TypeOK /\ OneCreator /\ Handshake /\ Progress /\ ParamOutlivesHandshake
        /\ SuspendedIsStopped

LEMMA InitIInv == Init => IInv
<1> SUFFICES ASSUME Init PROVE IInv
  OBVIOUS
<1> USE ThreadAssumption DEF Init
<1>1. TypeOK
  <2>1. 0 \in (- MaxSuspend)..MaxSuspend
    OBVIOUS
  <2> QED BY <2>1 DEF TypeOK, Pc
<1>2. OneCreator /\ Handshake
  BY DEF OneCreator, Handshake, Starting, Creating
<1>3. Progress
  BY DEF Progress, Starting
<1>4. ParamOutlivesHandshake /\ SuspendedIsStopped
  BY DEF ParamOutlivesHandshake, SuspendedIsStopped
<1> QED BY <1>1, <1>2, <1>3, <1>4 DEF IInv

LEMMA NextIInv == IInv /\ [Next]_vars => IInv'
<1> SUFFICES ASSUME IInv, [Next]_vars PROVE IInv'
  OBVIOUS
<1> USE ThreadAssumption DEF init_vars, suspend_vars, handle_vars, Goto
<1>0. CASE UNCHANGED vars
  BY <1>0 DEF vars, IInv, TypeOK, OneCreator, Handshake, Progress,
     ParamOutlivesHandshake, SuspendedIsStopped
<1>1. ASSUME NEW t \in Thread, InitCheck(t) PROVE IInv'
  <2>1. TypeOK'
    BY <1>1 DEF InitCheck, IInv, TypeOK, Pc
  <2>2. OneCreator'
    BY <1>1 DEF InitCheck, IInv, TypeOK, OneCreator, Creating
  <2>3. Handshake'
    BY <1>1 DEF InitCheck, IInv, TypeOK, OneCreator, Handshake, Starting, Creating, Progress
  <2>4. Progress'
    BY <1>1 DEF InitCheck, IInv, TypeOK, Progress, Starting, Handshake
  <2>5. ParamOutlivesHandshake'
    BY <1>1 DEF InitCheck, IInv, TypeOK, OneCreator, Creating, Handshake, Starting, ParamOutlivesHandshake
  <2>6. SuspendedIsStopped'
    BY <1>1 DEF InitCheck, IInv, TypeOK, SuspendedIsStopped
  <2> QED BY <2>1, <2>2, <2>3, <2>4, <2>5, <2>6 DEF IInv
<1>2. ASSUME NEW t \in Thread, InitFree(t) PROVE IInv'
  <2>1. TypeOK'
    BY <1>2 DEF InitFree, IInv, TypeOK, Pc
  <2>2. OneCreator'
    BY <1>2 DEF InitFree, IInv, TypeOK, OneCreator, Creating
  <2>3. Handshake'
    BY <1>2 DEF InitFree, IInv, TypeOK, OneCreator, Handshake, Starting, Creating, Progress
  <2>4. Progress'
    BY <1>2 DEF InitFree, IInv, TypeOK, Progress, Starting, Handshake
  <2>5. ParamOutlivesHandshake'
    BY <1>2 DEF InitFree, IInv, TypeOK, OneCreator, Creating, Handshake, Starting, ParamOutlivesHandshake
  <2>6. SuspendedIsStopped'
    BY <1>2 DEF InitFree, IInv, TypeOK, SuspendedIsStopped
  <2> QED BY <2>1, <2>2, <2>3, <2>4, <2>5, <2>6 DEF IInv
<1>3. ASSUME NEW t \in Thread, Newref(t) PROVE IInv'
  <2>1. TypeOK'
    BY <1>3 DEF Newref, IInv, TypeOK, Pc
  <2>2. OneCreator'
    BY <1>3 DEF Newref, IInv, TypeOK, OneCreator, Creating
  <2>3. Handshake'
    BY <1>3 DEF Newref, IInv, TypeOK, OneCreator, Handshake, Starting, Creating, Progress
  <2>4. Progress'
    BY <1>3 DEF Newref, IInv, TypeOK, Progress, Starting, Handshake
  <2>5. ParamOutlivesHandshake'
    BY <1>3 DEF Newref, IInv, TypeOK, OneCreator, Creating, Handshake, Starting, ParamOutlivesHandshake
  <2>6. SuspendedIsStopped'
    BY <1>3 DEF Newref, IInv, TypeOK, SuspendedIsStopped
  <2> QED BY <2>1, <2>2, <2>3, <2>4, <2>5, <2>6 DEF IInv
<1>4. ASSUME NEW t \in Thread, Entry(t) PROVE IInv'
  <2>1. TypeOK'
    BY <1>4 DEF Entry, IInv, TypeOK, Pc
  <2>2. OneCreator'
    BY <1>4 DEF Entry, IInv, TypeOK, OneCreator, Creating
  <2>3. Handshake'
    BY <1>4 DEF Entry, IInv, TypeOK, OneCreator, Handshake, Starting, Creating, Progress
  <2>4. Progress'
    BY <1>4 DEF Entry, IInv, TypeOK, Progress, Starting, Handshake
  <2>5. ParamOutlivesHandshake'
    BY <1>4 DEF Entry, IInv, TypeOK, OneCreator, Creating, Handshake, Starting, ParamOutlivesHandshake
  <2>6. SuspendedIsStopped'
    BY <1>4 DEF Entry, IInv, TypeOK, SuspendedIsStopped
  <2> QED BY <2>1, <2>2, <2>3, <2>4, <2>5, <2>6 DEF IInv
<1>5. ASSUME NEW t \in Thread, InitLock(t) PROVE IInv'
  <2>1. TypeOK'
    BY <1>5 DEF InitLock, IInv, TypeOK, Pc
  <2>2. OneCreator'
    BY <1>5 DEF InitLock, IInv, TypeOK, OneCreator, Creating
  <2>3. Handshake'
    BY <1>5 DEF InitLock, IInv, TypeOK, OneCreator, Handshake, Starting, Creating, Progress
  <2>4. Progress'
    BY <1>5 DEF InitLock, IInv, TypeOK, Progress, Starting, Handshake
  <2>5. ParamOutlivesHandshake'
    BY <1>5 DEF InitLock, IInv, TypeOK, OneCreator, Creating, Handshake, Starting, ParamOutlivesHandshake
  <2>6. SuspendedIsStopped'
    BY <1>5 DEF InitLock, IInv, TypeOK, SuspendedIsStopped
  <2> QED BY <2>1, <2>2, <2>3, <2>4, <2>5, <2>6 DEF IInv
<1>6. ASSUME NEW t \in Thread, InitSet(t) PROVE IInv'
  <2>1. TypeOK'
    BY <1>6 DEF InitSet, GotoWaking, IInv, TypeOK, Pc
  <2>2. OneCreator'
    BY <1>6 DEF InitSet, GotoWaking, IInv, TypeOK, OneCreator, Creating
  <2>3. Handshake'
    BY <1>6 DEF InitSet, GotoWaking, IInv, TypeOK, OneCreator, Handshake, Starting, Creating, Progress
  <2>4. Progress'
    BY <1>6 DEF InitSet, GotoWaking, IInv, TypeOK, Progress, Starting, Handshake
  <2>5. ParamOutlivesHandshake'
    BY <1>6 DEF InitSet, GotoWaking, IInv, TypeOK, OneCreator, Creating, Handshake, Starting, ParamOutlivesHandshake
  <2>6. SuspendedIsStopped'
    BY <1>6 DEF InitSet, GotoWaking, IInv, TypeOK, SuspendedIsStopped
  <2> QED BY <2>1, <2>2, <2>3, <2>4, <2>5, <2>6 DEF IInv
<1>7. ASSUME NEW t \in Thread, InitUnlock(t) PROVE IInv'
  <2>1. TypeOK'
    BY <1>7 DEF InitUnlock, IInv, TypeOK, Pc
  <2>2. OneCreator'
    BY <1>7 DEF InitUnlock, IInv, TypeOK, OneCreator, Creating
  <2>3. Handshake'
    BY <1>7 DEF InitUnlock, IInv, TypeOK, OneCreator, Handshake, Starting, Creating, Progress
  <2>4. Progress'
    BY <1>7 DEF InitUnlock, IInv, TypeOK, Progress, Starting, Handshake
  <2>5. ParamOutlivesHandshake'
    BY <1>7 DEF InitUnlock, IInv, TypeOK, OneCreator, Creating, Handshake, Starting, ParamOutlivesHandshake
  <2>6. SuspendedIsStopped'
    BY <1>7 DEF InitUnlock, IInv, TypeOK, SuspendedIsStopped
  <2> QED BY <2>1, <2>2, <2>3, <2>4, <2>5, <2>6 DEF IInv
<1>8. ASSUME NEW t \in Thread, LoopSuspend(t) PROVE IInv'
  <2>1. TypeOK'
    BY <1>8 DEF LoopSuspend, IInv, TypeOK, Pc
  <2>2. OneCreator'
    BY <1>8 DEF LoopSuspend, IInv, TypeOK, OneCreator, Creating
  <2>3. Handshake'
    BY <1>8 DEF LoopSuspend, IInv, TypeOK, OneCreator, Handshake, Starting, Creating, Progress
  <2>4. Progress'
    BY <1>8 DEF LoopSuspend, IInv, TypeOK, Progress, Starting, Handshake
  <2>5. ParamOutlivesHandshake'
    BY <1>8 DEF LoopSuspend, IInv, TypeOK, OneCreator, Creating, Handshake, Starting, ParamOutlivesHandshake
  <2>6. SuspendedIsStopped'
    BY <1>8 DEF LoopSuspend, IInv, TypeOK, SuspendedIsStopped
  <2> QED BY <2>1, <2>2, <2>3, <2>4, <2>5, <2>6 DEF IInv
<1>9. ASSUME NEW t \in Thread, LoopRun(t) PROVE IInv'
  <2>1. TypeOK'
    BY <1>9 DEF LoopRun, IInv, TypeOK, Pc
  <2>2. OneCreator'
    BY <1>9 DEF LoopRun, IInv, TypeOK, OneCreator, Creating
  <2>3. Handshake'
    BY <1>9 DEF LoopRun, IInv, TypeOK, OneCreator, Handshake, Starting, Creating, Progress
  <2>4. Progress'
    BY <1>9 DEF LoopRun, IInv, TypeOK, Progress, Starting, Handshake
  <2>5. ParamOutlivesHandshake'
    BY <1>9 DEF LoopRun, IInv, TypeOK, OneCreator, Creating, Handshake, Starting, ParamOutlivesHandshake
  <2>6. SuspendedIsStopped'
    BY <1>9 DEF LoopRun, IInv, TypeOK, SuspendedIsStopped
  <2> QED BY <2>1, <2>2, <2>3, <2>4, <2>5, <2>6 DEF IInv
<1>10. ASSUME NEW t \in Thread, SuspendSpin(t) PROVE IInv'
  <2>1. TypeOK'
    BY <1>10 DEF SuspendSpin, IInv, TypeOK, Pc
  <2>2. OneCreator'
    BY <1>10 DEF SuspendSpin, IInv, TypeOK, OneCreator, Creating
  <2>3. Handshake'
    BY <1>10 DEF SuspendSpin, IInv, TypeOK, OneCreator, Handshake, Starting, Creating, Progress
  <2>4. Progress'
    BY <1>10 DEF SuspendSpin, IInv, TypeOK, Progress, Starting, Handshake
  <2>5. ParamOutlivesHandshake'
    BY <1>10 DEF SuspendSpin, IInv, TypeOK, OneCreator, Creating, Handshake, Starting, ParamOutlivesHandshake
  <2>6. SuspendedIsStopped'
    BY <1>10 DEF SuspendSpin, IInv, TypeOK, SuspendedIsStopped
  <2> QED BY <2>1, <2>2, <2>3, <2>4, <2>5, <2>6 DEF IInv
<1>11. ASSUME NEW t \in Thread, WaitCheck(t) PROVE IInv'
  <2>1. TypeOK'
    BY <1>11 DEF WaitCheck, IInv, TypeOK, Pc
  <2>2. OneCreator'
    BY <1>11 DEF WaitCheck, IInv, TypeOK, OneCreator, Creating
  <2>3. Handshake'
    BY <1>11 DEF WaitCheck, IInv, TypeOK, OneCreator, Handshake, Starting, Creating, Progress
  <2>4. Progress'
    BY <1>11 DEF WaitCheck, IInv, TypeOK, Progress, Starting, Handshake
  <2>5. ParamOutlivesHandshake'
    BY <1>11 DEF WaitCheck, IInv, TypeOK, OneCreator, Creating, Handshake, Starting, ParamOutlivesHandshake
  <2>6. SuspendedIsStopped'
    BY <1>11 DEF WaitCheck, IInv, TypeOK, SuspendedIsStopped
  <2> QED BY <2>1, <2>2, <2>3, <2>4, <2>5, <2>6 DEF IInv
<1>12. ASSUME NEW t \in Thread, LeaveDelref(t) PROVE IInv'
  <2>1. TypeOK'
    BY <1>12 DEF LeaveDelref, IInv, TypeOK, Pc
  <2>2. OneCreator'
    BY <1>12 DEF LeaveDelref, IInv, TypeOK, OneCreator, Creating
  <2>3. Handshake'
    BY <1>12 DEF LeaveDelref, IInv, TypeOK, OneCreator, Handshake, Starting, Creating, Progress
  <2>4. Progress'
    BY <1>12 DEF LeaveDelref, IInv, TypeOK, Progress, Starting, Handshake
  <2>5. ParamOutlivesHandshake'
    BY <1>12 DEF LeaveDelref, IInv, TypeOK, OneCreator, Creating, Handshake, Starting, ParamOutlivesHandshake
  <2>6. SuspendedIsStopped'
    BY <1>12 DEF LeaveDelref, IInv, TypeOK, SuspendedIsStopped
  <2> QED BY <2>1, <2>2, <2>3, <2>4, <2>5, <2>6 DEF IInv
<1>13. ASSUME NEW t \in Thread, LoopTick(t) PROVE IInv'
  <2>1. TypeOK'
    BY <1>13 DEF LoopTick, IInv, TypeOK, Pc
  <2>2. OneCreator'
    BY <1>13 DEF LoopTick, IInv, TypeOK, OneCreator, Creating
  <2>3. Handshake'
    BY <1>13 DEF LoopTick, IInv, TypeOK, OneCreator, Handshake, Starting, Creating, Progress
  <2>4. Progress'
    BY <1>13 DEF LoopTick, IInv, TypeOK, Progress, Starting, Handshake
  <2>5. ParamOutlivesHandshake'
    BY <1>13 DEF LoopTick, IInv, TypeOK, OneCreator, Creating, Handshake, Starting, ParamOutlivesHandshake
  <2>6. SuspendedIsStopped'
    BY <1>13 DEF LoopTick, IInv, TypeOK, SuspendedIsStopped
  <2> QED BY <2>1, <2>2, <2>3, <2>4, <2>5, <2>6 DEF IInv
<1>14. ASSUME NEW t \in Thread, Leave(t) PROVE IInv'
  <2>1. TypeOK'
    BY <1>14 DEF Leave, GotoWaking, IInv, TypeOK, Pc
  <2>2. OneCreator'
    BY <1>14 DEF Leave, GotoWaking, IInv, TypeOK, OneCreator, Creating
  <2>3. Handshake'
    BY <1>14 DEF Leave, GotoWaking, IInv, TypeOK, OneCreator, Handshake, Starting, Creating, Progress
  <2>4. Progress'
    BY <1>14 DEF Leave, GotoWaking, IInv, TypeOK, Progress, Starting, Handshake
  <2>5. ParamOutlivesHandshake'
    BY <1>14 DEF Leave, GotoWaking, IInv, TypeOK, OneCreator, Creating, Handshake, Starting, ParamOutlivesHandshake
  <2>6. SuspendedIsStopped'
    BY <1>14 DEF Leave, GotoWaking, IInv, TypeOK, SuspendedIsStopped
  <2> QED BY <2>1, <2>2, <2>3, <2>4, <2>5, <2>6 DEF IInv
<1>15. ASSUME NEW t \in Thread, NEW u \in Thread, NEW susp \in BOOLEAN, Create(t, u, susp) PROVE IInv'
  <2>1. TypeOK'
    BY <1>15 DEF Create, IInv, TypeOK, Pc
  <2>2. OneCreator'
    BY <1>15 DEF Create, IInv, TypeOK, OneCreator, Creating
  <2>3. Handshake'
    BY <1>15 DEF Create, IInv, TypeOK, OneCreator, Handshake, Starting, Creating, Progress
  <2>4. Progress'
    BY <1>15 DEF Create, IInv, TypeOK, Progress, Starting, Handshake
  <2>5. ParamOutlivesHandshake'
    BY <1>15 DEF Create, IInv, TypeOK, OneCreator, Creating, Handshake, Starting, ParamOutlivesHandshake
  <2>6. SuspendedIsStopped'
    BY <1>15 DEF Create, IInv, TypeOK, SuspendedIsStopped
  <2> QED BY <2>1, <2>2, <2>3, <2>4, <2>5, <2>6 DEF IInv
<1>16. ASSUME NEW t \in Thread, NEW u \in Thread, SuspendCall(t, u) PROVE IInv'
  <2>1. TypeOK'
    BY <1>16 DEF SuspendCall, WakeSuspended, GotoWaking, IInv, TypeOK, Pc
  <2>2. OneCreator'
    BY <1>16 DEF SuspendCall, WakeSuspended, GotoWaking, IInv, TypeOK, OneCreator, Creating
  <2>3. Handshake'
    BY <1>16 DEF SuspendCall, WakeSuspended, GotoWaking, IInv, TypeOK, OneCreator, Handshake, Starting, Creating, Progress
  <2>4. Progress'
    BY <1>16 DEF SuspendCall, WakeSuspended, GotoWaking, IInv, TypeOK, Progress, Starting, Handshake
  <2>5. ParamOutlivesHandshake'
    BY <1>16 DEF SuspendCall, WakeSuspended, GotoWaking, IInv, TypeOK, OneCreator, Creating, Handshake, Starting, ParamOutlivesHandshake
  <2>6. SuspendedIsStopped'
    BY <1>16 DEF SuspendCall, WakeSuspended, GotoWaking, IInv, TypeOK, SuspendedIsStopped
  <2> QED BY <2>1, <2>2, <2>3, <2>4, <2>5, <2>6 DEF IInv
<1>17. ASSUME NEW t \in Thread, NEW u \in Thread, Resume(t, u) PROVE IInv'
  <2>1. TypeOK'
    BY <1>17 DEF Resume, WakeSuspended, GotoWaking, IInv, TypeOK, Pc
  <2>2. OneCreator'
    BY <1>17 DEF Resume, WakeSuspended, GotoWaking, IInv, TypeOK, OneCreator, Creating
  <2>3. Handshake'
    BY <1>17 DEF Resume, WakeSuspended, GotoWaking, IInv, TypeOK, OneCreator, Handshake, Starting, Creating, Progress
  <2>4. Progress'
    BY <1>17 DEF Resume, WakeSuspended, GotoWaking, IInv, TypeOK, Progress, Starting, Handshake
  <2>5. ParamOutlivesHandshake'
    BY <1>17 DEF Resume, WakeSuspended, GotoWaking, IInv, TypeOK, OneCreator, Creating, Handshake, Starting, ParamOutlivesHandshake
  <2>6. SuspendedIsStopped'
    BY <1>17 DEF Resume, WakeSuspended, GotoWaking, IInv, TypeOK, SuspendedIsStopped
  <2> QED BY <2>1, <2>2, <2>3, <2>4, <2>5, <2>6 DEF IInv
<1>18. ASSUME NEW t \in Thread, NEW u \in Thread, WaitCall(t, u) PROVE IInv'
  <2>1. TypeOK'
    BY <1>18 DEF WaitCall, IInv, TypeOK, Pc
  <2>2. OneCreator'
    BY <1>18 DEF WaitCall, IInv, TypeOK, OneCreator, Creating
  <2>3. Handshake'
    BY <1>18 DEF WaitCall, IInv, TypeOK, OneCreator, Handshake, Starting, Creating, Progress
  <2>4. Progress'
    BY <1>18 DEF WaitCall, IInv, TypeOK, Progress, Starting, Handshake
  <2>5. ParamOutlivesHandshake'
    BY <1>18 DEF WaitCall, IInv, TypeOK, OneCreator, Creating, Handshake, Starting, ParamOutlivesHandshake
  <2>6. SuspendedIsStopped'
    BY <1>18 DEF WaitCall, IInv, TypeOK, SuspendedIsStopped
  <2> QED BY <2>1, <2>2, <2>3, <2>4, <2>5, <2>6 DEF IInv
<1>19. ASSUME NEW t \in Thread, NEW u \in Thread, Close(t, u) PROVE IInv'
  <2>1. TypeOK'
    BY <1>19 DEF Close, IInv, TypeOK, Pc
  <2>2. OneCreator'
    BY <1>19 DEF Close, IInv, TypeOK, OneCreator, Creating
  <2>3. Handshake'
    BY <1>19 DEF Close, IInv, TypeOK, OneCreator, Handshake, Starting, Creating, Progress
  <2>4. Progress'
    BY <1>19 DEF Close, IInv, TypeOK, Progress, Starting, Handshake
  <2>5. ParamOutlivesHandshake'
    BY <1>19 DEF Close, IInv, TypeOK, OneCreator, Creating, Handshake, Starting, ParamOutlivesHandshake
  <2>6. SuspendedIsStopped'
    BY <1>19 DEF Close, IInv, TypeOK, SuspendedIsStopped
  <2> QED BY <2>1, <2>2, <2>3, <2>4, <2>5, <2>6 DEF IInv
<1>20. ASSUME NEW t \in Thread, NEW u \in Thread, CloseSelf(t, u) PROVE IInv'
  <2>1. TypeOK'
    BY <1>20 DEF CloseSelf, IInv, TypeOK, Pc
  <2>2. OneCreator'
    BY <1>20 DEF CloseSelf, IInv, TypeOK, OneCreator, Creating
  <2>3. Handshake'
    BY <1>20 DEF CloseSelf, IInv, TypeOK, OneCreator, Handshake, Starting, Creating, Progress
  <2>4. Progress'
    BY <1>20 DEF CloseSelf, IInv, TypeOK, Progress, Starting, Handshake
  <2>5. ParamOutlivesHandshake'
    BY <1>20 DEF CloseSelf, IInv, TypeOK, OneCreator, Creating, Handshake, Starting, ParamOutlivesHandshake
  <2>6. SuspendedIsStopped'
    BY <1>20 DEF CloseSelf, IInv, TypeOK, SuspendedIsStopped
  <2> QED BY <2>1, <2>2, <2>3, <2>4, <2>5, <2>6 DEF IInv
<1>21. ASSUME NEW t \in Thread, NEW u \in Thread, UseClosed(t, u) PROVE IInv'
  <2>1. TypeOK'
    BY <1>21 DEF UseClosed, IInv, TypeOK, Pc
  <2>2. OneCreator'
    BY <1>21 DEF UseClosed, IInv, TypeOK, OneCreator, Creating
  <2>3. Handshake'
    BY <1>21 DEF UseClosed, IInv, TypeOK, OneCreator, Handshake, Starting, Creating, Progress
  <2>4. Progress'
    BY <1>21 DEF UseClosed, IInv, TypeOK, Progress, Starting, Handshake
  <2>5. ParamOutlivesHandshake'
    BY <1>21 DEF UseClosed, IInv, TypeOK, OneCreator, Creating, Handshake, Starting, ParamOutlivesHandshake
  <2>6. SuspendedIsStopped'
    BY <1>21 DEF UseClosed, IInv, TypeOK, SuspendedIsStopped
  <2> QED BY <2>1, <2>2, <2>3, <2>4, <2>5, <2>6 DEF IInv
<1>22. ASSUME NEW t \in Thread, GetCurrentThread(t) PROVE IInv'
  <2>1. TypeOK'
    BY <1>22 DEF GetCurrentThread, IInv, TypeOK, Pc
  <2>2. OneCreator'
    BY <1>22 DEF GetCurrentThread, IInv, TypeOK, OneCreator, Creating
  <2>3. Handshake'
    BY <1>22 DEF GetCurrentThread, IInv, TypeOK, OneCreator, Handshake, Starting, Creating, Progress
  <2>4. Progress'
    BY <1>22 DEF GetCurrentThread, IInv, TypeOK, Progress, Starting, Handshake
  <2>5. ParamOutlivesHandshake'
    BY <1>22 DEF GetCurrentThread, IInv, TypeOK, OneCreator, Creating, Handshake, Starting, ParamOutlivesHandshake
  <2>6. SuspendedIsStopped'
    BY <1>22 DEF GetCurrentThread, IInv, TypeOK, SuspendedIsStopped
  <2> QED BY <2>1, <2>2, <2>3, <2>4, <2>5, <2>6 DEF IInv
<1> QED
  BY <1>0, <1>1, <1>2, <1>3, <1>4, <1>5, <1>6, <1>7, <1>8, <1>9, <1>10, <1>11, <1>12, <1>13, <1>14, <1>15, <1>16, <1>17, <1>18, <1>19, <1>20, <1>21,
     <1>22 DEF Next, Internal, Syscall

\* Types of thread.cpp's state.
THEOREM TypeCorrect == Spec => []TypeOK
<1>1. IInv => TypeOK
  BY DEF IInv
<1> QED BY <1>1, InitIInv, NextIInv, PTL DEF Spec

\* uw_thread_create frees the init parameter after its last use by the new
\* thread, in every interleaving of the two.
THEOREM HandshakeCorrect == Spec => []ParamOutlivesHandshake
<1>1. IInv => ParamOutlivesHandshake
  BY DEF IInv
<1> QED BY <1>1, InitIInv, NextIInv, PTL DEF Spec

\* The guest has handles of initialised threads only.
THEOREM HandleCorrect == Spec => []HandleMeansStarted
<1>1. IInv => HandleMeansStarted
  BY DEF IInv, Progress, HandleMeansStarted, Starting
<1> QED BY <1>1, InitIInv, NextIInv, PTL DEF Spec

\* A thread whose flag says suspended runs no guest code.
THEOREM SuspendCorrect == Spec => []SuspendedIsStopped
<1>1. IInv => SuspendedIsStopped
  BY DEF IInv
<1> QED BY <1>1, InitIInv, NextIInv, PTL DEF Spec

\* A thread's own handle is in the table from its creation until the thread
\* or a CloseHandle of the guest takes it out; only the thread's last step
\* leaves it "left".
SelfHandleInv ==
    /\ \A t \in Thread : self_handle[t] = "none" <=> pc[t] = "none"
    /\ \A t \in Thread : self_handle[t] = "left" <=> pc[t] = "gone"
    /\ SelfHandleLostByLeaveOrClose

LEMMA SelfHandleNext == IInv /\ SelfHandleInv /\ [Next]_vars => SelfHandleInv'
<1> SUFFICES ASSUME IInv, SelfHandleInv, [Next]_vars PROVE SelfHandleInv'
  OBVIOUS
<1> USE ThreadAssumption DEF SelfHandleInv, SelfHandleLostByLeaveOrClose, Goto, handle_vars
<1>0. CASE UNCHANGED vars
  BY <1>0 DEF vars
<1>1. ASSUME NEW t \in Thread, Internal(t), Next PROVE SelfHandleInv'
  <2>0. \A u \in Thread : pc[u] # "newref_failed" /\ pc[u] # "delref_failed"
    BY <1>1 DEF Next, Failed
  <2>1. CASE InitCheck(t) \/ InitFree(t)
    BY <2>0, <2>1 DEF InitCheck, InitFree, IInv, TypeOK
  <2>2. CASE Newref(t)
    <3>1. tgt[t] \in Thread /\ pc[tgt[t]] # "none"
      BY <2>2 DEF Newref, IInv, TypeOK, OneCreator, Creating
    <3>2. self_handle[tgt[t]] \in {"open", "left", "closed"}
      BY <3>1 DEF IInv, TypeOK
    <3> QED BY <2>0, <2>2, <3>1, <3>2 DEF Newref, IInv, TypeOK
  <2>3. CASE Entry(t) \/ InitLock(t) \/ InitUnlock(t)
    BY <2>0, <2>3 DEF Entry, InitLock, InitUnlock, IInv, TypeOK
  <2>4. CASE InitSet(t)
    BY <2>0, <2>4 DEF InitSet, GotoWaking, IInv, TypeOK
  <2>5. CASE LoopSuspend(t) \/ LoopRun(t)
    BY <2>0, <2>5 DEF LoopSuspend, LoopRun, IInv, TypeOK
  <2>6. CASE SuspendSpin(t) \/ WaitCheck(t)
    BY <2>0, <2>6 DEF SuspendSpin, WaitCheck, IInv, TypeOK
  <2>7. CASE LeaveDelref(t)
    BY <2>0, <2>7 DEF LeaveDelref, IInv, TypeOK
  <2> QED BY <1>1, <2>1, <2>2, <2>3, <2>4, <2>5, <2>6, <2>7 DEF Internal
<1>2. ASSUME NEW t \in Thread, LoopTick(t) \/ Leave(t) \/ GetCurrentThread(t), Next
      PROVE SelfHandleInv'
  BY <1>2 DEF Next, Failed, LoopTick, Leave, GetCurrentThread, GotoWaking, IInv, TypeOK
<1>3. ASSUME NEW t \in Thread, NEW u \in Thread, Syscall(t, u), Next PROVE SelfHandleInv'
  <2>0. \A w \in Thread : pc[w] # "newref_failed" /\ pc[w] # "delref_failed"
    BY <1>3 DEF Next, Failed
  <2>1. ASSUME NEW susp \in BOOLEAN, Create(t, u, susp) PROVE SelfHandleInv'
    BY <2>0, <2>1 DEF Create, IInv, TypeOK
  <2>2. CASE SuspendCall(t, u)
    BY <2>0, <2>2 DEF SuspendCall, WakeSuspended, GotoWaking, IInv, TypeOK
  <2>3. CASE Resume(t, u)
    BY <2>0, <2>3 DEF Resume, WakeSuspended, GotoWaking, IInv, TypeOK
  <2>4. CASE WaitCall(t, u) \/ Close(t, u)
    BY <2>0, <2>4 DEF WaitCall, Close, IInv, TypeOK
  <2>5. CASE CloseSelf(t, u) \/ UseClosed(t, u)
    BY <2>0, <2>5 DEF CloseSelf, UseClosed, IInv, TypeOK
  <2> QED BY <1>3, <2>1, <2>2, <2>3, <2>4, <2>5 DEF Syscall
<1> QED BY <1>0, <1>1, <1>2, <1>3 DEF Next

\* SelfHandleLostByLeaveOrClose: newref in uw_thread_create and delref in
\* uw_thread_leave miss self_handle only if the thread has left or the guest
\* has closed the number it got from GetCurrentThread (thread.cpp:180, 228).
THEOREM SelfHandleCorrect == Spec => []SelfHandleLostByLeaveOrClose
<1>1. Init => SelfHandleInv
  <2> SUFFICES ASSUME Init, NEW t \in Thread
               PROVE  /\ self_handle[t] = "none" <=> pc[t] = "none"
                      /\ self_handle[t] = "left" <=> pc[t] = "gone"
                      /\ pc[t] # "newref_failed"
                      /\ pc[t] # "delref_failed"
    BY DEF SelfHandleInv, SelfHandleLostByLeaveOrClose
  <2>1. self_handle[t] = IF t = InitialThread THEN "open" ELSE "none"
    BY DEF Init
  <2>2. pc[t] = IF t = InitialThread THEN "loop" ELSE "none"
    BY DEF Init
  <2> QED BY <2>1, <2>2
<1>2. IInv /\ SelfHandleInv /\ [Next]_vars => SelfHandleInv'
  BY SelfHandleNext
<1>3. SelfHandleInv => SelfHandleLostByLeaveOrClose
  BY DEF SelfHandleInv
<1> QED BY <1>1, <1>2, <1>3, InitIInv, NextIInv, PTL DEF Spec
=============================================================================
