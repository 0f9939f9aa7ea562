------------------------------ MODULE ExecLock ------------------------------
(***************************************************************************)
(* The execution lock of the JIT build (src/uwin/jit_cpu_loop.cpp): the    *)
(* spinlock exec_lock around the execution of a compiled basic block, its  *)
(* release while a syscall runs (src/uwin/syscall.cpp) and its release by  *)
(* uw_thread_leave.                                                        *)
(*                                                                         *)
(* A thread looks its next block up (and compiles it) before it takes the  *)
(* lock; what happens there is in BlockCache, which extends this module.   *)
(* A syscall may block for ever; the only ones with an effect here create  *)
(* a thread or leave.                                                      *)
(***************************************************************************)
EXTENDS Integers, FiniteSets

CONSTANTS Thread,
          InitialThread

ASSUME ExecAssumption == InitialThread \in Thread /\ IsFiniteSet(Thread)

VARIABLES exec_lock,    \* the flag
          pc,
          breaks        \* number of calls of uw_break_cpu_loop so far

vars == <<exec_lock, pc, breaks>>

\* ATOMIC_FLAG_INIT; the initial thread enters uw_cpu_loop.
Init == /\ exec_lock = FALSE
        /\ pc = [t \in Thread |-> IF t = InitialThread THEN "lookup" ELSE "new"]
        /\ breaks = 0

Goto(t, from, to) == pc[t] = from /\ pc' = [pc EXCEPT ![t] = to]

-----------------------------------------------------------------------------
(* uw_cpu_loop.                                                            *)

\* get_native_basic_block or get_native_basic_block_predicted.
Lookup(t) ==
    /\ Goto(t, "lookup", "spin")
    /\ UNCHANGED <<exec_lock, breaks>>

\* Mutant of Acquire: the flag is tested but not set.
AcquireUnset(t) ==
    /\ Goto(t, "spin", "execute")
    /\ exec_lock = FALSE
    /\ UNCHANGED <<exec_lock, breaks>>

\* test_and_set returned FALSE.
Acquire(t) ==
    /\ Goto(t, "spin", "execute")
    /\ exec_lock = FALSE
    /\ exec_lock' = TRUE
    /\ UNCHANGED breaks

\* The block ends: clear, and around the loop.
Release(t) ==
    /\ Goto(t, "execute", "lookup")
    /\ exec_lock' = FALSE
    /\ UNCHANGED breaks

-----------------------------------------------------------------------------
(* uw_cpu_do_syscall, called by the code of a block.                       *)

\* uw_cpu_syscall_enter.
SyscallEnter(t) ==
    /\ Goto(t, "execute", "syscall")
    /\ exec_lock' = FALSE
    /\ UNCHANGED breaks

\* uw_thread_create: another thread enters its uw_cpu_loop.
Create(t, u) ==
    /\ pc[t] = "syscall"
    /\ Goto(u, "new", "lookup")
    /\ UNCHANGED <<exec_lock, breaks>>

\* The syscall has done its work.
Return(t) ==
    /\ Goto(t, "syscall", "spin_return")
    /\ UNCHANGED <<exec_lock, breaks>>

\* uw_cpu_syscall_exit: test_and_set returned FALSE.
SyscallExit(t) ==
    /\ Goto(t, "spin_return", "execute")
    /\ exec_lock = FALSE
    /\ exec_lock' = TRUE
    /\ UNCHANGED breaks

\* uw_thread_leave: uw_break_cpu_loop clears the flag, and the thread never
\* comes back.
Leave(t) ==
    /\ Goto(t, "syscall", "gone")
    /\ exec_lock' = FALSE
    /\ breaks' = breaks + 1

-----------------------------------------------------------------------------
Next == \E t \in Thread :
          \/ Lookup(t) \/ Acquire(t) \/ Release(t)
          \/ SyscallEnter(t) \/ Return(t) \/ SyscallExit(t) \/ Leave(t)
          \/ \E u \in Thread : Create(t, u)

Spec == Init /\ [][Next]_vars

\* Blocks end and threads keep running, but nothing is assumed of a thread
\* inside a syscall.  A thread that spins while the flag is clear again and
\* again gets it in the end.
FairSpec == /\ Spec
            /\ \A t \in Thread : /\ WF_vars(Lookup(t))
                                 /\ WF_vars(Release(t) \/ SyscallEnter(t))
                                 /\ SF_vars(Acquire(t)) /\ SF_vars(SyscallExit(t))

-----------------------------------------------------------------------------
(* Properties.                                                             *)

Pc == {"new", "lookup", "spin", "execute", "syscall", "spin_return", "gone"}

\* Types; the initial thread is never created a second time.
TypeOK == /\ exec_lock \in BOOLEAN
          /\ pc \in [Thread -> Pc]
          /\ breaks \in Nat
          /\ pc[InitialThread] # "new"

Executing == {t \in Thread : pc[t] = "execute"}

\* "ensures that only one compiled basic block is executed concurrently"
\* (jit_cpu_loop.cpp:87).
OneBlockAtATime == \A t, u \in Executing : t = u

\* As long as no thread has left, one block at a time is executed; every
\* uw_break_cpu_loop, which clears a flag its caller no longer holds, lets at
\* most one more thread in.
ExecutorsBounded == Cardinality(Executing) <= 1 + breaks

\* The lock is never lost: the flag is set only while a thread executes, so
\* that a thread that spins waits for one that will clear it.
LockHasHolder == exec_lock => Executing # {}

\* A thread that wants to execute does, whatever the syscalls of the others
\* do: a blocked syscall does not keep the lock.
SpinnersGetIn == \A t \in Thread :
    pc[t] \in {"spin", "spin_return"} ~> pc[t] = "execute"
=============================================================================
