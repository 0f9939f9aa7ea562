----------------------------- MODULE ThreadLife -----------------------------
(***************************************************************************)
(* The life of the guest's threads (src/uwin/thread.cpp): creation with    *)
(* its initialisation handshake, suspend and resume, termination, and the  *)
(* waits of the other threads; with the part of the cpu loop that honours  *)
(* a suspend request (src/uwin/halfix_cpu_loop.cpp) when ChecksSuspend is  *)
(* TRUE, and without one, as in src/uwin/jit_cpu_loop.cpp, when it is      *)
(* FALSE.                                                                  *)
(*                                                                         *)
(* What a thread does between locking and unlocking suspend_mutex or       *)
(* termination_mutex is one action: the fields are written under the mutex *)
(* only, and the code that reads them without it reads them one at a time. *)
(* The handshake, where the mutex itself is freed, is modelled step by     *)
(* step.                                                                   *)
(***************************************************************************)
EXTENDS Integers

CONSTANTS Thread,
          InitialThread,
          NULL,
          ChecksSuspend,    \* build with halfix (TRUE) or the JIT (FALSE)
          MaxSuspend        \* bound of the suspend counts, both ways

ASSUME ThreadAssumption == /\ InitialThread \in Thread
                           /\ NULL \notin Thread
                           /\ ChecksSuspend \in BOOLEAN
                           /\ MaxSuspend \in Nat \ {0}

VARIABLES pc,
          tgt,              \* the thread the current syscall is about
          init_param,       \* uw_thread_init_param_t: "none", "live", "freed"
          init_suspended,   \* its field suspended
          init_done,        \* its field init_done
          init_mutex,       \* holder of its mutex, or NULL
          running,
          suspend_request_count,
          suspended,
          self_handle,      \* the creator's handle: "none", "open", or taken
                            \* from the table by its thread ("left") or by a
                            \* CloseHandle of the guest ("closed")
          known,            \* has the guest the number of self_handle?
          handles           \* the handle uw_thread_create returned: "none",
                            \* "open", "closed"

init_vars == <<init_param, init_suspended, init_done, init_mutex>>
suspend_vars == <<suspend_request_count, suspended>>
handle_vars == <<self_handle, known, handles>>
vars == <<pc, tgt, init_vars, running, suspend_vars, handle_vars>>

\* uw_start_initial_thread has brought the first thread to its cpu loop.
Init == /\ pc = [t \in Thread |-> IF t = InitialThread THEN "loop" ELSE "none"]
        /\ tgt = [t \in Thread |-> NULL]
        /\ init_param = [t \in Thread |-> IF t = InitialThread THEN "freed"
                                                               ELSE "none"]
        /\ init_suspended = [t \in Thread |-> FALSE]
        /\ init_done = [t \in Thread |-> t = InitialThread]
        /\ init_mutex = [t \in Thread |-> NULL]
        /\ running = [t \in Thread |-> t = InitialThread]
        /\ suspend_request_count = [t \in Thread |-> 0]
        /\ suspended = [t \in Thread |-> FALSE]
        /\ self_handle = [t \in Thread |-> IF t = InitialThread THEN "open" ELSE "none"]
        /\ known = [t \in Thread |-> FALSE]
        /\ handles = [t \in Thread |-> "none"]

Goto(t, from, to) == pc[t] = from /\ pc' = [pc EXCEPT ![t] = to]

\* pc when t goes to pc "to" and a broadcast moves the threads of woken.
GotoWaking(t, to, woken, where) ==
    [u \in Thread |-> IF u = t THEN to ELSE IF u \in woken THEN where ELSE pc[u]]

-----------------------------------------------------------------------------
(* uw_thread_create, in the creating thread.                               *)

\* Mutant of Create: self_handle is never put into the table.
CreateUnlisted(c, u, susp) ==
    /\ pc[c] = "guest" /\ pc[u] = "none"
    /\ pc' = [pc EXCEPT ![c] = "init_check", ![u] = "entry"]
    /\ tgt' = [tgt EXCEPT ![c] = u]
    /\ init_param' = [init_param EXCEPT ![u] = "live"]
    /\ init_suspended' = [init_suspended EXCEPT ![u] = susp]
    /\ UNCHANGED <<init_done, init_mutex, running, suspend_vars, handle_vars>>

\* create_thread_param, uw_ht_put of self_handle, and pthread_create.
Create(c, u, susp) ==
    /\ pc[c] = "guest" /\ pc[u] = "none"
    /\ pc' = [pc EXCEPT ![c] = "init_check", ![u] = "entry"]
    /\ tgt' = [tgt EXCEPT ![c] = u]
    /\ init_param' = [init_param EXCEPT ![u] = "live"]
    /\ init_suspended' = [init_suspended EXCEPT ![u] = susp]
    /\ self_handle' = [self_handle EXCEPT ![u] = "open"]
    /\ UNCHANGED <<init_done, init_mutex, running, suspend_vars, known, handles>>

\* The loop around pthread_cond_wait, under init_mutex.
InitCheck(c) ==
    /\ Goto(c, "init_check", IF init_done[tgt[c]] THEN "init_free" ELSE "init_wait")
    /\ init_mutex[tgt[c]] = NULL
    /\ UNCHANGED <<tgt, init_vars, running, suspend_vars, handle_vars>>

\* uw_free(param).
InitFree(c) ==
    /\ Goto(c, "init_free", "newref")
    /\ init_param' = [init_param EXCEPT ![tgt[c]] = "freed"]
    /\ UNCHANGED <<tgt, init_suspended, init_done, init_mutex, running,
                   suspend_vars, handle_vars>>

\* return uw_ht_newref(self_handle); its assertion fails when the handle is
\* no longer in the table.
Newref(c) ==
    \/ /\ Goto(c, "newref", "guest")
       /\ self_handle[tgt[c]] = "open"
       /\ handles' = [handles EXCEPT ![tgt[c]] = "open"]
       /\ UNCHANGED <<tgt, init_vars, running, suspend_vars, self_handle, known>>
    \/ /\ Goto(c, "newref", "newref_failed")
       /\ self_handle[tgt[c]] # "open"
       /\ UNCHANGED <<tgt, init_vars, running, suspend_vars, handle_vars>>

-----------------------------------------------------------------------------
(* host_thread_entry, in the new thread.                                   *)

Entry(u) ==
    /\ Goto(u, "entry", "init_lock")
    /\ running' = [running EXCEPT ![u] = TRUE]
    /\ suspend_request_count' = [suspend_request_count EXCEPT
                                   ![u] = IF init_suspended[u] THEN 1 ELSE 0]
    /\ suspended' = [suspended EXCEPT ![u] = FALSE]
    /\ UNCHANGED <<tgt, init_vars, handle_vars>>

\* Mutant of InitLock: the flag is set without the mutex.
InitLockNot(u) ==
    /\ Goto(u, "init_lock", "init_set")
    /\ UNCHANGED <<tgt, init_vars, running, suspend_vars, handle_vars>>

InitLock(u) ==
    /\ Goto(u, "init_lock", "init_set")
    /\ init_mutex[u] = NULL
    /\ init_mutex' = [init_mutex EXCEPT ![u] = u]
    /\ UNCHANGED <<tgt, init_param, init_suspended, init_done, running,
                   suspend_vars, handle_vars>>

\* Mutant of InitSet: no broadcast.
InitSetSilent(u) ==
    /\ Goto(u, "init_set", "init_unlock")
    /\ init_done' = [init_done EXCEPT ![u] = TRUE]
    /\ UNCHANGED <<tgt, init_param, init_suspended, init_mutex, running,
                   suspend_vars, handle_vars>>

\* init_done = 1 and pthread_cond_broadcast(&init_cond).
InitSet(u) ==
    /\ pc[u] = "init_set"
    /\ pc' = GotoWaking(u, "init_unlock",
               {c \in Thread : pc[c] = "init_wait" /\ tgt[c] = u}, "init_check")
    /\ init_done' = [init_done EXCEPT ![u] = TRUE]
    /\ UNCHANGED <<tgt, init_param, init_suspended, init_mutex, running,
                   suspend_vars, handle_vars>>

InitUnlock(u) ==
    /\ Goto(u, "init_unlock", "loop")
    /\ init_mutex' = [init_mutex EXCEPT ![u] = NULL]
    /\ UNCHANGED <<tgt, init_param, init_suspended, init_done, running,
                   suspend_vars, handle_vars>>

-----------------------------------------------------------------------------
(* uw_cpu_loop.                                                            *)

\* suspended = 1; pthread_cond_wait(&suspend_cond).
LoopSuspend(t) ==
    /\ ChecksSuspend
    /\ pc[t] \in {"loop", "susp_woken"}
    /\ suspend_request_count[t] > 0
    /\ pc' = [pc EXCEPT ![t] = "susp_wait"]
    /\ suspended' = [suspended EXCEPT ![t] = TRUE]
    /\ UNCHANGED <<tgt, init_vars, running, suspend_request_count, handle_vars>>

\* Mutant of LoopRun: suspended is not reset.
LoopRunStale(t) ==
    /\ pc[t] \in {"loop", "susp_woken"}
    /\ ChecksSuspend => suspend_request_count[t] <= 0
    /\ pc' = [pc EXCEPT ![t] = "guest"]
    /\ UNCHANGED <<tgt, init_vars, running, suspend_vars, handle_vars>>

\* No request (or no check): the guest's code runs.
LoopRun(t) ==
    /\ pc[t] \in {"loop", "susp_woken"}
    /\ ChecksSuspend => suspend_request_count[t] <= 0
    /\ pc' = [pc EXCEPT ![t] = "guest"]
    /\ suspended' = [suspended EXCEPT ![t] = FALSE]
    /\ UNCHANGED <<tgt, init_vars, running, suspend_request_count, handle_vars>>

\* cpu_run(TICKS) returns, or the basic block ends.
LoopTick(t) ==
    /\ Goto(t, "guest", "loop")
    /\ UNCHANGED <<tgt, init_vars, running, suspend_vars, handle_vars>>

-----------------------------------------------------------------------------
(* The handles of the guest.                                               *)

\* kthread_get_current_thread returns the number of self_handle; the guest
\* may store it where its other threads read it.
GetCurrentThread(t) ==
    /\ pc[t] = "guest"
    /\ known' = [known EXCEPT ![t] = TRUE]
    /\ UNCHANGED <<pc, tgt, init_vars, running, suspend_vars, self_handle, handles>>

\* The guest names a thread by the handle uw_thread_create returned or by the
\* number its GetCurrentThread returned; uw_ht_get finds it in the table.
Names(t, u) == handles[u] = "open" \/ (known[u] /\ self_handle[u] = "open")

\* CloseHandle of the handle that uw_thread_create returned.
Close(t, u) ==
    /\ pc[t] = "guest" /\ handles[u] = "open"
    /\ handles' = [handles EXCEPT ![u] = "closed"]
    /\ UNCHANGED <<pc, tgt, init_vars, running, suspend_vars, self_handle, known>>

\* CloseHandle of the number that GetCurrentThread returned in u: the comment
\* says "DO NOT CLOSE IT", the code deletes it from the table like any other.
CloseSelf(t, u) ==
    /\ pc[t] = "guest" /\ known[u] /\ self_handle[u] = "open"
    /\ self_handle' = [self_handle EXCEPT ![u] = "closed"]
    /\ UNCHANGED <<pc, tgt, init_vars, running, suspend_vars, known, handles>>

\* A syscall about a number that was closed: the assertion of uw_ht_get,
\* uw_ht_newref or uw_ht_delref fails.
UseClosed(t, u) ==
    /\ handles[u] = "closed" \/ (known[u] /\ self_handle[u] \in {"closed", "left"})
    /\ Goto(t, "guest", "bad_handle")
    /\ UNCHANGED <<tgt, init_vars, running, suspend_vars, handle_vars>>

-----------------------------------------------------------------------------
(* uw_thread_suspend, uw_thread_resume.                                    *)

\* pc when t goes to pc "to" after pthread_cond_broadcast(&suspend_cond) of u.
WakeSuspended(t, to, u) ==
    GotoWaking(t, to, {u} \cap {w \in Thread : pc[w] = "susp_wait"}, "susp_woken")

SuspendCall(t, u) ==
    /\ pc[t] = "guest" /\ Names(t, u)
    /\ suspend_request_count[u] < MaxSuspend
    /\ suspend_request_count' = [suspend_request_count EXCEPT ![u] = @ + 1]
    /\ pc' = WakeSuspended(t, "susp_spin", u)
    /\ tgt' = [tgt EXCEPT ![t] = u]
    /\ UNCHANGED <<init_vars, running, suspended, handle_vars>>

\* The busy wait ends.
SuspendSpin(t) ==
    /\ Goto(t, "susp_spin", "guest")
    /\ ~ (running[tgt[t]] /\ ~ suspended[tgt[t]])
    /\ UNCHANGED <<tgt, init_vars, running, suspend_vars, handle_vars>>

\* The count is decremented whatever it is.
Resume(t, u) ==
    /\ pc[t] = "guest" /\ Names(t, u)
    /\ suspend_request_count[u] > - MaxSuspend
    /\ suspend_request_count' = [suspend_request_count EXCEPT ![u] = @ - 1]
    /\ pc' = WakeSuspended(t, "guest", u)
    /\ UNCHANGED <<tgt, init_vars, running, suspended, handle_vars>>

-----------------------------------------------------------------------------
(* uw_thread_wait and uw_thread_leave.                                     *)

WaitCall(t, u) ==
    /\ Names(t, u)
    /\ Goto(t, "guest", "term_check")
    /\ tgt' = [tgt EXCEPT ![t] = u]
    /\ UNCHANGED <<init_vars, running, suspend_vars, handle_vars>>

\* The loop around pthread_cond_wait(&termination_cond).
WaitCheck(t) ==
    /\ Goto(t, "term_check", IF running[tgt[t]] THEN "term_wait" ELSE "guest")
    /\ UNCHANGED <<tgt, init_vars, running, suspend_vars, handle_vars>>

\* running = 0 and pthread_cond_broadcast(&termination_cond).
Leave(t) ==
    /\ pc[t] = "guest"
    /\ pc' = GotoWaking(t, "delref",
               {w \in Thread : pc[w] = "term_wait" /\ tgt[w] = t}, "term_check")
    /\ running' = [running EXCEPT ![t] = FALSE]
    /\ UNCHANGED <<tgt, init_vars, suspend_vars, handle_vars>>

\* uw_ht_delref(self_handle), whose assertion fails when the guest has closed
\* it; pthread_exit.
LeaveDelref(t) ==
    \/ /\ self_handle[t] = "open"
       /\ Goto(t, "delref", "gone")
       /\ self_handle' = [self_handle EXCEPT ![t] = "left"]
       /\ UNCHANGED <<tgt, init_vars, running, suspend_vars, known, handles>>
    \/ /\ self_handle[t] # "open"
       /\ Goto(t, "delref", "delref_failed")
       /\ UNCHANGED <<tgt, init_vars, running, suspend_vars, handle_vars>>

-----------------------------------------------------------------------------
\* Steps inside uwin, which do not wait for a decision of the guest.
Internal(t) ==
    \/ InitCheck(t) \/ InitFree(t) \/ Newref(t)
    \/ Entry(t) \/ InitLock(t) \/ InitSet(t) \/ InitUnlock(t)
    \/ LoopSuspend(t) \/ LoopRun(t)
    \/ SuspendSpin(t) \/ WaitCheck(t) \/ LeaveDelref(t)

Syscall(t, u) ==
    \/ \E susp \in BOOLEAN : Create(t, u, susp)
    \/ SuspendCall(t, u) \/ Resume(t, u) \/ WaitCall(t, u)
    \/ Close(t, u) \/ CloseSelf(t, u) \/ UseClosed(t, u)

\* A failed assertion ends the process.
Failed(t) == pc[t] \in {"newref_failed", "delref_failed", "bad_handle"}

Next == /\ \A t \in Thread : ~ Failed(t)
        /\ \E t \in Thread :
             \/ Internal(t) \/ LoopTick(t) \/ Leave(t) \/ GetCurrentThread(t)
             \/ \E u \in Thread : Syscall(t, u)

Spec == Init /\ [][Next]_vars

\* The host schedules every thread, and the guest's code returns to the cpu
\* loop again and again (cpu_run is called with a bounded number of ticks).
FairSpec == /\ Spec
            /\ \A t \in Thread : /\ WF_vars(Internal(t) /\ Next)
                                 /\ SF_vars(LoopTick(t) /\ Next)

-----------------------------------------------------------------------------
(* Properties.                                                             *)

Pc == {"none", "entry", "init_lock", "init_set", "init_unlock", "loop",
       "susp_wait", "susp_woken", "guest", "init_check", "init_wait",
       "init_free", "newref", "susp_spin", "term_check", "term_wait",
       "delref", "gone", "newref_failed", "delref_failed", "bad_handle"}

\* Types; suspend counts start at 0 or 1 and stay within the bound; a thread
\* that operates on a thread has one to operate on.
TypeOK == /\ pc \in [Thread -> Pc]
          /\ tgt \in [Thread -> Thread \cup {NULL}]
          /\ init_param \in [Thread -> {"none", "live", "freed"}]
          /\ init_suspended \in [Thread -> BOOLEAN]
          /\ init_done \in [Thread -> BOOLEAN]
          /\ init_mutex \in [Thread -> Thread \cup {NULL}]
          /\ running \in [Thread -> BOOLEAN]
          /\ suspend_request_count \in [Thread -> (- MaxSuspend)..MaxSuspend]
          /\ suspended \in [Thread -> BOOLEAN]
          /\ self_handle \in [Thread -> {"none", "open", "left", "closed"}]
          /\ known \in [Thread -> BOOLEAN]
          /\ handles \in [Thread -> {"none", "open", "closed"}]
          /\ \A t \in Thread :
               pc[t] \in {"init_check", "init_wait", "init_free", "newref",
                          "newref_failed", "susp_spin", "term_check",
                          "term_wait"} => tgt[t] # NULL

\* uw_free(param) comes after the last use of param by either thread, the new
\* thread's unlock of the mutex in it included.
ParamOutlivesHandshake == \A t \in Thread :
    /\ pc[t] \in {"entry", "init_lock", "init_set", "init_unlock"} =>
          init_param[t] = "live"
    /\ pc[t] \in {"init_check", "init_wait", "init_free"} =>
          init_param[tgt[t]] = "live"

\* A thread whose handle the guest has is fully initialised: it runs, or it
\* has left, so that a wait on it does not return before it has begun.
HandleMeansStarted == \A t \in Thread :
    handles[t] # "none" =>
        /\ pc[t] \notin {"none", "entry", "init_lock", "init_set"}
        /\ running[t] <=> pc[t] \notin {"delref", "delref_failed", "gone"}

\* A thread that others see as suspended does not execute guest code, even if
\* a resume and a new suspend request have passed while it was waking up: a
\* return of uw_thread_suspend means that the thread has stopped or left.
SuspendedIsStopped == \A t \in Thread :
    suspended[t] => pc[t] \in {"susp_wait", "susp_woken"}

\* The assertions on self_handle inside uwin (thread.cpp:180 and 228), which
\* the comment at ksvc.h:110 is about: the creator's newref fails only when the
\* new thread has run and left already or the guest has closed the handle, and
\* the leaving thread's delref only when the guest has.
SelfHandleLostByLeaveOrClose == \A t \in Thread :
    /\ pc[t] = "newref_failed" => \/ pc[tgt[t]] = "gone"
                                  \/ self_handle[tgt[t]] = "closed"
    /\ pc[t] = "delref_failed" => self_handle[t] = "closed"

\* Blocked or spinning inside a syscall.
InSyscall(t) == pc[t] \in {"init_check", "init_wait", "init_free", "newref",
                           "susp_spin", "term_check", "term_wait"}

\* uw_thread_create returns: the creator does not miss the broadcast of the
\* new thread (or the process ends).
CreateReturns == \A t \in Thread :
    pc[t] = "init_check" ~> pc[t] = "guest" \/ \E u \in Thread : Failed(u)

\* uw_thread_wait returns once the thread waited for has left.
WaitReturns == \A t \in Thread :
    pc[t] = "term_wait" /\ ~ running[tgt[t]]
        ~> pc[t] = "guest" \/ \E u \in Thread : Failed(u)

\* "wait till the thread is suspended" (thread.cpp:194): uw_thread_suspend
\* returns, unless the thread is resumed meanwhile or is itself inside a
\* syscall.
SuspendReturns == \A t, u \in Thread :
    pc[t] = "susp_spin" /\ tgt[t] = u /\ suspend_request_count[u] > 0
        ~> \/ pc[t] # "susp_spin"
           \/ suspend_request_count[u] <= 0
           \/ InSyscall(u)
           \/ \E w \in Thread : Failed(w)

\* The three calls that block or spin come back.
CallsReturn == CreateReturns /\ WaitReturns /\ SuspendReturns
=============================================================================
