------------------------------ MODULE MainLoop ------------------------------
(***************************************************************************)
(* The main thread of uwin: it polls SDL's event queue, publishes mouse    *)
(* messages to the subscribed guest threads and executes the surface       *)
(* requests that guest threads wait for (main.cpp, sdl_ui_gmq.cpp,         *)
(* win32_mq.cpp, ksurf_sdl.cpp), composed with the two mutexes involved:   *)
(* that of the subscription list and that of the handle table.             *)
(*                                                                         *)
(* A handle is <<t, "self">>, <<t, "sub">> or a surface; handles are never *)
(* issued twice (HandleTable), so a name per handle is enough.  A short    *)
(* critical section on the handle table is one step, guarded by the mutex. *)
(* The request lives on the stack of the thread that asks: its fields are  *)
(* rq[t], done[t] and the place of t in execute_remote.                    *)
(* ksurf_sdl.cpp still has a placeholder for the type of the request event *)
(* (line 17); SurfEventRegistered says whether it is the registered one.   *)
(***************************************************************************)
EXTENDS Naturals, Sequences, FiniteSets

CONSTANTS Thread, Main, Surface, Nobody, SurfEventRegistered,
          MaxMouse,     \* mouse messages, which are numbered (bound of the instance)
          MaxRequests   \* surface requests (bound of the instance)

ASSUME MainLoopAssumption ==
    /\ Main \notin Thread /\ Nobody \notin Thread \cup {Main}
    /\ \A t \in Thread : <<t, "self">> \notin Surface /\ <<t, "sub">> \notin Surface
    /\ MaxMouse \in Nat /\ MaxRequests \in Nat
    /\ SurfEventRegistered \in BOOLEAN

VARIABLES
    events,     \* SDL's event queue
    main,       \* place of the main thread, its message, its index in the list
    mut,        \* holder of the mutex of the handle table
    open,       \* open handles
    subs,       \* global_message_subscription_list
    subMut,     \* holder of global_message_subscription_list_mut
    got,        \* messages posted to the queue of each thread
    pc, rq, done,
    surf,       \* surfaces that exist
    crashed,    \* undefined behaviour that took the process down
    log, since, effects, requests   \* history

vars == <<events, main, mut, open, subs, subMut, got, pc, rq, done, surf,
          crashed, log, since, effects, requests>>

Mouse == 1..MaxMouse
Handle == (Thread \X {"self", "sub"}) \cup Surface
NoRequest == [op |-> "none", s |-> Nobody]
Request == [op : {"alloc", "use", "free"}, s : Surface]
Event == [kind : {"mouse"}, m : Mouse] \cup [kind : {"request"}, t : Thread]
            \cup [kind : {"thread"}, t : Thread] \cup {[kind |-> "quit"]}

Init ==
    /\ events = <<>>
    /\ main = [pc |-> "poll"]
    /\ mut = Nobody /\ subMut = Nobody
    /\ surf = Surface               \* the guest has allocated its surfaces
    /\ open = (Thread \X {"self"}) \cup surf
    /\ subs = <<>>
    /\ got = [t \in Thread |-> <<>>]
    /\ pc = [t \in Thread |-> "guest"]
    /\ rq = [t \in Thread |-> NoRequest]
    /\ done = [t \in Thread |-> FALSE]
    /\ crashed = FALSE
    /\ log = <<>>
    /\ since = [t \in Thread |-> 0]
    /\ effects = [t \in Thread |-> 0]
    /\ requests = 0

Running == ~crashed /\ main.pc # "exited"
Goto(t, from, to) == pc[t] = from /\ pc' = [pc EXCEPT ![t] = to]

---------------------------------------------------------------------------
(* The outside world: the mouse is moved MaxMouse times; when that has been *)
(* seen, the window may be closed (bounds of the instance).                 *)

Moved == Len(log) + Cardinality({i \in DOMAIN events : events[i].kind = "mouse"})

MouseEvent ==
    /\ Running /\ Moved < MaxMouse
    /\ events' = Append(events, [kind |-> "mouse", m |-> Moved + 1])
    /\ UNCHANGED <<main, mut, open, subs, subMut, got, pc, rq, done, surf,
                   crashed, log, since, effects, requests>>

CloseWindow ==
    /\ Running /\ Len(log) = MaxMouse
    /\ \A i \in DOMAIN events : events[i].kind # "quit"
    /\ events' = Append(events, [kind |-> "quit"])
    /\ UNCHANGED <<main, mut, open, subs, subMut, got, pc, rq, done, surf,
                   crashed, log, since, effects, requests>>

---------------------------------------------------------------------------
(* The main thread.                                                        *)

\* What uw_gmq_poll, the test for UW_GM_QUIT and the switch of the publisher
\* make of the event e.  UW_GM_NEWTHREAD is all that a thread ever posts, and
\* it is ignored.
Dispatch(e) ==
    CASE e.kind = "request" ->
            IF SurfEventRegistered THEN [pc |-> "execute", t |-> e.t]
                                   ELSE [pc |-> "poll"]
      [] e.kind = "mouse" -> [pc |-> "lock", m |-> e.m]
      [] e.kind = "quit" -> [pc |-> "exited"]
      [] OTHER -> [pc |-> "poll"]

Poll ==
    /\ Running /\ main.pc = "poll" /\ events # <<>>
    /\ main' = Dispatch(Head(events))
    /\ events' = Tail(events)
    /\ log' = IF Head(events).kind = "mouse" THEN Append(log, Head(events).m) ELSE log
    /\ UNCHANGED <<mut, open, subs, subMut, got, pc, rq, done, surf, crashed,
                   since, effects, requests>>

PublishLock ==
    /\ Running /\ main.pc = "lock" /\ subMut = Nobody
    /\ subMut' = Main
    /\ main' = [pc |-> "get", m |-> main.m, i |-> 1]
    /\ UNCHANGED <<events, mut, open, subs, got, pc, rq, done, surf, crashed,
                   log, since, effects, requests>>

\* uw_ht_get_thread on the next subscription: takes the mutex of the handle
\* table, and the assertion there fails if the handle is closed.
PublishGet ==
    /\ Running /\ main.pc = "get" /\ main.i <= Len(subs) /\ mut = Nobody
    /\ IF <<subs[main.i], "sub">> \in open
       THEN main' = [main EXCEPT !.pc = "post"] /\ UNCHANGED crashed
       ELSE crashed' = TRUE /\ UNCHANGED main
    /\ UNCHANGED <<events, mut, open, subs, subMut, got, pc, rq, done, surf,
                   log, since, effects, requests>>

PublishPost ==
    /\ Running /\ main.pc = "post"
    /\ got' = [got EXCEPT ![subs[main.i]] = Append(@, main.m)]
    /\ main' = [pc |-> "get", m |-> main.m, i |-> main.i + 1]
    /\ UNCHANGED <<events, mut, open, subs, subMut, pc, rq, done, surf, crashed,
                   log, since, effects, requests>>

\* Mutant of PublishUnlock: the mutex of the subscription list is not released.
PublishUnlockBad ==
    /\ Running /\ main.pc = "get" /\ main.i > Len(subs)
    /\ main' = [pc |-> "poll"]
    /\ UNCHANGED <<events, mut, open, subs, subMut, got, pc, rq, done, surf, crashed,
                   log, since, effects, requests>>

PublishUnlock ==
    /\ Running /\ main.pc = "get" /\ main.i > Len(subs)
    /\ subMut' = Nobody
    /\ main' = [pc |-> "poll"]
    /\ UNCHANGED <<events, mut, open, subs, got, pc, rq, done, surf, crashed,
                   log, since, effects, requests>>

\* Mutant of ExecuteRequest: done is set before the request is carried out.
ExecuteRequestBad ==
    /\ Running /\ main.pc = "execute"
    /\ done' = [done EXCEPT ![main.t] = TRUE]
    /\ main' = [main EXCEPT !.pc = "done"]
    /\ UNCHANGED <<events, mut, open, subs, subMut, got, pc, rq, surf, crashed,
                   log, since, effects, requests>>

\* The body of an actually_execute up to the call of the base class.
ExecuteRequest ==
    /\ Running /\ main.pc = "execute"
    /\ LET r == rq[main.t] IN
        surf' = CASE r.op = "alloc" -> surf \cup {r.s}
                  [] r.op = "free" -> surf \ {r.s}
                  [] OTHER -> surf
    /\ effects' = [effects EXCEPT ![main.t] = @ + 1]
    /\ main' = [main EXCEPT !.pc = "done"]
    /\ UNCHANGED <<events, mut, open, subs, subMut, got, pc, rq, done, crashed,
                   log, since, requests>>

\* Mutant of SetDone: done is never set.
SetDoneBad ==
    /\ Running /\ main.pc = "done"
    /\ main' = [main EXCEPT !.pc = "notify"]
    /\ UNCHANGED <<events, mut, open, subs, subMut, got, pc, rq, done, surf, crashed,
                   log, since, effects, requests>>

\* surf_request::actually_execute: done is set without the mutex ...
SetDone ==
    /\ Running /\ main.pc = "done"
    /\ done' = [done EXCEPT ![main.t] = TRUE]
    /\ main' = [main EXCEPT !.pc = "notify"]
    /\ UNCHANGED <<events, mut, open, subs, subMut, got, pc, rq, surf, crashed,
                   log, since, effects, requests>>

InRemote(t) == pc[t] \in {"test", "sleeping", "asleep"}

\* ... and then the condition variable is notified.  If the requester has
\* returned by now, its frame is gone: the call may do nothing or anything.
Notify ==
    /\ Running /\ main.pc = "notify"
    /\ main' = [pc |-> "poll"]
    /\ pc' = [pc EXCEPT ![main.t] = IF @ = "asleep" THEN "test" ELSE @]
    /\ crashed' \in (IF InRemote(main.t) THEN {FALSE} ELSE BOOLEAN)
    /\ UNCHANGED <<events, mut, open, subs, subMut, got, rq, done, surf,
                   log, since, effects, requests>>

---------------------------------------------------------------------------
(* Guest threads in uw_win32_mq_subscribe_global.  CreateWindowExA, its    *)
(* only caller, subscribes a thread once.                                  *)

SubscribeNewref(t) ==
    /\ Running /\ mut = Nobody
    /\ <<t, "sub">> \notin open
    /\ Goto(t, "guest", "subscribe")
    /\ open' = open \cup {<<t, "sub">>}
    /\ UNCHANGED <<events, main, mut, subs, subMut, got, rq, done, surf, crashed,
                   log, since, effects, requests>>

\* Mutant of SubscribePush: the subscription list is extended without its mutex.
SubscribePushBad(t) ==
    /\ Running
    /\ Goto(t, "subscribe", "guest")
    /\ subs' = Append(subs, t)
    /\ since' = [since EXCEPT ![t] = Len(log) -
                    (IF main.pc = "lock" THEN 1 ELSE 0)]
    /\ UNCHANGED <<events, main, mut, open, subMut, got, rq, done, surf, crashed,
                   log, effects, requests>>

SubscribePush(t) ==
    /\ Running /\ subMut = Nobody
    /\ Goto(t, "subscribe", "guest")
    /\ subs' = Append(subs, t)
    /\ since' = [since EXCEPT ![t] = Len(log) -
                    (IF main.pc = "lock" THEN 1 ELSE 0)]
    /\ UNCHANGED <<events, main, mut, open, subMut, got, rq, done, surf, crashed,
                   log, effects, requests>>

---------------------------------------------------------------------------
(* Guest threads in a surface operation.  A guest does not free a surface  *)
(* that another thread is using, and does not use a freed one.             *)

InUse(s) == \E u \in Thread : InRemote(u) /\ rq[u].s = s

Ask(t, r) ==
    /\ Running /\ requests < MaxRequests
    /\ Goto(t, "guest", "test")
    /\ rq' = [rq EXCEPT ![t] = r]
    /\ requests' = requests + 1
    /\ events' = Append(events, [kind |-> "request", t |-> t])
    /\ UNCHANGED <<main, subs, subMut, got, done, surf, crashed, log, since, effects>>

AskAlloc(t, s) ==
    /\ s \notin surf /\ s \notin open /\ ~InUse(s)
    /\ Ask(t, [op |-> "alloc", s |-> s])
    /\ UNCHANGED <<mut, open>>

AskUse(t, s) ==
    /\ s \in open
    /\ Ask(t, [op |-> "use", s |-> s])
    /\ UNCHANGED <<mut, open>>

\* uw_ht_delref destroys the surface while it holds the mutex of the table.
CloseSurface(t, s) ==
    /\ mut = Nobody /\ s \in open /\ ~InUse(s)
    /\ Ask(t, [op |-> "free", s |-> s])
    /\ mut' = t
    /\ open' = open \ {s}

\* cv.wait(lk, [this] { return done; })
WaitTest(t) ==
    /\ Running
    /\ Goto(t, "test", IF done[t] THEN "return" ELSE "sleeping")
    /\ UNCHANGED <<events, main, mut, open, subs, subMut, got, rq, done, surf,
                   crashed, log, since, effects, requests>>

WaitSleep(t) ==
    /\ Running
    /\ Goto(t, "sleeping", "asleep")
    /\ UNCHANGED <<events, main, mut, open, subs, subMut, got, rq, done, surf,
                   crashed, log, since, effects, requests>>

SpuriousWake(t) ==
    /\ Running
    /\ Goto(t, "asleep", "test")
    /\ UNCHANGED <<events, main, mut, open, subs, subMut, got, rq, done, surf,
                   crashed, log, since, effects, requests>>

\* The result is used: uw_ht_put of a new surface, the unlock of the table
\* after a free.
Return(t) ==
    /\ Running
    /\ rq[t].op = "alloc" => mut = Nobody
    /\ Goto(t, "return", "guest")
    /\ open' = IF rq[t].op = "alloc" THEN open \cup {rq[t].s} ELSE open
    /\ mut' = IF rq[t].op = "free" THEN Nobody ELSE mut
    /\ rq' = [rq EXCEPT ![t] = NoRequest]
    /\ done' = [done EXCEPT ![t] = FALSE]
    /\ effects' = [effects EXCEPT ![t] = 0]
    /\ UNCHANGED <<events, main, subs, subMut, got, surf, crashed, log, since,
                   requests>>

---------------------------------------------------------------------------
(* uw_thread_leave: posts UW_GM_NEWTHREAD and drops the thread's handle.   *)

LeavePost(t) ==
    /\ Running
    /\ Goto(t, "guest", "leave")
    /\ events' = Append(events, [kind |-> "thread", t |-> t])
    /\ UNCHANGED <<main, mut, open, subs, subMut, got, rq, done, surf, crashed,
                   log, since, effects, requests>>

\* Mutant of LeaveDelref: a thread that leaves closes its subscription, which stays in the list.
LeaveDelrefBad(t) ==
    /\ Running /\ mut = Nobody
    /\ Goto(t, "leave", "gone")
    /\ open' = open \ {<<t, "self">>, <<t, "sub">>}
    /\ UNCHANGED <<events, main, mut, subs, subMut, got, rq, done, surf, crashed,
                   log, since, effects, requests>>

LeaveDelref(t) ==
    /\ Running /\ mut = Nobody
    /\ Goto(t, "leave", "gone")
    /\ open' = open \ {<<t, "self">>}
    /\ UNCHANGED <<events, main, mut, subs, subMut, got, rq, done, surf, crashed,
                   log, since, effects, requests>>

---------------------------------------------------------------------------
MainStep == \/ Poll \/ PublishLock \/ PublishGet \/ PublishPost \/ PublishUnlock
            \/ ExecuteRequest \/ SetDone \/ Notify

ThreadStep(t) == \/ SubscribePush(t) \/ WaitTest(t) \/ WaitSleep(t) \/ Return(t)
                 \/ LeaveDelref(t)

Next ==
    \/ MouseEvent \/ CloseWindow
    \/ MainStep
    \/ \E t \in Thread :
        \/ SubscribeNewref(t) \/ SpuriousWake(t) \/ LeavePost(t) \/ ThreadStep(t)
        \/ \E s \in Surface : AskAlloc(t, s) \/ AskUse(t, s) \/ CloseSurface(t, s)

Spec == Init /\ [][Next]_vars

\* The main thread and the threads inside uwin are scheduled.
FairSpec == Spec /\ WF_vars(MainStep) /\ \A t \in Thread : WF_vars(ThreadStep(t))

---------------------------------------------------------------------------
TypeOK ==
    /\ events \in Seq(Event)
    /\ main.pc \in {"poll", "lock", "get", "post", "execute", "done", "notify", "exited"}
    /\ mut \in Thread \cup {Nobody} /\ subMut \in {Main, Nobody}
    /\ open \subseteq Handle
    /\ subs \in Seq(Thread)
    /\ got \in [Thread -> Seq(Mouse)]
    /\ pc \in [Thread -> {"guest", "subscribe", "test", "sleeping", "asleep",
                          "return", "leave", "gone"}]
    /\ rq \in [Thread -> Request \cup {NoRequest}]
    /\ done \in [Thread -> BOOLEAN]
    /\ surf \subseteq Surface
    /\ crashed \in BOOLEAN

\* A subscription keeps its thread object alive: every handle in the list is
\* open, also when its thread has left, so uw_ht_get_thread in the publisher
\* finds it, and the queue it posts to exists.
SubscriptionsOpen ==
    \A i \in DOMAIN subs : <<subs[i], "sub">> \in open

\* Messages reach a subscriber completely, once and in the order of the event
\* queue, from the first that is published after it has entered the list.
Delivered(t) ==
    Len(log) - since[t]
        - (IF \/ main.pc = "lock"
              \/ /\ main.pc \in {"get", "post"}
                 /\ \E i \in main.i..Len(subs) : subs[i] = t
           THEN 1 ELSE 0)

SubscribersGetAll ==
    \A t \in Thread :
        IF \E i \in DOMAIN subs : subs[i] = t
        THEN got[t] = SubSeq(log, since[t] + 1, since[t] + Delivered(t))
        ELSE got[t] = <<>>

\* A request is in one place: in the event queue, in the main thread's hands,
\* or executed.  None is dropped by the pump and none is executed twice.
Queued(t) == {i \in DOMAIN events : events[i] = [kind |-> "request", t |-> t]}

RequestAccounted ==
    SurfEventRegistered =>
    \A t \in Thread : InRemote(t) =>
        LET inHand == main.pc = "execute" /\ main.t = t
        IN Cardinality(Queued(t)) + (IF inHand THEN 1 ELSE 0) + effects[t] = 1

\* execute_remote returns only after the request has been executed, so the
\* fields it reads (the new surface, the locked description) are written, and
\* the main thread writes them only while the frame they are in exists.
ResultBeforeReturn ==
    /\ \A t \in Thread : pc[t] = "return" => effects[t] = 1
    /\ main.pc \in {"execute", "done"} => InRemote(main.t)

\* The structure the main thread and its clients rely on: subscriptions refer
\* to open handles, a request is in one place and is executed before its frame
\* goes away.
Accounted == TypeOK /\ SubscriptionsOpen /\ RequestAccounted /\ ResultBeforeReturn

\* Of the ways to go down that are modelled (this one, and the failed assertion
\* of uw_ht_get_thread on a subscription) only one ever happens: the
\* notification of a request whose requester has seen done and left.
CrashIsLateNotify == [][crashed' # crashed => main.pc = "notify" /\ ~InRemote(main.t)]_vars

\* done was set and notified between the test of the predicate and the sleep.
LostWakeup(t) == pc[t] = "asleep" /\ done[t] /\ ~(main.pc = "notify" /\ main.t = t)

\* The main thread waits for the table's mutex, and the holder of that mutex
\* waits for the main thread, or for a notification that has passed.
FreeDeadlock ==
    /\ main.pc = "get" /\ main.i <= Len(subs)
    /\ mut \in Thread /\ rq[mut].op = "free" /\ InRemote(mut)
    /\ done[mut] => LostWakeup(mut)

Stopped == crashed \/ main.pc = "exited" \/ FreeDeadlock

\* Every surface operation returns, but for the two defects named above and
\* the end of the process.
RequestsReturn ==
    SurfEventRegistered =>
    \A t \in Thread : InRemote(t) ~> (pc[t] = "return" \/ Stopped \/ LostWakeup(t))

\* Every mouse event gets through the publisher, unless the process has ended
\* or the pump is stopped by a thread that frees a surface.
Published(m) ==
    /\ \E i \in DOMAIN log : log[i] = m
    /\ main.pc \in {"lock", "get", "post"} => main.m # m

PumpDelivers ==
    \A m \in Mouse :
        (\E i \in DOMAIN events : events[i] = [kind |-> "mouse", m |-> m])
            ~> (Published(m) \/ Stopped)
=============================================================================
