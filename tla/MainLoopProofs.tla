--------------------------- MODULE MainLoopProofs ---------------------------
(***************************************************************************)
(* Proofs about MainLoop for any threads, surfaces, mouse messages and     *)
(* requests, whether or not the pump knows the request event: a request is *)
(* in one place and executed before its frame goes away, subscribers get   *)
(* every message once and in order, and of the crashes modelled only that  *)
(* of a notification that comes after its requester has left happens.      *)
(***************************************************************************)
EXTENDS MainLoop, FiniteSetTheorems, TLAPS

(* The inductive invariant.                                                *)

Publishing == main.pc \in {"get", "post"}
Subscribed(t) == \E i \in DOMAIN subs : subs[i] = t
InHand(t) == main.pc = "execute" /\ main.t = t
Finishing(t) == main.pc = "done" /\ main.t = t

\* Types of what TypeOK leaves open: the record of the main thread has the
\* fields of its place, and the history.
MainState == [pc : {"poll", "exited"}] \cup [pc : {"lock"}, m : Mouse]
             \cup [pc : {"get", "post"}, m : Mouse, i : Nat \ {0}]
             \cup [pc : {"execute", "done", "notify"}, t : Thread]
MainOK == main \in MainState
HistoryOK == /\ log \in Seq(Mouse) /\ since \in [Thread -> Nat] /\ effects \in [Thread -> Nat]

\* The publisher holds the mutex of the list, so its index stays in the list;
\* what it publishes is the last message of the log.
PublisherInv ==
  /\ subMut = IF Publishing THEN Main ELSE Nobody
  /\ main.pc = "post" => main.i <= Len(subs)
  /\ main.pc \in {"lock", "get", "post"} => log # <<>> /\ main.m = log[Len(log)]

\* A thread is in the list at most once, and not while it is subscribing; its
\* handle is open from before that on.
SubscriptionInv ==
  /\ \A i \in DOMAIN subs : <<subs[i], "sub">> \in open
  /\ \A i, j \in DOMAIN subs : subs[i] = subs[j] => i = j
  /\ \A t \in Thread : pc[t] = "subscribe" => <<t, "sub">> \in open /\ ~Subscribed(t)

\* A request is in one place while its frame exists, and nowhere else.
Nowhere(t) == Queued(t) = {} /\ ~InHand(t) /\ ~Finishing(t)
RequestOf(t) ==
    /\ pc[t] \notin {"test", "sleeping", "asleep", "return"} =>
         Nowhere(t) /\ effects[t] = 0 /\ ~done[t]
    /\ pc[t] = "return" => Nowhere(t) /\ effects[t] = 1 /\ done[t]
    /\ InRemote(t) =>
         \/ (\E i \in DOMAIN events : Queued(t) = {i}) /\ ~InHand(t) /\ ~Finishing(t) /\ effects[t] = 0 /\ ~done[t]
         \/ Queued(t) = {} /\ InHand(t) /\ effects[t] = 0 /\ ~done[t]
         \/ Queued(t) = {} /\ Finishing(t) /\ effects[t] = 1 /\ ~done[t]
         \/ Nowhere(t) /\ effects[t] = 1 /\ done[t]
         \/ ~SurfEventRegistered /\ Nowhere(t) /\ effects[t] = 0 /\ ~done[t]
RequestInv == \A t \in Thread : RequestOf(t)

\* A subscriber has every message from the first after it entered the list, but
\* for the one that the publisher has not come to it with.
Pending(t) == \/ main.pc = "lock"
              \/ Publishing /\ \E i \in main.i..Len(subs) : subs[i] = t
DeliveryOf(t) ==
    /\ ~Subscribed(t) => got[t] = <<>>
    /\ Subscribed(t) =>
         IF Pending(t)
         THEN since[t] < Len(log) /\ got[t] = SubSeq(log, since[t] + 1, Len(log) - 1)
         ELSE since[t] <= Len(log) /\ got[t] = SubSeq(log, since[t] + 1, Len(log))
DeliveryInv == \A t \in Thread : DeliveryOf(t)

IInv == /\ TypeOK /\ MainOK /\ HistoryOK
        /\ PublisherInv /\ SubscriptionInv /\ RequestInv /\ DeliveryInv

-----------------------------------------------------------------------------
(* Lemmas: events, the record of the main thread, the event queue.         *)

Req(t) == [kind |-> "request", t |-> t]

LEMMA EventKinds ==
  ASSUME NEW e \in Event
  PROVE  \/ e.kind = "mouse" /\ e.m \in Mouse
         \/ e.kind = "request" /\ e.t \in Thread /\ e = Req(e.t)
         \/ e.kind = "thread" \/ e.kind = "quit"
  BY DEF Event, Req

LEMMA MadeEvents ==
  /\ \A m \in Mouse : [kind |-> "mouse", m |-> m] \in Event
  /\ \A t \in Thread : Req(t) \in Event /\ [kind |-> "thread", t |-> t] \in Event
  /\ [kind |-> "quit"] \in Event
  BY DEF Event, Req

LEMMA MainShape ==
  ASSUME MainOK
  PROVE  /\ main.pc \in {"poll", "lock", "get", "post", "execute", "done", "notify", "exited"}
         /\ main.pc \in {"lock", "get", "post"} => main.m \in Mouse
         /\ main.pc \in {"get", "post"} => main.i \in Nat \ {0}
         /\ main.pc \in {"execute", "done", "notify"} => main.t \in Thread
  BY DEF MainOK, MainState

\* A place of the main thread that another one follows with the same fields.
LEMMA NextPlace ==
  ASSUME MainOK
  PROVE  /\ main.pc \in {"get", "post"} =>
              LET n == [main EXCEPT !.pc = "post"]
              IN n \in MainState /\ n.pc = "post" /\ n.m = main.m /\ n.i = main.i
         /\ \A p \in {"done", "notify"} : main.pc \in {"execute", "done"} =>
              LET n == [main EXCEPT !.pc = p]
              IN n \in MainState /\ n.pc = p /\ n.t = main.t
<1>1. ASSUME main.pc \in {"get", "post"}
      PROVE  LET n == [main EXCEPT !.pc = "post"]
             IN n \in MainState /\ n.pc = "post" /\ n.m = main.m /\ n.i = main.i
  <2>1. main \in [pc : {"get", "post"}, m : Mouse, i : Nat \ {0}]
    BY <1>1 DEF MainOK, MainState
  <2> QED BY <2>1 DEF MainState
<1>2. ASSUME NEW p \in {"done", "notify"}, main.pc \in {"execute", "done"}
      PROVE  LET n == [main EXCEPT !.pc = p]
             IN n \in MainState /\ n.pc = p /\ n.t = main.t
  <2>1. main \in [pc : {"execute", "done", "notify"}, t : Thread]
    BY <1>2 DEF MainOK, MainState
  <2> QED BY <2>1 DEF MainState
<1> QED BY <1>1, <1>2

LEMMA MadePlaces ==
  /\ [pc |-> "poll"] \in MainState /\ [pc |-> "exited"] \in MainState
  /\ \A m \in Mouse : [pc |-> "lock", m |-> m] \in MainState
  /\ \A m \in Mouse, i \in Nat \ {0} : [pc |-> "get", m |-> m, i |-> i] \in MainState
  /\ \A t \in Thread : [pc |-> "execute", t |-> t] \in MainState
  BY DEF MainState

\* What the pump makes of an event.
LEMMA Dispatched ==
  ASSUME NEW e \in Event
  PROVE  /\ Dispatch(e) \in MainState /\ Dispatch(e).pc \in {"poll", "lock", "execute", "exited"}
         /\ IF e.kind = "mouse" THEN Dispatch(e).pc = "lock" /\ Dispatch(e).m = e.m /\ e.m \in Mouse
                                ELSE Dispatch(e).pc # "lock"
         /\ IF e.kind = "request" /\ SurfEventRegistered
            THEN Dispatch(e).pc = "execute" /\ e = Req(Dispatch(e).t)
            ELSE Dispatch(e).pc # "execute"
<1>1. CASE e.kind = "mouse" /\ e.m \in Mouse
  BY <1>1, MadePlaces DEF Dispatch
<1>2. CASE e.kind = "request" /\ e.t \in Thread /\ e = Req(e.t)
  BY <1>2, MadePlaces DEF Dispatch
<1>3. CASE e.kind = "thread"
  BY <1>3, MadePlaces DEF Dispatch
<1>4. CASE e.kind = "quit"
  BY <1>4, MadePlaces DEF Dispatch
<1> QED BY <1>1, <1>2, <1>3, <1>4, EventKinds

\* Where the request of a thread is in the queue after an event was added ...
LEMMA QueuedAppend ==
  ASSUME events \in Seq(Event), NEW e \in Event, events' = Append(events, e), NEW t \in Thread
  PROVE  IF e = Req(t) THEN Queued(t)' = Queued(t) \cup {Len(events) + 1}
                       ELSE Queued(t)' = Queued(t)
<1>1. DOMAIN events = 1..Len(events) /\ Len(events) \in Nat
  OBVIOUS
<1>2. /\ DOMAIN events' = 1..Len(events) + 1
      /\ \A i \in 1..Len(events) : events'[i] = events[i]
      /\ events'[Len(events) + 1] = e
  OBVIOUS
<1> QED BY <1>1, <1>2 DEF Queued, Req

\* ... and after the first was taken.
LEMMA QueuedTail ==
  ASSUME events \in Seq(Event), events # <<>>, events' = Tail(events), NEW t \in Thread
  PROVE  /\ Queued(t) = {} => Queued(t)' = {} /\ Head(events) # Req(t)
         /\ \A i \in DOMAIN events : Queued(t) = {i} =>
              IF Head(events) = Req(t) THEN Queued(t)' = {}
                                       ELSE Queued(t)' = {i - 1} /\ i - 1 \in DOMAIN events'
<1>1. Len(events) \in Nat \ {0} /\ DOMAIN events = 1..Len(events) /\ Head(events) = events[1]
  OBVIOUS
<1>2. /\ DOMAIN events' = 1..Len(events) - 1
      /\ \A i \in 1..Len(events) - 1 : events'[i] = events[i + 1]
  OBVIOUS
<1>3. \A i : i \in Queued(t) <=> i \in 1..Len(events) /\ events[i] = Req(t)
  BY <1>1 DEF Queued, Req
<1>4. \A i : i \in Queued(t)' <=> i \in 1..Len(events) - 1 /\ events[i + 1] = Req(t)
  BY <1>2 DEF Queued, Req
<1>5. ASSUME Queued(t) = {} PROVE Queued(t)' = {} /\ Head(events) # Req(t)
  BY <1>1, <1>3, <1>4, <1>5
<1>6. ASSUME NEW i \in DOMAIN events, Queued(t) = {i}
      PROVE  IF Head(events) = Req(t) THEN Queued(t)' = {}
                                      ELSE Queued(t)' = {i - 1} /\ i - 1 \in DOMAIN events'
  <2>1. \A j \in 1..Len(events) : events[j] = Req(t) <=> j = i
    BY <1>3, <1>6
  <2>2. CASE Head(events) = Req(t)
    <3>1. i = 1
      BY <1>1, <2>1, <2>2
    <3> QED BY <1>1, <1>4, <2>1, <2>2, <3>1
  <2>3. CASE Head(events) # Req(t)
    <3>1. i # 1
      BY <1>1, <2>1, <2>3
    <3>2. i - 1 \in 1..Len(events) - 1 /\ (i - 1) + 1 = i
      BY <1>1, <3>1
    <3>3. \A j : j \in Queued(t)' <=> j = i - 1
      BY <1>1, <1>4, <2>1, <3>2
    <3> QED BY <1>2, <2>3, <3>2, <3>3
  <2> QED BY <2>2, <2>3
<1> QED BY <1>5, <1>6

-----------------------------------------------------------------------------
(* Types.                                                                  *)

LEMMA MovedNat == ASSUME TypeOK, HistoryOK PROVE Moved \in Nat
<1>1. DOMAIN events = 1..Len(events) /\ Len(events) \in Nat /\ Len(log) \in Nat
  BY DEF TypeOK, HistoryOK
<1>2. IsFiniteSet(1..Len(events))
  BY <1>1, FS_Interval
<1>3. {i \in DOMAIN events : events[i].kind = "mouse"} \subseteq 1..Len(events)
  BY <1>1
<1>4. Cardinality({i \in DOMAIN events : events[i].kind = "mouse"}) \in Nat
  BY <1>2, <1>3, FS_Subset, FS_CardinalityType
<1> QED BY <1>1, <1>4 DEF Moved

\* Every request a guest thread makes.
AskAny(t) == \E s \in Surface : AskAlloc(t, s) \/ AskUse(t, s) \/ CloseSurface(t, s)

LEMMA Asked ==
  ASSUME TypeOK, NEW t \in Thread, AskAny(t)
  PROVE  /\ pc[t] = "guest" /\ pc' = [pc EXCEPT ![t] = "test"]
         /\ \E r \in Request : rq' = [rq EXCEPT ![t] = r]
         /\ events' = Append(events, Req(t))
         /\ mut' \in Thread \cup {Nobody} /\ open' \subseteq open
         /\ \A u \in Thread : <<u, "sub">> \in open => <<u, "sub">> \in open'
         /\ UNCHANGED <<main, subs, subMut, got, done, surf, crashed, log, since, effects>>
<1>1. PICK s \in Surface : AskAlloc(t, s) \/ AskUse(t, s) \/ CloseSurface(t, s)
  BY DEF AskAny
<1>2. \A u \in Thread : <<u, "sub">> # s
  BY MainLoopAssumption
<1>3. \A o \in {"alloc", "use", "free"} : [op |-> o, s |-> s] \in Request
  BY DEF Request
<1>4. CASE AskAlloc(t, s)
  BY <1>3, <1>4 DEF AskAlloc, Ask, Goto, Req, TypeOK
<1>5. CASE AskUse(t, s)
  BY <1>3, <1>5 DEF AskUse, Ask, Goto, Req, TypeOK
<1>6. CASE CloseSurface(t, s)
  BY <1>2, <1>3, <1>6 DEF CloseSurface, Ask, Goto, Req, TypeOK
<1> QED BY <1>1, <1>4, <1>5, <1>6

LEMMA TypesStep == ASSUME IInv, Next PROVE TypeOK' /\ MainOK' /\ HistoryOK'
<1>a. TypeOK /\ MainOK /\ HistoryOK /\ PublisherInv /\ SubscriptionInv
  BY DEF IInv
<1>1. CASE MouseEvent
  <2>1. Moved + 1 \in Mouse
    BY <1>1, <1>a, MovedNat, MainLoopAssumption DEF MouseEvent, Mouse
  <2>2. events' \in Seq(Event)
    BY <1>1, <1>a, <2>1, MadeEvents DEF MouseEvent, TypeOK
  <2> QED BY <1>1, <1>a, <2>2 DEF MouseEvent, TypeOK, MainOK, HistoryOK
<1>2. CASE CloseWindow
  BY <1>2, <1>a, MadeEvents DEF CloseWindow, TypeOK, MainOK, HistoryOK
<1>3. CASE Poll
  <2>1. Head(events) \in Event /\ events' \in Seq(Event)
    BY <1>3, <1>a DEF Poll, TypeOK
  <2>2. main' \in MainState /\ main'.pc \in {"poll", "lock", "execute", "exited"}
    BY <1>3, <2>1, Dispatched DEF Poll
  <2>3. log' \in Seq(Mouse)
    <3>1. Head(events).kind = "mouse" => Head(events).m \in Mouse
      BY <2>1, Dispatched
    <3> QED BY <1>3, <1>a, <3>1 DEF Poll, HistoryOK
  <2> QED BY <1>3, <1>a, <2>1, <2>2, <2>3 DEF Poll, TypeOK, MainOK, HistoryOK
<1>4. CASE PublishLock
  <2>1. main' \in MainState /\ main'.pc = "get"
    BY <1>4, <1>a, MainShape, MadePlaces DEF PublishLock
  <2> QED BY <1>4, <1>a, <2>1 DEF PublishLock, TypeOK, MainOK, HistoryOK
<1>5. CASE PublishGet
  <2>1. main' \in MainState /\ main'.pc \in {"get", "post"}
    <3>1. main.pc = "get" /\ (main' = main \/ main' = [main EXCEPT !.pc = "post"])
      BY <1>5 DEF PublishGet
    <3> QED BY <3>1, <1>a, NextPlace DEF MainOK
  <2>2. crashed' \in BOOLEAN
    BY <1>5, <1>a DEF PublishGet, TypeOK
  <2> QED BY <1>5, <1>a, <2>1, <2>2 DEF PublishGet, TypeOK, MainOK, HistoryOK
<1>6. CASE PublishPost
  <2>1. main.m \in Mouse /\ main.i \in Nat \ {0} /\ main.i <= Len(subs)
    BY <1>6, <1>a, MainShape DEF PublishPost, PublisherInv
  <2>2. main' \in MainState /\ main'.pc = "get"
    BY <1>6, <2>1, MadePlaces DEF PublishPost
  <2>3. subs[main.i] \in Thread
    BY <1>a, <2>1 DEF TypeOK
  <2>4. got' \in [Thread -> Seq(Mouse)]
    <3>1. Append(got[subs[main.i]], main.m) \in Seq(Mouse)
      BY <1>a, <2>1, <2>3 DEF TypeOK
    <3> QED BY <1>6, <1>a, <3>1 DEF PublishPost, TypeOK
  <2> QED BY <1>6, <1>a, <2>2, <2>4 DEF PublishPost, TypeOK, MainOK, HistoryOK
<1>7. CASE PublishUnlock
  BY <1>7, <1>a, MadePlaces DEF PublishUnlock, TypeOK, MainOK, HistoryOK
<1>8. CASE ExecuteRequest
  <2>1. main' \in MainState /\ main'.pc = "done" /\ main.t \in Thread
    BY <1>8, <1>a, MainShape, NextPlace DEF ExecuteRequest
  <2>2. effects' \in [Thread -> Nat]
    BY <1>8, <1>a, <2>1 DEF ExecuteRequest, HistoryOK
  <2>3. surf' \subseteq Surface
    <3>1. rq[main.t] \in Request \/ rq[main.t] = NoRequest
      BY <1>a, <2>1 DEF TypeOK
    <3>2. rq[main.t].op = "alloc" => rq[main.t].s \in Surface
      BY <3>1 DEF Request, NoRequest
    <3> QED BY <1>8, <1>a, <3>2 DEF ExecuteRequest, TypeOK
  <2> QED BY <1>8, <1>a, <2>1, <2>2, <2>3 DEF ExecuteRequest, TypeOK, MainOK, HistoryOK
<1>9. CASE SetDone
  <2>1. main' \in MainState /\ main'.pc = "notify" /\ main.t \in Thread
    BY <1>9, <1>a, MainShape, NextPlace DEF SetDone
  <2> QED BY <1>9, <1>a, <2>1 DEF SetDone, TypeOK, MainOK, HistoryOK
<1>10. CASE Notify
  <2>1. main.t \in Thread
    BY <1>10, <1>a, MainShape DEF Notify
  <2>2. pc' \in [Thread -> {"guest", "subscribe", "test", "sleeping", "asleep",
                            "return", "leave", "gone"}]
    BY <1>10, <1>a, <2>1 DEF Notify, TypeOK
  <2>3. crashed' \in BOOLEAN
    BY <1>10 DEF Notify
  <2> QED BY <1>10, <1>a, <2>2, <2>3, MadePlaces DEF Notify, TypeOK, MainOK, HistoryOK
<1>11. ASSUME NEW t \in Thread, SubscribeNewref(t) PROVE TypeOK' /\ MainOK' /\ HistoryOK'
  BY <1>11, <1>a DEF SubscribeNewref, Goto, TypeOK, MainOK, HistoryOK, Handle
<1>12. ASSUME NEW t \in Thread, SubscribePush(t) PROVE TypeOK' /\ MainOK' /\ HistoryOK'
  <2>1. since' \in [Thread -> Nat]
    <3>1. Len(log) \in Nat /\ (main.pc = "lock" => Len(log) # 0)
      BY <1>a DEF HistoryOK, PublisherInv
    <3> QED BY <1>12, <1>a, <3>1 DEF SubscribePush, HistoryOK
  <2>2. subs' \in Seq(Thread)
    BY <1>12, <1>a DEF SubscribePush, TypeOK
  <2> QED BY <1>12, <1>a, <2>1, <2>2 DEF SubscribePush, Goto, TypeOK, MainOK, HistoryOK
<1>13. ASSUME NEW t \in Thread, AskAny(t) PROVE TypeOK' /\ MainOK' /\ HistoryOK'
  <2>1. events' \in Seq(Event)
    <3>1. events' = Append(events, Req(t)) /\ Req(t) \in Event
      BY <1>13, <1>a, Asked, MadeEvents
    <3> QED BY <3>1, <1>a DEF TypeOK
  <2> QED BY <1>13, <1>a, <2>1, Asked, ZenonT(30) DEF TypeOK, MainOK, HistoryOK
<1>14. ASSUME NEW t \in Thread, WaitTest(t) \/ WaitSleep(t) \/ SpuriousWake(t)
       PROVE  TypeOK' /\ MainOK' /\ HistoryOK'
  <2>1. pc' \in [Thread -> {"guest", "subscribe", "test", "sleeping", "asleep",
                            "return", "leave", "gone"}]
    BY <1>14, <1>a DEF WaitTest, WaitSleep, SpuriousWake, Goto, TypeOK
  <2>2. UNCHANGED <<events, main, mut, open, subs, subMut, got, rq, done, surf,
                    crashed, log, since, effects>>
    BY <1>14 DEF WaitTest, WaitSleep, SpuriousWake
  <2> QED BY <1>a, <2>1, <2>2 DEF TypeOK, MainOK, HistoryOK
<1>15. ASSUME NEW t \in Thread, Return(t) PROVE TypeOK' /\ MainOK' /\ HistoryOK'
  <2>1. open' \subseteq Handle
    <3>1. rq[t] \in Request \/ rq[t] = NoRequest
      BY <1>a DEF TypeOK
    <3>2. rq[t].op = "alloc" => rq[t].s \in Surface
      BY <3>1 DEF Request, NoRequest
    <3> QED BY <1>15, <1>a, <3>2 DEF Return, TypeOK, Handle
  <2>2. /\ pc' = [pc EXCEPT ![t] = "guest"] /\ rq' = [rq EXCEPT ![t] = NoRequest]
        /\ done' = [done EXCEPT ![t] = FALSE] /\ effects' = [effects EXCEPT ![t] = 0]
        /\ mut' \in Thread \cup {Nobody}
        /\ UNCHANGED <<events, main, subs, subMut, got, surf, crashed, log, since>>
    BY <1>15, <1>a DEF Return, Goto, TypeOK
  <2> QED BY <1>a, <2>1, <2>2 DEF TypeOK, MainOK, HistoryOK
<1>16. ASSUME NEW t \in Thread, LeavePost(t) PROVE TypeOK' /\ MainOK' /\ HistoryOK'
  <2>1. events' \in Seq(Event)
    BY <1>16, <1>a, MadeEvents DEF LeavePost, TypeOK
  <2> QED BY <1>16, <1>a, <2>1 DEF LeavePost, Goto, TypeOK, MainOK, HistoryOK
<1>17. ASSUME NEW t \in Thread, LeaveDelref(t) PROVE TypeOK' /\ MainOK' /\ HistoryOK'
  BY <1>17, <1>a DEF LeaveDelref, Goto, TypeOK, MainOK, HistoryOK
<1> QED BY <1>1, <1>2, <1>3, <1>4, <1>5, <1>6, <1>7, <1>8, <1>9, <1>10, <1>11, <1>12, <1>13,
           <1>14, <1>15, <1>16, <1>17 DEF Next, MainStep, ThreadStep, AskAny

-----------------------------------------------------------------------------
(* The publisher and the subscriptions.                                    *)

\* No guest thread moves the main thread, its log or the mutex of the list.
GuestStep(t) == \/ SubscribeNewref(t) \/ SubscribePush(t) \/ AskAny(t) \/ WaitTest(t)
                \/ WaitSleep(t) \/ SpuriousWake(t) \/ Return(t) \/ LeavePost(t) \/ LeaveDelref(t)

LEMMA NextSplit ==
  Next => \/ MouseEvent \/ CloseWindow
          \/ MainStep
          \/ \E t \in Thread : GuestStep(t)
  BY DEF Next, ThreadStep, GuestStep, AskAny

LEMMA GuestKeepsMain ==
  ASSUME TypeOK, NEW t \in Thread, GuestStep(t)
  PROVE  /\ UNCHANGED <<main, subMut, got, log, crashed>>
         /\ subs' = subs \/ SubscribePush(t)
<1>1. CASE AskAny(t)
  BY <1>1, Asked
<1>2. CASE ~AskAny(t)
  BY <1>2 DEF GuestStep, SubscribeNewref, SubscribePush, WaitTest, WaitSleep, SpuriousWake, Return,
              LeavePost, LeaveDelref
<1> QED BY <1>1, <1>2

LEMMA PublisherStep == ASSUME IInv, Next PROVE PublisherInv'
<1>a. TypeOK /\ MainOK /\ HistoryOK /\ PublisherInv
  BY DEF IInv
<1>1. CASE MouseEvent \/ CloseWindow
  BY <1>1, <1>a DEF MouseEvent, CloseWindow, PublisherInv, Publishing
<1>2. CASE Poll
  <2>1. /\ Head(events) \in Event /\ main' = Dispatch(Head(events))
        /\ log' = IF Head(events).kind = "mouse" THEN Append(log, Head(events).m) ELSE log
        /\ UNCHANGED <<subMut, subs>> /\ main.pc = "poll"
    BY <1>2, <1>a DEF Poll, TypeOK
  <2>2. CASE Head(events).kind = "mouse"
    <3>1. main'.pc = "lock" /\ main'.m = Head(events).m /\ Head(events).m \in Mouse
      BY <2>1, <2>2, Dispatched
    <3>2. log' = Append(log, main'.m) /\ log \in Seq(Mouse)
      BY <1>a, <2>1, <2>2, <3>1 DEF HistoryOK
    <3>3. log' # <<>> /\ log'[Len(log')] = main'.m
      BY <3>1, <3>2
    <3> QED BY <1>a, <2>1, <3>1, <3>3 DEF PublisherInv, Publishing
  <2>3. CASE Head(events).kind # "mouse"
    <3>1. main'.pc \in {"poll", "execute", "exited"}
      BY <2>1, <2>3, Dispatched
    <3> QED BY <1>a, <2>1, <3>1 DEF PublisherInv, Publishing
  <2> QED BY <2>2, <2>3
<1>3. CASE PublishLock
  BY <1>3, <1>a DEF PublishLock, PublisherInv, Publishing
<1>4. CASE PublishGet
  <2>1. main' = main \/ (main'.pc = "post" /\ main'.m = main.m /\ main'.i = main.i)
    BY <1>4, <1>a, NextPlace DEF PublishGet
  <2> QED BY <1>4, <1>a, <2>1 DEF PublishGet, PublisherInv, Publishing
<1>5. CASE PublishPost
  BY <1>5, <1>a DEF PublishPost, PublisherInv, Publishing
<1>6. CASE PublishUnlock
  BY <1>6, <1>a DEF PublishUnlock, PublisherInv, Publishing
<1>7. CASE ExecuteRequest \/ SetDone \/ Notify
  <2>1. main.pc \in {"execute", "done", "notify"} /\ main'.pc \in {"done", "notify", "poll"}
        /\ UNCHANGED <<subMut, subs, log>>
    <3>1. CASE ExecuteRequest
      BY <1>a, <3>1, NextPlace DEF ExecuteRequest
    <3>2. CASE SetDone
      BY <1>a, <3>2, NextPlace DEF SetDone
    <3>3. CASE Notify
      BY <3>3 DEF Notify
    <3> QED BY <1>7, <3>1, <3>2, <3>3
  <2> QED BY <1>a, <2>1 DEF PublisherInv, Publishing
<1>8. ASSUME NEW t \in Thread, GuestStep(t) PROVE PublisherInv'
  <2>1. UNCHANGED <<main, subMut, log>>
    BY <1>8, <1>a, GuestKeepsMain
  <2>2. subs' = subs \/ subMut = Nobody
    BY <1>8, <1>a, GuestKeepsMain DEF SubscribePush
  <2>3. main.pc = "post" => subs' = subs
    BY <1>a, <2>2, MainLoopAssumption DEF PublisherInv, Publishing
  <2> QED BY <1>a, <2>1, <2>3 DEF PublisherInv, Publishing
<1> QED BY <1>1, <1>2, <1>3, <1>4, <1>5, <1>6, <1>7, <1>8, NextSplit DEF MainStep

\* Handles of subscriptions stay open.
LEMMA StaysOpen ==
  ASSUME TypeOK, Next, NEW u \in Thread, <<u, "sub">> \in open
  PROVE  <<u, "sub">> \in open'
<1>1. CASE \E t \in Thread : AskAny(t)
  BY <1>1, Asked
<1>2. CASE ~\E t \in Thread : AskAny(t)
  BY <1>2 DEF Next, MainStep, ThreadStep, AskAny, MouseEvent, CloseWindow, Poll, PublishLock, PublishGet,
              PublishPost, PublishUnlock, ExecuteRequest, SetDone, Notify, SubscribeNewref,
              SubscribePush, WaitTest, WaitSleep, SpuriousWake, Return, LeavePost, LeaveDelref
<1> QED BY <1>1, <1>2

\* A thread enters the list.
LEMMA Pushed ==
  ASSUME TypeOK, NEW t \in Thread, SubscribePush(t)
  PROVE  /\ DOMAIN subs = 1..Len(subs) /\ Len(subs) \in Nat
         /\ DOMAIN subs' = 1..Len(subs) + 1 /\ Len(subs') = Len(subs) + 1
         /\ subs'[Len(subs) + 1] = t
         /\ \A i \in 1..Len(subs) : subs'[i] = subs[i]
<1>1. subs' = Append(subs, t) /\ subs \in Seq(Thread)
  BY DEF SubscribePush, TypeOK
<1> QED BY <1>1

LEMMA SubscriptionStep == ASSUME IInv, Next PROVE SubscriptionInv'
<1>a. TypeOK /\ SubscriptionInv
  BY DEF IInv
<1>b. DOMAIN subs = 1..Len(subs) /\ Len(subs) \in Nat /\ \A i \in DOMAIN subs : subs[i] \in Thread
  BY <1>a DEF TypeOK
<1>1. ASSUME subs' = subs,
             \A u \in Thread : pc'[u] = "subscribe" => pc[u] = "subscribe"
      PROVE  SubscriptionInv'
  BY <1>1, <1>a, <1>b, StaysOpen DEF SubscriptionInv, Subscribed
<1>2. ASSUME NEW t \in Thread, SubscribePush(t) PROVE SubscriptionInv'
  <2>1. pc[t] = "subscribe" /\ pc' = [pc EXCEPT ![t] = "guest"]
    BY <1>2 DEF SubscribePush, Goto
  <2>2. <<t, "sub">> \in open /\ \A i \in DOMAIN subs : subs[i] # t
    BY <1>a, <2>1 DEF SubscriptionInv, Subscribed
  <2>3. ASSUME NEW i \in DOMAIN subs' PROVE <<subs'[i], "sub">> \in open'
    BY <1>2, <1>a, <1>b, <2>2, <2>3, Pushed, StaysOpen DEF SubscriptionInv
  <2>4. \A i, j \in DOMAIN subs' : subs'[i] = subs'[j] => i = j
    BY <1>2, <1>a, <1>b, <2>2, Pushed DEF SubscriptionInv
  <2>5. ASSUME NEW u \in Thread, pc'[u] = "subscribe"
        PROVE  <<u, "sub">> \in open' /\ ~\E i \in DOMAIN subs' : subs'[i] = u
    <3>1. u # t /\ pc[u] = "subscribe"
      BY <1>a, <2>1, <2>5 DEF TypeOK
    <3>2. <<u, "sub">> \in open /\ \A i \in DOMAIN subs : subs[i] # u
      BY <1>a, <3>1 DEF SubscriptionInv, Subscribed
    <3> QED BY <1>2, <1>a, <1>b, <3>1, <3>2, Pushed, StaysOpen
  <2> QED BY <2>3, <2>4, <2>5 DEF SubscriptionInv, Subscribed
<1>3. ASSUME NEW t \in Thread, SubscribeNewref(t) PROVE SubscriptionInv'
  <2>1. /\ <<t, "sub">> \notin open /\ <<t, "sub">> \in open'
        /\ pc' = [pc EXCEPT ![t] = "subscribe"] /\ subs' = subs
    BY <1>3 DEF SubscribeNewref, Goto
  <2>2. ~Subscribed(t)
    BY <1>a, <2>1 DEF SubscriptionInv, Subscribed
  <2> QED BY <1>a, <1>b, <2>1, <2>2, StaysOpen DEF SubscriptionInv, Subscribed, TypeOK
<1>4. CASE MouseEvent \/ CloseWindow \/ MainStep
  <2>1. subs' = subs
    BY <1>4 DEF MouseEvent, CloseWindow, MainStep, Poll, PublishLock, PublishGet, PublishPost,
                PublishUnlock, ExecuteRequest, SetDone, Notify
  <2>2. pc' = pc \/ Notify
    BY <1>4 DEF MouseEvent, CloseWindow, MainStep, Poll, PublishLock, PublishGet, PublishPost,
                PublishUnlock, ExecuteRequest, SetDone
  <2>3. \A u \in Thread : pc'[u] = "subscribe" => pc[u] = "subscribe"
    BY <1>a, <2>2 DEF Notify, TypeOK
  <2> QED BY <1>1, <2>1, <2>3
<1>5. ASSUME NEW t \in Thread, GuestStep(t), ~SubscribePush(t), ~SubscribeNewref(t)
      PROVE  SubscriptionInv'
  <2>1. subs' = subs
    BY <1>5, <1>a, GuestKeepsMain
  <2>2. AskAny(t) => pc' = [pc EXCEPT ![t] = "test"]
    BY <1>a, Asked
  <2>3. \A u \in Thread : pc'[u] = "subscribe" => pc[u] = "subscribe"
    BY <1>5, <1>a, <2>2 DEF GuestStep, WaitTest, WaitSleep, SpuriousWake, Return, LeavePost,
                            LeaveDelref, Goto, TypeOK
  <2> QED BY <1>1, <2>1, <2>3
<1> QED BY <1>2, <1>3, <1>4, <1>5, NextSplit

-----------------------------------------------------------------------------
(* Requests.                                                               *)

\* Nothing happens to the request of u.
LEMMA RequestStays ==
  ASSUME NEW u \in Thread, RequestOf(u),
         Queued(u)' = Queued(u), (InHand(u)' <=> InHand(u)), (Finishing(u)' <=> Finishing(u)),
         effects'[u] = effects[u], done'[u] = done[u],
         \/ pc'[u] = pc[u]
         \/ InRemote(u) /\ InRemote(u)'
         \/ {pc[u], pc'[u]} \cap {"test", "sleeping", "asleep", "return"} = {}
  PROVE  RequestOf(u)'
<1>1. Nowhere(u)' = Nowhere(u)
  BY DEF Nowhere
<1>2. (\E i \in DOMAIN events : Queued(u) = {i}) => \E i \in DOMAIN events' : Queued(u)' = {i}
  <2>1. \A i : i \in Queued(u)' => i \in DOMAIN events'
    BY DEF Queued
  <2> QED BY <2>1
<1> QED BY <1>1, <1>2 DEF RequestOf, InRemote

LEMMA RequestStep == ASSUME IInv, Next PROVE RequestInv'
<1>a. TypeOK /\ MainOK /\ HistoryOK /\ RequestInv
  BY DEF IInv
<1> SUFFICES ASSUME NEW u \in Thread PROVE RequestOf(u)'
  BY DEF RequestInv
<1>b. RequestOf(u)
  BY <1>a DEF RequestInv
<1>1. CASE MouseEvent \/ CloseWindow
  <2>1. PICK e \in Event : events' = Append(events, e) /\ e # Req(u)
    <3>1. CASE MouseEvent
      <4>1. Moved + 1 \in Mouse
        BY <3>1, <1>a, MovedNat, MainLoopAssumption DEF MouseEvent, Mouse
      <4>2. [kind |-> "mouse", m |-> Moved + 1] \in Event /\ [kind |-> "mouse", m |-> Moved + 1] # Req(u)
        BY <4>1, MadeEvents DEF Req
      <4> QED BY <3>1, <4>2 DEF MouseEvent
    <3>2. CASE CloseWindow
      <4>1. [kind |-> "quit"] \in Event /\ [kind |-> "quit"] # Req(u)
        BY MadeEvents DEF Req
      <4> QED BY <3>2, <4>1 DEF CloseWindow
    <3> QED BY <1>1, <3>1, <3>2
  <2>2. Queued(u)' = Queued(u)
    BY <1>a, <2>1, QueuedAppend DEF TypeOK
  <2>3. UNCHANGED <<main, pc, effects, done>>
    BY <1>1 DEF MouseEvent, CloseWindow
  <2> QED BY <1>b, <2>2, <2>3, RequestStays DEF InHand, Finishing
<1>2. CASE Poll
  <2>1. /\ Head(events) \in Event /\ main' = Dispatch(Head(events)) /\ main.pc = "poll"
        /\ events # <<>> /\ events' = Tail(events) /\ UNCHANGED <<pc, effects, done>>
    BY <1>2, <1>a DEF Poll, TypeOK
  <2>2. ~InHand(u) /\ ~Finishing(u) /\ ~Finishing(u)'
    BY <2>1, Dispatched DEF InHand, Finishing
  <2>3. InHand(u)' <=> (SurfEventRegistered /\ Head(events) = Req(u))
    <3>1. Head(events) = Req(u) => Head(events).kind = "request" /\ Head(events).t = u
      BY DEF Req
    <3>2. CASE Head(events).kind = "request" /\ SurfEventRegistered
      <4>1. main'.pc = "execute" /\ Head(events) = Req(main'.t)
        BY <2>1, <3>2, Dispatched
      <4>2. Head(events).t = main'.t
        BY <4>1 DEF Req
      <4> QED BY <3>1, <3>2, <4>1, <4>2 DEF InHand
    <3>3. CASE ~(Head(events).kind = "request" /\ SurfEventRegistered)
      BY <2>1, <3>1, <3>3, Dispatched DEF InHand
    <3> QED BY <3>2, <3>3
  <2>4. events \in Seq(Event)
    BY <1>a DEF TypeOK
  <2>5. CASE Queued(u) = {}
    <3>1. Queued(u)' = {} /\ Head(events) # Req(u)
      BY <2>1, <2>4, <2>5, QueuedTail
    <3> QED BY <1>b, <2>1, <2>2, <2>3, <2>5, <3>1, RequestStays
  <2>6. CASE Queued(u) # {}
    <3>1. PICK i \in DOMAIN events : Queued(u) = {i}
      BY <1>b, <2>6 DEF RequestOf, InRemote, Nowhere
    <3>2. InRemote(u) /\ effects[u] = 0 /\ ~done[u]
      BY <1>b, <2>2, <2>6 DEF RequestOf, InRemote, Nowhere
    <3>3. CASE Head(events) = Req(u)
      <4>1. Queued(u)' = {}
        BY <2>1, <2>4, <3>1, <3>3, QueuedTail
      <4> QED BY <2>1, <2>2, <2>3, <3>2, <3>3, <4>1 DEF RequestOf, InRemote, Nowhere
    <3>4. CASE Head(events) # Req(u)
      <4>1. Queued(u)' = {i - 1} /\ i - 1 \in DOMAIN events'
        BY <2>1, <2>4, <3>1, <3>4, QueuedTail
      <4> QED BY <2>1, <2>2, <2>3, <3>2, <3>4, <4>1 DEF RequestOf, InRemote, Nowhere
    <3> QED BY <3>3, <3>4
  <2> QED BY <2>5, <2>6
<1>3. CASE PublishLock \/ PublishGet \/ PublishPost \/ PublishUnlock
  <2>1. UNCHANGED <<events, pc, effects, done>>
    BY <1>3 DEF PublishLock, PublishGet, PublishPost, PublishUnlock
  <2>2. main.pc \in {"lock", "get", "post"} /\ main'.pc \in {"get", "post", "poll"}
    <3>1. CASE PublishGet
      BY <1>a, <3>1, NextPlace DEF PublishGet
    <3>2. CASE PublishLock \/ PublishPost \/ PublishUnlock
      BY <3>2 DEF PublishLock, PublishPost, PublishUnlock
    <3> QED BY <1>3, <3>1, <3>2
  <2>3. Queued(u)' = Queued(u) /\ (InHand(u)' <=> InHand(u)) /\ (Finishing(u)' <=> Finishing(u))
    BY <2>1, <2>2 DEF Queued, InHand, Finishing
  <2> QED BY <1>b, <2>1, <2>3, RequestStays
<1>4. CASE ExecuteRequest
  <2>1. /\ main.pc = "execute" /\ main.t \in Thread /\ main'.pc = "done" /\ main'.t = main.t
        /\ effects' = [effects EXCEPT ![main.t] = @ + 1] /\ UNCHANGED <<events, pc, done>>
    BY <1>4, <1>a, MainShape, NextPlace DEF ExecuteRequest
  <2>2. Queued(u)' = Queued(u)
    BY <2>1 DEF Queued
  <2>3. CASE u = main.t
    <3>1. InHand(u) /\ ~InHand(u)' /\ Finishing(u)'
      BY <2>1, <2>3 DEF InHand, Finishing
    <3>2. InRemote(u) /\ Queued(u) = {} /\ effects[u] = 0 /\ ~done[u]
      BY <1>b, <3>1 DEF RequestOf, InRemote, Nowhere, InHand, Finishing
    <3>3. effects'[u] = 1
      BY <1>a, <2>1, <2>3, <3>2 DEF HistoryOK
    <3> QED BY <2>1, <2>2, <3>1, <3>2, <3>3 DEF RequestOf, InRemote
  <2>4. CASE u # main.t
    <3>1. effects'[u] = effects[u] /\ (InHand(u)' <=> InHand(u)) /\ (Finishing(u)' <=> Finishing(u))
      BY <1>a, <2>1, <2>4 DEF HistoryOK, InHand, Finishing
    <3> QED BY <1>b, <2>1, <2>2, <3>1, RequestStays
  <2> QED BY <2>3, <2>4
<1>5. CASE SetDone
  <2>1. /\ main.pc = "done" /\ main.t \in Thread /\ main'.pc = "notify"
        /\ done' = [done EXCEPT ![main.t] = TRUE] /\ UNCHANGED <<events, pc, effects>>
    BY <1>5, <1>a, MainShape, NextPlace DEF SetDone
  <2>2. Queued(u)' = Queued(u) /\ ~InHand(u)' /\ ~Finishing(u)' /\ ~InHand(u)
    BY <2>1 DEF Queued, InHand, Finishing
  <2>3. CASE u = main.t
    <3>1. Finishing(u)
      BY <2>1, <2>3 DEF Finishing
    <3>2. InRemote(u) /\ Queued(u) = {} /\ effects[u] = 1
      BY <1>b, <3>1 DEF RequestOf, InRemote, Nowhere, InHand, Finishing
    <3>3. done'[u]
      BY <1>a, <2>1, <2>3 DEF TypeOK
    <3> QED BY <2>1, <2>2, <3>2, <3>3 DEF RequestOf, InRemote, Nowhere
  <2>4. CASE u # main.t
    <3>1. done'[u] = done[u] /\ ~Finishing(u)
      BY <1>a, <2>1, <2>4 DEF TypeOK, Finishing
    <3> QED BY <1>b, <2>1, <2>2, <3>1, RequestStays
  <2> QED BY <2>3, <2>4
<1>6. CASE Notify
  <2>1. /\ main.pc = "notify" /\ main'.pc = "poll"
        /\ pc' = [pc EXCEPT ![main.t] = IF @ = "asleep" THEN "test" ELSE @]
        /\ UNCHANGED <<events, effects, done>>
    BY <1>6 DEF Notify
  <2>2. Queued(u)' = Queued(u) /\ (InHand(u)' <=> InHand(u)) /\ (Finishing(u)' <=> Finishing(u))
    BY <2>1 DEF Queued, InHand, Finishing
  <2>3. pc'[u] = pc[u] \/ (InRemote(u) /\ InRemote(u)')
    BY <1>a, <2>1 DEF TypeOK, InRemote
  <2> QED BY <1>b, <2>1, <2>2, <2>3, RequestStays
<1>7. ASSUME NEW t \in Thread, SubscribeNewref(t) \/ SubscribePush(t) \/ LeaveDelref(t)
                                \/ WaitSleep(t) \/ SpuriousWake(t)
      PROVE  RequestOf(u)'
  <2>1. UNCHANGED <<events, main, effects, done>>
    BY <1>7 DEF SubscribeNewref, SubscribePush, LeaveDelref, WaitSleep, SpuriousWake
  <2>2. Queued(u)' = Queued(u) /\ (InHand(u)' <=> InHand(u)) /\ (Finishing(u)' <=> Finishing(u))
    BY <2>1 DEF Queued, InHand, Finishing
  <2>3. \/ pc'[u] = pc[u]
        \/ InRemote(u) /\ InRemote(u)'
        \/ {pc[u], pc'[u]} \cap {"test", "sleeping", "asleep", "return"} = {}
    BY <1>7, <1>a DEF SubscribeNewref, SubscribePush, LeaveDelref, WaitSleep, SpuriousWake, Goto,
                      TypeOK, InRemote
  <2> QED BY <1>b, <2>1, <2>2, <2>3, RequestStays
<1>8. ASSUME NEW t \in Thread, LeavePost(t) PROVE RequestOf(u)'
  <2>1. /\ events' = Append(events, [kind |-> "thread", t |-> t])
        /\ UNCHANGED <<main, effects, done>> /\ pc[t] = "guest" /\ pc' = [pc EXCEPT ![t] = "leave"]
    BY <1>8 DEF LeavePost, Goto
  <2>2. [kind |-> "thread", t |-> t] \in Event /\ [kind |-> "thread", t |-> t] # Req(u)
    BY MadeEvents DEF Req
  <2>3. Queued(u)' = Queued(u) /\ (InHand(u)' <=> InHand(u)) /\ (Finishing(u)' <=> Finishing(u))
    BY <1>a, <2>1, <2>2, QueuedAppend DEF TypeOK, InHand, Finishing
  <2>4. \/ pc'[u] = pc[u]
        \/ {pc[u], pc'[u]} \cap {"test", "sleeping", "asleep", "return"} = {}
    BY <1>a, <2>1 DEF TypeOK
  <2> QED BY <1>b, <2>1, <2>3, <2>4, RequestStays
<1>9. ASSUME NEW t \in Thread, WaitTest(t) PROVE RequestOf(u)'
  <2>1. /\ UNCHANGED <<events, main, effects, done>> /\ pc[t] = "test"
        /\ pc' = [pc EXCEPT ![t] = IF done[t] THEN "return" ELSE "sleeping"]
    BY <1>9 DEF WaitTest, Goto
  <2>2. Queued(u)' = Queued(u) /\ (InHand(u)' <=> InHand(u)) /\ (Finishing(u)' <=> Finishing(u))
    BY <2>1 DEF Queued, InHand, Finishing
  <2>3. CASE u = t /\ done[t]
    <3>1. pc'[u] = "return"
      BY <1>a, <2>1, <2>3 DEF TypeOK
    <3>2. Nowhere(u) /\ effects[u] = 1
      BY <1>b, <2>1, <2>3 DEF RequestOf, InRemote
    <3> QED BY <2>1, <2>2, <2>3, <3>1, <3>2 DEF RequestOf, InRemote, Nowhere
  <2>4. CASE ~(u = t /\ done[t])
    <3>1. pc'[u] = pc[u] \/ (InRemote(u) /\ InRemote(u)')
      BY <1>a, <2>1, <2>4 DEF TypeOK, InRemote
    <3> QED BY <1>b, <2>1, <2>2, <3>1, RequestStays
  <2> QED BY <2>3, <2>4
<1>10. ASSUME NEW t \in Thread, Return(t) PROVE RequestOf(u)'
  <2>1. /\ UNCHANGED <<events, main>> /\ pc[t] = "return" /\ pc' = [pc EXCEPT ![t] = "guest"]
        /\ done' = [done EXCEPT ![t] = FALSE] /\ effects' = [effects EXCEPT ![t] = 0]
    BY <1>10 DEF Return, Goto
  <2>2. Queued(u)' = Queued(u) /\ (InHand(u)' <=> InHand(u)) /\ (Finishing(u)' <=> Finishing(u))
    BY <2>1 DEF Queued, InHand, Finishing
  <2>3. CASE u = t
    <3>1. pc'[u] = "guest" /\ ~done'[u] /\ effects'[u] = 0
      BY <1>a, <2>1, <2>3 DEF TypeOK, HistoryOK
    <3>2. Nowhere(u)
      BY <1>b, <2>1, <2>3 DEF RequestOf
    <3> QED BY <2>2, <3>1, <3>2 DEF RequestOf, InRemote, Nowhere
  <2>4. CASE u # t
    <3>1. pc'[u] = pc[u] /\ done'[u] = done[u] /\ effects'[u] = effects[u]
      BY <1>a, <2>1, <2>4 DEF TypeOK, HistoryOK
    <3> QED BY <1>b, <2>2, <3>1, RequestStays
  <2> QED BY <2>3, <2>4
<1>11. ASSUME NEW t \in Thread, AskAny(t) PROVE RequestOf(u)'
  <2>1. /\ events' = Append(events, Req(t)) /\ UNCHANGED <<main, effects, done>>
        /\ pc[t] = "guest" /\ pc' = [pc EXCEPT ![t] = "test"] /\ Req(t) \in Event
    BY <1>11, <1>a, Asked, MadeEvents
  <2>2. (InHand(u)' <=> InHand(u)) /\ (Finishing(u)' <=> Finishing(u))
    BY <2>1 DEF InHand, Finishing
  <2>3. CASE u = t
    <3>1. Nowhere(u) /\ effects[u] = 0 /\ ~done[u]
      BY <1>b, <2>1, <2>3 DEF RequestOf
    <3>2. Queued(u)' = {Len(events) + 1}
      BY <1>a, <2>1, <2>3, <3>1, QueuedAppend DEF TypeOK, Nowhere
    <3>3. Len(events) + 1 \in DOMAIN events'
      BY <3>2 DEF Queued
    <3>4. pc'[u] = "test"
      BY <1>a, <2>1, <2>3 DEF TypeOK
    <3> QED BY <2>1, <2>2, <3>1, <3>2, <3>3, <3>4 DEF RequestOf, InRemote, Nowhere
  <2>4. CASE u # t
    <3>1. Req(t) # Req(u)
      BY <2>4 DEF Req
    <3>2. Queued(u)' = Queued(u)
      BY <1>a, <2>1, <3>1, QueuedAppend DEF TypeOK
    <3>3. pc'[u] = pc[u]
      BY <1>a, <2>1, <2>4 DEF TypeOK
    <3> QED BY <1>b, <2>1, <2>2, <3>2, <3>3, RequestStays
  <2> QED BY <2>3, <2>4
<1> QED BY <1>1, <1>2, <1>3, <1>4, <1>5, <1>6, <1>7, <1>8, <1>9, <1>10, <1>11, NextSplit
        DEF MainStep, GuestStep

-----------------------------------------------------------------------------
(* Delivery.                                                               *)

LEMMA SubSeqOfAppend ==
  ASSUME NEW S, NEW q \in Seq(S), NEW x \in S, NEW s \in Nat, s <= Len(q)
  PROVE  SubSeq(Append(q, x), s + 1, Len(q)) = SubSeq(q, s + 1, Len(q))
  OBVIOUS

LEMMA SubSeqGrows ==
  ASSUME NEW S, NEW q \in Seq(S), NEW s \in Nat, s < Len(q)
  PROVE  Append(SubSeq(q, s + 1, Len(q) - 1), q[Len(q)]) = SubSeq(q, s + 1, Len(q))
  OBVIOUS

LEMMA SubSeqNone ==
  ASSUME NEW S, NEW q \in Seq(S), NEW s \in Nat, s <= Len(q)
  PROVE  SubSeq(q, s + 1, s) = <<>>
  OBVIOUS

\* Nothing is delivered to u and no message is published.
LEMMA DeliveryStays ==
  ASSUME NEW u \in Thread, DeliveryOf(u), got'[u] = got[u], since'[u] = since[u], log' = log,
         Subscribed(u)' <=> Subscribed(u),
         Subscribed(u) => (Pending(u)' <=> Pending(u))
  PROVE  DeliveryOf(u)'
  BY DEF DeliveryOf

LEMMA DeliveryStep == ASSUME IInv, Next PROVE DeliveryInv'
<1>a. TypeOK /\ MainOK /\ HistoryOK /\ PublisherInv /\ SubscriptionInv /\ DeliveryInv
  BY DEF IInv
<1> SUFFICES ASSUME NEW u \in Thread PROVE DeliveryOf(u)'
  BY DEF DeliveryInv
<1>b. DeliveryOf(u)
  BY <1>a DEF DeliveryInv
<1>c. DOMAIN subs = 1..Len(subs) /\ Len(subs) \in Nat /\ log \in Seq(Mouse) /\ Len(log) \in Nat
      /\ since[u] \in Nat
  BY <1>a DEF TypeOK, HistoryOK
<1>1. CASE MouseEvent \/ CloseWindow
  <2>1. UNCHANGED <<main, subs, got, since, log>>
    BY <1>1 DEF MouseEvent, CloseWindow
  <2> QED BY <1>b, <2>1, DeliveryStays DEF Pending, Publishing, Subscribed
<1>2. CASE Poll
  <2>1. /\ Head(events) \in Event /\ main' = Dispatch(Head(events)) /\ main.pc = "poll"
        /\ log' = IF Head(events).kind = "mouse" THEN Append(log, Head(events).m) ELSE log
        /\ UNCHANGED <<subs, got, since>>
    BY <1>2, <1>a DEF Poll, TypeOK
  <2>2. ~Pending(u) /\ (Subscribed(u)' <=> Subscribed(u))
    BY <2>1 DEF Pending, Publishing, Subscribed
  <2>3. CASE Head(events).kind = "mouse"
    <3>1. main'.pc = "lock" /\ Head(events).m \in Mouse
      BY <2>1, <2>3, Dispatched
    <3>2. PICK x \in Mouse : log' = Append(log, x)
      BY <2>1, <2>3, <3>1
    <3>3. Len(log') = Len(log) + 1
      BY <1>c, <3>2
    <3>4. CASE Subscribed(u)
      <4>1. since[u] <= Len(log) /\ got[u] = SubSeq(log, since[u] + 1, Len(log))
        BY <1>b, <2>2, <3>4 DEF DeliveryOf
      <4>2. Len(log') - 1 = Len(log) /\ since[u] < Len(log')
        BY <1>c, <3>3, <4>1
      <4>3. SubSeq(log', since[u] + 1, Len(log)) = SubSeq(log, since[u] + 1, Len(log))
        BY <1>c, <3>2, <4>1, SubSeqOfAppend
      <4>4. Pending(u)'
        BY <3>1 DEF Pending
      <4> QED BY <2>1, <2>2, <3>4, <4>1, <4>2, <4>3, <4>4 DEF DeliveryOf
    <3>5. CASE ~Subscribed(u)
      BY <1>b, <2>1, <2>2, <3>5 DEF DeliveryOf
    <3> QED BY <3>4, <3>5
  <2>4. CASE Head(events).kind # "mouse"
    <3>1. main'.pc \in {"poll", "execute", "exited"}
      BY <2>1, <2>4, Dispatched
    <3> QED BY <1>b, <2>1, <2>2, <2>4, <3>1, DeliveryStays DEF Pending, Publishing
  <2> QED BY <2>3, <2>4
<1>3. CASE PublishLock
  <2>1. /\ main.pc = "lock" /\ main'.pc = "get" /\ main'.i = 1
        /\ UNCHANGED <<subs, got, since, log>>
    BY <1>3 DEF PublishLock
  <2>2. (Subscribed(u)' <=> Subscribed(u)) /\ Pending(u) /\ (Subscribed(u) => Pending(u)')
    BY <1>c, <2>1 DEF Subscribed, Pending, Publishing
  <2> QED BY <1>b, <2>1, <2>2, DeliveryStays
<1>4. CASE PublishGet
  <2>1. /\ main.pc = "get" /\ UNCHANGED <<subs, got, since, log>>
        /\ main' = main \/ (main'.pc = "post" /\ main'.i = main.i)
    BY <1>4, <1>a, NextPlace DEF PublishGet
  <2>2. (Subscribed(u)' <=> Subscribed(u)) /\ (Pending(u)' <=> Pending(u))
    BY <2>1 DEF Subscribed, Pending, Publishing
  <2> QED BY <1>b, <2>1, <2>2, DeliveryStays
<1>5. CASE PublishPost
  <2>1. /\ main.pc = "post" /\ main'.pc = "get" /\ main'.i = main.i + 1
        /\ got' = [got EXCEPT ![subs[main.i]] = Append(@, main.m)]
        /\ UNCHANGED <<subs, since, log>>
    BY <1>5 DEF PublishPost
  <2>2. main.i \in 1..Len(subs) /\ log # <<>> /\ main.m = log[Len(log)]
    BY <1>a, <1>c, <2>1, MainShape DEF PublisherInv
  <2>3. Subscribed(u)' <=> Subscribed(u)
    BY <2>1 DEF Subscribed
  <2>4. CASE u = subs[main.i]
    <3>1. Subscribed(u) /\ Pending(u)
      BY <1>c, <2>1, <2>2, <2>4 DEF Subscribed, Pending, Publishing
    <3>2. ~Pending(u)'
      <4>1. \A i \in main.i + 1..Len(subs) : subs[i] # u
        BY <1>a, <1>c, <2>2, <2>4 DEF SubscriptionInv
      <4> QED BY <2>1, <4>1 DEF Pending, Publishing
    <3>3. since[u] < Len(log) /\ got[u] = SubSeq(log, since[u] + 1, Len(log) - 1)
      BY <1>b, <3>1 DEF DeliveryOf
    <3>4. got'[u] = Append(got[u], log[Len(log)])
      BY <1>a, <2>1, <2>2, <2>4 DEF TypeOK
    <3>5. got'[u] = SubSeq(log, since[u] + 1, Len(log))
      BY <1>c, <3>3, <3>4, SubSeqGrows
    <3>6. Subscribed(u)' /\ since' = since /\ log' = log /\ since[u] <= Len(log)
      BY <1>c, <2>1, <2>3, <3>1, <3>3
    <3> QED BY <3>2, <3>5, <3>6 DEF DeliveryOf
  <2>5. CASE u # subs[main.i]
    <3>1. got'[u] = got[u]
      BY <1>a, <2>1, <2>5 DEF TypeOK
    <3>2. Pending(u)' <=> Pending(u)
      BY <1>c, <2>1, <2>2, <2>5 DEF Pending, Publishing
    <3> QED BY <1>b, <2>1, <2>3, <3>1, <3>2, DeliveryStays
  <2> QED BY <2>4, <2>5
<1>6. CASE PublishUnlock
  <2>1. /\ main.pc = "get" /\ main.i > Len(subs) /\ main'.pc = "poll" /\ main.i \in Nat
        /\ UNCHANGED <<subs, got, since, log>>
    BY <1>6, <1>a, MainShape DEF PublishUnlock
  <2>2. (Subscribed(u)' <=> Subscribed(u)) /\ ~Pending(u) /\ ~Pending(u)'
    BY <1>c, <2>1 DEF Subscribed, Pending, Publishing
  <2> QED BY <1>b, <2>1, <2>2, DeliveryStays
<1>7. CASE ExecuteRequest \/ SetDone \/ Notify
  <2>1. main.pc \in {"execute", "done", "notify"} /\ UNCHANGED <<subs, got, since, log>>
    BY <1>7 DEF ExecuteRequest, SetDone, Notify
  <2>2. main'.pc \in {"done", "notify", "poll"}
    <3>1. CASE ExecuteRequest
      BY <1>a, <3>1, NextPlace DEF ExecuteRequest
    <3>2. CASE SetDone
      BY <1>a, <3>2, NextPlace DEF SetDone
    <3>3. CASE Notify
      BY <3>3 DEF Notify
    <3> QED BY <1>7, <3>1, <3>2, <3>3
  <2>3. (Subscribed(u)' <=> Subscribed(u)) /\ ~Pending(u) /\ ~Pending(u)'
    BY <2>1, <2>2 DEF Subscribed, Pending, Publishing
  <2> QED BY <1>b, <2>1, <2>3, DeliveryStays
<1>8. ASSUME NEW t \in Thread, SubscribePush(t) PROVE DeliveryOf(u)'
  <2>1. /\ pc[t] = "subscribe" /\ UNCHANGED <<main, got, log>> /\ ~Publishing
        /\ since' = [since EXCEPT ![t] = Len(log) - (IF main.pc = "lock" THEN 1 ELSE 0)]
    BY <1>8, <1>a, MainLoopAssumption DEF SubscribePush, Goto, PublisherInv
  <2>2. (Pending(u) <=> main.pc = "lock") /\ (Pending(u)' <=> main.pc = "lock")
    BY <2>1 DEF Pending, Publishing
  <2>3. CASE u = t
    <3>1. ~Subscribed(u) /\ got[u] = <<>>
      BY <1>a, <1>b, <2>1, <2>3 DEF SubscriptionInv, DeliveryOf
    <3>2. Subscribed(u)'
      BY <1>8, <1>a, <1>c, <2>3, Pushed DEF Subscribed
    <3>3. since'[u] = Len(log) - (IF main.pc = "lock" THEN 1 ELSE 0)
      BY <1>a, <2>1, <2>3 DEF HistoryOK
    <3>4. main.pc = "lock" => Len(log) # 0
      BY <1>a, <1>c DEF PublisherInv
    <3>5. CASE main.pc = "lock"
      <4>1. since'[u] = Len(log) - 1 /\ since'[u] \in Nat /\ since'[u] < Len(log)
        BY <1>c, <3>3, <3>4, <3>5
      <4>2. SubSeq(log, since'[u] + 1, Len(log) - 1) = <<>>
        BY <1>c, <4>1, SubSeqNone
      <4> QED BY <2>1, <2>2, <3>1, <3>2, <3>5, <4>1, <4>2 DEF DeliveryOf
    <3>6. CASE main.pc # "lock"
      <4>1. since'[u] = Len(log)
        BY <1>c, <3>3, <3>6
      <4>2. SubSeq(log, since'[u] + 1, Len(log)) = <<>>
        BY <1>c, <4>1, SubSeqNone
      <4>3. since'[u] <= Len(log)
        BY <1>c, <4>1
      <4> QED BY <2>1, <2>2, <3>1, <3>2, <3>6, <4>2, <4>3 DEF DeliveryOf
    <3> QED BY <3>5, <3>6
  <2>4. CASE u # t
    <3>1. since'[u] = since[u]
      BY <1>a, <2>1, <2>4 DEF HistoryOK
    <3>2. Subscribed(u)' <=> Subscribed(u)
      BY <1>8, <1>a, <1>c, <2>4, Pushed DEF Subscribed
    <3> QED BY <1>b, <2>1, <2>2, <3>1, <3>2, DeliveryStays
  <2> QED BY <2>3, <2>4
<1>9. ASSUME NEW t \in Thread, GuestStep(t), ~SubscribePush(t) PROVE DeliveryOf(u)'
  <2>1. UNCHANGED <<main, subs, got, log>>
    BY <1>9, <1>a, GuestKeepsMain
  <2>2. since' = since
    <3>1. CASE AskAny(t)
      BY <1>a, <3>1, Asked
    <3>2. CASE ~AskAny(t)
      BY <1>9, <3>2 DEF GuestStep, SubscribeNewref, WaitTest, WaitSleep, SpuriousWake, Return,
                        LeavePost, LeaveDelref
    <3> QED BY <3>1, <3>2
  <2> QED BY <1>b, <2>1, <2>2, DeliveryStays DEF Subscribed, Pending, Publishing
<1> QED BY <1>1, <1>2, <1>3, <1>4, <1>5, <1>6, <1>7, <1>8, <1>9, NextSplit DEF MainStep

-----------------------------------------------------------------------------
(* Theorems.                                                               *)

LEMMA IInvInit == Init => IInv
<1> SUFFICES ASSUME Init PROVE IInv
  OBVIOUS
<1> USE DEF Init
<1>1. TypeOK /\ HistoryOK
  <2>1. /\ <<>> \in Seq(Event) /\ <<>> \in Seq(Thread) /\ <<>> \in Seq(Mouse)
        /\ open \subseteq Handle
    BY DEF Handle
  <2>2. main.pc = "poll"
    OBVIOUS
  <2> QED BY <2>1, <2>2 DEF TypeOK, HistoryOK
<1>2. MainOK
  BY MadePlaces DEF MainOK
<1>3. PublisherInv /\ SubscriptionInv
  BY DEF PublisherInv, Publishing, SubscriptionInv, Subscribed
<1>4. RequestInv
  BY DEF RequestInv, RequestOf, InRemote, Nowhere, Queued, InHand, Finishing
<1>5. DeliveryInv
  BY DEF DeliveryInv, DeliveryOf, Subscribed
<1> QED BY <1>1, <1>2, <1>3, <1>4, <1>5 DEF IInv

LEMMA IInvStep == IInv /\ [Next]_vars => IInv'
<1> SUFFICES ASSUME IInv, [Next]_vars PROVE IInv'
  OBVIOUS
<1>1. CASE Next
  BY <1>1, TypesStep, PublisherStep, SubscriptionStep, RequestStep, DeliveryStep DEF IInv
<1>2. CASE UNCHANGED vars
  <2> USE <1>2 DEF vars
  <2>1. (TypeOK /\ MainOK /\ HistoryOK)'
    BY DEF IInv, TypeOK, MainOK, HistoryOK
  <2>2. (PublisherInv /\ SubscriptionInv)'
    BY DEF IInv, PublisherInv, Publishing, SubscriptionInv, Subscribed
  <2>3. RequestInv'
    BY ZenonT(30) DEF IInv, RequestInv, RequestOf, InRemote, Nowhere, Queued, InHand, Finishing
  <2>4. DeliveryInv'
    BY DEF IInv, DeliveryInv, DeliveryOf, Pending, Publishing, Subscribed
  <2> QED BY <2>1, <2>2, <2>3, <2>4 DEF IInv
<1> QED BY <1>1, <1>2

LEMMA IInvAlways == Spec => []IInv
  BY IInvInit, IInvStep, PTL DEF Spec

\* The subscriptions refer to open handles, a request is in one place and is
\* executed exactly once before its frame goes away (sdl_ui_gmq.cpp,
\* ksurf_sdl.cpp).
THEOREM MainLoopAccounted == Spec => []Accounted
<1>1. IInv => Accounted
  <2> SUFFICES ASSUME IInv PROVE Accounted
    OBVIOUS
  <2>1. TypeOK /\ SubscriptionsOpen
    BY DEF IInv, SubscriptionInv, SubscriptionsOpen
  <2>2. RequestInv
    BY DEF IInv
  <2>3. RequestAccounted
    <3> SUFFICES ASSUME SurfEventRegistered, NEW t \in Thread, InRemote(t)
                 PROVE  Cardinality(Queued(t)) + (IF InHand(t) THEN 1 ELSE 0) + effects[t] = 1
      BY DEF RequestAccounted, InHand
    <3>1. \/ (\E i \in DOMAIN events : Queued(t) = {i}) /\ ~InHand(t) /\ effects[t] = 0
          \/ Queued(t) = {} /\ InHand(t) /\ effects[t] = 0
          \/ Queued(t) = {} /\ ~InHand(t) /\ effects[t] = 1
      BY <2>2 DEF RequestInv, RequestOf, Nowhere, InHand, Finishing
    <3>2. Cardinality({}) = 0 /\ \A i : Cardinality({i}) = 1
      BY FS_EmptySet, FS_Singleton
    <3>3. CASE (\E i \in DOMAIN events : Queued(t) = {i}) /\ ~InHand(t) /\ effects[t] = 0
      <4>1. Cardinality(Queued(t)) = 1
        BY <3>2, <3>3
      <4> QED BY <3>3, <4>1
    <3>4. CASE Queued(t) = {} /\ InHand(t) /\ effects[t] = 0
      BY <3>2, <3>4
    <3>5. CASE Queued(t) = {} /\ ~InHand(t) /\ effects[t] = 1
      BY <3>2, <3>5
    <3> QED BY <3>1, <3>3, <3>4, <3>5
  <2>4. ResultBeforeReturn
    <3>1. \A t \in Thread : pc[t] = "return" => effects[t] = 1
      BY <2>2 DEF RequestInv, RequestOf
    <3>2. ASSUME main.pc \in {"execute", "done"} PROVE InRemote(main.t)
      <4>1. main.t \in Thread
        BY <3>2, MainShape DEF IInv
      <4>2. InHand(main.t) \/ Finishing(main.t)
        BY <3>2 DEF InHand, Finishing
      <4> QED BY <2>2, <4>1, <4>2 DEF RequestInv, RequestOf, InRemote, Nowhere
    <3> QED BY <3>1, <3>2 DEF ResultBeforeReturn
  <2> QED BY <2>1, <2>3, <2>4 DEF Accounted
<1> QED BY <1>1, IInvAlways, PTL

\* A subscriber gets every message once and in order, from the first that is
\* published after it has entered the list (uw_win32_mq_publish_global_message).
THEOREM DeliveryCorrect == Spec => []SubscribersGetAll
<1>1. IInv => SubscribersGetAll
  <2> SUFFICES ASSUME IInv, NEW t \in Thread
               PROVE  IF Subscribed(t)
                      THEN got[t] = SubSeq(log, since[t] + 1, since[t] + Delivered(t))
                      ELSE got[t] = <<>>
    BY DEF SubscribersGetAll, Subscribed
  <2>1. DeliveryOf(t) /\ since[t] \in Nat /\ Len(log) \in Nat
    BY DEF IInv, DeliveryInv, HistoryOK
  <2>2. Delivered(t) = Len(log) - since[t] - (IF Pending(t) THEN 1 ELSE 0)
    BY DEF Delivered, Pending, Publishing
  <2>3. since[t] + Delivered(t) = IF Pending(t) THEN Len(log) - 1 ELSE Len(log)
    BY <2>1, <2>2
  <2> QED BY <2>1, <2>3 DEF DeliveryOf
<1> QED BY <1>1, IInvAlways, PTL

\* The assertion in uw_ht_get_thread never fails for a subscription, so of the
\* crashes modelled only the notification of a frame that is gone happens
\* (surf_request::actually_execute).
THEOREM OnlyLateNotifyCrashes == Spec => CrashIsLateNotify
<1>1. IInv /\ [Next]_vars => [crashed' # crashed => main.pc = "notify" /\ ~InRemote(main.t)]_vars
  <2> SUFFICES ASSUME IInv, Next, crashed' # crashed
               PROVE  main.pc = "notify" /\ ~InRemote(main.t)
    OBVIOUS
  <2>1. TypeOK /\ MainOK /\ SubscriptionInv
    BY DEF IInv
  <2>2. ~PublishGet
    <3> SUFFICES ASSUME PublishGet PROVE FALSE
      OBVIOUS
    <3>1. main.i \in DOMAIN subs
      BY <2>1, MainShape DEF PublishGet, TypeOK
    <3> QED BY <2>1, <3>1 DEF PublishGet, SubscriptionInv
  <2>3. \A t \in Thread : ~GuestStep(t)
    BY <2>1, GuestKeepsMain
  <2>4. Notify
    BY <2>2, <2>3, NextSplit DEF MainStep, MouseEvent, CloseWindow, Poll, PublishLock, PublishPost,
                                 PublishUnlock, ExecuteRequest, SetDone
  <2>5. crashed = FALSE /\ main.pc = "notify"
    BY <2>1, <2>4 DEF Notify, Running, TypeOK
  <2>6. CASE InRemote(main.t)
    <3>1. crashed' = FALSE
      BY <2>4, <2>6 DEF Notify
    <3> QED BY <2>5, <3>1
  <2> QED BY <2>5, <2>6
<1> QED BY <1>1, IInvAlways, PTL DEF Spec, CrashIsLateNotify
=============================================================================
