------------------------------ MODULE Win32Mq ------------------------------
(***************************************************************************)
(* The win32 message queue of one thread (src/uwin/win32_mq.cpp): a singly *)
(* linked list protected by queue_mutex, and a semaphore queue_sem that    *)
(* counts the messages.  Any thread posts; only the owner pops.            *)
(*                                                                         *)
(* The list is modelled cell by cell, the cells come from and go back to   *)
(* the heap, and every step between two synchronisation calls is an action *)
(* of its own: the owner's sem_wait does not take the mutex.               *)
(***************************************************************************)
EXTENDS Integers, Sequences, FiniteSets

CONSTANTS Producer,     \* other threads, which post to the queue
          Owner,        \* the thread whose queue it is; it may post too
          Node,         \* heap cells for uw_win32_msg_internal
          Msg,
          NULL,
          NoMsg

ASSUME MqAssumption == /\ Owner \notin Producer
                       /\ NULL \notin Node \cup Producer \cup {Owner}
                       /\ NoMsg \notin Msg

VARIABLES first, last,  \* ends of the list
          next,         \* uw_win32_msg_internal::next
          val,          \* uw_win32_msg_internal::msg
          heap,         \* cells that are not allocated
          queue_mutex,  \* its holder, or NULL
          queue_sem,    \* its value
          pc,
          cell,         \* local variable msg (post) or res (pop)
          res,          \* what the last pop or try_pop returned
          list          \* auxiliary: the cells linked, in order

shared_vars == <<first, last, next, val, heap, queue_sem>>
vars == <<shared_vars, queue_mutex, pc, cell, res, list>>

Thread == Producer \cup {Owner}

\* uw_win32_mq_create.
Init == /\ first = NULL /\ last = NULL
        /\ next \in [Node -> {NULL}]
        /\ val \in [Node -> {NoMsg}]
        /\ heap = Node
        /\ queue_mutex = NULL
        /\ queue_sem = 0
        /\ pc = [t \in Thread |-> "idle"]
        /\ cell = [t \in Thread |-> NULL]
        /\ res = NoMsg
        /\ list = <<>>

Goto(t, from, to) == pc[t] = from /\ pc' = [pc EXCEPT ![t] = to]

-----------------------------------------------------------------------------
(* uw_win32_mq_post.                                                       *)

\* uw_new0 and the initialisation of the cell.
Alloc(p, n, m) ==
    /\ Goto(p, "idle", "post_lock")
    /\ n \in heap
    /\ heap' = heap \ {n}
    /\ val' = [val EXCEPT ![n] = m]
    /\ next' = [next EXCEPT ![n] = NULL]
    /\ cell' = [cell EXCEPT ![p] = n]
    /\ UNCHANGED <<first, last, queue_sem, queue_mutex, res, list>>

PostLock(p) ==
    /\ Goto(p, "post_lock", "link")
    /\ queue_mutex = NULL
    /\ queue_mutex' = p
    /\ UNCHANGED <<shared_vars, cell, res, list>>

\* Mutant of Link: the message is put at the front.
LinkFront(p) ==
    /\ Goto(p, "link", "sem_post")
    /\ first' = cell[p]
    /\ next' = [next EXCEPT ![cell[p]] = first]
    /\ last' = IF first = NULL THEN cell[p] ELSE last
    /\ list' = <<cell[p]>> \o list
    /\ UNCHANGED <<val, heap, queue_sem, queue_mutex, cell, res>>

Link(p) ==
    /\ Goto(p, "link", "sem_post")
    /\ first' = IF first = NULL THEN cell[p] ELSE first
    /\ next' = IF first = NULL THEN next ELSE [next EXCEPT ![last] = cell[p]]
    /\ last' = cell[p]
    /\ list' = Append(list, cell[p])
    /\ UNCHANGED <<val, heap, queue_sem, queue_mutex, cell, res>>

\* Mutant of SemPost: the semaphore signals "not empty" only.
SemPostIfEmpty(p) ==
    /\ Goto(p, "sem_post", "post_unlock")
    /\ queue_sem' = IF first = last THEN queue_sem + 1 ELSE queue_sem
    /\ UNCHANGED <<first, last, next, val, heap, queue_mutex, cell, res, list>>

SemPost(p) ==
    /\ Goto(p, "sem_post", "post_unlock")
    /\ queue_sem' = queue_sem + 1
    /\ UNCHANGED <<first, last, next, val, heap, queue_mutex, cell, res, list>>

PostUnlock(p) ==
    /\ Goto(p, "post_unlock", "idle")
    /\ queue_mutex' = NULL
    /\ cell' = [cell EXCEPT ![p] = NULL]
    /\ UNCHANGED <<shared_vars, res, list>>

-----------------------------------------------------------------------------
(* uw_win32_mq_try_pop and uw_win32_mq_pop, which differ in their first    *)
(* step only.                                                              *)

\* sem_trywait fails: -1 is returned.
TryPopEmpty ==
    /\ pc[Owner] = "idle"
    /\ queue_sem = 0
    /\ res' = NoMsg
    /\ UNCHANGED <<shared_vars, queue_mutex, pc, cell, list>>

CallPop ==
    /\ Goto(Owner, "idle", "sem_wait")
    /\ UNCHANGED <<shared_vars, queue_mutex, cell, res, list>>

\* Mutant of SemWait: looks at the value without taking it.
SemWaitPeek ==
    /\ pc[Owner] \in {"idle", "sem_wait"}
    /\ pc' = [pc EXCEPT ![Owner] = "pop_lock"]
    /\ queue_sem > 0
    /\ UNCHANGED <<shared_vars, queue_mutex, cell, res, list>>

\* sem_trywait succeeds, or sem_wait returns.
SemWait ==
    /\ pc[Owner] \in {"idle", "sem_wait"}
    /\ pc' = [pc EXCEPT ![Owner] = "pop_lock"]
    /\ queue_sem > 0
    /\ queue_sem' = queue_sem - 1
    /\ UNCHANGED <<first, last, next, val, heap, queue_mutex, cell, res, list>>

PopLock ==
    /\ Goto(Owner, "pop_lock", "unlink")
    /\ queue_mutex = NULL
    /\ queue_mutex' = Owner
    /\ UNCHANGED <<shared_vars, cell, res, list>>

\* assert(mq->first != NULL && mq->last != NULL) guards the removal; a queue
\* whose assertion fails stops here (PopAssertion says it never does).
Unlink ==
    /\ Goto(Owner, "unlink", "pop_unlock")
    /\ first # NULL /\ last # NULL
    /\ cell' = [cell EXCEPT ![Owner] = first]
    /\ first' = IF first = last THEN NULL ELSE next[first]
    /\ last' = IF first = last THEN NULL ELSE last
    /\ list' = Tail(list)
    /\ UNCHANGED <<next, val, heap, queue_sem, queue_mutex, res>>

PopUnlock ==
    /\ Goto(Owner, "pop_unlock", "copy")
    /\ queue_mutex' = NULL
    /\ UNCHANGED <<shared_vars, cell, res, list>>

\* *out_message = res->msg; uw_free(res).
CopyOut ==
    /\ Goto(Owner, "copy", "idle")
    /\ res' = val[cell[Owner]]
    /\ heap' = heap \cup {cell[Owner]}
    /\ cell' = [cell EXCEPT ![Owner] = NULL]
    /\ UNCHANGED <<first, last, next, val, queue_sem, queue_mutex, list>>

-----------------------------------------------------------------------------
Post(p) == PostLock(p) \/ Link(p) \/ SemPost(p) \/ PostUnlock(p)

Pop == SemWait \/ PopLock \/ Unlink \/ PopUnlock \/ CopyOut

Next == \/ \E p \in Thread :
             \/ \E n \in heap, m \in Msg : Alloc(p, n, m)
             \/ Post(p)
        \/ TryPopEmpty
        \/ CallPop
        \/ Pop

Spec == Init /\ [][Next]_vars

\* Threads inside an operation keep running, the owner keeps popping, and
\* the mutex does not starve a thread for ever.
FairSpec == /\ Spec
            /\ \A p \in Thread : WF_vars(Post(p)) /\ SF_vars(PostLock(p))
            /\ WF_vars(Pop)
            /\ SF_vars(SemWait) /\ SF_vars(PopLock)

-----------------------------------------------------------------------------
(* Properties.                                                             *)

Pc == {"idle", "post_lock", "link", "sem_post", "post_unlock",
       "sem_wait", "pop_lock", "unlink", "pop_unlock", "copy"}

\* Types; only the owner pops.
TypeOK == /\ first \in Node \cup {NULL}
          /\ last \in Node \cup {NULL}
          /\ next \in [Node -> Node \cup {NULL}]
          /\ val \in [Node -> Msg \cup {NoMsg}]
          /\ heap \subseteq Node
          /\ queue_mutex \in Thread \cup {NULL}
          /\ queue_sem \in Nat
          /\ pc \in [Thread -> Pc]
          /\ cell \in [Thread -> Node \cup {NULL}]
          /\ res \in Msg \cup {NoMsg}
          /\ list \in Seq(Node)

\* "we are the only consumer, so the sem value may not decrease without us
\* helping" (win32_mq.cpp:160): when sem_wait has returned there is a message
\* in the list, and the assertion in try_pop and pop holds.
PopAssertion == pc[Owner] = "unlink" => first # NULL /\ last # NULL

\* The owner has taken a count of the semaphore and no message for it yet.
InFlight == pc[Owner] \in {"pop_lock", "unlink"}

\* A message is linked but the semaphore does not count it yet.
Unposted == \E p \in Thread : pc[p] = "sem_post"

\* The semaphore counts the messages of the list, but for the one a poster
\* has linked and not yet counted and the one the owner has counted down and
\* not yet unlinked.
SemCountsMessages == queue_sem + (IF InFlight THEN 1 ELSE 0)
                               + (IF Unposted THEN 1 ELSE 0) = Len(list)

\* first, last and the next pointers describe the list that was built, which
\* holds no cell twice.
ListShape ==
    /\ list = <<>> => first = NULL /\ last = NULL
    /\ list # <<>> => first = list[1] /\ last = list[Len(list)]
    /\ \A i \in 1 .. Len(list) :
          next[list[i]] = IF i = Len(list) THEN NULL ELSE list[i + 1]
    /\ \A i, j \in 1 .. Len(list) : list[i] = list[j] => i = j

\* No cell of the list, and none a thread is about to link or to copy from,
\* has been given back to the heap or belongs to someone else.
CellsOwned ==
    /\ \A i \in 1 .. Len(list) :
          /\ list[i] \notin heap
          /\ \A t \in Thread : cell[t] = list[i] =>
                pc[t] \in {"sem_post", "post_unlock"}
    /\ \A t \in Thread : cell[t] # NULL => cell[t] \notin heap
    /\ \A t, u \in Thread : cell[t] = cell[u] /\ cell[t] # NULL => t = u

\* The queue as its users see it: a message is in it from the sem_post of its
\* poster to the sem_wait of the owner.
lo == IF InFlight THEN 2 ELSE 1
hi == IF Unposted THEN Len(list) - 1 ELSE Len(list)
abs_q == [i \in 1 .. (hi - lo + 1) |-> val[list[i + lo - 1]]]
abs_res == IF InFlight THEN val[list[1]]
           ELSE IF pc[Owner] \in {"pop_unlock", "copy"} THEN val[cell[Owner]]
           ELSE res

Queue == INSTANCE Fifo WITH q <- abs_q, res <- abs_res

\* The queue implements Fifo: nothing is lost, duplicated or reordered, and
\* try_pop returns -1 only when every posted message has been taken.
ImplementsFifo == Queue!Spec

\* A message that was linked is taken out, and its cell is freed.
MessagesDelivered == \A n \in Node :
    (\E i \in 1 .. Len(list) : list[i] = n) ~> n \in heap
=============================================================================
