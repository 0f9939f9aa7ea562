--------------------------- MODULE Win32MqProofs ---------------------------
(***************************************************************************)
(* Proofs about Win32Mq for any number of posting threads, any heap and    *)
(* any set of messages: the assertion of the pops holds, and the queue     *)
(* implements Fifo.                                                        *)
(***************************************************************************)
EXTENDS Win32Mq, TLAPS

\* The mutex is held exactly by the thread between its lock and its unlock.
MutexInv == \A t \in Thread :
    pc[t] \in {"link", "sem_post", "post_unlock", "unlink", "pop_unlock"}
        <=> queue_mutex = t

\* Only the owner pops.
OwnerInv == \A t \in Producer :
    pc[t] \in {"idle", "post_lock", "link", "sem_post", "post_unlock"}

\* What a thread knows about the cell it holds, and that cells hold messages.
CellInv ==
    /\ \A t \in Thread :
         /\ pc[t] \in {"idle", "sem_wait", "pop_lock", "unlink"}
                <=> cell[t] = NULL
         /\ pc[t] \in {"post_lock", "link"} => next[cell[t]] = NULL
         /\ pc[t] \in {"sem_post", "post_unlock"} =>
                list # <<>> /\ cell[t] = list[Len(list)]
         /\ cell[t] # NULL => val[cell[t]] \in Msg
    /\ \A i \in 1 .. Len(list) : val[list[i]] \in Msg

\* The inductive invariant.
IInv == /\ TypeOK
        /\ MutexInv
        /\ OwnerInv
        /\ CellInv
        /\ CellsOwned
        /\ ListShape
        /\ SemCountsMessages

\* What the provers need to know of the tail of a non-empty sequence.
LEMMA TailFacts ==
  ASSUME NEW S, NEW s \in Seq(S), s # <<>>
  PROVE  /\ Len(s) \in Nat /\ Len(s) >= 1
         /\ s[1] \in S /\ s[Len(s)] \in S
         /\ Tail(s) \in Seq(S)
         /\ Len(Tail(s)) = Len(s) - 1
         /\ \A i \in 1 .. (Len(s) - 1) :
               Tail(s)[i] = s[i + 1] /\ i + 1 \in 1 .. Len(s)
  OBVIOUS

\* An index that is not the last one has a successor.
LEMMA NextIndex ==
  \A n \in Nat : \A i \in 1 .. (n - 1) : i # n - 1 => i + 1 \in 1 .. (n - 1)
  OBVIOUS

\* The initial states satisfy the invariant.
LEMMA IInvInit == Init => IInv
<1> SUFFICES ASSUME Init PROVE IInv
  OBVIOUS
<1> USE MqAssumption DEF Init, Thread
<1>1. TypeOK
  BY DEF TypeOK, Pc
<1>2. MutexInv /\ OwnerInv /\ CellInv
  BY DEF MutexInv, OwnerInv, CellInv
<1>3. CellsOwned /\ ListShape
  BY DEF CellsOwned, ListShape
<1>4. SemCountsMessages
  BY DEF SemCountsMessages, InFlight, Unposted
<1> QED BY <1>1, <1>2, <1>3, <1>4 DEF IInv

\* Every step preserves the invariant.
LEMMA IInvStep == IInv /\ [Next]_vars => IInv'
<1> SUFFICES ASSUME IInv, [Next]_vars PROVE IInv'
  OBVIOUS
<1> USE MqAssumption DEF IInv, TypeOK, Pc, Thread, Goto, shared_vars
<1>1. ASSUME NEW t \in Thread, NEW n \in heap, NEW m \in Msg, Alloc(t, n, m)
      PROVE  IInv'
  <2>1. TypeOK'
    BY <1>1 DEF Alloc
  <2>2. MutexInv'
    BY <1>1 DEF Alloc, MutexInv
  <2>3. OwnerInv'
    BY <1>1 DEF Alloc, OwnerInv
  <2>4. CellInv'
    BY <1>1 DEF Alloc, CellInv, CellsOwned, ListShape, MutexInv, OwnerInv
  <2>5. CellsOwned'
    BY <1>1 DEF Alloc, CellsOwned, CellInv, ListShape, MutexInv, OwnerInv
  <2>6. ListShape'
    BY <1>1 DEF Alloc, ListShape, CellInv, CellsOwned, MutexInv, OwnerInv
  <2>7. SemCountsMessages'
    BY <1>1 DEF Alloc, SemCountsMessages, InFlight, Unposted, MutexInv, OwnerInv, ListShape
  <2> HIDE DEF TypeOK
  <2> QED BY <2>1, <2>2, <2>3, <2>4, <2>5, <2>6, <2>7
<1>2. ASSUME NEW t \in Thread, PostLock(t)
      PROVE  IInv'
  <2>1. TypeOK'
    BY <1>2 DEF PostLock
  <2>2. MutexInv'
    BY <1>2 DEF PostLock, MutexInv
  <2>3. OwnerInv'
    BY <1>2 DEF PostLock, OwnerInv
  <2>4. CellInv'
    BY <1>2 DEF PostLock, CellInv, CellsOwned, ListShape, MutexInv, OwnerInv
  <2>5. CellsOwned'
    BY <1>2 DEF PostLock, CellsOwned, CellInv, ListShape, MutexInv, OwnerInv
  <2>6. ListShape'
    BY <1>2 DEF PostLock, ListShape, CellInv, CellsOwned, MutexInv, OwnerInv
  <2>7. SemCountsMessages'
    BY <1>2 DEF PostLock, SemCountsMessages, InFlight, Unposted, MutexInv, OwnerInv, ListShape
  <2> HIDE DEF TypeOK
  <2> QED BY <2>1, <2>2, <2>3, <2>4, <2>5, <2>6, <2>7
<1>3. ASSUME NEW t \in Thread, Link(t)
      PROVE  IInv'
  <2>a. cell[t] \in Node /\ (first # NULL => last \in Node)
    BY <1>3 DEF Link, CellInv, ListShape
  <2>1. TypeOK'
    BY <1>3, <2>a DEF Link
  <2>2. MutexInv'
    BY <1>3 DEF Link, MutexInv
  <2>3. OwnerInv'
    BY <1>3 DEF Link, OwnerInv
  <2>4. CellInv'
    BY <1>3 DEF Link, CellInv, CellsOwned, ListShape, MutexInv, OwnerInv
  <2>5. CellsOwned'
    BY <1>3 DEF Link, CellsOwned, CellInv, ListShape, MutexInv, OwnerInv
  <2>6. ListShape'
    BY <1>3 DEF Link, ListShape, CellInv, CellsOwned, MutexInv, OwnerInv
  <2>7. SemCountsMessages'
    BY <1>3 DEF Link, SemCountsMessages, InFlight, Unposted, MutexInv, OwnerInv, ListShape
  <2> HIDE DEF TypeOK
  <2> QED BY <2>1, <2>2, <2>3, <2>4, <2>5, <2>6, <2>7
<1>4. ASSUME NEW t \in Thread, SemPost(t)
      PROVE  IInv'
  <2>1. TypeOK'
    BY <1>4 DEF SemPost
  <2>2. MutexInv'
    BY <1>4 DEF SemPost, MutexInv
  <2>3. OwnerInv'
    BY <1>4 DEF SemPost, OwnerInv
  <2>4. CellInv'
    BY <1>4 DEF SemPost, CellInv, CellsOwned, ListShape, MutexInv, OwnerInv
  <2>5. CellsOwned'
    BY <1>4 DEF SemPost, CellsOwned, CellInv, ListShape, MutexInv, OwnerInv
  <2>6. ListShape'
    BY <1>4 DEF SemPost, ListShape, CellInv, CellsOwned, MutexInv, OwnerInv
  <2>7. SemCountsMessages'
    BY <1>4 DEF SemPost, SemCountsMessages, InFlight, Unposted, MutexInv, OwnerInv, ListShape
  <2> HIDE DEF TypeOK
  <2> QED BY <2>1, <2>2, <2>3, <2>4, <2>5, <2>6, <2>7
<1>5. ASSUME NEW t \in Thread, PostUnlock(t)
      PROVE  IInv'
  <2>1. TypeOK'
    BY <1>5 DEF PostUnlock
  <2>2. MutexInv'
    BY <1>5 DEF PostUnlock, MutexInv
  <2>3. OwnerInv'
    BY <1>5 DEF PostUnlock, OwnerInv
  <2>4. CellInv'
    BY <1>5 DEF PostUnlock, CellInv, CellsOwned, ListShape, MutexInv, OwnerInv
  <2>5. CellsOwned'
    BY <1>5 DEF PostUnlock, CellsOwned, CellInv, ListShape, MutexInv, OwnerInv
  <2>6. ListShape'
    BY <1>5 DEF PostUnlock, ListShape, CellInv, CellsOwned, MutexInv, OwnerInv
  <2>7. SemCountsMessages'
    BY <1>5 DEF PostUnlock, SemCountsMessages, InFlight, Unposted, MutexInv, OwnerInv, ListShape
  <2> HIDE DEF TypeOK
  <2> QED BY <2>1, <2>2, <2>3, <2>4, <2>5, <2>6, <2>7
<1>6. ASSUME TryPopEmpty
      PROVE  IInv'
  <2>1. TypeOK'
    BY <1>6 DEF TryPopEmpty
  <2>2. MutexInv'
    BY <1>6 DEF TryPopEmpty, MutexInv
  <2>3. OwnerInv'
    BY <1>6 DEF TryPopEmpty, OwnerInv
  <2>4. CellInv'
    BY <1>6 DEF TryPopEmpty, CellInv, CellsOwned, ListShape, MutexInv, OwnerInv
  <2>5. CellsOwned'
    BY <1>6 DEF TryPopEmpty, CellsOwned, CellInv, ListShape, MutexInv, OwnerInv
  <2>6. ListShape'
    BY <1>6 DEF TryPopEmpty, ListShape, CellInv, CellsOwned, MutexInv, OwnerInv
  <2>7. SemCountsMessages'
    BY <1>6 DEF TryPopEmpty, SemCountsMessages, InFlight, Unposted, MutexInv, OwnerInv, ListShape
  <2> HIDE DEF TypeOK
  <2> QED BY <2>1, <2>2, <2>3, <2>4, <2>5, <2>6, <2>7
<1>7. ASSUME CallPop
      PROVE  IInv'
  <2>1. TypeOK'
    BY <1>7 DEF CallPop
  <2>2. MutexInv'
    BY <1>7 DEF CallPop, MutexInv
  <2>3. OwnerInv'
    BY <1>7 DEF CallPop, OwnerInv
  <2>4. CellInv'
    BY <1>7 DEF CallPop, CellInv, CellsOwned, ListShape, MutexInv, OwnerInv
  <2>5. CellsOwned'
    BY <1>7 DEF CallPop, CellsOwned, CellInv, ListShape, MutexInv, OwnerInv
  <2>6. ListShape'
    BY <1>7 DEF CallPop, ListShape, CellInv, CellsOwned, MutexInv, OwnerInv
  <2>7. SemCountsMessages'
    BY <1>7 DEF CallPop, SemCountsMessages, InFlight, Unposted, MutexInv, OwnerInv, ListShape
  <2> HIDE DEF TypeOK
  <2> QED BY <2>1, <2>2, <2>3, <2>4, <2>5, <2>6, <2>7
<1>8. ASSUME SemWait
      PROVE  IInv'
  <2>1. TypeOK'
    BY <1>8 DEF SemWait
  <2>2. MutexInv'
    BY <1>8 DEF SemWait, MutexInv
  <2>3. OwnerInv'
    BY <1>8 DEF SemWait, OwnerInv
  <2>4. CellInv'
    BY <1>8 DEF SemWait, CellInv, CellsOwned, ListShape, MutexInv, OwnerInv
  <2>5. CellsOwned'
    BY <1>8 DEF SemWait, CellsOwned, CellInv, ListShape, MutexInv, OwnerInv
  <2>6. ListShape'
    BY <1>8 DEF SemWait, ListShape, CellInv, CellsOwned, MutexInv, OwnerInv
  <2>7. SemCountsMessages'
    BY <1>8 DEF SemWait, SemCountsMessages, InFlight, Unposted, MutexInv, OwnerInv, ListShape
  <2> HIDE DEF TypeOK
  <2> QED BY <2>1, <2>2, <2>3, <2>4, <2>5, <2>6, <2>7
<1>9. ASSUME PopLock
      PROVE  IInv'
  <2>1. TypeOK'
    BY <1>9 DEF PopLock
  <2>2. MutexInv'
    BY <1>9 DEF PopLock, MutexInv
  <2>3. OwnerInv'
    BY <1>9 DEF PopLock, OwnerInv
  <2>4. CellInv'
    BY <1>9 DEF PopLock, CellInv, CellsOwned, ListShape, MutexInv, OwnerInv
  <2>5. CellsOwned'
    BY <1>9 DEF PopLock, CellsOwned, CellInv, ListShape, MutexInv, OwnerInv
  <2>6. ListShape'
    BY <1>9 DEF PopLock, ListShape, CellInv, CellsOwned, MutexInv, OwnerInv
  <2>7. SemCountsMessages'
    BY <1>9 DEF PopLock, SemCountsMessages, InFlight, Unposted, MutexInv, OwnerInv, ListShape
  <2> HIDE DEF TypeOK
  <2> QED BY <2>1, <2>2, <2>3, <2>4, <2>5, <2>6, <2>7
<1>10. ASSUME Unlink
      PROVE  IInv'
  <2>a. list # <<>> /\ first = list[1] /\ last = list[Len(list)]
    BY <1>10 DEF Unlink, ListShape
  <2>b. /\ Len(list) \in Nat /\ Len(list) >= 1
        /\ first \in Node /\ last \in Node
        /\ Tail(list) \in Seq(Node)
        /\ Len(Tail(list)) = Len(list) - 1
        /\ \A i \in 1 .. (Len(list) - 1) :
              Tail(list)[i] = list[i + 1] /\ i + 1 \in 1 .. Len(list)
    BY <2>a, TailFacts
  <2>c. next[first] \in Node \cup {NULL}
    BY <2>b
  <2>1. TypeOK'
    BY <1>10, <2>b, <2>c DEF Unlink
  <2>2. MutexInv'
    BY <1>10 DEF Unlink, MutexInv
  <2>3. OwnerInv'
    BY <1>10 DEF Unlink, OwnerInv
  <2>4. CellInv'
    BY <1>10 DEF Unlink, CellInv, CellsOwned, ListShape, MutexInv, OwnerInv
  <2>5. CellsOwned'
    BY <1>10 DEF Unlink, CellsOwned, CellInv, ListShape, MutexInv, OwnerInv
  <2>6. ListShape'
    <3>1. \A i, j \in 1 .. Len(list) : list[i] = list[j] => i = j
      BY DEF ListShape
    <3>a. \A i \in 1 .. Len(list) :
             next[list[i]] = IF i = Len(list) THEN NULL ELSE list[i + 1]
      BY DEF ListShape
    <3> HIDE DEF IInv
    <3>2. first = last <=> Len(list) = 1
      BY <2>a, <2>b, <3>1
    <3>3. CASE Len(list) = 1
      <4>1. list' = Tail(list) /\ first' = NULL /\ last' = NULL
        BY <1>10, <3>2, <3>3 DEF Unlink
      <4>2. list' = <<>>
        BY <4>1, <2>b, <3>3
      <4>3. Len(list') = 0
        BY <4>2
      <4> QED BY <4>1, <4>2, <4>3 DEF ListShape
    <3>4. CASE Len(list) # 1
      <4>1. /\ first' = next[first] /\ last' = last /\ next' = next
            /\ list' = Tail(list)
        BY <1>10, <3>2, <3>4 DEF Unlink
      <4>2. next[first] = list[2]
        <5>1. 1 \in 1 .. Len(list) /\ 1 # Len(list) /\ 1 + 1 = 2
          BY <2>b, <3>4
        <5>2. next[list[1]] = list[1 + 1]
          BY <5>1, <3>a
        <5> QED BY <5>1, <5>2, <2>a
      <4>3. list' # <<>> /\ first' = list'[1] /\ last' = list'[Len(list')]
        <5>1. /\ 1 \in 1 .. (Len(list) - 1) /\ 1 + 1 = 2
              /\ Len(list) - 1 \in 1 .. (Len(list) - 1)
              /\ Len(list) - 1 + 1 = Len(list)
          BY <2>b, <3>4
        <5>2. Tail(list)[1] = list[2]
          BY <5>1, <2>b
        <5>3. Tail(list)[Len(list) - 1] = list[Len(list)]
          BY <5>1, <2>b
        <5>4. list' # <<>>
          <6>1. Len(list') # 0 /\ Len(<<>>) = 0
            BY <4>1, <2>b, <3>4
          <6> QED BY <6>1
        <5> QED BY <5>2, <5>3, <5>4, <4>1, <4>2, <2>a, <2>b
      <4>4. ASSUME NEW i \in 1 .. Len(list')
            PROVE  next'[list'[i]] = IF i = Len(list') THEN NULL ELSE list'[i + 1]
        <5>1. /\ i \in 1 .. (Len(list) - 1) /\ i + 1 \in 1 .. Len(list)
              /\ list'[i] = list[i + 1]
          BY <4>1, <4>4, <2>b
        <5>2. next[list[i + 1]] =
                 IF i + 1 = Len(list) THEN NULL ELSE list[i + 1 + 1]
          BY <5>1, <3>a
        <5>3. i # Len(list) - 1 => i + 1 \in 1 .. (Len(list) - 1)
          BY <5>1, <2>b, NextIndex
        <5>4. i # Len(list) - 1 => Tail(list)[i + 1] = list[i + 1 + 1]
          BY <5>3, <2>b
        <5>5. i = Len(list) - 1 <=> i + 1 = Len(list)
          BY <5>1, <2>b
        <5> QED BY <5>1, <5>2, <5>4, <5>5, <4>1, <2>b
      <4>5. ASSUME NEW i \in 1 .. Len(list'), NEW j \in 1 .. Len(list'),
                   list'[i] = list'[j]
            PROVE  i = j
        <5>1. list[i + 1] = list[j + 1]
          BY <4>1, <4>5, <2>b
        <5>2. i + 1 \in 1 .. Len(list) /\ j + 1 \in 1 .. Len(list)
          BY <4>1, <4>5, <2>b
        <5> QED BY <5>1, <5>2, <3>1
      <4> QED BY <4>1, <4>3, <4>4, <4>5 DEF ListShape
    <3> QED BY <3>3, <3>4
  <2>7. SemCountsMessages'
    BY <1>10 DEF Unlink, SemCountsMessages, InFlight, Unposted, MutexInv, OwnerInv, ListShape
  <2> HIDE DEF TypeOK
  <2> QED BY <2>1, <2>2, <2>3, <2>4, <2>5, <2>6, <2>7
<1>11. ASSUME PopUnlock
      PROVE  IInv'
  <2>1. TypeOK'
    BY <1>11 DEF PopUnlock
  <2>2. MutexInv'
    BY <1>11 DEF PopUnlock, MutexInv
  <2>3. OwnerInv'
    BY <1>11 DEF PopUnlock, OwnerInv
  <2>4. CellInv'
    BY <1>11 DEF PopUnlock, CellInv, CellsOwned, ListShape, MutexInv, OwnerInv
  <2>5. CellsOwned'
    BY <1>11 DEF PopUnlock, CellsOwned, CellInv, ListShape, MutexInv, OwnerInv
  <2>6. ListShape'
    BY <1>11 DEF PopUnlock, ListShape, CellInv, CellsOwned, MutexInv, OwnerInv
  <2>7. SemCountsMessages'
    BY <1>11 DEF PopUnlock, SemCountsMessages, InFlight, Unposted, MutexInv, OwnerInv, ListShape
  <2> HIDE DEF TypeOK
  <2> QED BY <2>1, <2>2, <2>3, <2>4, <2>5, <2>6, <2>7
<1>12. ASSUME CopyOut
      PROVE  IInv'
  <2>a. cell[Owner] \in Node /\ val[cell[Owner]] \in Msg
    BY <1>12 DEF CopyOut, CellInv
  <2>1. TypeOK'
    BY <1>12, <2>a DEF CopyOut
  <2>2. MutexInv'
    BY <1>12 DEF CopyOut, MutexInv
  <2>3. OwnerInv'
    BY <1>12 DEF CopyOut, OwnerInv
  <2>4. CellInv'
    BY <1>12 DEF CopyOut, CellInv, CellsOwned, ListShape, MutexInv, OwnerInv
  <2>5. CellsOwned'
    BY <1>12 DEF CopyOut, CellsOwned, CellInv, ListShape, MutexInv, OwnerInv
  <2>6. ListShape'
    BY <1>12 DEF CopyOut, ListShape, CellInv, CellsOwned, MutexInv, OwnerInv
  <2>7. SemCountsMessages'
    BY <1>12 DEF CopyOut, SemCountsMessages, InFlight, Unposted, MutexInv, OwnerInv, ListShape
  <2> HIDE DEF TypeOK
  <2> QED BY <2>1, <2>2, <2>3, <2>4, <2>5, <2>6, <2>7
<1>13. CASE UNCHANGED vars
  BY <1>13 DEF vars, MutexInv, OwnerInv, CellInv, CellsOwned, ListShape,
               SemCountsMessages, InFlight, Unposted
<1> QED BY <1>1, <1>2, <1>3, <1>4, <1>5, <1>6, <1>7, <1>8, <1>9, <1>10, <1>11, <1>12, <1>13 DEF Next, Post, Pop

\* The types are right in every state the code can reach.
THEOREM TypeCorrect == Spec => []TypeOK
<1>1. Spec => []IInv
  BY IInvInit, IInvStep, PTL DEF Spec
<1>2. IInv => TypeOK
  BY DEF IInv
<1> QED BY <1>1, <1>2, PTL

\* The semaphore counts the messages, up to the ones in transit.
THEOREM SemCountCorrect == Spec => []SemCountsMessages
<1>1. Spec => []IInv
  BY IInvInit, IInvStep, PTL DEF Spec
<1>2. IInv => SemCountsMessages
  BY DEF IInv
<1> QED BY <1>1, <1>2, PTL

\* first, last and next always describe the list of the linked cells.
THEOREM ListCorrect == Spec => [](ListShape /\ CellsOwned)
<1>1. Spec => []IInv
  BY IInvInit, IInvStep, PTL DEF Spec
<1>2. IInv => ListShape /\ CellsOwned
  BY DEF IInv
<1> QED BY <1>1, <1>2, PTL

\* CellsOwned: a cell is in the list, with one thread, or in the heap, so that
\* uw_free in the pop never frees a cell that is still linked (win32_mq.cpp:201).
THEOREM CellsCorrect == Spec => []CellsOwned
<1>1. Spec => [](ListShape /\ CellsOwned)
  BY ListCorrect
<1> QED BY <1>1, PTL

\* The assertion of try_pop and pop never fails.
THEOREM PopAssertionHolds == Spec => []PopAssertion
<1>1. Spec => []IInv
  BY IInvInit, IInvStep, PTL DEF Spec
<1>2. IInv => PopAssertion
  <2> SUFFICES ASSUME IInv, pc[Owner] = "unlink" PROVE first # NULL /\ last # NULL
    BY DEF PopAssertion
  <2>1. Len(list) >= 1 /\ list # <<>>
    BY DEF IInv, TypeOK, SemCountsMessages, InFlight
  <2>2. first \in Node /\ last \in Node
    BY <2>1 DEF IInv, TypeOK, ListShape
  <2> QED BY <2>2, MqAssumption
<1> QED BY <1>1, <1>2, PTL

-----------------------------------------------------------------------------
(* Refinement of Fifo.                                                     *)

\* What the provers need to know of a sequence with an element appended.
LEMMA AppendFacts ==
  ASSUME NEW S, NEW s \in Seq(S), NEW e \in S
  PROVE  /\ Append(s, e) \in Seq(S)
         /\ Len(Append(s, e)) = Len(s) + 1
         /\ \A i \in 1 .. Len(s) : Append(s, e)[i] = s[i]
         /\ Append(s, e)[Len(s) + 1] = e
  OBVIOUS

\* Two sequences with the same elements are equal.
LEMMA SeqEqual ==
  ASSUME NEW S, NEW s \in Seq(S), NEW u \in Seq(S), Len(s) = Len(u),
         \A i \in 1 .. Len(s) : s[i] = u[i]
  PROVE  s = u
  OBVIOUS

\* The abstract queue has queue_sem messages, all of them in linked cells.
AbsOK == /\ hi - lo + 1 = queue_sem
         /\ \A i \in 1 .. queue_sem : i + lo - 1 \in 1 .. Len(list)
         /\ InFlight => list # <<>>
         /\ abs_q = [i \in 1 .. queue_sem |-> val[list[i + lo - 1]]]
         /\ abs_q \in Seq(Msg)
         /\ Len(abs_q) = queue_sem

\* AbsOK follows from the invariant.
LEMMA AbsFacts == IInv => AbsOK
<1> SUFFICES ASSUME IInv PROVE AbsOK
  OBVIOUS
<1>1. queue_sem \in Nat /\ Len(list) \in Nat
  BY DEF IInv, TypeOK
<1>2. hi - lo + 1 = queue_sem /\ hi \in Int /\ lo \in {1, 2}
  BY <1>1 DEF IInv, SemCountsMessages, hi, lo
<1>3. \A i \in 1 .. queue_sem : i + lo - 1 \in 1 .. Len(list)
  BY <1>1 DEF IInv, SemCountsMessages, lo
<1>4. InFlight => list # <<>>
  BY <1>1 DEF IInv, SemCountsMessages
<1>5. abs_q = [i \in 1 .. queue_sem |-> val[list[i + lo - 1]]]
  BY <1>2 DEF abs_q
<1>6. \A i \in 1 .. queue_sem : val[list[i + lo - 1]] \in Msg
  BY <1>3 DEF IInv, CellInv
<1>7. abs_q \in Seq(Msg) /\ Len(abs_q) = queue_sem
  BY <1>1, <1>5, <1>6
<1> QED BY <1>2, <1>3, <1>4, <1>5, <1>7 DEF AbsOK

\* Every step of the queue is a step of Fifo or changes nothing a user sees.
LEMMA FifoStep == IInv /\ IInv' /\ [Next]_vars => [Queue!Next]_<<abs_q, abs_res>>
<1> SUFFICES ASSUME IInv, IInv', [Next]_vars
             PROVE  [Queue!Next]_<<abs_q, abs_res>>
  OBVIOUS
<1> USE MqAssumption DEF Thread, Goto, shared_vars
<1>a. /\ hi - lo + 1 = queue_sem
      /\ \A i \in 1 .. queue_sem : i + lo - 1 \in 1 .. Len(list)
      /\ InFlight => list # <<>>
      /\ abs_q = [i \in 1 .. queue_sem |-> val[list[i + lo - 1]]]
      /\ abs_q \in Seq(Msg) /\ Len(abs_q) = queue_sem
  BY AbsFacts DEF AbsOK
<1>p. AbsOK'
  BY AbsFacts, PTL
<1>b. /\ abs_q' = [i \in 1 .. queue_sem' |-> val'[list'[i + lo' - 1]]]
      /\ abs_q' \in Seq(Msg) /\ Len(abs_q') = queue_sem'
  BY <1>p DEF AbsOK
<1>c. TypeOK /\ MutexInv /\ CellInv /\ CellsOwned /\ ListShape /\ OwnerInv
  BY DEF IInv
<1>d. queue_sem \in Nat /\ Len(list) \in Nat /\ lo \in {1, 2}
  BY <1>c DEF TypeOK, lo
<1>e. abs_q \in Seq(Msg) /\ Len(abs_q) = queue_sem
  BY <1>a
<1>f. abs_q' \in Seq(Msg) /\ Len(abs_q') = queue_sem'
  BY <1>b
<1>1. ASSUME NEW t \in Thread, NEW n \in heap, NEW m \in Msg, Alloc(t, n, m)
      PROVE  UNCHANGED <<abs_q, abs_res>>
  <2>1. queue_sem' = queue_sem /\ lo' = lo /\ list' = list
    BY <1>1, <1>c DEF Alloc, lo, InFlight, TypeOK
  <2>2. \A i \in 1 .. Len(list) : val'[list[i]] = val[list[i]]
    BY <1>1, <1>c DEF Alloc, TypeOK, CellsOwned
  <2>3. abs_q' = abs_q
    BY <2>1, <2>2, <1>a, <1>b
  <2>4. InFlight' <=> InFlight
    BY <1>1, <1>c DEF Alloc, InFlight, TypeOK
  <2>5. InFlight => val'[list[1]] = val[list[1]]
    BY <2>2, <1>a, <1>d
  <2>6. pc[Owner] \in {"pop_unlock", "copy"} => val'[cell[Owner]] = val[cell[Owner]]
    BY <1>1, <1>c DEF Alloc, TypeOK, CellsOwned, CellInv
  <2>7. abs_res' = abs_res
    BY <1>1, <1>c, <2>1, <2>4, <2>5, <2>6 DEF Alloc, abs_res, TypeOK
  <2> QED BY <2>3, <2>7
<1>2. ASSUME NEW t \in Thread, PostLock(t) \/ PostUnlock(t)
      PROVE  UNCHANGED <<abs_q, abs_res>>
  <2>1. queue_sem' = queue_sem /\ lo' = lo /\ list' = list /\ val' = val
    BY <1>2, <1>c DEF PostLock, PostUnlock, lo, InFlight, TypeOK
  <2>2. abs_q' = abs_q
    BY <2>1, <1>a, <1>b
  <2>3. abs_res' = abs_res
    BY <1>2, <1>c, <2>1 DEF PostLock, PostUnlock, abs_res, InFlight, TypeOK
  <2> QED BY <2>2, <2>3
<1>3. ASSUME NEW t \in Thread, Link(t)
      PROVE  UNCHANGED <<abs_q, abs_res>>
  <2>1. /\ queue_sem' = queue_sem /\ lo' = lo /\ val' = val
        /\ list' = Append(list, cell[t])
    BY <1>3, <1>c DEF Link, lo, InFlight, TypeOK
  <2>2. \A i \in 1 .. Len(list) : list'[i] = list[i]
    BY <2>1, <1>c DEF TypeOK
  <2>3. abs_q' = abs_q
    BY <2>1, <2>2, <1>a, <1>b
  <2>4. InFlight => list'[1] = list[1]
    BY <2>2, <1>a, <1>d
  <2>5. abs_res' = abs_res
    BY <1>3, <1>c, <2>1, <2>4 DEF Link, abs_res, InFlight, TypeOK
  <2> QED BY <2>3, <2>5
<1>4. ASSUME NEW t \in Thread, SemPost(t)
      PROVE  Queue!Next
  <2>1. /\ queue_sem' = queue_sem + 1 /\ lo' = lo /\ val' = val /\ list' = list
        /\ cell' = cell
    BY <1>4, <1>c DEF SemPost, lo, InFlight, TypeOK
  <2>2. ~ Unposted'
    BY <1>4, <1>c DEF SemPost, Unposted, MutexInv, TypeOK
  <2>3. queue_sem' + lo' - 1 = Len(list)
    BY <2>1, <2>2, <1>d DEF IInv, SemCountsMessages, lo
  <2>4. cell[t] = list[Len(list)] /\ val[cell[t]] \in Msg
    BY <1>4, <1>c DEF SemPost, CellInv, TypeOK
  <2>5. abs_q' = Append(abs_q, val[cell[t]])
    <3>1. /\ Append(abs_q, val[cell[t]]) \in Seq(Msg)
          /\ Len(Append(abs_q, val[cell[t]])) = queue_sem + 1
      BY <1>e, <2>4, AppendFacts
    <3>2. ASSUME NEW i \in 1 .. (queue_sem + 1)
          PROVE  abs_q'[i] = Append(abs_q, val[cell[t]])[i]
      <4>1. CASE i \in 1 .. queue_sem
        <5>1. Append(abs_q, val[cell[t]])[i] = abs_q[i]
          BY <4>1, <1>e, <2>4, AppendFacts
        <5>2. i \in 1 .. queue_sem'
          BY <4>1, <1>d, <2>1
        <5> QED BY <4>1, <5>1, <5>2, <1>a, <1>b, <2>1
      <4>2. CASE i = queue_sem + 1
        <5>1. Append(abs_q, val[cell[t]])[i] = val[cell[t]]
          BY <4>2, <1>e, <2>4, AppendFacts
        <5>2. i \in 1 .. queue_sem' /\ i = queue_sem'
          BY <4>2, <1>d, <2>1
        <5> QED BY <5>1, <5>2, <1>b, <2>1, <2>3, <2>4
      <4>3. i \in 1 .. queue_sem \/ i = queue_sem + 1
        BY <1>d
      <4> QED BY <4>1, <4>2, <4>3
    <3> QED BY <3>1, <3>2, <1>f, <2>1, SeqEqual
  <2>6. abs_res' = abs_res
    BY <1>4, <1>c, <2>1 DEF SemPost, abs_res, InFlight, TypeOK
  <2> QED BY <2>4, <2>5, <2>6 DEF Queue!Next, Queue!Post
<1>5. ASSUME TryPopEmpty
      PROVE  Queue!Next
  <2>1. /\ queue_sem' = queue_sem /\ queue_sem = 0 /\ lo' = lo
        /\ val' = val /\ list' = list /\ ~ InFlight'
        /\ pc'[Owner] = "idle" /\ res' = NoMsg
    BY <1>5 DEF TryPopEmpty, lo, InFlight
  <2>2. abs_q = <<>> /\ abs_q' = <<>>
    BY <2>1, <1>a, <1>b
  <2>3. abs_res' = NoMsg
    BY <2>1 DEF abs_res
  <2> QED BY <2>2, <2>3 DEF Queue!Next, Queue!FindEmpty
<1>6. ASSUME CallPop \/ PopLock \/ PopUnlock
      PROVE  UNCHANGED <<abs_q, abs_res>>
  <2>1. queue_sem' = queue_sem /\ lo' = lo /\ list' = list /\ val' = val
    BY <1>6, <1>c DEF CallPop, PopLock, PopUnlock, lo, InFlight, TypeOK
  <2>2. abs_q' = abs_q
    BY <2>1, <1>a, <1>b
  <2>3. abs_res' = abs_res
    BY <1>6, <1>c, <2>1 DEF CallPop, PopLock, PopUnlock, abs_res, InFlight, TypeOK
  <2> QED BY <2>2, <2>3
<1>7. ASSUME SemWait
      PROVE  Queue!Next
  <2>1. /\ queue_sem > 0 /\ queue_sem' = queue_sem - 1
        /\ val' = val /\ list' = list
        /\ ~ InFlight /\ InFlight' /\ lo = 1 /\ lo' = 2
        /\ pc[Owner] \in {"idle", "sem_wait"}
    BY <1>7, <1>c DEF SemWait, InFlight, lo, TypeOK
  <2>2. abs_q # <<>> /\ Head(abs_q) = val[list[1]]
    BY <2>1, <1>a, <1>d
  <2>3. abs_q' = Tail(abs_q)
    <3>1. /\ Tail(abs_q) \in Seq(Msg) /\ Len(Tail(abs_q)) = queue_sem - 1
          /\ \A i \in 1 .. (queue_sem - 1) : Tail(abs_q)[i] = abs_q[i + 1]
      BY <1>a, <2>2, TailFacts
    <3>2. ASSUME NEW i \in 1 .. (queue_sem - 1)
          PROVE  abs_q[i + 1] = val[list[i + 2 - 1]]
      <4>1. i + 1 \in 1 .. queue_sem /\ i + 1 + 1 - 1 = i + 2 - 1
        BY <1>d
      <4> QED BY <4>1, <1>a, <2>1
    <3>3. abs_q' = [i \in 1 .. (queue_sem - 1) |-> val[list[i + 2 - 1]]]
      BY <1>b, <2>1
    <3>4. \A i \in 1 .. (queue_sem - 1) : abs_q'[i] = Tail(abs_q)[i]
      BY <3>1, <3>2, <3>3
    <3> QED BY <3>1, <3>4, <1>b, <2>1, SeqEqual
  <2>4. abs_res' = val[list[1]]
    BY <2>1 DEF abs_res
  <2> QED BY <2>2, <2>3, <2>4 DEF Queue!Next, Queue!Take
<1>8. ASSUME Unlink
      PROVE  UNCHANGED <<abs_q, abs_res>>
  <2>1. /\ queue_sem' = queue_sem /\ val' = val /\ list' = Tail(list)
        /\ InFlight /\ ~ InFlight' /\ lo = 2 /\ lo' = 1
        /\ pc'[Owner] = "pop_unlock" /\ cell'[Owner] = first
    BY <1>8, <1>c DEF Unlink, InFlight, lo, TypeOK
  <2>2. list # <<>> /\ first = list[1]
    BY <2>1, <1>a, <1>c DEF ListShape
  <2>3. ASSUME NEW i \in 1 .. queue_sem
        PROVE  list'[i + 1 - 1] = list[i + 2 - 1]
    <3>1. i + 2 - 1 \in 1 .. Len(list)
      BY <1>a, <2>1
    <3>2. i \in 1 .. (Len(list) - 1) /\ i + 1 - 1 = i /\ i + 2 - 1 = i + 1
      BY <3>1, <1>d
    <3>3. Tail(list)[i] = list[i + 1]
      BY <3>2, <2>2, <1>c, TailFacts DEF TypeOK
    <3> QED BY <3>2, <3>3, <2>1
  <2>4. abs_q' = abs_q
    BY <2>1, <2>3, <1>a, <1>b
  <2>5. abs_res' = abs_res
    BY <2>1, <2>2 DEF abs_res
  <2> QED BY <2>4, <2>5
<1>9. ASSUME CopyOut
      PROVE  UNCHANGED <<abs_q, abs_res>>
  <2>1. queue_sem' = queue_sem /\ lo' = lo /\ list' = list /\ val' = val
    BY <1>9, <1>c DEF CopyOut, lo, InFlight, TypeOK
  <2>2. abs_q' = abs_q
    BY <2>1, <1>a, <1>b
  <2>3. abs_res' = abs_res
    BY <1>9, <1>c, <2>1 DEF CopyOut, abs_res, InFlight, TypeOK
  <2> QED BY <2>2, <2>3
<1>10. CASE UNCHANGED vars
  BY <1>10 DEF vars, abs_q, abs_res, hi, lo, InFlight, Unposted
<1> QED
  BY <1>1, <1>2, <1>3, <1>4, <1>5, <1>6, <1>7, <1>8, <1>9, <1>10
     DEF Next, Post, Pop

\* The linked list with its semaphore implements the queue it promises to be.
THEOREM Refinement == Spec => ImplementsFifo
<1>1. Spec => []IInv
  BY IInvInit, IInvStep, PTL DEF Spec
<1>2. Init => Queue!Init
  BY MqAssumption
     DEF Init, Queue!Init, abs_q, abs_res, hi, lo, InFlight, Unposted, Thread
<1>3. IInv /\ IInv' /\ [Next]_vars => [Queue!Next]_<<abs_q, abs_res>>
  BY FifoStep
<1> QED BY <1>1, <1>2, <1>3, PTL DEF Spec, ImplementsFifo, Queue!Spec
=============================================================================
