------------------------- MODULE HandleTableProofs -------------------------
(***************************************************************************)
(* Proofs about HandleTable for any number of threads, objects and handles *)
(* and for both behaviours of a relocked std::mutex.                       *)
(***************************************************************************)
EXTENDS HandleTable, FiniteSetTheorems, TLAPS

\* The mutex is owned by the one thread that is inside an operation.
LockInv == \A t \in Thread : pc[t] \in {"relock", "body"} <=> mut = t

\* Operations that issue a handle.
Issuing == {"put", "put_dummy", "newref"}

\* A thread inside an operation called it with its arguments, and within the
\* bound on handles.
CallInv == \A t \in Thread :
    pc[t] \in {"lock", "relock", "body"} =>
        /\ op[t] \in Op
        /\ op[t] \in {"put", "put_dummy"} => oarg[t] \in Obj
        /\ pc[t] # "lock" /\ op[t] \in Issuing => issued < MaxIssued

\* The inductive invariant behind TypeOK and ObjectLifetime.
IInv == TypeOK /\ ObjectLifetime /\ LockInv /\ CallInv

-----------------------------------------------------------------------------
\* Any set of handles is finite.
LEMMA HandlesFinite ==
    ASSUME NEW S, S \subseteq Handle
    PROVE  IsFiniteSet(S)
<1>1. IsFiniteSet(Handle)
  BY FS_Interval, HandleAssumption DEF Handle
<1> QED BY <1>1, FS_Subset

\* handle_table[h] = entry keeps counts, lifetimes and types right.
LEMMA AssignLifetime ==
    ASSUME TypeOK, ObjectLifetime, NEW h \in Handle, NEW o \in Obj, Assign(h, o)
    PROVE  /\ ObjectLifetime'
           /\ DOMAIN handle_table' \subseteq Handle
           /\ handle_table' \in [DOMAIN handle_table' -> Obj]
           /\ use_count' \in [Obj -> Nat]
           /\ alive' \subseteq Obj
<1>1. /\ DOMAIN handle_table' = DOMAIN handle_table \cup {h}
      /\ \A k \in DOMAIN handle_table' :
            handle_table'[k] = IF k = h THEN o ELSE handle_table[k]
      /\ handle_table' \in [DOMAIN handle_table' -> Obj]
      /\ DOMAIN handle_table' \subseteq Handle
  BY DEF Assign, TypeOK
<1>2. ASSUME NEW p \in Obj
      PROVE  /\ Count(p, o, Entry(h)) = Cardinality(HandlesOf(p)')
             /\ Count(p, o, Entry(h)) \in Nat
  <2> DEFINE F == HandlesOf(p)
             G == HandlesOf(p)'
  <2>1. /\ IsFiniteSet(F)
        /\ IsFiniteSet(G)
    BY <1>1, HandlesFinite DEF HandlesOf, TypeOK
  <2>2. use_count[p] = Cardinality(F) /\ use_count[p] \in Nat
    BY DEF ObjectLifetime, TypeOK
  <2>3. CASE p = o
    <3>1. G = F \cup {h}
      BY <1>1, <2>3 DEF HandlesOf
    <3>2. Entry(h) = p <=> h \in F
      BY <2>3, ObjAssumption DEF Entry, HandlesOf
    <3>3. Cardinality(G) = IF h \in F THEN Cardinality(F)
                                      ELSE Cardinality(F) + 1
      BY <3>1, <2>1, FS_AddElement
    <3> QED BY <3>2, <3>3, <2>2, <2>3 DEF Count
  <2>4. CASE p # o
    <3>1. G = F \ {h}
      BY <1>1, <2>4 DEF HandlesOf
    <3>2. Entry(h) = p <=> h \in F
      BY <2>4, ObjAssumption DEF Entry, HandlesOf
    <3>3. Cardinality(G) = IF h \in F THEN Cardinality(F) - 1
                                      ELSE Cardinality(F)
      BY <3>1, <2>1, FS_RemoveElement
    <3>4. Cardinality(G) \in Nat
      BY <2>1, FS_CardinalityType
    <3> QED BY <3>2, <3>3, <3>4, <2>2, <2>4 DEF Count
  <2> QED BY <2>3, <2>4
<1>3. use_count' = [p \in Obj |-> Count(p, o, Entry(h))]
  BY DEF Assign, Recount
<1>4. \A p \in Obj : use_count'[p] = Cardinality(HandlesOf(p)')
  BY <1>2, <1>3
<1>5. ASSUME NEW p \in Obj
      PROVE  p \in alive' <=> HandlesOf(p)' # {}
  <2>1. /\ IsFiniteSet(HandlesOf(p)')
        /\ Count(p, o, Entry(h)) = 0 <=> HandlesOf(p)' = {}
    <3>1. IsFiniteSet(HandlesOf(p)')
      BY <1>1, HandlesFinite DEF HandlesOf
    <3> QED BY <3>1, <1>2, FS_EmptySet
  <2>2. p \in alive' <=> /\ p \in alive \/ p = o
                         /\ ~(p = Entry(h) /\ Count(p, o, Entry(h)) = 0)
    BY DEF Assign, Recount
  <2>3. p \in alive <=> HandlesOf(p) # {}
    BY DEF ObjectLifetime
  <2>4. p = o => h \in HandlesOf(p)'
    BY <1>1 DEF HandlesOf
  <2>5. p # o /\ p # Entry(h) => HandlesOf(p)' = HandlesOf(p)
    BY <1>1 DEF HandlesOf, Entry
  <2>6. p # o /\ p = Entry(h) => h \in HandlesOf(p)
    BY ObjAssumption DEF HandlesOf, Entry
  <2> QED BY <2>1, <2>2, <2>3, <2>4, <2>5, <2>6
<1> QED BY <1>1, <1>2, <1>3, <1>4, <1>5 DEF ObjectLifetime, Assign, Recount

\* handle_table.erase(h) keeps counts, lifetimes and types right.
LEMMA EraseLifetime ==
    ASSUME TypeOK, ObjectLifetime, NEW h \in DOMAIN handle_table, Erase(h)
    PROVE  /\ ObjectLifetime'
           /\ DOMAIN handle_table' \subseteq Handle
           /\ handle_table' \in [DOMAIN handle_table' -> Obj]
           /\ use_count' \in [Obj -> Nat]
           /\ alive' \subseteq Obj
<1>1. /\ DOMAIN handle_table' = DOMAIN handle_table \ {h}
      /\ \A k \in DOMAIN handle_table' : handle_table'[k] = handle_table[k]
      /\ handle_table' \in [DOMAIN handle_table' -> Obj]
      /\ DOMAIN handle_table' \subseteq Handle
  BY DEF Erase, TypeOK
<1>2. ASSUME NEW p \in Obj
      PROVE  /\ Count(p, NoObj, Entry(h)) = Cardinality(HandlesOf(p)')
             /\ Count(p, NoObj, Entry(h)) \in Nat
             /\ HandlesOf(p)' = HandlesOf(p) \ {h}
             /\ Entry(h) = p <=> h \in HandlesOf(p)
             /\ IsFiniteSet(HandlesOf(p)')
  <2> DEFINE F == HandlesOf(p)
             G == HandlesOf(p)'
  <2>1. IsFiniteSet(F) /\ IsFiniteSet(G)
    BY <1>1, HandlesFinite DEF HandlesOf, TypeOK
  <2>2. use_count[p] = Cardinality(F) /\ use_count[p] \in Nat
    BY DEF ObjectLifetime, TypeOK
  <2>3. G = F \ {h}
    BY <1>1 DEF HandlesOf
  <2>4. Entry(h) = p <=> h \in F
    BY DEF Entry, HandlesOf
  <2>5. Cardinality(G) = IF h \in F THEN Cardinality(F) - 1
                                    ELSE Cardinality(F)
    BY <2>3, <2>1, FS_RemoveElement
  <2>6. Cardinality(G) \in Nat
    BY <2>1, FS_CardinalityType
  <2>7. p # NoObj
    BY ObjAssumption
  <2> QED BY <2>1, <2>2, <2>3, <2>4, <2>5, <2>6, <2>7 DEF Count
<1>3. use_count' = [p \in Obj |-> Count(p, NoObj, Entry(h))]
  BY DEF Erase, Recount
<1>4. ASSUME NEW p \in Obj
      PROVE  p \in alive' <=> HandlesOf(p)' # {}
  <2>1. Count(p, NoObj, Entry(h)) = 0 <=> HandlesOf(p)' = {}
    BY <1>2, FS_EmptySet
  <2>2. p \in alive' <=> /\ p \in alive
                         /\ ~(p = Entry(h) /\ Count(p, NoObj, Entry(h)) = 0)
    BY ObjAssumption DEF Erase, Recount
  <2>3. p \in alive <=> HandlesOf(p) # {}
    BY DEF ObjectLifetime
  <2> QED BY <2>1, <2>2, <2>3, <1>2
<1> QED BY <1>1, <1>2, <1>3, <1>4 DEF ObjectLifetime, Erase, Recount

-----------------------------------------------------------------------------
\* The part of the invariant that says where a step of thread t leaves the
\* mutex and the calls when t returns from an operation it was inside.
LEMMA ReturnInv ==
    ASSUME IInv, NEW t \in Thread, pc[t] = "body", Return(t),
           issued' \in Nat, issued' >= issued,
           issued' # issued => op[t] \in Issuing
    PROVE  /\ LockInv'
           /\ CallInv'
           /\ mut' \in Thread \cup {NoThread}
           /\ pc' \in [Thread -> Pc]
           /\ op' \in [Thread -> Op \cup {"none"}]
           /\ harg' \in [Thread -> Handle]
           /\ oarg' \in [Thread -> Obj \cup {NoObj}]
           /\ want' \in [Thread -> DummyType \cup {NoType}]
<1> USE DEF IInv, TypeOK, Return, Leave
<1>1. 0 \in Handle
  BY HandleAssumption DEF Handle
<1>2. LockInv'
  BY ThreadAssumption DEF LockInv, Pc
<1>3. CallInv'
  <2> SUFFICES ASSUME NEW u \in Thread, pc'[u] \in {"lock", "relock", "body"}
               PROVE  /\ op'[u] \in Op
                      /\ op'[u] \in {"put", "put_dummy"} => oarg'[u] \in Obj
                      /\ pc'[u] = "lock"
    BY <1>2, ThreadAssumption DEF CallInv, LockInv
  <2>1. u # t /\ pc[u] = pc'[u] /\ op[u] = op'[u] /\ oarg[u] = oarg'[u]
    OBVIOUS
  <2>2. pc[u] = "lock"
    BY <2>1 DEF LockInv
  <2> QED BY <2>1, <2>2 DEF CallInv
<1> QED BY <1>1, <1>2, <1>3 DEF Pc

\* Issuing a handle to o keeps the table right and the counter a uint32_t.
LEMMA IssueInv ==
    ASSUME IInv, NEW t \in Thread, pc[t] = "body", op[t] \in Issuing,
           NEW o \in Obj, Issue(o)
    PROVE  /\ ObjectLifetime'
           /\ DOMAIN handle_table' \subseteq Handle
           /\ handle_table' \in [DOMAIN handle_table' -> Obj]
           /\ use_count' \in [Obj -> Nat]
           /\ alive' \subseteq Obj
           /\ next_handle' \in Handle
           /\ issued' \in 0 .. MaxIssued
           /\ issued' >= issued
<1>1. next_handle \in Handle /\ issued \in 0 .. MaxIssued
  BY DEF IInv, TypeOK
<1>2. issued < MaxIssued
  BY DEF IInv, CallInv
<1>3. next_handle' \in Handle
  BY <1>1, HandleAssumption DEF Issue, Handle
<1>4. issued' \in 0 .. MaxIssued /\ issued' >= issued
  BY <1>1, <1>2, HandleAssumption DEF Issue
<1>5. Assign(next_handle, o)
  BY DEF Issue
<1> QED BY <1>1, <1>3, <1>4, <1>5, AssignLifetime DEF IInv

LEMMA IInvInit == Init => IInv
<1> SUFFICES ASSUME Init PROVE IInv
  OBVIOUS
<1>1. TypeOK
  <2>1. DOMAIN handle_table = {} /\ handle_table \in [{} -> Obj]
    BY DEF Init
  <2>2. next_handle \in Handle /\ 0 \in Handle /\ issued \in 0 .. MaxIssued
    BY HandleAssumption DEF Init, FirstHandle, Handle
  <2>3. DOMAIN handle_table \subseteq Handle
    BY <2>1
  <2>4. handle_table \in [DOMAIN handle_table -> Obj]
    BY <2>1
  <2> QED BY <2>2, <2>3, <2>4 DEF Init, TypeOK, Pc
<1>2. ObjectLifetime
  <2>1. \A o \in Obj : HandlesOf(o) = {}
    BY DEF Init, HandlesOf
  <2> QED BY <2>1, FS_EmptySet DEF Init, ObjectLifetime
<1>3. LockInv
  BY ThreadAssumption DEF Init, LockInv
<1>4. CallInv
  BY DEF Init, CallInv
<1> QED BY <1>1, <1>2, <1>3, <1>4 DEF IInv

\* Steps that leave the table alone leave ObjectLifetime alone.
LEMMA LifetimeUnchanged ==
    ASSUME ObjectLifetime, UNCHANGED <<handle_table, use_count, alive>>
    PROVE  ObjectLifetime'
BY DEF ObjectLifetime, HandlesOf

LEMMA IInvStep == IInv /\ [Next]_vars => IInv'
<1> SUFFICES ASSUME IInv, [Next]_vars PROVE IInv'
  OBVIOUS
<1> USE DEF table_vars, call_vars, hist_vars, Runs
<1>0. 0 \in Handle
  BY HandleAssumption DEF Handle
<1>1. ASSUME NEW t \in Thread, NEW o \in Obj, CallPut(t, o)
      PROVE  IInv'
  <2>1. ObjectLifetime'
    BY <1>1, LifetimeUnchanged DEF CallPut, IInv
  <2>2. TypeOK'
    BY <1>1 DEF CallPut, IInv, TypeOK, Pc, Op
  <2>3. LockInv'
    BY <1>1 DEF CallPut, IInv, TypeOK, LockInv
  <2>4. CallInv'
    BY <1>1 DEF CallPut, IInv, TypeOK, CallInv, Op
  <2> QED BY <2>1, <2>2, <2>3, <2>4 DEF IInv
<1>2. ASSUME NEW t \in Thread, NEW f \in HandleOp, NEW h \in DOMAIN handle_table,
             NEW ty \in DummyType \cup {NoType}, CallHandle(t, f, h, ty)
      PROVE  IInv'
  <2>1. ObjectLifetime'
    BY <1>2, LifetimeUnchanged DEF CallHandle, IInv
  <2>2. TypeOK'
    BY <1>2 DEF CallHandle, IInv, TypeOK, Pc, HandleOp, Op
  <2>3. LockInv'
    BY <1>2 DEF CallHandle, IInv, TypeOK, LockInv
  <2>4. CallInv'
    BY <1>2 DEF CallHandle, IInv, TypeOK, CallInv, HandleOp, Op
  <2> QED BY <2>1, <2>2, <2>3, <2>4 DEF IInv
<1>3. ASSUME NEW t \in Thread, Lock(t)
      PROVE  IInv'
  <2>1. ObjectLifetime'
    BY <1>3, LifetimeUnchanged DEF Lock, IInv
  <2>2. TypeOK'
    BY <1>3 DEF Lock, IInv, TypeOK, Pc
  <2>3. LockInv'
    BY <1>3, ThreadAssumption DEF Lock, IInv, TypeOK, LockInv
  <2>4. CallInv'
    BY <1>3 DEF Lock, IInv, TypeOK, CallInv, Issuing
  <2> QED BY <2>1, <2>2, <2>3, <2>4 DEF IInv
<1>4. ASSUME NEW t \in Thread, Relock(t)
      PROVE  IInv'
  <2>1. ObjectLifetime'
    BY <1>4, LifetimeUnchanged DEF Relock, IInv
  <2>2. TypeOK'
    BY <1>4 DEF Relock, IInv, TypeOK, Pc
  <2>3. LockInv'
    BY <1>4 DEF Relock, IInv, TypeOK, LockInv
  <2>4. CallInv'
    BY <1>4 DEF Relock, IInv, TypeOK, CallInv
  <2> QED BY <2>1, <2>2, <2>3, <2>4 DEF IInv
<1>5. ASSUME NEW t \in Thread, uw_ht_put(t)
      PROVE  IInv'
  <2>1. pc[t] = "body" /\ op[t] \in Issuing /\ oarg[t] \in Obj
    BY <1>5 DEF uw_ht_put, At, IInv, CallInv, Issuing
  <2>2. Issue(oarg[t]) /\ Return(t)
    BY <1>5 DEF uw_ht_put
  <2>3. /\ ObjectLifetime'
        /\ DOMAIN handle_table' \subseteq Handle
        /\ handle_table' \in [DOMAIN handle_table' -> Obj]
        /\ use_count' \in [Obj -> Nat]
        /\ alive' \subseteq Obj
        /\ next_handle' \in Handle
        /\ issued' \in 0 .. MaxIssued
        /\ issued' >= issued
    BY <2>1, <2>2, IssueInv
  <2>4. issued' \in Nat
    BY <2>3
  <2> QED BY <1>5, <2>1, <2>2, <2>3, <2>4, ReturnInv DEF uw_ht_put, IInv, TypeOK
<1>6. ASSUME NEW t \in Thread, uw_ht_get(t)
      PROVE  IInv'
  <2>1. ObjectLifetime'
    BY <1>6, LifetimeUnchanged DEF uw_ht_get, IInv
  <2>2. TypeOK'
    BY <1>6 DEF uw_ht_get, IInv, TypeOK, Pc
  <2>3. LockInv'
    BY <1>6, ThreadAssumption DEF uw_ht_get, At, IInv, TypeOK, LockInv
  <2>4. CallInv'
    BY <1>6 DEF uw_ht_get, IInv, TypeOK, CallInv
  <2> QED BY <2>1, <2>2, <2>3, <2>4 DEF IInv
<1>7. ASSUME NEW t \in Thread, UseDone(t)
      PROVE  IInv'
  <2>1. ObjectLifetime'
    BY <1>7, LifetimeUnchanged DEF UseDone, IInv
  <2>2. TypeOK'
    BY <1>0, <1>7 DEF UseDone, Leave, IInv, TypeOK, Pc
  <2>3. LockInv'
    BY <1>7 DEF UseDone, Leave, IInv, TypeOK, LockInv
  <2>4. CallInv'
    BY <1>7 DEF UseDone, Leave, IInv, TypeOK, CallInv
  <2> QED BY <2>1, <2>2, <2>3, <2>4 DEF IInv
<1>8. ASSUME NEW t \in Thread, uw_ht_get_dummy(t)
      PROVE  IInv'
  <2>1. ObjectLifetime'
    BY <1>8, LifetimeUnchanged DEF uw_ht_get_dummy, IInv
  <2>2. issued' = issued /\ issued \in Nat
    BY <1>8 DEF uw_ht_get_dummy, IInv, TypeOK
  <2>3. pc[t] = "body" /\ Return(t)
    BY <1>8 DEF uw_ht_get_dummy, At
  <2> QED BY <1>8, <2>1, <2>2, <2>3, ReturnInv DEF uw_ht_get_dummy, IInv, TypeOK
<1>9. ASSUME NEW t \in Thread, uw_ht_newref(t)
      PROVE  IInv'
  <2>1. pc[t] = "body" /\ op[t] \in Issuing
    BY <1>9 DEF uw_ht_newref, At, Issuing
  <2>2. handle_table[harg[t]] \in Obj
    BY <1>9 DEF uw_ht_newref, IInv, TypeOK
  <2>3. Issue(handle_table[harg[t]]) /\ Return(t)
    BY <1>9 DEF uw_ht_newref
  <2>4. /\ ObjectLifetime'
        /\ DOMAIN handle_table' \subseteq Handle
        /\ handle_table' \in [DOMAIN handle_table' -> Obj]
        /\ use_count' \in [Obj -> Nat]
        /\ alive' \subseteq Obj
        /\ next_handle' \in Handle
        /\ issued' \in 0 .. MaxIssued
        /\ issued' >= issued
    BY <2>1, <2>2, <2>3, IssueInv
  <2>5. issued' \in Nat
    BY <2>4
  <2> QED BY <1>9, <2>1, <2>3, <2>4, <2>5, ReturnInv
             DEF uw_ht_newref, IInv, TypeOK
<1>10. ASSUME NEW t \in Thread, uw_ht_delref(t)
       PROVE  IInv'
  <2>1. pc[t] = "body" /\ Return(t)
    BY <1>10 DEF uw_ht_delref, At
  <2>2. harg[t] \in DOMAIN handle_table /\ Erase(harg[t])
    BY <1>10 DEF uw_ht_delref
  <2>3. /\ ObjectLifetime'
        /\ DOMAIN handle_table' \subseteq Handle
        /\ handle_table' \in [DOMAIN handle_table' -> Obj]
        /\ use_count' \in [Obj -> Nat]
        /\ alive' \subseteq Obj
    BY <2>2, EraseLifetime DEF IInv
  <2>4. issued' = issued /\ issued \in Nat
    BY <1>10 DEF uw_ht_delref, IInv, TypeOK
  <2>5. retired' \subseteq Handle /\ reported' \in [Dummy -> Nat]
    BY <1>10, <2>2 DEF uw_ht_delref, IInv, TypeOK
  <2> QED BY <1>10, <2>1, <2>3, <2>4, <2>5, ReturnInv
             DEF uw_ht_delref, IInv, TypeOK
<1>11. ASSUME NEW t \in Thread, AssertOpen(t) \/ AssertDummy(t)
       PROVE  IInv'
  <2>1. ObjectLifetime'
    BY <1>11, LifetimeUnchanged DEF AssertOpen, AssertDummy, Crash, IInv
  <2>2. TypeOK' /\ LockInv' /\ CallInv'
    BY <1>11 DEF AssertOpen, AssertDummy, Crash, IInv, TypeOK, LockInv, CallInv
  <2> QED BY <2>1, <2>2 DEF IInv
<1>12. CASE UNCHANGED vars
  <2>1. ObjectLifetime'
    BY <1>12, LifetimeUnchanged DEF vars, IInv
  <2>2. TypeOK' /\ LockInv' /\ CallInv'
    BY <1>12 DEF vars, IInv, TypeOK, LockInv, CallInv
  <2> QED BY <2>1, <2>2 DEF IInv
<1> QED BY <1>1, <1>2, <1>3, <1>4, <1>5, <1>6, <1>7, <1>8, <1>9, <1>10, <1>11,
           <1>12 DEF Next, Step, Body

\* Type correctness of the handle table.
THEOREM TypeCorrect == Spec => []TypeOK
<1>1. IInv => TypeOK
  BY DEF IInv
<1> QED BY <1>1, IInvInit, IInvStep, PTL DEF Spec

\* uw_ht_newref and uw_ht_delref, called concurrently by any number of
\* threads, keep every use count equal to the number of open handles, and an
\* object is destroyed exactly when its last handle is closed; this holds
\* even when the 32-bit handle counter wraps.
THEOREM LifetimeCorrect == Spec => []ObjectLifetime
<1>1. IInv => ObjectLifetime
  BY DEF IInv
<1> QED BY <1>1, IInvInit, IInvStep, PTL DEF Spec

-----------------------------------------------------------------------------
(* Handle numbers, for runs that issue at most 2^31 handles.               *)

\* Handle numbers ever given out.
Given == UserSpace .. UserSpace + issued - 1

\* Handles are numbered consecutively from UserSpace.
NumberInv == /\ issued < MaxIssued => next_handle = UserSpace + issued
             /\ DOMAIN handle_table \subseteq Given
             /\ retired \subseteq Given
             /\ retired \cap DOMAIN handle_table = {}

\* A call was made with a handle that had been given out, and a pointer
\* obtained from a handle is still the one the handle refers to.
PointerInv == \A t \in Thread :
    /\ pc[t] # "idle" /\ op[t] \in HandleOp => harg[t] \in Given
    /\ pc[t] = "using" => op[t] \in HandleOp
    /\ pc[t] = "using" /\ harg[t] \in DOMAIN handle_table =>
          handle_table[harg[t]] = oarg[t]

LEMMA NumberInit == Init => NumberInv /\ PointerInv
BY HandleAssumption DEF Init, FirstHandle, NumberInv, PointerInv, Given

\* Issuing a handle, which must be inside the budget, takes a fresh number.
LEMMA IssueNumber ==
    ASSUME MaxIssued <= HandleSpace - UserSpace, IInv, NumberInv,
           NEW t \in Thread, pc[t] = "body", op[t] \in Issuing,
           NEW o \in Obj, Issue(o), retired' = retired
    PROVE  /\ NumberInv'
           /\ next_handle \notin Given
           /\ Given \subseteq Given'
           /\ \A k \in Given : /\ k \in DOMAIN handle_table' <=>
                                    k \in DOMAIN handle_table
                               /\ k \in DOMAIN handle_table =>
                                    handle_table'[k] = handle_table[k]
<1>1. issued \in Nat /\ issued < MaxIssued
  BY DEF IInv, TypeOK, CallInv
<1>2. next_handle = UserSpace + issued
  BY <1>1 DEF NumberInv
<1>3. issued' = issued + 1
  BY DEF Issue
<1>4. Given' = Given \cup {next_handle} /\ next_handle \notin Given
  BY <1>1, <1>2, <1>3, HandleAssumption DEF Given
<1>5. /\ DOMAIN handle_table' = DOMAIN handle_table \cup {next_handle}
      /\ \A k \in DOMAIN handle_table : k # next_handle =>
            handle_table'[k] = handle_table[k]
  BY DEF Issue, Assign
<1>6. issued' < MaxIssued => next_handle' = UserSpace + issued'
  BY <1>1, <1>2, <1>3, HandleAssumption DEF Issue
<1> QED BY <1>4, <1>5, <1>6 DEF NumberInv

LEMMA NumberStep ==
    ASSUME MaxIssued <= HandleSpace - UserSpace
    PROVE  IInv /\ NumberInv /\ PointerInv /\ [Next]_vars
              => NumberInv' /\ PointerInv'
<1> SUFFICES ASSUME IInv, NumberInv, PointerInv, [Next]_vars
             PROVE  NumberInv' /\ PointerInv'
  OBVIOUS
<1> USE DEF table_vars, call_vars, hist_vars, Runs
<1>1. ASSUME NEW t \in Thread, NEW o \in Obj, CallPut(t, o)
      PROVE  NumberInv' /\ PointerInv'
  BY <1>1 DEF CallPut, NumberInv, PointerInv, Given, IInv, TypeOK, HandleOp, Op
<1>2. ASSUME NEW t \in Thread, NEW f \in HandleOp, NEW h \in DOMAIN handle_table,
             NEW ty \in DummyType \cup {NoType}, CallHandle(t, f, h, ty)
      PROVE  NumberInv' /\ PointerInv'
  BY <1>2 DEF CallHandle, NumberInv, PointerInv, Given, IInv, TypeOK
<1>3. ASSUME NEW t \in Thread, Lock(t) \/ Relock(t)
      PROVE  NumberInv' /\ PointerInv'
  BY <1>3 DEF Lock, Relock, NumberInv, PointerInv, Given, IInv, TypeOK
<1>4. ASSUME NEW t \in Thread, uw_ht_put(t)
      PROVE  NumberInv' /\ PointerInv'
  <2>1. /\ pc[t] = "body" /\ op[t] \in Issuing /\ oarg[t] \in Obj
        /\ Issue(oarg[t]) /\ retired' = retired /\ Return(t)
    BY <1>4 DEF uw_ht_put, At, IInv, CallInv, Issuing
  <2>2. /\ NumberInv'
        /\ Given \subseteq Given'
        /\ \A k \in Given : /\ k \in DOMAIN handle_table' <=>
                                 k \in DOMAIN handle_table
                            /\ k \in DOMAIN handle_table =>
                                 handle_table'[k] = handle_table[k]
    BY <2>1, IssueNumber
  <2> QED BY <2>1, <2>2 DEF Return, Leave, PointerInv, IInv, TypeOK
<1>5. ASSUME NEW t \in Thread, uw_ht_newref(t)
      PROVE  NumberInv' /\ PointerInv'
  <2>1. /\ pc[t] = "body" /\ op[t] \in Issuing
        /\ handle_table[harg[t]] \in Obj
        /\ Issue(handle_table[harg[t]]) /\ retired' = retired /\ Return(t)
    BY <1>5 DEF uw_ht_newref, At, IInv, TypeOK, Issuing
  <2>2. /\ NumberInv'
        /\ Given \subseteq Given'
        /\ \A k \in Given : /\ k \in DOMAIN handle_table' <=>
                                 k \in DOMAIN handle_table
                            /\ k \in DOMAIN handle_table =>
                                 handle_table'[k] = handle_table[k]
    BY <2>1, IssueNumber
  <2> QED BY <2>1, <2>2 DEF Return, Leave, PointerInv, IInv, TypeOK
<1>6. ASSUME NEW t \in Thread, uw_ht_get(t)
      PROVE  NumberInv' /\ PointerInv'
  <2>1. op[t] \in HandleOp /\ pc[t] = "body"
    BY <1>6 DEF uw_ht_get, At, HandleOp, Op
  <2> QED BY <1>6, <2>1
          DEF uw_ht_get, NumberInv, PointerInv, Given, IInv, TypeOK
<1>7. ASSUME NEW t \in Thread, UseDone(t) \/ uw_ht_get_dummy(t)
      PROVE  NumberInv' /\ PointerInv'
  BY <1>7 DEF UseDone, uw_ht_get_dummy, Return, Leave, NumberInv, PointerInv,
              Given, IInv, TypeOK
<1>8. ASSUME NEW t \in Thread, uw_ht_delref(t)
      PROVE  NumberInv' /\ PointerInv'
  <2>1. /\ harg[t] \in DOMAIN handle_table
        /\ DOMAIN handle_table' = DOMAIN handle_table \ {harg[t]}
        /\ \A k \in DOMAIN handle_table' : handle_table'[k] = handle_table[k]
        /\ retired' = retired \cup {harg[t]}
        /\ Given' = Given /\ issued' = issued /\ next_handle' = next_handle
    BY <1>8 DEF uw_ht_delref, Erase, Given
  <2>2. NumberInv'
    BY <2>1 DEF NumberInv
  <2>3. PointerInv'
    BY <1>8, <2>1 DEF uw_ht_delref, Return, Leave, PointerInv, IInv, TypeOK
  <2> QED BY <2>2, <2>3
<1>9. ASSUME NEW t \in Thread, AssertOpen(t) \/ AssertDummy(t)
      PROVE  NumberInv' /\ PointerInv'
  BY <1>9 DEF AssertOpen, AssertDummy, Crash, NumberInv, PointerInv, Given
<1>10. CASE UNCHANGED vars
  BY <1>10 DEF vars, NumberInv, PointerInv, Given
<1> QED BY <1>1, <1>2, <1>3, <1>4, <1>5, <1>6, <1>7, <1>8, <1>9, <1>10
        DEF Next, Step, Body

\* As long as a run issues no more than 2^31 handles, no handle is a guest
\* address and a closed handle never comes to name another object.
THEOREM HandlesNeverReused ==
    ASSUME MaxIssued <= HandleSpace - UserSpace
    PROVE  Spec => [](HandlesAreNotPointers /\ StaleHandlesDangle)
<1>1. IInv /\ NumberInv /\ PointerInv
        => HandlesAreNotPointers /\ StaleHandlesDangle
  BY HandleAssumption
     DEF NumberInv, HandlesAreNotPointers, StaleHandlesDangle, Given, IInv, TypeOK
<1> QED BY <1>1, IInvInit, IInvStep, NumberInit, NumberStep, PTL DEF Spec

\* HandlesAreNotPointers: the handles of such a run lie above the guest's
\* addresses, which uw_ht_put's comment promises (handletable.cpp:82).
THEOREM HandlesAboveMemory ==
    ASSUME MaxIssued <= HandleSpace - UserSpace
    PROVE  Spec => []HandlesAreNotPointers
<1>1. Spec => [](HandlesAreNotPointers /\ StaleHandlesDangle)
  BY HandlesNeverReused
<1> QED BY <1>1, PTL

\* In such a run the pointer uw_ht_get returned stays valid, without the
\* lock, for as long as the handle it was obtained from is open.
THEOREM PointersValid ==
    ASSUME MaxIssued <= HandleSpace - UserSpace
    PROVE  Spec => []PointerValidWhileOpen
<1>1. IInv /\ NumberInv /\ PointerInv => PointerValidWhileOpen
  BY DEF PointerInv, PointerValidWhileOpen, IInv, TypeOK, ObjectLifetime, HandlesOf
<1> QED BY <1>1, IInvInit, IInvStep, NumberInit, NumberStep, PTL DEF Spec

-----------------------------------------------------------------------------
(* Release of kdummy payloads.                                             *)

\* t is on its way to put an object in the table.
Putting(t) == /\ pc[t] \in {"lock", "relock", "body"}
              /\ op[t] \in {"put", "put_dummy"}

\* An object is put in the table by one call, before which it has no handle
\* and after whose last handle it is not put again.
PutInv == /\ \A h \in DOMAIN handle_table : handle_table[h] \in made
          /\ \A t \in Thread : Putting(t) => /\ oarg[t] \in made
                                             /\ HandlesOf(oarg[t]) = {}
          /\ \A t, u \in Thread : Putting(t) /\ Putting(u) /\ oarg[t] = oarg[u]
                                    => t = u

\* A kdummy that was reported has no handle left and gets none.
ReportInv == \A o \in Dummy :
    /\ reported[o] \in {0, 1}
    /\ reported[o] = 1 =>
          /\ o \in made
          /\ HandlesOf(o) = {}
          /\ \A t \in Thread : Putting(t) => oarg[t] # o

LEMMA ReportInit == Init => PutInv /\ ReportInv
BY DEF Init, PutInv, ReportInv, Putting, HandlesOf

LEMMA ReportStep == IInv /\ PutInv /\ ReportInv /\ [Next]_vars
                      => PutInv' /\ ReportInv'
<1> SUFFICES ASSUME IInv, PutInv, ReportInv, [Next]_vars
             PROVE  PutInv' /\ ReportInv'
  OBVIOUS
<1> USE DEF table_vars, call_vars, hist_vars, Runs
<1>1. ASSUME NEW t \in Thread, NEW o \in Obj, CallPut(t, o)
      PROVE  PutInv' /\ ReportInv'
  <2>1. /\ ~Putting(t) /\ Putting(t)' /\ oarg'[t] = o
        /\ \A u \in Thread \ {t} : /\ Putting(u)' <=> Putting(u)
                                   /\ oarg'[u] = oarg[u]
    BY <1>1 DEF CallPut, Putting, IInv, TypeOK
  <2>2. /\ o \notin made /\ made' = made \cup {o}
        /\ handle_table' = handle_table /\ reported' = reported
    BY <1>1 DEF CallPut
  <2>3. HandlesOf(o) = {} /\ \A p : HandlesOf(p)' = HandlesOf(p)
    BY <2>2 DEF PutInv, HandlesOf
  <2>4. PutInv'
    BY <2>1, <2>2, <2>3 DEF PutInv
  <2>5. ReportInv'
    BY <2>1, <2>2, <2>3 DEF ReportInv
  <2> QED BY <2>4, <2>5
<1>2. ASSUME NEW t \in Thread, NEW f \in HandleOp, NEW h \in DOMAIN handle_table,
             NEW ty \in DummyType \cup {NoType}, CallHandle(t, f, h, ty)
      PROVE  PutInv' /\ ReportInv'
  <2>1. \A u \in Thread : Putting(u)' <=> Putting(u)
    BY <1>2 DEF CallHandle, Putting, IInv, TypeOK, HandleOp, Op
  <2> QED BY <1>2, <2>1 DEF CallHandle, PutInv, ReportInv, HandlesOf
<1>3. ASSUME NEW t \in Thread, Lock(t) \/ Relock(t)
      PROVE  PutInv' /\ ReportInv'
  <2>1. \A u \in Thread : Putting(u)' <=> Putting(u)
    BY <1>3 DEF Lock, Relock, Putting, IInv, TypeOK
  <2> QED BY <1>3, <2>1 DEF Lock, Relock, PutInv, ReportInv, HandlesOf
<1>4. ASSUME NEW t \in Thread, uw_ht_put(t)
      PROVE  PutInv' /\ ReportInv'
  <2>1. /\ Putting(t) /\ ~Putting(t)'
        /\ \A u \in Thread \ {t} : /\ Putting(u)' <=> Putting(u)
                                   /\ oarg'[u] = oarg[u]
    BY <1>4 DEF uw_ht_put, At, Return, Leave, Putting, IInv, TypeOK
  <2>2. /\ DOMAIN handle_table' = DOMAIN handle_table \cup {next_handle}
        /\ \A k \in DOMAIN handle_table' :
              handle_table'[k] = IF k = next_handle THEN oarg[t]
                                                    ELSE handle_table[k]
        /\ made' = made /\ reported' = reported
    BY <1>4 DEF uw_ht_put, Issue, Assign
  <2>3. \A p : p # oarg[t] => HandlesOf(p)' \subseteq HandlesOf(p)
    BY <2>2 DEF HandlesOf
  <2>4. PutInv'
    BY <2>1, <2>2, <2>3 DEF PutInv
  <2>5. ReportInv'
    BY <2>1, <2>2, <2>3 DEF ReportInv
  <2> QED BY <2>4, <2>5
<1>5. ASSUME NEW t \in Thread, uw_ht_newref(t)
      PROVE  PutInv' /\ ReportInv'
  <2> DEFINE o == handle_table[harg[t]]
  <2>1. \A u \in Thread : /\ Putting(u)' => Putting(u)
                          /\ Putting(u)' => oarg'[u] = oarg[u]
    BY <1>5 DEF uw_ht_newref, At, Return, Leave, Putting, IInv, TypeOK
  <2>2. /\ harg[t] \in HandlesOf(o)
        /\ o \in made
    BY <1>5 DEF uw_ht_newref, HandlesOf, PutInv
  <2>3. /\ DOMAIN handle_table' = DOMAIN handle_table \cup {next_handle}
        /\ \A k \in DOMAIN handle_table' :
              handle_table'[k] = IF k = next_handle THEN o
                                                    ELSE handle_table[k]
        /\ made' = made /\ reported' = reported
    BY <1>5 DEF uw_ht_newref, Issue, Assign
  <2>4. \A p : p # o => HandlesOf(p)' \subseteq HandlesOf(p)
    BY <2>3 DEF HandlesOf
  <2> HIDE DEF o
  <2>5. PutInv'
    BY <2>1, <2>2, <2>3, <2>4 DEF PutInv
  <2>6. ReportInv'
    BY <2>1, <2>2, <2>3, <2>4 DEF ReportInv
  <2> QED BY <2>5, <2>6
<1>6. ASSUME NEW t \in Thread,
             uw_ht_get(t) \/ UseDone(t) \/ uw_ht_get_dummy(t)
      PROVE  PutInv' /\ ReportInv'
  <2>1. \A u \in Thread : /\ Putting(u)' => Putting(u)
                          /\ Putting(u)' => oarg'[u] = oarg[u]
    BY <1>6 DEF uw_ht_get, UseDone, uw_ht_get_dummy, At, Return, Leave,
                Putting, IInv, TypeOK
  <2> QED BY <1>6, <2>1 DEF uw_ht_get, UseDone, uw_ht_get_dummy, PutInv,
                            ReportInv, HandlesOf
<1>7. ASSUME NEW t \in Thread, uw_ht_delref(t)
      PROVE  PutInv' /\ ReportInv'
  <2>0a. PICK h : h = harg[t]
    OBVIOUS
  <2>0b. PICK o : o = handle_table[h]
    OBVIOUS
  <2>1. \A u \in Thread : /\ Putting(u)' => Putting(u)
                          /\ Putting(u)' => oarg'[u] = oarg[u]
    BY <1>7 DEF uw_ht_delref, At, Return, Leave, Putting, IInv, TypeOK
  <2>2. /\ h \in DOMAIN handle_table
        /\ DOMAIN handle_table' = DOMAIN handle_table \ {h}
        /\ \A k \in DOMAIN handle_table' : handle_table'[k] = handle_table[k]
        /\ made' = made
        /\ reported' = IF use_count[o] = 1 /\ o \in Dummy
                       THEN [reported EXCEPT ![o] = @ + 1] ELSE reported
    BY <1>7, <2>0a, <2>0b DEF uw_ht_delref, Erase
  <2>3. /\ \A p : HandlesOf(p)' = HandlesOf(p) \ {h}
        /\ h \in HandlesOf(o)
        /\ o \in made /\ o \in Obj
    BY <2>2, <2>0b DEF HandlesOf, PutInv, IInv, TypeOK
  <2>4. use_count[o] = 1 => HandlesOf(o)' = {}
    <3>1. IsFiniteSet(HandlesOf(o))
      BY HandlesFinite DEF HandlesOf, IInv, TypeOK
    <3>2. use_count[o] = Cardinality(HandlesOf(o))
      BY <2>3 DEF IInv, ObjectLifetime
    <3>3. Cardinality(HandlesOf(o) \ {h}) = Cardinality(HandlesOf(o)) - 1
      BY <3>1, <2>3, FS_RemoveElement
    <3>4. IsFiniteSet(HandlesOf(o) \ {h})
      BY <3>1, FS_Subset
    <3> QED BY <3>2, <3>3, <3>4, <2>3, FS_EmptySet
  <2>5. o \in Dummy => reported[o] = 0
    BY <2>3 DEF ReportInv
  <2>6. \A u \in Thread : Putting(u) => oarg[u] # o
    BY <2>3 DEF PutInv
  <2>7. \A p \in Dummy : reported[p] \in Nat
    BY DEF IInv, TypeOK
  <2>8. \A p \in Dummy : reported'[p] = IF p = o /\ use_count[o] = 1
                                        THEN 1 ELSE reported[p]
    BY <2>2, <2>5 DEF IInv, TypeOK
  <2>9. PutInv'
    BY <2>1, <2>2, <2>3 DEF PutInv
  <2>10. ReportInv'
    BY <2>1, <2>2, <2>3, <2>4, <2>6, <2>7, <2>8 DEF ReportInv
  <2> QED BY <2>9, <2>10
<1>8. ASSUME NEW t \in Thread, AssertOpen(t) \/ AssertDummy(t)
      PROVE  PutInv' /\ ReportInv'
  BY <1>8 DEF AssertOpen, AssertDummy, Crash, PutInv, ReportInv, Putting,
              HandlesOf
<1>9. CASE UNCHANGED vars
  BY <1>9 DEF vars, PutInv, ReportInv, Putting, HandlesOf
<1> QED BY <1>1, <1>2, <1>3, <1>4, <1>5, <1>6, <1>7, <1>8, <1>9
        DEF Next, Step, Body

\* Whatever handles of a kdummy are duplicated and closed by whichever
\* threads, uw_ht_delref reports it at most once, when its last handle goes.
THEOREM DummyReleaseCorrect == Spec => []DummyReleasedOnce
<1>1. IInv /\ PutInv /\ ReportInv => DummyReleasedOnce
  <2> SUFFICES ASSUME IInv, PutInv, ReportInv, NEW o \in Dummy
               PROVE  /\ reported[o] <= 1
                      /\ reported[o] = 1 => o \in made /\ HandlesOf(o) = {}
                      /\ o \in alive => reported[o] = 0
    BY DEF DummyReleasedOnce
  <2>1. reported[o] \in {0, 1}
    BY DEF ReportInv
  <2>2. reported[o] = 1 => o \in made /\ HandlesOf(o) = {}
    BY DEF ReportInv
  <2>3. o \in alive => HandlesOf(o) # {}
    BY ObjAssumption DEF IInv, ObjectLifetime
  <2> QED BY <2>1, <2>2, <2>3
<1> QED BY <1>1, IInvInit, IInvStep, ReportInit, ReportStep, PTL DEF Spec

-----------------------------------------------------------------------------
(* Asserts.                                                                *)

\* The handles that are open or were closed.
Known == DOMAIN handle_table \cup retired

\* A thread inside an operation passed a handle that was open when it called.
ArgInv == \A t \in Thread :
    pc[t] \in {"lock", "relock", "body"} /\ op[t] \in HandleOp =>
        harg[t] \in Known

\* When no step forgets a handle, a step that does not change what the other
\* threads passed keeps ArgInv.
LEMMA ArgStays ==
    ASSUME ArgInv, Known \subseteq Known', NEW t \in Thread,
           pc'[t] \in {"lock", "relock", "body"} /\ op'[t] \in HandleOp
              => harg'[t] \in Known',
           \A u \in Thread \ {t} : /\ pc'[u] = pc[u]
                                   /\ op'[u] = op[u]
                                   /\ harg'[u] = harg[u]
    PROVE  ArgInv'
BY DEF ArgInv

LEMMA ArgStep == IInv /\ ArgInv /\ [Next]_vars => ArgInv'
<1> SUFFICES ASSUME IInv, ArgInv, [Next]_vars PROVE ArgInv'
  OBVIOUS
<1> USE DEF table_vars, call_vars, hist_vars, Runs
<1>1. ASSUME NEW t \in Thread, NEW o \in Obj, CallPut(t, o)
      PROVE  ArgInv'
  <2>1. op'[t] \notin HandleOp /\ Known' = Known
    BY <1>1 DEF CallPut, IInv, TypeOK, HandleOp, Known
  <2> QED BY <1>1, <2>1, ArgStays DEF CallPut, IInv, TypeOK
<1>2. ASSUME NEW t \in Thread, NEW f \in HandleOp, NEW h \in DOMAIN handle_table,
             NEW ty \in DummyType \cup {NoType}, CallHandle(t, f, h, ty)
      PROVE  ArgInv'
  <2>1. harg'[t] \in Known' /\ Known' = Known
    BY <1>2 DEF CallHandle, IInv, TypeOK, Known
  <2> QED BY <1>2, <2>1, ArgStays DEF CallHandle, IInv, TypeOK
<1>3. ASSUME NEW t \in Thread, Lock(t) \/ Relock(t)
      PROVE  ArgInv'
  <2>1. Known' = Known
    BY <1>3 DEF Lock, Relock, Known
  <2> QED BY <1>3, <2>1 DEF Lock, Relock, ArgInv, IInv, TypeOK
<1>4. ASSUME NEW t \in Thread, NEW o, pc[t] = "body", Issue(o), Return(t),
             retired' = retired
      PROVE  ArgInv'
  <2>1. Known \subseteq Known'
    BY <1>4 DEF Issue, Assign, Known
  <2> QED BY <1>4, <2>1, ArgStays DEF Return, Leave, IInv, TypeOK
<1>5. ASSUME NEW t \in Thread, uw_ht_put(t) \/ uw_ht_newref(t)
      PROVE  ArgInv'
  BY <1>4, <1>5 DEF uw_ht_put, uw_ht_newref, At
<1>6. ASSUME NEW t \in Thread,
             uw_ht_get(t) \/ UseDone(t) \/ uw_ht_get_dummy(t)
      PROVE  ArgInv'
  <2>1. Known' = Known
    BY <1>6 DEF uw_ht_get, UseDone, uw_ht_get_dummy, Known
  <2>2. pc'[t] \notin {"lock", "relock", "body"}
    BY <1>6 DEF uw_ht_get, UseDone, uw_ht_get_dummy, Return, Leave, IInv, TypeOK
  <2> QED BY <1>6, <2>1, <2>2, ArgStays
          DEF uw_ht_get, UseDone, uw_ht_get_dummy, Return, Leave, IInv, TypeOK
<1>7. ASSUME NEW t \in Thread, uw_ht_delref(t)
      PROVE  ArgInv'
  <2>1. Known \subseteq Known'
    BY <1>7 DEF uw_ht_delref, Erase, Known
  <2> QED BY <1>7, <2>1, ArgStays DEF uw_ht_delref, Return, Leave, IInv, TypeOK
<1>8. ASSUME NEW t \in Thread, AssertOpen(t) \/ AssertDummy(t)
      PROVE  ArgInv'
  BY <1>8 DEF AssertOpen, AssertDummy, Crash, ArgInv, Known
<1>9. CASE UNCHANGED vars
  BY <1>9 DEF vars, ArgInv, Known
<1> QED BY <1>1, <1>2, <1>3, <1>5, <1>6, <1>7, <1>8, <1>9
        DEF Next, Step, Body

\* A step that aborts the process is taken by a thread that passed a handle
\* another thread had closed, or one of the wrong kind; none follows it.
LEMMA CrashStep == ArgInv /\ CrashMeansMisuse /\ [Next]_vars => CrashMeansMisuse'
<1> SUFFICES ASSUME ArgInv, CrashMeansMisuse, [Next]_vars, crashed'
             PROVE  \E t \in Thread :
                       /\ pc'[t] = "body"
                       /\ \/ harg'[t] \in retired'
                          \/ op'[t] \in {"get_dummy", "get_dummytype"}
  BY DEF CrashMeansMisuse
<1> USE DEF table_vars, call_vars, hist_vars, Runs
<1>1. CASE UNCHANGED vars
  BY <1>1 DEF vars, CrashMeansMisuse
<1>2. ASSUME NEW t \in Thread, AssertOpen(t)
      PROVE  /\ pc'[t] = "body"
             /\ harg'[t] \in retired'
  BY <1>2 DEF AssertOpen, Crash, At, ArgInv, Known
<1>3. ASSUME NEW t \in Thread, AssertDummy(t)
      PROVE  /\ pc'[t] = "body"
             /\ op'[t] \in {"get_dummy", "get_dummytype"}
  BY <1>3 DEF AssertDummy, Crash, At
<1>4. CASE Next
  <2>1. \E t \in Thread : AssertOpen(t) \/ AssertDummy(t)
    BY <1>4 DEF Next, Step, Body, CallPut, CallHandle, Lock, Relock, UseDone,
                At, uw_ht_put, uw_ht_get, uw_ht_get_dummy, uw_ht_newref,
                uw_ht_delref
  <2> QED BY <2>1, <1>2, <1>3
<1> QED BY <1>1, <1>4

\* Every abort of the table (an assert that the handle is open, a wrong type)
\* is the fault of the thread that aborts: it passed a handle that had been
\* closed since it called, or a handle of the wrong kind.
THEOREM CrashCorrect == Spec => []CrashMeansMisuse
<1>1. Init => ArgInv /\ CrashMeansMisuse
  BY DEF Init, ArgInv, CrashMeansMisuse
<1> QED BY <1>1, IInvInit, IInvStep, ArgStep, CrashStep, PTL DEF Spec
=============================================================================
