---------------------------- MODULE HandleTable ----------------------------
(***************************************************************************)
(* The kernel handle table of uwin (src/uwin/handletable.cpp).             *)
(*                                                                         *)
(* The table maps 32-bit handles to shared kernel objects.  Every          *)
(* operation locks the static mutex `mut', works on the table and unlocks  *)
(* it on return; the pointer uw_ht_get returns is then used without the    *)
(* lock.  An entry is a std::shared_ptr, so an object is destroyed by the  *)
(* operation that drops its last entry.                                    *)
(*                                                                         *)
(* Threads call the operations concurrently: the syscalls of guest threads *)
(* run outside the execution lock.  A call has three steps: the call, the  *)
(* acquisition of `mut', and the body, which ends with the release.        *)
(* uw_ht_put_dummy locks `mut' and then calls uw_ht_put, which locks it    *)
(* again: the step Relock, between its acquisition and its body.           *)
(***************************************************************************)
EXTENDS Integers, FiniteSets

CONSTANTS
    Thread,         \* host threads that make handle-table calls
    Obj,            \* kernel objects that may ever be constructed
    Dummy,          \* those of them that are uwin::kdummy
    DummyType,      \* values of kdummy::type
    TypeOf,         \* the type each kdummy is constructed with
    UserSpace,      \* TARGET_ADDRESS_SPACE_SIZE, the first handle
    HandleSpace,    \* 2^32: handles are uint32_t
    MaxIssued,      \* bound: handles issued in one run of the program
    RelockPasses,   \* does locking a std::mutex its caller owns return?
    NoThread,
    NoObj,
    NoType

ASSUME ThreadAssumption == NoThread \notin Thread
ASSUME ObjAssumption == /\ Dummy \subseteq Obj
                        /\ NoObj \notin Obj
                        /\ NoType \notin DummyType
                        /\ TypeOf \in [Dummy -> DummyType]
ASSUME HandleAssumption == /\ UserSpace \in Nat
                           /\ HandleSpace \in Nat
                           /\ UserSpace < HandleSpace
                           /\ MaxIssued \in Nat
ASSUME RelockAssumption == RelockPasses \in BOOLEAN

Handle == 0 .. HandleSpace - 1

VARIABLES
    mut,            \* owner of the mutex, or NoThread
    next_handle,
    handle_table,   \* a function; its domain is the set of open handles
    use_count,      \* shared_ptr::use_count of the entry of each object
    alive,          \* objects in the table's care and not yet destroyed
    pc,             \* where each thread is in its call
    op,             \* the operation it called
    harg,           \* the handle it passed
    oarg,           \* the object it passed, or got from uw_ht_get
    want,           \* the type it passed to uw_ht_get_dummy
    crashed,        \* an assert, terminate or abort has ended the process
    \* History variables: read by the properties and the bounds only.
    made,           \* objects ever passed to a put
    issued,         \* number of handles issued
    retired,        \* handles that were closed
    reported        \* how often delref reported each kdummy to its caller

table_vars == <<next_handle, handle_table, use_count, alive>>
call_vars == <<pc, op, harg, oarg, want>>
hist_vars == <<made, issued, retired, reported>>
vars == <<mut, table_vars, call_vars, crashed, hist_vars>>

Op == {"put", "put_dummy", "get", "get_dummy", "get_dummytype",
       "newref", "delref"}

\* Operations on a handle that exists already.
HandleOp == Op \ {"put", "put_dummy"}

\* static uint32_t next_handle = TARGET_ADDRESS_SPACE_SIZE.
FirstHandle == UserSpace

Init == /\ mut = NoThread
        /\ next_handle = FirstHandle
        /\ handle_table = [h \in {} |-> NoObj]
        /\ use_count = [o \in Obj |-> 0]
        /\ alive = {}
        /\ pc = [t \in Thread |-> "idle"]
        /\ op = [t \in Thread |-> "none"]
        /\ harg = [t \in Thread |-> 0]
        /\ oarg = [t \in Thread |-> NoObj]
        /\ want = [t \in Thread |-> NoType]
        /\ crashed = FALSE
        /\ made = {}
        /\ issued = 0
        /\ retired = {}
        /\ reported = [o \in Dummy |-> 0]

\* t is at label l of a process that has not been aborted.
Runs(t, l) == pc[t] = l /\ ~crashed

-----------------------------------------------------------------------------
(* Calls.                                                                  *)

\* uw_ht_put(obj) by a syscall that constructs a kernel object, or
\* uw_ht_put_dummy(obj, type) by SYSCALL_HT_DUMMY_NEW.
CallPut(t, o) ==
    /\ Runs(t, "idle")
    /\ o \in Obj \ made
    /\ made' = made \cup {o}
    /\ op' = [op EXCEPT ![t] = IF o \in Dummy THEN "put_dummy" ELSE "put"]
    /\ oarg' = [oarg EXCEPT ![t] = o]
    /\ pc' = [pc EXCEPT ![t] = "lock"]
    /\ UNCHANGED <<mut, table_vars, harg, want, crashed, issued, retired,
                   reported>>

\* A call with a handle that is open when the call is made.  Another thread
\* may have closed it by the time the table is locked.
CallHandle(t, f, h, ty) ==
    /\ Runs(t, "idle")
    /\ h \in DOMAIN handle_table
    /\ (f = "get_dummy") = (ty # NoType)
    /\ op' = [op EXCEPT ![t] = f]
    /\ harg' = [harg EXCEPT ![t] = h]
    /\ want' = [want EXCEPT ![t] = ty]
    /\ pc' = [pc EXCEPT ![t] = "lock"]
    /\ UNCHANGED <<mut, table_vars, oarg, crashed, hist_vars>>

\* std::unique_lock<std::mutex> lk(mut).  The bound on the handles issued is
\* here: a call that would exceed it is left waiting.
Lock(t) ==
    /\ Runs(t, "lock")
    /\ mut = NoThread
    /\ op[t] \in {"put", "put_dummy", "newref"} => issued < MaxIssued
    /\ mut' = t
    /\ pc' = [pc EXCEPT ![t] = IF op[t] = "put_dummy" THEN "relock"
                                                      ELSE "body"]
    /\ UNCHANGED <<table_vars, op, harg, oarg, want, crashed, hist_vars>>

\* The lock of uw_ht_put when uw_ht_put_dummy, which owns `mut', calls it.
\* C++ leaves this undefined; a non-recursive mutex waits for its owner, that
\* is for t itself, and there is no step.
Relock(t) ==
    /\ Runs(t, "relock")
    /\ RelockPasses
    /\ pc' = [pc EXCEPT ![t] = "body"]
    /\ UNCHANGED <<mut, table_vars, op, harg, oarg, want, crashed, hist_vars>>

-----------------------------------------------------------------------------
(* Bodies, with the destructor of lk.                                      *)

\* t is at the body of a call of an operation in F.
At(t, F) == Runs(t, "body") /\ op[t] \in F

\* The call is over; its arguments are gone.
Leave(t) ==
    /\ pc' = [pc EXCEPT ![t] = "idle"]
    /\ op' = [op EXCEPT ![t] = "none"]
    /\ harg' = [harg EXCEPT ![t] = 0]
    /\ oarg' = [oarg EXCEPT ![t] = NoObj]
    /\ want' = [want EXCEPT ![t] = NoType]

\* Destroys lk and returns.
Return(t) == mut' = NoThread /\ Leave(t)

\* assert(p != handle_table.end()), or a terminate/abort on a wrong type.
Crash(t, F) ==
    /\ At(t, F)
    /\ crashed' = TRUE
    /\ UNCHANGED <<mut, table_vars, call_vars, hist_vars>>

\* The object whose shared_ptr handle h holds.
Entry(h) == IF h \in DOMAIN handle_table THEN handle_table[h] ELSE NoObj

\* Use count of o when the entry of `gain' is copied once and one entry of
\* `lose' is dropped.
Count(o, gain, lose) == use_count[o] + (IF o = gain THEN 1 ELSE 0)
                                     - (IF o = lose THEN 1 ELSE 0)

\* Mutant of Recount: the object is destroyed with any of its entries.
RecountAtOnce(gain, lose) ==
    /\ use_count' = [o \in Obj |-> Count(o, gain, lose)]
    /\ alive' = {o \in Obj : (o \in alive \/ o = gain) /\ o # lose}

\* shared_ptr bookkeeping: dropping the last entry destroys the object.
Recount(gain, lose) ==
    /\ use_count' = [o \in Obj |-> Count(o, gain, lose)]
    /\ alive' = {o \in Obj : /\ o \in alive \/ o = gain
                            /\ ~(o = lose /\ Count(o, gain, lose) = 0)}

\* handle_table[h] = <entry of o>; an entry that h had is released.
Assign(h, o) ==
    /\ handle_table' = [k \in DOMAIN handle_table \cup {h} |->
                          IF k = h THEN o ELSE handle_table[k]]
    /\ Recount(o, Entry(h))

\* handle_table.erase(h).
Erase(h) ==
    /\ handle_table' = [k \in DOMAIN handle_table \ {h} |-> handle_table[k]]
    /\ Recount(NoObj, Entry(h))

\* Mutant of Issue: handles that were closed are handed out again.
IssueReusing(o) ==
    LET free == {h \in Handle : h >= UserSpace} \ DOMAIN handle_table
    IN  /\ \E h \in free : /\ \A k \in free : h <= k
                           /\ Assign(h, o)
        /\ issued' = issued + 1
        /\ UNCHANGED next_handle

\* handle = next_handle++; handle_table[handle] = <entry of o>.
Issue(o) ==
    /\ next_handle' = (next_handle + 1) % HandleSpace
    /\ Assign(next_handle, o)
    /\ issued' = issued + 1

uw_ht_put(t) ==
    /\ At(t, {"put", "put_dummy"})
    /\ Issue(oarg[t])
    /\ Return(t)
    /\ UNCHANGED <<crashed, made, retired, reported>>

\* Returns a raw pointer; the caller uses it after the lock is released.
uw_ht_get(t) ==
    /\ At(t, {"get"})
    /\ harg[t] \in DOMAIN handle_table
    /\ oarg' = [oarg EXCEPT ![t] = handle_table[harg[t]]]
    /\ pc' = [pc EXCEPT ![t] = "using"]
    /\ mut' = NoThread
    /\ UNCHANGED <<table_vars, op, harg, want, crashed, hist_vars>>

\* The syscall that called uw_ht_get is done with the object.
UseDone(t) ==
    /\ Runs(t, "using")
    /\ Leave(t)
    /\ UNCHANGED <<mut, table_vars, crashed, hist_vars>>

\* The object of the handle is a kdummy (of the expected type, if any).
DummyMatches(t) ==
    /\ harg[t] \in DOMAIN handle_table
    /\ handle_table[harg[t]] \in Dummy
    /\ op[t] = "get_dummy" => TypeOf[handle_table[harg[t]]] = want[t]

uw_ht_get_dummy(t) ==
    /\ At(t, {"get_dummy", "get_dummytype"})
    /\ DummyMatches(t)
    /\ Return(t)
    /\ UNCHANGED <<table_vars, crashed, hist_vars>>

uw_ht_newref(t) ==
    /\ At(t, {"newref"})
    /\ harg[t] \in DOMAIN handle_table
    /\ Issue(handle_table[harg[t]])
    /\ Return(t)
    /\ UNCHANGED <<crashed, made, retired, reported>>

\* Mutant of uw_ht_delref: reports the kdummy whatever the use count is.
uw_ht_delref_always(t) ==
    /\ At(t, {"delref"})
    /\ harg[t] \in DOMAIN handle_table
    /\ LET o == handle_table[harg[t]]
       IN  reported' = IF o \in Dummy
                       THEN [reported EXCEPT ![o] = @ + 1] ELSE reported
    /\ Erase(harg[t])
    /\ retired' = retired \cup {harg[t]}
    /\ Return(t)
    /\ UNCHANGED <<next_handle, crashed, made, issued>>

\* Mutant of uw_ht_delref: closes every handle of the object.
uw_ht_delref_all(t) ==
    /\ At(t, {"delref"})
    /\ harg[t] \in DOMAIN handle_table
    /\ LET o == handle_table[harg[t]]
       IN  /\ handle_table' =
                 [k \in {h \in DOMAIN handle_table : handle_table[h] # o} |->
                    handle_table[k]]
           /\ use_count' = [use_count EXCEPT ![o] = 0]
           /\ alive' = alive \ {o}
    /\ retired' = retired \cup {harg[t]}
    /\ Return(t)
    /\ UNCHANGED <<next_handle, crashed, made, issued, reported>>

\* Reports the kdummy if this is its last entry, and erases the entry.
uw_ht_delref(t) ==
    /\ At(t, {"delref"})
    /\ harg[t] \in DOMAIN handle_table
    /\ LET o == handle_table[harg[t]]
       IN  reported' = IF use_count[o] = 1 /\ o \in Dummy
                       THEN [reported EXCEPT ![o] = @ + 1] ELSE reported
    /\ Erase(harg[t])
    /\ retired' = retired \cup {harg[t]}
    /\ Return(t)
    /\ UNCHANGED <<next_handle, crashed, made, issued>>

AssertOpen(t) ==
    /\ Crash(t, HandleOp)
    /\ harg[t] \notin DOMAIN handle_table

AssertDummy(t) ==
    /\ Crash(t, {"get_dummy", "get_dummytype"})
    /\ harg[t] \in DOMAIN handle_table
    /\ ~DummyMatches(t)

Body(t) == \/ uw_ht_put(t)
           \/ uw_ht_get(t)
           \/ uw_ht_get_dummy(t)
           \/ uw_ht_newref(t)
           \/ uw_ht_delref(t)
           \/ AssertOpen(t)
           \/ AssertDummy(t)

Step(t) == Lock(t) \/ Relock(t) \/ Body(t) \/ UseDone(t)

Next == \E t \in Thread :
          \/ \E o \in Obj : CallPut(t, o)
          \/ \E f \in HandleOp, h \in DOMAIN handle_table,
                ty \in DummyType \cup {NoType} : CallHandle(t, f, h, ty)
          \/ Step(t)

Spec == Init /\ [][Next]_vars

\* A thread that owns the mutex keeps running: the operations contain no
\* wait of their own.
FairSpec == Spec /\ \A t \in Thread : WF_vars(Relock(t) \/ Body(t))

-----------------------------------------------------------------------------
(* Properties.                                                             *)

Pc == {"idle", "lock", "relock", "body", "using"}

\* The type of the table: handles are 32-bit, entries are objects, and only
\* the owner of the mutex is inside an operation.
TypeOK == /\ mut \in Thread \cup {NoThread}
          /\ next_handle \in Handle
          /\ DOMAIN handle_table \subseteq Handle
          /\ handle_table \in [DOMAIN handle_table -> Obj]
          /\ use_count \in [Obj -> Nat]
          /\ alive \subseteq Obj
          /\ pc \in [Thread -> Pc]
          /\ op \in [Thread -> Op \cup {"none"}]
          /\ harg \in [Thread -> Handle]
          /\ oarg \in [Thread -> Obj \cup {NoObj}]
          /\ want \in [Thread -> DummyType \cup {NoType}]
          /\ crashed \in BOOLEAN
          /\ made \subseteq Obj
          /\ issued \in 0 .. MaxIssued
          /\ retired \subseteq Handle
          /\ reported \in [Dummy -> Nat]

\* The handles that refer to o.
HandlesOf(o) == {h \in DOMAIN handle_table : handle_table[h] = o}

\* uw_ht_newref and uw_ht_delref keep the shared_ptr counts equal to the
\* number of open handles, and an object is destroyed exactly when its last
\* handle is closed: never while a handle refers to it, never later.
ObjectLifetime ==
    \A o \in Obj : /\ use_count[o] = Cardinality(HandlesOf(o))
                   /\ o \in alive <=> HandlesOf(o) # {}

\* A handle that was closed never names another object (next_handle is never
\* reused), so a stale handle fails the assertion of the operation it is
\* passed to and is not mistaken for a new object.
StaleHandlesDangle == retired \cap DOMAIN handle_table = {}

\* "this will ensure that no user-space pointer will conincide with this"
\* (handletable.cpp:82): handles lie above the guest's address space.
HandlesAreNotPointers == \A h \in DOMAIN handle_table : h >= UserSpace

\* CloseHandle frees the payload of a kdummy (win32_event_free) when
\* uw_ht_delref reports it: once, by the call that closed the last handle.
DummyReleasedOnce ==
    \A o \in Dummy :
        /\ reported[o] <= 1
        /\ reported[o] = 1 => o \in made /\ HandlesOf(o) = {}
        /\ o \in alive => reported[o] = 0

\* The raw pointer uw_ht_get returned is valid, without the lock, for as long
\* as the handle it was obtained from stays open.
PointerValidWhileOpen ==
    \A t \in Thread :
        /\ pc[t] = "using"
        /\ harg[t] \in DOMAIN handle_table
        => handle_table[harg[t]] = oarg[t] /\ oarg[t] \in alive

\* The process is aborted only because a caller passed a handle that was
\* closed in the meantime or one of the wrong kind, never because of what
\* other threads do to other handles.
CrashMeansMisuse ==
    crashed => \E t \in Thread :
                 /\ pc[t] = "body"
                 /\ \/ harg[t] \in retired
                    \/ op[t] \in {"get_dummy", "get_dummytype"}

\* Every operation leaves the table unlocked, unless it aborts.
LockIsReleased ==
    \A t \in Thread : mut = t ~> (mut # t \/ crashed)
=============================================================================
