----------------------------- MODULE MemoryMap -----------------------------
(* The guest's address space: host/posix/memory_map.cpp.  The host reserves *)
(* one range at start, everything is carved out of it by moving map_base    *)
(* upwards; nothing is ever reused.  map_base is a plain global, read and   *)
(* written by the threads of the guest and by the host's main thread without *)
(* a lock, so a call is a sequence of steps, one per access to it.          *)
(* Addresses and sizes are counted in pages; a call says besides whether    *)
(* they are whole pages (and the size not 0), which the code asserts first, *)
(* or mmap.                                                                 *)
EXTENDS Integers, FiniteSets

CONSTANTS Thread,      \* host threads that call into the memory map
          Pages,       \* TARGET_ADDRESS_SPACE_SIZE; a uint32_t holds twice that
          FirstBase    \* the initial value of map_base

ASSUME MemoryAssumption == /\ Pages \in Nat \ {0} /\ FirstBase \in 0..Pages

VARIABLES map_base, prot, call,
          spoiled,     \* history: pages changed by mprotect since they were mapped
          regions,     \* history: the live ranges handed out to callers
          clashed,     \* history: two calls have overlapped in time, or one was
                       \* given a range that was not free, or lies outside
          oom,         \* history: a request did not fit into what was left
          aborted      \* an assertion of the memory map has failed

memVars == <<map_base, prot, call, spoiled, regions, clashed, oom, aborted>>

Page == 0..Pages - 1
Prot == {"N", "R", "RW"}
Wrap(n) == n % (2 * Pages)
Span(base, size) == {p \in Page : base <= p /\ p < base + size}

(* A thread outside a call keeps the base its last call returned. *)
Returned(base) == [op |-> "none", base |-> base]
Idle(t) == call[t].op = "none"

(* check_memory_range: whole pages, inside the space; the sum is a uint32_t. *)
InRange(c) == c.whole /\ c.base < Pages /\ Wrap(c.base + c.size) < Pages

MemInit ==
  /\ map_base = FirstBase
  /\ prot = [p \in Page |-> "N"] /\ spoiled = {}
  /\ regions = {} /\ clashed = FALSE /\ oom = FALSE /\ aborted = FALSE
  /\ call = [t \in Thread |-> Returned(0)]

(* A caller enters one of the four operations.  Nothing checks whether the  *)
(* range it chooses is free: taken says that it is not.                     *)
Begin(t, op, base, size, p, whole, taken) ==
  /\ Idle(t)
  /\ call' = [call EXCEPT ![t] = [op |-> op, base |-> base, size |-> size,
                                  prot |-> p, whole |-> whole, step |-> 1]]
  /\ clashed' = (clashed \/ taken \/ \E u \in Thread \ {t} : ~Idle(u))
  /\ UNCHANGED <<map_base, prot, spoiled, regions, oom, aborted>>

At(t, op, step) == call[t].op = op /\ call[t].step = step
GoTo(t, step) == call' = [call EXCEPT ![t].step = step]
Finish(t, base) == call' = [call EXCEPT ![t] = Returned(base)]
AssertFails == /\ aborted' = TRUE
               /\ UNCHANGED <<map_base, prot, call, spoiled, regions, clashed>>

(* mmap(MAP_FIXED) of fresh pages. *)
SetProt(base, size, p) == prot' = [q \in Page |-> IF q \in Span(base, size) THEN p ELSE prot[q]]
Mmap(base, size, p) == /\ SetProt(base, size, p)
                       /\ spoiled' = spoiled \ Span(base, size)

(* uw_target_map_memory_dynamic *)
DynCheck(t) ==
  /\ At(t, "dynamic", 1)
  /\ IF call[t].whole /\ Wrap(map_base + call[t].size) <= Pages
     THEN GoTo(t, 2) /\ UNCHANGED <<map_base, prot, spoiled, regions, clashed, oom, aborted>>
     ELSE AssertFails /\ oom' = (oom \/ call[t].whole)

DynMap(t) ==
  /\ At(t, "dynamic", 2)
  /\ Mmap(map_base, call[t].size, call[t].prot)
  /\ regions' = regions \cup {[base |-> map_base, size |-> call[t].size, by |-> t]}
  /\ call' = [call EXCEPT ![t].base = map_base, ![t].step = 3]
  /\ UNCHANGED <<map_base, clashed, oom, aborted>>

(* Mutant of DynRaise: an empty allocation granule is enough. *)
DynRaiseBad(t) ==
  /\ At(t, "dynamic", 3)
  /\ map_base' = Wrap(map_base + 1)
  /\ Finish(t, call[t].base)
  /\ UNCHANGED <<prot, spoiled, regions, clashed, oom, aborted>>

DynRaise(t) ==
  /\ At(t, "dynamic", 3)
  /\ map_base' = Wrap(map_base + call[t].size)
  /\ Finish(t, call[t].base)
  /\ UNCHANGED <<prot, spoiled, regions, clashed, oom, aborted>>

(* uw_target_map_memory_fixed: the test and the assignment of map_base are *)
(* two accesses.                                                           *)
FixedTest(t) ==
  /\ At(t, "fixed", 1)
  /\ IF ~InRange(call[t])
     THEN AssertFails /\ UNCHANGED oom
     ELSE /\ GoTo(t, IF Wrap(call[t].base + call[t].size) > map_base THEN 2 ELSE 3)
          /\ UNCHANGED <<map_base, prot, spoiled, regions, clashed, oom, aborted>>

FixedRaise(t) ==
  /\ At(t, "fixed", 2)
  /\ map_base' = Wrap(call[t].base + call[t].size)
  /\ GoTo(t, 3)
  /\ UNCHANGED <<prot, spoiled, regions, clashed, oom, aborted>>

FixedMap(t) ==
  /\ At(t, "fixed", 3)
  /\ Mmap(call[t].base, call[t].size, call[t].prot)
  /\ regions' = LET b == call[t].base
                    n == call[t].size
                IN IF \E r \in regions : r.base <= b /\ b + n <= r.base + r.size
                   THEN regions
                   ELSE regions \cup {[base |-> b, size |-> n, by |-> t]}
  /\ Finish(t, call[t].base)
  /\ UNCHANGED <<map_base, clashed, oom, aborted>>

(* uw_unmap_memory *)
Unmap(t) ==
  /\ At(t, "unmap", 1)
  /\ IF ~InRange(call[t])
     THEN AssertFails /\ UNCHANGED oom
     ELSE /\ Mmap(call[t].base, call[t].size, "N")
          /\ regions' = {r \in regions : r.base # call[t].base}
          /\ Finish(t, call[t].base)
          /\ UNCHANGED <<map_base, clashed, oom, aborted>>

(* uw_set_memprotect: the pages it changes start at map_base, not at the    *)
(* address it was given; past the end of the reserved range mprotect fails. *)
Protect(t) ==
  /\ At(t, "protect", 1)
  /\ IF ~InRange(call[t]) \/ map_base + call[t].size > Pages
     THEN /\ AssertFails
          /\ oom' = (oom \/ map_base + call[t].size > Pages)
     ELSE /\ SetProt(map_base, call[t].size, call[t].prot)
          /\ spoiled' = spoiled \cup Span(map_base, call[t].size)
          /\ Finish(t, call[t].base)
          /\ UNCHANGED <<map_base, regions, clashed, oom, aborted>>

MemStep(t) ==
  \/ DynCheck(t) \/ DynMap(t) \/ DynRaise(t)
  \/ FixedTest(t) \/ FixedRaise(t) \/ FixedMap(t)
  \/ Unmap(t) \/ Protect(t)

------------------------------------------------------------------------------

Overlap(r, s) == r.base < s.base + s.size /\ s.base < r.base + r.size

(* Nothing is handed out twice, and everything handed out is below map_base, *)
(* as long as calls do not overlap in time and every range that the guest or *)
(* an image without relocations chose was free: dynamic mappings, fixed ones *)
(* above and below map_base and unmappings never meet.  (A region whose call *)
(* has not yet moved map_base is still the caller's own.)                    *)
RegionsDisjoint ==
  ~clashed =>
    /\ \A r, s \in regions : r # s => ~Overlap(r, s)
    /\ \A r \in regions : r.base + r.size <= Pages
    /\ \A r \in regions : \/ r.base + r.size <= map_base
                          \/ \E t \in Thread : call[t].op = "dynamic" /\ call[t].base = r.base

(* uw_set_memprotect changes the wrong pages: those above map_base.  As     *)
(* long as nothing clashes, no range in use loses the protection it was     *)
(* mapped with, and the next mapping of those pages sets its own.           *)
RegionsKeepProtection ==
  ~clashed => \A r \in regions : Span(r.base, r.size) \cap spoiled = {}

(* The memory map keeps what its callers were given. *)
RegionsKept == RegionsDisjoint /\ RegionsKeepProtection

(* Of the assertions of the memory map, those on the alignment fail for a   *)
(* caller's address or size; those on the range fail only when the space    *)
(* has run out, or for a range the guest or an image chose.  The ranges of  *)
(* sections, stacks and unmappings are inside the space.                    *)
(* (Two overlapping calls can pass the check of uw_target_map_memory_dynamic *)
(* together and map past the end of the space.  That check admits a range   *)
(* that ends with the space, check_memory_range none: once the last page    *)
(* is handed out, its owner cannot commit or unmap it.)                     *)
AbortMeansExhausted ==
  aborted => \/ oom \/ clashed \/ map_base = Pages
             \/ \E t \in Thread : ~Idle(t) /\ ~call[t].whole
=============================================================================
