------------------------------- MODULE Loader -------------------------------
(* The PE loader (ldr.cpp), the set-up of a thread's address space           *)
(* (jit_cpu_loop.cpp, halfix_cpu_loop.cpp), the calls of the libraries'       *)
(* entry points (INIT/init.c, KERNEL32's LoadLibraryA) and the allocations of *)
(* the running guest, composed with the memory map they all call.             *)
(*                                                                            *)
(* The main thread loads the executable and init.dll, recursively with what   *)
(* they import, and starts the initial thread, which calls the entry points   *)
(* of the libraries and then the program.  The running threads load further   *)
(* libraries, create a thread, and map and unmap memory; meanwhile the main   *)
(* thread allocates surfaces in the guest's memory.                           *)
EXTENDS MemoryMap, Sequences

CONSTANTS Main, First, Second,   \* the host's main thread, two guest threads
          Graphs,                \* import graphs of the files on disk
          SectionProt,           \* protections of the sections, a page each
          StackPages,            \* stack_size
          StackMax,              \* depth of recursion the host stack allows
          MaxOps,                \* bound: calls of the running program
          Sizes, Asked           \* bounds: the sizes the program asks for, and the
                                 \* ranges it asks for at an address of its choice

Module == {"exe", "init", "a", "b", "c"}

(* An image and a stack are smaller than the guest's half of 32 bits.  The    *)
(* host's stack is deep enough to load every module from within another.      *)
(* init.dll has an entry point, and no file imports it.  fixed gives the base *)
(* of each image without relocations, absent the files that cannot be opened  *)
(* or are no PE image, unlinked the pairs of which the first imports a symbol *)
(* that the second lacks, refuses the libraries whose DllMain returns FALSE.  *)
ASSUME LoaderAssumption ==
  /\ {Main, First, Second} \subseteq Thread /\ Main \notin {First, Second}
  /\ Pages > 2 /\ SectionProt \in Seq(Prot) /\ Len(SectionProt) \in 1..Pages - 1
  /\ StackPages \in 1..Pages - 1
  /\ StackMax \in Nat /\ StackMax >= Cardinality(Module) /\ MaxOps \in Nat
  /\ Sizes \subseteq Nat \ {0} /\ Asked \subseteq [base : Nat, size : Nat \ {0}]
  /\ \A g \in Graphs :
       /\ g.imports \in [Module -> Seq(Module)]
       /\ \A m \in Module \cap DOMAIN g.fixed : g.fixed[m] \in Nat
       /\ "init" \in g.dllmain
       /\ \A m \in Module : \A k \in DOMAIN g.imports[m] : g.imports[m][k] # "init"

VARIABLES graph,      \* the files: imports, which DLLs have an entry point, ...
          stack,      \* per thread, the activations of load_pe_module
          phase,      \* per thread, what it does between memory calls
          table,      \* module_table
          routines,   \* library_init_routines
          owned,      \* per thread, the ranges the program got and has not unmapped
          place,      \* per thread, where its guard pages and stack are
          maps,       \* history: how often each module was mapped
          dllcalls,   \* history: the calls of entry points, in order
          again,      \* history: modules LoadLibraryA was given with a directory
          loadRaced,  \* history: two loads have overlapped
          disturbed,  \* history: threads interrupted in setup_stack by a mapping
          ops, crashed

ldrVars == <<graph, stack, phase, table, routines, owned, place, maps, dllcalls,
             again, loadRaced, disturbed, ops, crashed>>
vars == <<memVars, ldrVars>>

linkVars == <<table, routines, maps>>
progVars == <<graph, owned, place, dllcalls, again, loadRaced, ops>>

ImagePages == Len(SectionProt)

Top(t) == Head(stack[t])
Loading(t) == stack[t] # <<>>
LoadAt(t, step) == Loading(t) /\ Top(t).step = step
Advance(t, step, i) == stack' = [stack EXCEPT ![t][1].step = step, ![t][1].i = i]
Frame(m) == [mod |-> m, step |-> "reserve", i |-> 0, base |-> 0]

(* What a module imports, itself or through others: the least set that has  *)
(* its imports and, with a module, what that one imports.                   *)
Direct(g, m) == {g.imports[m][k] : k \in DOMAIN g.imports[m]}
Closed(g, S) == \A e \in S : Direct(g, e) \subseteq S
Reached == [g \in Graphs |-> [m \in Module |->
  {d \in Module : \A S \in SUBSET Module :
                    Direct(g, m) \subseteq S /\ Closed(g, S) => d \in S}]]
Imports(m) == Reached[graph][m]
Cyclic == \E m \in Module : m \in Imports(m)

Init ==
  /\ MemInit
  /\ graph \in Graphs
  /\ stack = [t \in Thread |-> IF t = Main THEN <<Frame("exe")>> ELSE <<>>]
  /\ phase = [t \in Thread |-> IF t = Main THEN "load exe" ELSE "unborn"]
  /\ table = {} /\ routines = <<>>
  /\ owned = [t \in Thread |-> {}]
  /\ place = [t \in Thread |-> <<>>]
  /\ maps = [m \in Module |-> 0] /\ dllcalls = <<>>
  /\ again = {} /\ loadRaced = FALSE /\ disturbed = {}
  /\ ops = 0 /\ crashed = FALSE

Live == ~crashed /\ ~aborted

(* Enter a memory operation; a mapping by another thread falls between the  *)
(* steps of setup_stack.                                                    *)
Request(t, op, base, size, p, whole, taken) ==
  /\ Begin(t, op, base, size, p, whole, taken)
  /\ disturbed' = disturbed \cup
       {u \in Thread \ {t} : phase[u] = "setup" /\ Len(place[u]) \in 4..6}
Call(t, op, base, size, p) == Request(t, op, base, size, p, TRUE, FALSE)

(* A range in the space that meets none in use. *)
Free(base, size) ==
  /\ base + size < Pages
  /\ \A r \in regions : ~Overlap(r, [base |-> base, size |-> size])

-----------------------------------------------------------------------------
(* load_pe_module and load_pe                                               *)

(* Reserve the range of the image: at ImageBase, whatever is there, when    *)
(* the file has no relocations, anywhere otherwise.  SizeOfImage and        *)
(* ImageBase are taken as they are.                                         *)
Reserve(t) ==
  /\ LoadAt(t, "reserve") /\ Idle(t) /\ Top(t).mod \notin graph.absent
  /\ \E whole \in BOOLEAN :
       IF Top(t).mod \in DOMAIN graph.fixed
       THEN LET base == graph.fixed[Top(t).mod]
            IN Request(t, "fixed", base, ImagePages, "N", whole, ~Free(base, ImagePages))
       ELSE Request(t, "dynamic", 0, ImagePages, "N", whole, FALSE)
  /\ Advance(t, "section", 0)
  /\ maps' = [maps EXCEPT ![Top(t).mod] = @ + 1]
  /\ UNCHANGED <<progVars, phase, table, routines, crashed>>

(* The assertions on the file and on its headers. *)
Unloadable(t) ==
  /\ LoadAt(t, "reserve") /\ Top(t).mod \in graph.absent
  /\ crashed' = TRUE
  /\ UNCHANGED <<memVars, progVars, linkVars, stack, phase, disturbed>>

(* The sections are mapped one by one, read-write; the memory call before  *)
(* this one has returned the base of the image, or of the last section.     *)
(* Sizes are rounded up to the host's pages, addresses are not.             *)
MapSection(t) ==
  /\ LoadAt(t, "section") /\ Idle(t) /\ Top(t).i < ImagePages
  /\ LET base == IF Top(t).i = 0 THEN call[t].base ELSE Top(t).base
     IN /\ \E whole \in BOOLEAN :
             Request(t, "fixed", base + Top(t).i, 1, "RW", whole, FALSE)
        /\ stack' = [stack EXCEPT ![t][1].base = base, ![t][1].i = @ + 1]
  /\ UNCHANGED <<progVars, linkVars, phase, crashed>>

SectionsMapped(t) ==
  /\ LoadAt(t, "section") /\ Idle(t) /\ Top(t).i = ImagePages
  /\ Advance(t, "import", 1)
  /\ UNCHANGED <<memVars, progVars, linkVars, phase, disturbed, crashed>>

(* load_pe asserts that the exporter has every symbol that is imported. *)
Links(m, dep) == <<m, dep>> \notin graph.unlinked

(* Mutant of Import: the importing module is loaded once more. *)
ImportAgain(t) ==
  /\ LoadAt(t, "import") /\ Top(t).i <= Len(graph.imports[Top(t).mod])
  /\ LET dep == graph.imports[Top(t).mod][Top(t).i]
     IN \/ /\ dep \in table /\ Links(Top(t).mod, dep)
           /\ Advance(t, "import", Top(t).i + 1)
           /\ UNCHANGED crashed
        \/ /\ dep \notin table
           /\ Len(stack[t]) < StackMax
           /\ stack' = [stack EXCEPT ![t] = <<Frame(Top(t).mod)>> \o @]
           /\ UNCHANGED crashed
        \/ /\ IF dep \in table THEN ~Links(Top(t).mod, dep) ELSE Len(stack[t]) = StackMax
           /\ crashed' = TRUE
           /\ UNCHANGED stack
  /\ UNCHANGED <<memVars, progVars, linkVars, phase, disturbed>>

(* load_pe_module for the next import: a module in the table is linked at   *)
(* once, another is loaded first.  A module enters the table only when it   *)
(* is complete, so modules that import each other recurse without end.      *)
Import(t) ==
  /\ LoadAt(t, "import") /\ Top(t).i <= Len(graph.imports[Top(t).mod])
  /\ LET dep == graph.imports[Top(t).mod][Top(t).i]
     IN \/ /\ dep \in table /\ Links(Top(t).mod, dep)
           /\ Advance(t, "import", Top(t).i + 1)
           /\ UNCHANGED crashed
        \/ /\ dep \notin table
           /\ Len(stack[t]) < StackMax
           /\ stack' = [stack EXCEPT ![t] = <<Frame(dep)>> \o @]
           /\ UNCHANGED crashed
        \/ /\ IF dep \in table THEN ~Links(Top(t).mod, dep) ELSE Len(stack[t]) = StackMax
           /\ crashed' = TRUE
           /\ UNCHANGED stack
  /\ UNCHANGED <<memVars, progVars, linkVars, phase, disturbed>>

(* Mutant of ImportsDone: the table of imports is read past its end. *)
ImportsDoneBad(t) ==
  /\ LoadAt(t, "import") /\ Top(t).i > Len(graph.imports[Top(t).mod]) + 1
  /\ Advance(t, "protect", 1)
  /\ UNCHANGED <<memVars, progVars, linkVars, phase, disturbed, crashed>>

ImportsDone(t) ==
  /\ LoadAt(t, "import") /\ Top(t).i > Len(graph.imports[Top(t).mod])
  /\ Advance(t, "protect", 1)
  /\ UNCHANGED <<memVars, progVars, linkVars, phase, disturbed, crashed>>

(* "finalize sections protection" *)
ProtectSection(t) ==
  /\ LoadAt(t, "protect") /\ Idle(t) /\ Top(t).i <= ImagePages
  /\ Call(t, "protect", Top(t).base + Top(t).i - 1, 1, SectionProt[Top(t).i])
  /\ Advance(t, "protect", Top(t).i + 1)
  /\ UNCHANGED <<progVars, linkVars, phase, crashed>>

(* Mutant of Complete: the entry points are recorded in reverse. *)
CompleteBad(t) ==
  /\ LoadAt(t, "protect") /\ Idle(t) /\ Top(t).i > ImagePages
  /\ LET m == Top(t).mod
     IN /\ routines' = IF m \in graph.dllmain THEN <<m>> \o routines ELSE routines
        /\ table' = table \cup {m}
        /\ stack' = [stack EXCEPT ![t] =
             LET rest == Tail(@)
             IN IF rest = <<>> THEN rest ELSE [rest EXCEPT ![1].i = @ + 1]]
  /\ UNCHANGED <<memVars, progVars, phase, maps, disturbed, crashed>>

(* The entry point is recorded, the module enters the table, and the        *)
(* importer links to it.                                                    *)
Complete(t) ==
  /\ LoadAt(t, "protect") /\ Idle(t) /\ Top(t).i > ImagePages
  /\ LET m == Top(t).mod
     IN /\ routines' = IF m \in graph.dllmain THEN Append(routines, m) ELSE routines
        /\ table' = table \cup {m}
        /\ stack' = [stack EXCEPT ![t] =
             LET rest == Tail(@)
             IN IF rest = <<>> THEN rest ELSE [rest EXCEPT ![1].i = @ + 1]]
        /\ crashed' = (Len(stack[t]) > 1 /\ ~Links(stack[t][2].mod, m))
  /\ UNCHANGED <<memVars, progVars, phase, maps, disturbed>>

LoadStep(t) ==
  \/ Reserve(t) \/ Unloadable(t) \/ MapSection(t) \/ SectionsMapped(t)
  \/ Import(t) \/ ImportsDone(t) \/ ProtectSection(t) \/ Complete(t)

-----------------------------------------------------------------------------
(* ldr_load_executable_and_prepare_initial_thread                            *)

Enter(t, p) == phase' = [phase EXCEPT ![t] = p]

(* The executable is loaded; load init.dll (unless something imported it). *)
LoadInit ==
  /\ phase[Main] = "load exe" /\ ~Loading(Main)
  /\ stack' = [stack EXCEPT ![Main] = IF "init" \in table THEN <<>> ELSE <<Frame("init")>>]
  /\ Enter(Main, "load init")
  /\ UNCHANGED <<memVars, progVars, linkVars, disturbed, crashed>>

(* init.dll's routine is not a DllMain: the last one recorded is erased. *)
EraseLast ==
  /\ phase[Main] = "load init" /\ ~Loading(Main)
  /\ routines' = SubSeq(routines, 1, Len(routines) - 1)
  /\ Enter(Main, "init list")
  /\ UNCHANGED <<memVars, progVars, stack, table, maps, disturbed, crashed>>

(* The pages of the init list and of the command line. *)
MapParameters ==
  /\ phase[Main] \in {"init list", "command line"} /\ Idle(Main)
  /\ Call(Main, "dynamic", 0, 1, "RW")
  /\ Enter(Main, IF phase[Main] = "init list" THEN "command line" ELSE "start thread")
  /\ UNCHANGED <<progVars, linkVars, stack, crashed>>

(* uw_start_initial_thread, then the loop of the host's events. *)
StartThread ==
  /\ phase[Main] = "start thread" /\ Idle(Main)
  /\ phase' = [phase EXCEPT ![Main] = "events", ![First] = "setup"]
  /\ UNCHANGED <<memVars, progVars, linkVars, stack, disturbed, crashed>>

-----------------------------------------------------------------------------
(* uw_cpu_setup_thread: GDT, TEB, TLS, then setup_stack: guard, stack, guard *)

SetupProtBad == <<"RW", "RW", "RW", "RW", "N", "N">>    \* Mutant of SetupProt
SetupProt == <<"RW", "RW", "RW", "N", "RW", "N">>
SetupSize == <<1, 1, 1, 1, StackPages, 1>>

(* Each call stores what the one before it returned: place[t][k + 1] is the *)
(* base of the k-th range.  The stack has the size the executable's header  *)
(* or the creator of the thread gives, whole pages or not.                  *)
SetupMap(t) ==
  /\ phase[t] = "setup" /\ Idle(t) /\ Len(place[t]) < 6
  /\ LET k == Len(place[t]) + 1
     IN \E whole \in BOOLEAN :
          /\ whole \/ k = 5
          /\ Request(t, "dynamic", 0, SetupSize[k], SetupProt[k], whole, FALSE)
  /\ place' = [place EXCEPT ![t] = Append(@, call[t].base)]
  /\ UNCHANGED <<linkVars, stack, phase, graph, owned, dllcalls, again, loadRaced, ops,
                 crashed>>

(* The thread enters the guest: the initial one calls the entry points of   *)
(* the libraries first, another one the program's function.                 *)
SetupDone(t) ==
  /\ phase[t] = "setup" /\ Idle(t) /\ Len(place[t]) = 6
  /\ place' = [place EXCEPT ![t] = Append(@, call[t].base)]
  /\ Enter(t, IF t = First THEN "dll entries" ELSE "run")
  /\ UNCHANGED <<memVars, linkVars, stack, graph, owned, dllcalls, again, loadRaced, ops,
                 disturbed, crashed>>

-----------------------------------------------------------------------------
(* The running program                                                       *)

NextRoutine == Len(dllcalls) + 1

(* call_dll_entries, then the program's entry point. *)
DllEntry ==
  /\ phase[First] = "dll entries"
  /\ IF NextRoutine <= Len(routines)
     THEN /\ dllcalls' = Append(dllcalls, routines[NextRoutine])
          /\ UNCHANGED phase
     ELSE Enter(First, "run") /\ UNCHANGED dllcalls
  /\ UNCHANGED <<memVars, linkVars, stack, graph, owned, place, again, loadRaced,
                 disturbed, ops, crashed>>

MayCall(t) == /\ phase[t] = (IF t = Main THEN "events" ELSE "run")
              /\ ~Loading(t) /\ Idle(t) /\ ops < MaxOps
CountOp == ops' = ops + 1

(* VirtualAlloc without an address, a span of rpmalloc, the pixels of a     *)
(* surface.  The sum with map_base of a size beyond the space may wrap.     *)
Allocate(t) ==
  /\ MayCall(t) /\ CountOp
  /\ \E size \in IF t = Main THEN {1} ELSE Sizes, whole \in BOOLEAN :
       /\ whole \/ t # Main
       /\ Request(t, "dynamic", 0, size, IF t = Main \/ size > 1 THEN "RW" ELSE "N", whole,
                  size >= Pages)
  /\ Enter(t, "allocating")
  /\ UNCHANGED <<linkVars, stack, graph, owned, place, dllcalls, again, loadRaced,
                 crashed>>

(* VirtualAlloc at an address: inside a range the program was given (page   *)
(* by page),                                                                *)
Commit(t) ==
  /\ MayCall(t) /\ CountOp /\ t # Main
  /\ \E u \in Thread : \E r \in owned[u] : \E k \in 0..r.size - 1, p \in {"N", "RW"} :
       Call(t, "fixed", r.base + k, 1, p)
  /\ UNCHANGED <<linkVars, stack, phase, graph, owned, place, dllcalls, again, loadRaced,
                 crashed>>

(* or any other, which is mapped over what is there.                        *)
AllocateAt(t) ==
  /\ MayCall(t) /\ CountOp /\ t # Main
  /\ \E a \in Asked, p \in {"N", "RW"}, whole \in BOOLEAN :
       Request(t, "fixed", a.base, a.size, p, whole, ~Free(a.base, a.size))
  /\ Enter(t, "allocating")
  /\ UNCHANGED <<linkVars, stack, graph, owned, place, dllcalls, again, loadRaced,
                 crashed>>

(* Unmapping by rpmalloc or with the surface. *)
Release(t) ==
  /\ MayCall(t) /\ CountOp
  /\ \E r \in owned[t] :
       /\ Call(t, "unmap", r.base, r.size, "N")
       /\ owned' = [owned EXCEPT ![t] = @ \ {r}]
  /\ UNCHANGED <<linkVars, stack, phase, graph, place, dllcalls, again, loadRaced, crashed>>

Allocated(t) ==
  /\ phase[t] = "allocating" /\ Idle(t)
  /\ owned' = [owned EXCEPT ![t] = @ \cup {r \in regions : r.by = t /\ r.base = call[t].base}]
  /\ Enter(t, IF t = Main THEN "events" ELSE "run")
  /\ UNCHANGED <<memVars, linkVars, stack, graph, place, dllcalls, again, loadRaced,
                 disturbed, ops, crashed>>

(* Mutant of LoadLibrary: the loaded modules are not consulted. *)
LoadLibraryBad(t) ==
  /\ MayCall(t) /\ CountOp /\ t # Main
  /\ \E m \in Module \ {"exe", "init"}, path \in BOOLEAN :
       /\ m \notin table \/ path \/ m \in graph.dllmain
       /\ again' = IF path THEN again \cup {m} ELSE again
       /\ stack' = [stack EXCEPT ![t] = IF m \in table THEN <<>> ELSE <<Frame(m)>>]
       /\ Enter(t, m)
       /\ loadRaced' = (loadRaced \/ \E u \in Thread \ {t} : Loading(u))
  /\ UNCHANGED <<memVars, linkVars, graph, owned, place, dllcalls, disturbed, crashed>>

(* LoadLibraryA: GetModuleHandleA compares the whole name with the table,   *)
(* load_pe_module only what follows the last separator.  A name with a      *)
(* directory is thus never found by the first and always by the second.     *)
LoadLibrary(t) ==
  /\ MayCall(t) /\ CountOp /\ t # Main
  /\ \E m \in Module \ {"exe", "init"}, path \in BOOLEAN :
       /\ m \notin table \/ path
       /\ again' = IF path THEN again \cup {m} ELSE again
       /\ stack' = [stack EXCEPT ![t] = IF m \in table THEN <<>> ELSE <<Frame(m)>>]
       /\ Enter(t, m)
       /\ loadRaced' = (loadRaced \/ \E u \in Thread \ {t} : Loading(u))
  /\ UNCHANGED <<memVars, linkVars, graph, owned, place, dllcalls, disturbed, crashed>>

(* The entry point of the library is called, without a test for 0; the      *)
(* process ends when it returns FALSE.                                      *)
LibraryEntry(t) ==
  /\ phase[t] \in Module /\ ~Loading(t)
  /\ IF phase[t] \in graph.dllmain \ graph.refuses
     THEN /\ dllcalls' = Append(dllcalls, phase[t])
          /\ Enter(t, "run")
          /\ UNCHANGED crashed
     ELSE crashed' = TRUE /\ UNCHANGED <<dllcalls, phase>>
  /\ UNCHANGED <<memVars, linkVars, stack, graph, owned, place, again, loadRaced,
                 disturbed, ops>>

(* CreateThread: the new thread sets itself up while its creator waits. *)
CreateThread ==
  /\ MayCall(First)
  /\ phase[Second] = "unborn"
  /\ phase' = [phase EXCEPT ![First] = "creating", ![Second] = "setup"]
  /\ UNCHANGED <<memVars, linkVars, stack, progVars, disturbed, crashed>>

Created ==
  /\ phase[First] = "creating" /\ phase[Second] \notin {"unborn", "setup"}
  /\ Enter(First, "run")
  /\ UNCHANGED <<memVars, linkVars, stack, progVars, disturbed, crashed>>

Start == LoadInit \/ EraseLast \/ MapParameters \/ StartThread \/ DllEntry

Program(t) == Allocate(t) \/ Commit(t) \/ AllocateAt(t) \/ Release(t) \/ LoadLibrary(t) \/ LibraryEntry(t)

(* Steps a thread takes by itself once it is in a call. *)
Proceed(t) == \/ LoadStep(t) \/ Allocated(t) \/ SetupMap(t) \/ SetupDone(t)
              \/ MemStep(t) /\ UNCHANGED ldrVars

Next == Live /\ (Start \/ CreateThread \/ Created
                 \/ \E t \in Thread : Proceed(t) \/ Program(t))

Spec == Init /\ [][Next]_vars
FairSpec == Spec /\ WF_vars(Live /\ (Start \/ \E t \in Thread : Proceed(t)))

-----------------------------------------------------------------------------

TypeOK ==
  /\ map_base \in 0..2 * Pages - 1 /\ prot \in [Page -> Prot]
  /\ regions \subseteq [base : Nat, size : Nat, by : Thread]
  /\ \A t \in Thread : /\ Len(stack[t]) <= StackMax
                        /\ \A k \in DOMAIN stack[t] :
                             stack[t][k] \in [mod : Module, i : Nat, base : Nat,
                                             step : {"reserve", "section", "import", "protect"}]
  /\ table \subseteq Module /\ routines \in Seq(Module) /\ dllcalls \in Seq(Module)
  /\ owned \in [Thread -> SUBSET regions] \/ clashed
  /\ ops \in 0..MaxOps

(* A module is mapped once, however many import it, unless modules import   *)
(* each other or two threads are in LoadLibraryA at a time: the table is    *)
(* consulted long before it is extended.                                    *)
MappedOnce == \A m \in Module : maps[m] > 1 => Cyclic \/ loadRaced

(* When the program's entry point runs, every library the executable needs  *)
(* has had its entry point called, init.dll's routine has not been called   *)
(* as one, and a library was initialised after its imports.                 *)
Called(m, k) == k \in DOMAIN dllcalls /\ dllcalls[k] = m
Position(m) == CHOOSE k \in DOMAIN dllcalls :
                 Called(m, k) /\ \A j \in 1..k - 1 : ~Called(m, j)
ProgramRunsInitialised ==
  phase[First] \in {"run", "allocating", "creating"} =>
    /\ "init" \notin {dllcalls[k] : k \in DOMAIN dllcalls}
    /\ \A m \in (Imports("exe") \cup Imports("init")) \cap graph.dllmain :
         /\ \E k \in DOMAIN dllcalls : Called(m, k)
         /\ \A d \in Imports(m) \cap graph.dllmain : Position(d) < Position(m)

(* The entry point of a library is called a second time only if             *)
(* LoadLibraryA was given its name with a directory (or twice at a time).   *)
InitialisedOnce ==
  \A m \in Module :
    Cardinality({k \in DOMAIN dllcalls : dllcalls[k] = m}) > 1 => m \in again \/ loadRaced

(* A module is loaded once: mapped once and initialised once. *)
LoadedOnce == TypeOK /\ MappedOnce /\ InitialisedOnce

(* "hacky hacks for stack protection": the pages next to a thread's stack   *)
(* are its no-access guard pages, unless another thread mapped memory       *)
(* between the three calls of setup_stack, or calls clashed.                *)
StackIsGuarded ==
  \A t \in Thread :
    Len(place[t]) = 7 /\ t \notin disturbed /\ ~clashed =>
      LET top == place[t][6]
      IN prot[top - 1] = "N" /\ prot[top + StackPages] = "N"

(* The loader and LoadLibraryA end the process when the host's stack        *)
(* overflows in a cycle of imports, when a file is missing or a symbol of   *)
(* a loaded module, when a library has no entry point or its DllMain fails. *)
CrashHasReason ==
  crashed =>
    \/ Cyclic
    \/ \E t \in Thread : Loading(t) /\ Top(t).mod \in graph.absent
    \/ \E m \in Module : \E dep \in table \cap Direct(graph, m) : ~Links(m, dep)
    \/ \E t \in Thread : phase[t] \in Module \ (graph.dllmain \ graph.refuses)

(* The process is ended by the loader or the memory map for a reason of the *)
(* files or the program, or for want of memory.                             *)
EndHasReason == CrashHasReason /\ AbortMeansExhausted

(* Loading ends: the program is started, or the process ends for one of     *)
(* these reasons.                                                           *)
ProgramStarts == <>(phase[First] = "run" \/ ~Live)
=============================================================================
