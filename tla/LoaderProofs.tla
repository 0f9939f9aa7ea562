---------------------------- MODULE LoaderProofs ----------------------------
(***************************************************************************)
(* Proofs about Loader composed with MemoryMap, for any address space,     *)
(* images, stacks and import graphs.                                       *)
(*                                                                         *)
(* First, as long as calls of the memory map do not clash: what was        *)
(* handed out stays disjoint and keeps its protection, and the stacks keep *)
(* their guard pages.  Then, whether or not calls clash: a module is       *)
(* loaded and initialised once, imports first, and the process ends only   *)
(* for a reason.                                                           *)
(***************************************************************************)
EXTENDS Loader, SequenceTheorems, FiniteSetTheorems, NaturalsInduction, WellFoundedInduction,
        TLAPS

Region(b, n, t) == [base |-> b, size |-> n, by |-> t]

\* The bases a thread has stored of its two guard pages.
GuardBases(t) == {place[t][k] : k \in {5, 7} \cap DOMAIN place[t]}

\* Memory of the program: it has the range, is unmapping it, or is about to
\* get it from a call that is done or nearly so.
Loose(r) ==
  \/ r \in owned[r.by]
  \/ call[r.by].op = "unmap" /\ call[r.by].base = r.base
  \/ /\ phase[r.by] = "allocating" /\ (Idle(r.by) \/ At(r.by, "dynamic", 3))
     /\ call[r.by].base = r.base

\* Memory of the loader or of the set-up of a thread, never unmapped.
Pinned(r) == r \in regions /\ ~Loose(r)

\* The region is the main thread's or the thread's own, and no guard page; or
\* it is the program's.
Usable(r, t) == \/ r.by = Main
                \/ r.by = t /\ r.base \notin GuardBases(t)
                \/ r \in owned[r.by]

\* A range inside a usable region.
Inside(t, b, n) == \E r \in regions : /\ r.base <= b /\ b + n <= r.base + r.size
                                      /\ Usable(r, t)

\* An image is mapped at b.
Image(t, b) == \E r \in regions : /\ Pinned(r) /\ Usable(r, t)
                                  /\ r.base = b /\ r.size = ImagePages

\* A guard page is mapped at b.
GuardAt(t, b) == Pinned(Region(b, 1, t)) /\ prot[b] = "N"

FrameRec == [mod : Module, step : {"reserve", "section", "import", "protect"},
             i : Int, base : Int]
RegionRec == [base : Nat, size : 1..Pages - 1, by : Thread]
NoCall == [op : {"none"}, base : Int]
ActiveCall == [op : {"dynamic", "fixed", "unmap", "protect"}, base : Int,
               size : 1..Pages - 1, prot : Prot, whole : BOOLEAN, step : 1..3]

Types ==
  /\ clashed = FALSE /\ map_base \in 0..Pages /\ prot = [p \in Page |-> prot[p]]
  /\ regions \subseteq RegionRec /\ call \in [Thread -> NoCall \cup ActiveCall]
  /\ stack = [t \in Thread |-> stack[t]] /\ \A t \in Thread : stack[t] \in Seq(FrameRec)
  /\ phase = [t \in Thread |-> phase[t]] /\ place \in [Thread -> Seq(Int)]
  /\ owned = [t \in Thread |-> owned[t]] /\ graph \in Graphs

\* At most one call is in progress.
Alone == \A t, u \in Thread : ~Idle(t) /\ ~Idle(u) => t = u

\* The region was mapped by a call that has yet to move map_base.
Raising(r) == At(r.by, "dynamic", 3) /\ call[r.by].base = r.base

MapOK ==
  /\ \A r, s \in regions : r # s => ~Overlap(r, s)
  /\ \A r \in regions : /\ r.base + r.size <= Pages
                        /\ r.base + r.size <= map_base \/ Raising(r)
                        /\ Span(r.base, r.size) \cap spoiled = {}

OwnOK == \A t \in Thread : \A r \in owned[t] : r \in regions /\ r.by = t

\* The thread reserves the range of an image, or some other for the program.
Reserving(t) == (LoadAt(t, "section") /\ Top(t).i = 0) \/ phase[t] = "allocating"

\* A fixed mapping takes a free range, or it is inside one in use.
Fits(t) ==
  \/ Free(call[t].base, call[t].size)
  \/ Inside(t, call[t].base, call[t].size) /\ ~Reserving(t)

CallOK(t) ==
  /\ At(t, "dynamic", 2) => map_base + call[t].size <= Pages
  /\ At(t, "dynamic", 3) =>
       /\ call[t].base = map_base /\ map_base + call[t].size <= Pages
       /\ Region(call[t].base, call[t].size, t) \in regions \ owned[t]
       /\ call[t].base \notin GuardBases(t)
  /\ call[t].op = "fixed" =>
       /\ call[t].base \in Nat
       /\ Fits(t)
       /\ call[t].step = 2 => call[t].base + call[t].size \in map_base..Pages
       /\ call[t].step = 3 => call[t].base + call[t].size <= map_base
  /\ call[t].op = "unmap" =>
       Region(call[t].base, call[t].size, t) \in regions \ owned[t]

\* A thread that maps the sections of an image.
SecOK(t) ==
  LoadAt(t, "section") =>
    /\ Top(t).i \in 0..ImagePages
    /\ Top(t).i = 0 /\ ~Idle(t) =>
         call[t].op \in {"dynamic", "fixed"} /\ call[t].size = ImagePages
    /\ Top(t).i = 0 /\ Idle(t) => Image(t, call[t].base)
    /\ Top(t).i > 0 => Image(t, Top(t).base)

LoadPhases == {"load exe", "load init"} \cup Module
StartPhases == {"load exe", "load init", "init list", "command line", "start thread"}
MainPhases == StartPhases \cup {"events", "allocating"}
\* How many ranges the thread has stored.
Placed(t) == Len(place[t])

PhaseOK(t) ==
  /\ Loading(t) => phase[t] \in LoadPhases
  /\ \A k \in DOMAIN stack[t] : k > 1 => stack[t][k].step = "import" /\ stack[t][k].i >= 1
  /\ phase[t] = "setup" => call[t].op \in {"none", "dynamic"}
  /\ phase[t] = "allocating" => call[t].op \in {"none", "dynamic", "fixed"}
  /\ phase[t] = "setup" => Placed(t) <= 6
  /\ phase[t] = "unborn" => Placed(t) = 0 /\ Idle(t)
  /\ t = Main => Placed(t) = 0 /\ phase[t] \in MainPhases
  /\ LoadAt(t, "import") \/ LoadAt(t, "protect") => Top(t).i >= 1
  /\ phase[Main] \in StartPhases => t = Main \/ phase[t] = "unborn"

\* The thread's last call and its guard pages.
SetOK(t) ==
  /\ Placed(t) <= 7
  /\ phase[t] = "setup" /\ ~Idle(t) =>
       /\ Placed(t) >= 1
       /\ call[t].size = SetupSize[Placed(t)] /\ call[t].prot = SetupProt[Placed(t)]
  /\ phase[t] = "setup" /\ Placed(t) \in {4, 6} =>
       /\ At(t, "dynamic", 3) => prot[call[t].base] = "N"
       /\ Idle(t) => GuardAt(t, call[t].base)
  /\ Placed(t) >= 5 => GuardAt(t, place[t][5])
  /\ Placed(t) = 7 => GuardAt(t, place[t][7])

\* Nobody has mapped anything since the thread began with its stack: the ranges
\* follow each other.
NextTo(t) ==
  /\ phase[t] = "setup" /\ Placed(t) = 4 /\ Idle(t) => map_base = call[t].base + 1
  /\ phase[t] = "setup" /\ Placed(t) = 5 =>
       IF Idle(t) THEN call[t].base = place[t][5] + 1 /\ map_base = call[t].base + StackPages
                  ELSE map_base = place[t][5] + 1
  /\ Placed(t) >= 6 => place[t][6] = place[t][5] + 1
  /\ phase[t] = "setup" /\ Placed(t) = 6 =>
       IF Idle(t) THEN call[t].base = place[t][6] + StackPages
                  ELSE map_base = place[t][6] + StackPages
  /\ Placed(t) = 7 => place[t][7] = place[t][6] + StackPages
Undisturbed(t) ==
  t \notin disturbed =>
    /\ NextTo(t)
    /\ phase[t] = "setup" /\ Placed(t) \in 4..6 => \A u \in Thread \ {t} : Idle(u)

ThreadOK(t) == CallOK(t) /\ SecOK(t) /\ PhaseOK(t) /\ SetOK(t) /\ Undisturbed(t)

Good == Types /\ Alone /\ MapOK /\ OwnOK /\ \A t \in Thread : ThreadOK(t)

\* As long as calls of the memory map have not clashed, all is well.
Inv == clashed \/ Good

-----------------------------------------------------------------------------
\* What a step may leave alone.

\* The thread is where it was.
SameThread(u) ==
  /\ call'[u] = call[u] /\ stack'[u] = stack[u] /\ phase'[u] = phase[u]
  /\ owned'[u] = owned[u] /\ place'[u] = place[u]

\* Memory that is never unmapped is still there.
PinnedKept == \A r \in regions : ~Loose(r) => r \in regions' /\ ~Loose(r)'

\* The program's memory stays the program's.
OwnKept == \A r \in regions : r \in owned[r.by] => r \in owned'[r.by]

\* So are the guard pages, those that a thread has yet to store included.
GuardsKept ==
  \A u \in Thread \ {Main}, b \in Int :
    GuardAt(u, b) /\ (b \in GuardBases(u) \/ Idle(u)) => GuardAt(u, b)'

-----------------------------------------------------------------------------
\* Regions and calls.

(* A region is made of its fields.                                          *)
LEMMA RegionShape ==
  ASSUME Types, NEW r \in regions
  PROVE  /\ r.base \in Nat /\ r.size \in 1..Pages - 1 /\ r.by \in Thread
         /\ r = Region(r.base, r.size, r.by)
BY DEF Types, RegionRec, Region

(* Disjoint regions differ in their base.                                   *)
LEMMA DistinctBases ==
  ASSUME Types, MapOK, NEW r \in regions, NEW s \in regions, r.base = s.base
  PROVE  r = s
BY RegionShape DEF MapOK, Overlap

(* What the fields of a call can be.                                        *)
LEMMA CallShape ==
  ASSUME Types, NEW t \in Thread
  PROVE  /\ call[t].base \in Int
         /\ Idle(t) => call[t] \in NoCall
         /\ ~Idle(t) => /\ call[t] \in ActiveCall
                        /\ call[t].op \in {"dynamic", "fixed", "unmap", "protect"}
                        /\ call[t].size \in 1..Pages - 1 /\ call[t].prot \in Prot
                        /\ call[t].step \in 1..3 /\ call[t].whole \in BOOLEAN
<1>1. call[t] \in NoCall \/ call[t] \in ActiveCall
  BY DEF Types
<1>2. CASE call[t] \in NoCall
  BY <1>2 DEF NoCall, Idle
<1>3. CASE call[t] \in ActiveCall
  BY <1>3 DEF ActiveCall, Idle
<1> QED
  BY <1>1, <1>2, <1>3

(* Nothing handed out lies above map_base, unless a call has yet to move it. *)
LEMMA BelowBase ==
  ASSUME Types, MapOK, \A t \in Thread : ~At(t, "dynamic", 3), NEW r \in regions
  PROVE  r.base + r.size <= map_base
BY RegionShape DEF MapOK, Raising

(* A thread is the only one in a call.                                      *)
LEMMA OthersIdle ==
  ASSUME Good, NEW t \in Thread, ~Idle(t)
  PROVE  \A u \in Thread \ {t} : Idle(u)
BY DEF Good, Alone

(* Nor does anything when a thread in a call has yet to map.                *)
LEMMA BelowBaseIn ==
  ASSUME Good, NEW t \in Thread, ~Idle(t), ~At(t, "dynamic", 3), NEW r \in regions
  PROVE  r.base + r.size <= map_base
<1>1. \A u \in Thread : ~At(u, "dynamic", 3)
  BY OthersIdle DEF At, Idle
<1> QED
  BY <1>1, BelowBase DEF Good

(* The places are numbered from 1.                                           *)
LEMMA PlacedShape ==
  ASSUME Types, NEW t \in Thread
  PROVE  /\ Placed(t) \in Nat /\ DOMAIN place[t] = 1..Placed(t)
         /\ \A k \in 1..Placed(t) : place[t][k] \in Int
<1>1. place[t] \in Seq(Int)
  BY DEF Types
<1> QED
  BY <1>1 DEF Placed

(* The bases a thread has stored of its guard pages are those of such pages. *)
LEMMA GuardFacts ==
  ASSUME Good, NEW t \in Thread, NEW b \in GuardBases(t)
  PROVE  GuardAt(t, b) /\ t # Main /\ b \in Nat /\ Region(b, 1, t) \in regions
<1>1. PICK k \in {5, 7} \cap DOMAIN place[t] : b = place[t][k]
  BY DEF GuardBases
<1>2. Types /\ SetOK(t) /\ PhaseOK(t)
  BY DEF Good, ThreadOK
<1>3. Placed(t) \in Nat /\ k \in {5, 7} /\ k <= Placed(t)
  BY <1>1, <1>2, PlacedShape
<1>4. t # Main
  BY <1>2, <1>3 DEF PhaseOK
<1>5. GuardAt(t, b)
  BY <1>1, <1>2, <1>3 DEF SetOK
<1>6. Region(b, 1, t) \in regions
  BY <1>5 DEF GuardAt, Pinned
<1> QED
  BY <1>2, <1>4, <1>5, <1>6, RegionShape DEF Region

(* What a thread owns is a region of its own, and no guard page.            *)
LEMMA OwnUsable ==
  ASSUME Good, NEW t \in Thread, NEW r \in owned[t]
  PROVE  r \in regions /\ r.by = t /\ r.base \notin GuardBases(t)
<1>1. Types /\ MapOK /\ r \in regions /\ r.by = t
  BY DEF Good, OwnOK
<1>2. ASSUME r.base \in GuardBases(t) PROVE FALSE
  <2>1. GuardAt(t, r.base) /\ Region(r.base, 1, t) \in regions
    BY <1>2, GuardFacts
  <2>2. Region(r.base, 1, t) = r
    BY <1>1, <2>1, DistinctBases DEF Region
  <2> QED
    BY <1>1, <2>1, <2>2 DEF GuardAt, Pinned, Loose
<1> QED
  BY <1>1, <1>2

-----------------------------------------------------------------------------
\* What a step of another thread leaves alone.

(* An image is where it was.                                                *)
LEMMA ImageStays ==
  ASSUME NEW u, NEW b, PinnedKept, place'[u] = place[u], Image(u, b)
  PROVE  Image(u, b)'
<1>1. PICK r \in regions : Pinned(r) /\ Usable(r, u) /\ r.base = b /\ r.size = ImagePages
  BY DEF Image
<1>2. r \in regions' /\ Pinned(r)'
  BY <1>1 DEF PinnedKept, Pinned
<1>3. Usable(r, u)'
  BY <1>1 DEF Usable, GuardBases, Pinned, Loose
<1> QED
  BY <1>1, <1>2, <1>3 DEF Image, ImagePages

(* So does a thread that maps sections find its image.                      *)
LEMMA SecStays ==
  ASSUME NEW u \in Thread, SecOK(u), SameThread(u), graph' = graph, PinnedKept
  PROVE  SecOK(u)'
<1>1. ASSUME NEW b, Image(u, b) PROVE Image(u, b)'
  BY <1>1, ImageStays DEF SameThread
<1> QED
  BY <1>1 DEF SecOK, SameThread, LoadAt, Loading, Top, Idle, ImagePages

(* Once the program has started it does not start again.                    *)
LEMMA PhaseStays ==
  ASSUME NEW u \in Thread, PhaseOK(u), SameThread(u),
         phase'[Main] \in StartPhases => phase[Main] \in StartPhases
  PROVE  PhaseOK(u)'
BY DEF PhaseOK, SameThread, LoadAt, Loading, Top, Idle, Placed, LoadPhases, MainPhases,
       StartPhases

(* The guard pages of a thread are where they were.                         *)
LEMMA SetStays ==
  ASSUME Good, NEW u \in Thread, SameThread(u), GuardsKept, Idle(u) \/ prot' = prot
  PROVE  SetOK(u)'
<1>1. SetOK(u) /\ PhaseOK(u) /\ Types
  BY DEF Good, ThreadOK
<1>2. Placed(u)' = Placed(u) /\ Idle(u)' = Idle(u) /\ At(u, "dynamic", 3)' = At(u, "dynamic", 3)
  BY DEF Placed, SameThread, Idle, At
<1>3. u = Main => Placed(u) = 0 /\ phase[u] # "setup"
  BY <1>1 DEF PhaseOK, MainPhases, StartPhases
<1>4. Placed(u) \in Nat /\ \A k \in 1..Placed(u) : place[u][k] \in Int
  BY <1>1, PlacedShape
<1>5. ASSUME NEW k \in {5, 7}, k <= Placed(u), GuardAt(u, place[u][k])
      PROVE  GuardAt(u, place[u][k])'
  <2>1. place[u][k] \in GuardBases(u) /\ u # Main /\ place[u][k] \in Int
    BY <1>1, <1>3, <1>4, <1>5, PlacedShape DEF GuardBases
  <2>2. place'[u] = place[u]
    BY DEF SameThread
  <2>3. ASSUME NEW b \in Int, b \in GuardBases(u), GuardAt(u, b) PROVE GuardAt(u, b)'
    BY <2>1, <2>3 DEF GuardsKept
  <2> QED
    BY <1>5, <2>1, <2>2, <2>3
<1>6. ASSUME u # Main, Idle(u), GuardAt(u, call[u].base) PROVE GuardAt(u, call[u].base)'
  <2>1. call[u].base \in Int /\ call'[u] = call[u]
    BY <1>1, CallShape DEF SameThread
  <2>2. ASSUME NEW b \in Int, GuardAt(u, b) PROVE GuardAt(u, b)'
    BY <1>6, <2>2 DEF GuardsKept
  <2> QED
    BY <1>6, <2>1, <2>2
<1>7. Placed(u) >= 5 => GuardAt(u, place[u][5])'
  BY <1>1, <1>4, <1>5 DEF SetOK
<1>8. Placed(u) = 7 => GuardAt(u, place[u][7])'
  BY <1>1, <1>4, <1>5 DEF SetOK
<1>9. phase[u] = "setup" /\ Placed(u) \in {4, 6} /\ Idle(u) => GuardAt(u, call[u].base)'
  BY <1>1, <1>3, <1>6 DEF SetOK
<1>10. phase[u] = "setup" /\ Placed(u) \in {4, 6} /\ At(u, "dynamic", 3)
         => prot'[call[u].base] = "N"
  BY <1>1 DEF SetOK, Idle, At
<1> QED
  BY <1>1, <1>2, <1>7, <1>8, <1>9, <1>10 DEF SetOK, SameThread

(* What is next to the stack of a thread stays there.                       *)
LEMMA UndisturbedStays ==
  ASSUME NEW u \in Thread, Undisturbed(u), SameThread(u),
         u \notin disturbed' => u \notin disturbed,
         u \notin disturbed' /\ phase[u] = "setup" /\ Placed(u) \in 4..6
           => map_base' = map_base /\ \A v \in Thread \ {u} : Idle(v)'
  PROVE  Undisturbed(u)'
<1>1. Placed(u)' = Placed(u) /\ Idle(u)' = Idle(u)
  BY DEF Placed, SameThread, Idle
<1>2. CASE u \in disturbed'
  BY <1>2 DEF Undisturbed
<1>3. CASE u \notin disturbed' /\ phase[u] = "setup" /\ Placed(u) \in 4..6
  BY <1>1, <1>3 DEF Undisturbed, NextTo, SameThread
<1>4. CASE u \notin disturbed' /\ ~(phase[u] = "setup" /\ Placed(u) \in 4..6)
  <2>1. NextTo(u) /\ phase'[u] = phase[u] /\ place'[u] = place[u]
    BY <1>4 DEF Undisturbed, SameThread
  <2>2. NextTo(u)'
    BY <1>1, <1>4, <2>1 DEF NextTo
  <2> QED
    BY <1>1, <1>4, <2>1, <2>2 DEF Undisturbed
<1> QED
  BY <1>2, <1>3, <1>4

(* A fixed mapping fits where it did.                                       *)
LEMMA FitsStays ==
  ASSUME NEW u \in Thread, Fits(u), call'[u] = call[u], place'[u] = place[u], OwnKept,
         regions' = regions, Reserving(u)' => Reserving(u)
  PROVE  Fits(u)'
<1>1. CASE Free(call[u].base, call[u].size)
  BY <1>1 DEF Fits, Free
<1>2. CASE Inside(u, call[u].base, call[u].size) /\ ~Reserving(u)
  BY <1>2 DEF Fits, Inside, Usable, GuardBases, OwnKept
<1> QED
  BY <1>1, <1>2 DEF Fits

(* A call in progress is untouched by steps outside the memory map.         *)
LEMMA CallStays ==
  ASSUME NEW u \in Thread, CallOK(u), call'[u] = call[u],
         \/ Idle(u)
         \/ /\ place'[u] = place[u] /\ owned'[u] = owned[u] /\ OwnKept
            /\ regions' = regions /\ map_base' = map_base /\ (Reserving(u)' => Reserving(u))
  PROVE  CallOK(u)'
<1>1. CASE Idle(u)
  BY <1>1 DEF CallOK, Idle, At
<1>2. CASE ~Idle(u)
  <2>1. Fits(u) => Fits(u)'
    BY <1>2, FitsStays
  <2> QED
    BY <1>2, <2>1 DEF CallOK, At, GuardBases
<1> QED
  BY <1>1, <1>2

(* Together: a thread that does nothing itself is still all right.          *)
LEMMA OtherOK ==
  ASSUME Good, NEW u \in Thread, SameThread(u), graph' = graph, PinnedKept, GuardsKept,
         phase'[Main] \in StartPhases => phase[Main] \in StartPhases,
         \/ Idle(u)
         \/ regions' = regions /\ map_base' = map_base /\ prot' = prot /\ OwnKept,
         u \notin disturbed' => u \notin disturbed,
         u \notin disturbed' /\ phase[u] = "setup" /\ Placed(u) \in 4..6
           => map_base' = map_base /\ \A v \in Thread \ {u} : Idle(v)'
  PROVE  ThreadOK(u)'
<1>1. CallOK(u) /\ SecOK(u) /\ PhaseOK(u) /\ Undisturbed(u)
  BY DEF Good, ThreadOK
<1>2. Reserving(u)' <=> Reserving(u)
  BY DEF SameThread, Reserving, LoadAt, Loading, Top
<1>4. CallOK(u)'
  BY <1>1, <1>2, CallStays DEF SameThread
<1>5. SecOK(u)' /\ PhaseOK(u)'
  BY <1>1, SecStays, PhaseStays
<1>3. SetOK(u)' /\ Undisturbed(u)'
  BY <1>1, SetStays, UndisturbedStays
<1> QED
  BY <1>3, <1>4, <1>5 DEF ThreadOK

-----------------------------------------------------------------------------
\* The steps inside a call of the memory map.

(* No other thread is disturbed by a step inside a call.                    *)
LEMMA MemOthers ==
  ASSUME Good, NEW t \in Thread, ~Idle(t), UNCHANGED ldrVars,
         \A u \in Thread \ {t} : call'[u] = call[u], PinnedKept, GuardsKept
  PROVE  \A u \in Thread \ {t} : ThreadOK(u)'
<1> SUFFICES ASSUME NEW u \in Thread \ {t} PROVE ThreadOK(u)'
  OBVIOUS
<1>1. SameThread(u) /\ graph' = graph /\ phase' = phase /\ disturbed' = disturbed
  BY DEF SameThread, ldrVars
<1>2. Idle(u)
  BY OthersIdle
<1>3. u \notin disturbed /\ phase[u] = "setup" /\ Placed(u) \in 4..6 => FALSE
  BY DEF Good, ThreadOK, Undisturbed
<1> QED
  BY <1>1, <1>2, <1>3, OtherOK

(* A thread that loads an image knows where it is.                          *)
LEMMA SecMem ==
  ASSUME Good, NEW t \in Thread, ~Idle(t), UNCHANGED ldrVars, PinnedKept,
         \/ /\ ~Idle(t)' /\ call'[t].op = call[t].op /\ call'[t].size = call[t].size
         \/ /\ Idle(t)'
            /\ LoadAt(t, "section") /\ Top(t).i = 0 =>
                 \A b : b = call'[t].base => Image(t, b)'
  PROVE  SecOK(t)'
<1>1. SecOK(t)
  BY DEF Good, ThreadOK
<1>2. ASSUME NEW b, Image(t, b) PROVE Image(t, b)'
  BY <1>2, ImageStays DEF ldrVars
<1>3. stack' = stack /\ graph' = graph
  BY DEF ldrVars
<1>4. LoadAt(t, "section")' = LoadAt(t, "section") /\ Top(t)' = Top(t)
  BY <1>3 DEF LoadAt, Loading, Top
<1>5. CASE ~LoadAt(t, "section")
  BY <1>4, <1>5 DEF SecOK
<1>6. CASE LoadAt(t, "section")
  <2>1. Top(t).i \in 0..ImagePages /\ (Top(t).i > 0 => \A b : b = Top(t).base => Image(t, b)')
    BY <1>1, <1>2, <1>6 DEF SecOK
  <2>2. Top(t).i = 0 /\ ~Idle(t)' =>
          call'[t].op \in {"dynamic", "fixed"} /\ call'[t].size = ImagePages
    BY <1>1, <1>6 DEF SecOK
  <2>3. Top(t).i = 0 /\ Idle(t)' => \A b : b = call'[t].base => Image(t, b)'
    BY <1>6
  <2> QED
    BY <1>3, <1>4, <2>1, <2>2, <2>3 DEF SecOK, ImagePages
<1> QED
  BY <1>5, <1>6

(* A thread that sets itself up has its guard pages.                        *)
LEMMA SetMem ==
  ASSUME Good, NEW t \in Thread, ~Idle(t), UNCHANGED ldrVars, GuardsKept,
         phase[t] = "setup" =>
           /\ ~Idle(t)' => call'[t].size = call[t].size /\ call'[t].prot = call[t].prot
           /\ Placed(t) \in {4, 6} =>
                /\ At(t, "dynamic", 3)' => prot'[call'[t].base] = "N"
                /\ Idle(t)' => \A b : b = call'[t].base => GuardAt(t, b)'
  PROVE  SetOK(t)'
<1>1. SetOK(t) /\ PhaseOK(t) /\ Types
  BY DEF Good, ThreadOK
<1>2. place' = place /\ phase' = phase /\ Placed(t)' = Placed(t)
  BY DEF Placed, ldrVars
<1>3. Placed(t) \in Nat /\ \A k \in 1..Placed(t) : place[t][k] \in Int
  BY <1>1, PlacedShape
<1>4. ASSUME NEW k \in {5, 7}, k <= Placed(t), GuardAt(t, place[t][k])
      PROVE  GuardAt(t, place[t][k])'
  <2>1. t # Main
    BY <1>1, <1>3, <1>4 DEF PhaseOK
  <2>2. place[t][k] \in GuardBases(t) /\ place[t][k] \in Int
    BY <1>1, <1>3, <1>4, PlacedShape DEF GuardBases
  <2>3. ASSUME NEW b \in Int, b \in GuardBases(t), GuardAt(t, b) PROVE GuardAt(t, b)'
    BY <2>1, <2>3 DEF GuardsKept
  <2> QED
    BY <1>2, <1>4, <2>2, <2>3
<1>5. Placed(t) >= 5 => GuardAt(t, place[t][5])'
  BY <1>1, <1>3, <1>4 DEF SetOK
<1>6. Placed(t) = 7 => GuardAt(t, place[t][7])'
  BY <1>1, <1>3, <1>4 DEF SetOK
<1>7. Placed(t) <= 7 /\ (phase[t] = "setup" =>
        /\ Placed(t) >= 1 /\ call[t].size = SetupSize[Placed(t)]
        /\ call[t].prot = SetupProt[Placed(t)])
  BY <1>1, Zenon DEF SetOK
<1> QED
  BY <1>2, <1>5, <1>6, <1>7 DEF SetOK

(* And its ranges follow each other.                                        *)
LEMMA NextMem ==
  ASSUME Good, NEW t \in Thread, ~Idle(t), UNCHANGED ldrVars,
         \A u \in Thread \ {t} : call'[u] = call[u],
         phase[t] = "setup" /\ Placed(t) \in 4..6 =>
           \/ ~Idle(t)' /\ map_base' = map_base
           \/ Idle(t)' /\ call'[t].base = map_base /\ map_base' = map_base + call[t].size
  PROVE  Undisturbed(t)'
<1>1. Undisturbed(t) /\ SetOK(t) /\ Types
  BY DEF Good, ThreadOK
<1>2. place' = place /\ phase' = phase /\ Placed(t)' = Placed(t) /\ disturbed' = disturbed
  BY DEF Placed, ldrVars
<1>3. CASE t \in disturbed
  BY <1>2, <1>3 DEF Undisturbed
<1>4. CASE t \notin disturbed /\ ~(phase[t] = "setup" /\ Placed(t) \in 4..6)
  <2>1. NextTo(t)
    BY <1>1, <1>4 DEF Undisturbed
  <2>2. NextTo(t)'
    BY <1>2, <1>4, <2>1 DEF NextTo
  <2> QED
    BY <1>2, <1>4, <2>2 DEF Undisturbed
<1>5. CASE t \notin disturbed /\ phase[t] = "setup" /\ Placed(t) \in 4..6
  <2>1. NextTo(t) /\ \A u \in Thread \ {t} : Idle(u)'
    BY <1>1, <1>5 DEF Undisturbed, Idle
  <2>2. call[t].size = IF Placed(t) = 5 THEN StackPages ELSE 1
    <3>1. call[t].size = SetupSize[Placed(t)]
      BY <1>1, <1>5 DEF SetOK
    <3> QED
      BY <1>5, <3>1 DEF SetupSize
  <2>3. NextTo(t)'
    BY <1>2, <1>5, <2>1, <2>2 DEF NextTo
  <2> QED
    BY <1>2, <2>1, <2>3 DEF Undisturbed
<1> QED
  BY <1>3, <1>4, <1>5

(* Nothing that fits into the space twice over wraps.                       *)
LEMMA NoWrap ==
  ASSUME NEW n \in 0..2 * Pages - 1
  PROVE  Wrap(n) = n
BY MemoryAssumption DEF Wrap

(* A thread goes on in its call.                                            *)
LEMMA GoToFacts ==
  ASSUME Types, NEW t \in Thread, ~Idle(t), NEW s \in 1..3, GoTo(t, s)
  PROVE  /\ call' \in [Thread -> NoCall \cup ActiveCall]
         /\ \A u \in Thread \ {t} : call'[u] = call[u]
         /\ ~Idle(t)' /\ call'[t].step = s
         /\ call'[t].op = call[t].op /\ call'[t].base = call[t].base
         /\ call'[t].size = call[t].size /\ call'[t].prot = call[t].prot
<1>1. call[t] \in ActiveCall
  BY CallShape
<1>2. call' = [call EXCEPT ![t] = [call[t] EXCEPT !.step = s]]
  BY DEF GoTo
<1>3. [call[t] EXCEPT !.step = s] \in ActiveCall
  BY <1>1 DEF ActiveCall
<1>4. call \in [Thread -> NoCall \cup ActiveCall]
  BY DEF Types
<1>5. call'[t] = [call[t] EXCEPT !.step = s]
  BY <1>2, <1>4
<1>6. call'[t].op = call[t].op /\ call'[t].step = s /\ call'[t].base = call[t].base
      /\ call'[t].size = call[t].size /\ call'[t].prot = call[t].prot
  BY <1>1, <1>5 DEF ActiveCall
<1> QED
  BY <1>2, <1>3, <1>4, <1>6 DEF Idle

(* A thread's call returns.                                                 *)
LEMMA FinishFacts ==
  ASSUME Types, NEW t \in Thread, NEW b \in Int, Finish(t, b)
  PROVE  /\ call' \in [Thread -> NoCall \cup ActiveCall]
         /\ \A u \in Thread \ {t} : call'[u] = call[u]
         /\ Idle(t)' /\ call'[t].op = "none" /\ call'[t].base = b
<1>1. call' = [call EXCEPT ![t] = Returned(b)] /\ call \in [Thread -> NoCall \cup ActiveCall]
  BY DEF Finish, Types
<1>2. Returned(b) \in NoCall /\ Returned(b).op = "none" /\ Returned(b).base = b
  BY DEF NoCall, Returned
<1>3. call'[t] = Returned(b)
  BY <1>1
<1> QED
  BY <1>1, <1>2, <1>3 DEF Idle

(* No memory is unmapped by a call that does not unmap.                     *)
LEMMA PinnedSame ==
  ASSUME Good, NEW t \in Thread, UNCHANGED ldrVars,
         \A u \in Thread \ {t} : call'[u] = call[u], regions \subseteq regions',
         call'[t].op = "unmap" => call[t].op = "unmap" /\ call'[t].base = call[t].base,
         phase[t] = "allocating" /\ (Idle(t)' \/ At(t, "dynamic", 3)')
           => (Idle(t) \/ At(t, "dynamic", 3)) /\ call'[t].base = call[t].base
  PROVE  PinnedKept
<1> SUFFICES ASSUME NEW r \in regions, Loose(r)' PROVE Loose(r)
  BY DEF PinnedKept
<1>1. r.by \in Thread /\ phase' = phase /\ owned' = owned
  BY RegionShape DEF ldrVars, Good
<1>2. CASE r.by # t
  BY <1>1, <1>2 DEF Loose, Idle, At
<1>3. CASE r.by = t
  BY <1>1, <1>3 DEF Loose
<1> QED
  BY <1>2, <1>3

(* The guard pages are kept by what does not change them.                   *)
LEMMA GuardsSame ==
  ASSUME PinnedKept,
         \A u \in Thread \ {Main}, b \in Int :
           GuardAt(u, b) /\ (b \in GuardBases(u) \/ Idle(u)) => prot'[b] = prot[b]
  PROVE  GuardsKept
BY DEF GuardsKept, GuardAt, PinnedKept, Pinned, Region

(* What a step inside a call has to show for everything to be all right.    *)
LEMMA MemGood ==
  ASSUME Good, NEW t \in Thread, ~Idle(t), UNCHANGED ldrVars, clashed' = clashed,
         call' \in [Thread -> NoCall \cup ActiveCall],
         \A u \in Thread \ {t} : call'[u] = call[u], Idle(t)' \/ call'[t].op = call[t].op,
         map_base' \in 0..Pages, prot' = [p \in Page |-> prot'[p]],
         regions' \subseteq RegionRec, PinnedKept, GuardsKept, MapOK', OwnOK',
         CallOK(t)', SecOK(t)', SetOK(t)', Undisturbed(t)'
  PROVE  Good'
<1>1. \A u \in Thread \ {t} : ThreadOK(u)'
  BY MemOthers
<1>2. PhaseOK(t) /\ Types /\ Alone
  BY DEF Good, ThreadOK
<1>3. stack' = stack /\ phase' = phase /\ place' = place /\ owned' = owned /\ graph' = graph
  BY DEF ldrVars
<1>4. PhaseOK(t)'
  BY <1>2, <1>3 DEF PhaseOK, LoadAt, Loading, Top, Placed, Idle, LoadPhases, MainPhases,
                    StartPhases
<1>5. Types'
  BY <1>2, <1>3 DEF Types
<1>6. Alone'
  <2>1. \A u \in Thread \ {t} : Idle(u)'
    BY OthersIdle DEF Idle
  <2> QED
    BY <2>1 DEF Alone
<1> QED
  BY <1>1, <1>4, <1>5, <1>6 DEF Good, ThreadOK

(* A step that changes nothing.                                             *)
LEMMA GoodStutters ==
  ASSUME Good, UNCHANGED <<map_base, prot, call, spoiled, regions, clashed>>, UNCHANGED ldrVars
  PROVE  Good'
<1>1. Types' /\ Alone' /\ MapOK' /\ OwnOK'
  BY DEF Good, Types, Alone, MapOK, OwnOK, ldrVars, Idle, Raising, At
<1>2. \A r : Pinned(r)' <=> Pinned(r)
  BY DEF Pinned, Loose, Idle, At, ldrVars
<1>5. PinnedKept /\ GuardsKept /\ OwnKept
  BY <1>2 DEF PinnedKept, GuardsKept, OwnKept, Pinned, GuardAt, ldrVars
<1>6. ASSUME NEW u \in Thread PROVE ThreadOK(u)'
  <2>1. SameThread(u) /\ graph' = graph /\ phase' = phase /\ disturbed' = disturbed
    BY DEF SameThread, ldrVars
  <2>2. u \notin disturbed /\ phase[u] = "setup" /\ Placed(u) \in 4..6
          => \A v \in Thread \ {u} : Idle(v)'
    BY DEF Good, ThreadOK, Undisturbed, Idle
  <2> QED
    BY <1>5, <2>1, <2>2, OtherOK
<1> QED
  BY <1>1, <1>6 DEF Good

(* The regions stay disjoint when none is added and none is left above      *)
(* map_base.                                                                *)
LEMMA MapStays ==
  ASSUME MapOK, regions' \subseteq regions,
         \A r \in regions' : r.base + r.size <= map_base' \/ Raising(r)',
         \A r \in regions' : Span(r.base, r.size) \cap spoiled' = {}
  PROVE  MapOK'
BY DEF MapOK, Overlap, Span, Page

(* The request fits: the call goes on, and what it has seen is still so.    *)
LEMMA DynCheckKeeps ==
  ASSUME Good, NEW t \in Thread, DynCheck(t), UNCHANGED ldrVars
  PROVE  Good'
<1>1. Types /\ MapOK /\ OwnOK /\ call[t].op = "dynamic" /\ ~Idle(t)
      /\ ~At(t, "dynamic", 3)
  BY DEF Good, DynCheck, At, Idle
<1>2. call[t].size \in 1..Pages - 1 /\ call[t].base \in Int /\ map_base \in 0..Pages
  BY <1>1, CallShape DEF Types
<1>3. CASE ~(call[t].whole /\ Wrap(map_base + call[t].size) <= Pages)
  BY <1>3, GoodStutters DEF DynCheck, AssertFails
<1>4. CASE call[t].whole /\ Wrap(map_base + call[t].size) <= Pages
  <2>1. GoTo(t, 2) /\ UNCHANGED <<map_base, prot, spoiled, regions, clashed>>
    BY <1>4 DEF DynCheck
  <2>2. /\ call' \in [Thread -> NoCall \cup ActiveCall]
        /\ \A u \in Thread \ {t} : call'[u] = call[u]
        /\ ~Idle(t)' /\ call'[t].step = 2
        /\ call'[t].op = "dynamic" /\ call'[t].base = call[t].base
        /\ call'[t].size = call[t].size /\ call'[t].prot = call[t].prot
    BY <1>1, <2>1, GoToFacts
  <2>3. map_base + call[t].size <= Pages
    <3>1. map_base + call[t].size \in 0..2 * Pages - 1
      BY <1>2, MemoryAssumption
    <3> QED
      BY <1>4, <3>1, NoWrap
  <2>4. PinnedKept
    BY <1>1, <2>1, <2>2, PinnedSame DEF At
  <2>5. GuardsKept
    BY <2>1, <2>4, GuardsSame
  <2>6. MapOK'
    BY <1>1, <2>1, BelowBaseIn, MapStays DEF MapOK
  <2>7. OwnOK'
    BY <1>1, <2>1 DEF OwnOK, ldrVars
  <2>8. CallOK(t)'
    BY <2>1, <2>2, <2>3 DEF CallOK, At
  <2>9. SecOK(t)' /\ SetOK(t)' /\ Undisturbed(t)'
    BY <1>1, <2>1, <2>2, <2>4, <2>5, SecMem, SetMem, NextMem DEF At
  <2> QED
    BY <1>1, <2>1, <2>2, <2>4, <2>5, <2>6, <2>7, <2>8, <2>9, MemGood DEF Types
<1> QED
  BY <1>3, <1>4

(* The pages at map_base are mapped: what is above map_base is nobody's.    *)
LEMMA DynMapKeeps ==
  ASSUME Good, NEW t \in Thread, DynMap(t), UNCHANGED ldrVars
  PROVE  Good'
<1>1. Types /\ MapOK /\ OwnOK /\ call[t].op = "dynamic" /\ ~Idle(t)
      /\ ~At(t, "dynamic", 3) /\ At(t, "dynamic", 2)
  BY DEF Good, DynMap, At, Idle
<1>2. /\ call[t].size \in 1..Pages - 1 /\ call[t] \in ActiveCall /\ call[t].prot \in Prot
      /\ map_base \in 0..Pages /\ map_base + call[t].size <= Pages
  BY <1>1, CallShape DEF Types, Good, ThreadOK, CallOK
<1>3. PICK new : new = Region(map_base, call[t].size, t)
  OBVIOUS
<1>4. /\ regions' = regions \cup {new} /\ map_base' = map_base /\ clashed' = clashed
      /\ prot' = [q \in Page |-> IF q \in Span(map_base, call[t].size) THEN call[t].prot
                                                                       ELSE prot[q]]
      /\ spoiled' = spoiled \ Span(map_base, call[t].size)
  BY <1>3 DEF DynMap, Mmap, SetProt, Region
<1>5. /\ call' \in [Thread -> NoCall \cup ActiveCall]
      /\ \A u \in Thread \ {t} : call'[u] = call[u]
      /\ call'[t].op = "dynamic" /\ call'[t].step = 3 /\ call'[t].base = map_base
      /\ call'[t].size = call[t].size /\ call'[t].prot = call[t].prot
  <2>1. call' = [call EXCEPT ![t] = [call[t] EXCEPT !.base = map_base, !.step = 3]]
        /\ call \in [Thread -> NoCall \cup ActiveCall]
    BY <1>1 DEF DynMap, Types
  <2>2. call'[t] = [call[t] EXCEPT !.base = map_base, !.step = 3]
    BY <2>1
  <2>3. call'[t] \in ActiveCall
    <3>1. map_base \in Int
      BY <1>2
    <3>2. PICK mid \in ActiveCall : mid = [call[t] EXCEPT !.base = map_base]
      BY <1>2, <3>1 DEF ActiveCall
    <3>3. [mid EXCEPT !.step = 3] \in ActiveCall
      BY DEF ActiveCall
    <3> QED
      BY <2>2, <3>2, <3>3
  <2>4. /\ call'[t].op = call[t].op /\ call'[t].step = 3 /\ call'[t].base = map_base
        /\ call'[t].size = call[t].size /\ call'[t].prot = call[t].prot
    BY <1>2, <2>2 DEF ActiveCall
  <2> QED
    BY <1>1, <2>1, <2>3, <2>4
<1>6. /\ new.base = map_base /\ new.size = call[t].size /\ new.by = t /\ new \in RegionRec
      /\ \A r \in regions : r.base + r.size <= map_base /\ r.base < map_base /\ r \in RegionRec
  <2>1. \A r \in regions : r.base + r.size <= map_base
    BY <1>1, BelowBaseIn
  <2> QED
    BY <1>3, <1>1, <1>2, <2>1, RegionShape, MemoryAssumption DEF Region, RegionRec, Types
<1>7. PinnedKept
  <2> SUFFICES ASSUME NEW r \in regions, Loose(r)' PROVE Loose(r)
    BY <1>4 DEF PinnedKept
  <2>1. r.by \in Thread /\ phase' = phase /\ owned' = owned /\ r.base # map_base
    BY <1>1, <1>6, RegionShape DEF ldrVars
  <2>2. CASE r.by # t
    BY <1>5, <2>1, <2>2 DEF Loose, Idle, At
  <2>3. CASE r.by = t
    BY <1>5, <2>1, <2>3 DEF Loose
  <2> QED
    BY <2>2, <2>3
<1>8. GuardsKept
  <2>1. ASSUME NEW u \in Thread, NEW b \in Int, GuardAt(u, b) PROVE prot'[b] = prot[b]
    <3>1. Region(b, 1, u) \in regions /\ Region(b, 1, u).base = b /\ Region(b, 1, u).size = 1
      BY <2>1 DEF GuardAt, Pinned, Region
    <3>2. b \in Nat /\ b < map_base
      BY <1>1, <1>6, <3>1, RegionShape
    <3> QED
      BY <1>2, <1>4, <3>2, MemoryAssumption DEF Span, Page
  <2> QED
    BY <1>7, <2>1, GuardsSame
<1>9. MapOK'
  <2>1. \A r \in regions : ~Overlap(r, new) /\ ~Overlap(new, r)
    BY <1>1, <1>2, <1>6, RegionShape DEF Overlap
  <2>2. \A r, s \in regions' : r # s => ~Overlap(r, s)
    BY <1>1, <1>4, <2>1 DEF MapOK
  <2>3. Raising(new)' /\ Span(new.base, new.size) \cap spoiled' = {}
    BY <1>4, <1>5, <1>6 DEF Raising, At
  <2>4. \A r \in regions : Span(r.base, r.size) \cap spoiled' = {}
    BY <1>1, <1>4 DEF MapOK
  <2>5. \A r \in regions' : r.base + r.size <= Pages
    BY <1>1, <1>2, <1>4, <1>6 DEF MapOK
  <2> QED
    BY <1>4, <1>6, <2>2, <2>3, <2>4, <2>5 DEF MapOK, Overlap, Span, Page
<1>10. OwnOK'
  BY <1>1, <1>4 DEF OwnOK, ldrVars
<1>11. CallOK(t)'
  <2>1. new \in regions' \ owned'[t]
    BY <1>1, <1>2, <1>4, <1>6 DEF OwnOK, ldrVars
  <2>2. map_base \notin GuardBases(t)
    <3>1. ASSUME map_base \in GuardBases(t) PROVE FALSE
      <4>1. Region(map_base, 1, t) \in regions /\ Region(map_base, 1, t).base = map_base
        BY <3>1, GuardFacts DEF Region
      <4> QED
        BY <1>2, <1>6, <4>1
    <3> QED
      BY <3>1
  <2>3. GuardBases(t)' = GuardBases(t)
    BY DEF GuardBases, ldrVars
  <2> QED
    BY <1>3, <1>2, <1>4, <1>5, <2>1, <2>2, <2>3 DEF CallOK, At
<1>12. SetOK(t)'
  <2>1. phase[t] = "setup" /\ Placed(t) \in {4, 6} => call[t].prot = "N"
    <3>1. phase[t] = "setup" => call[t].prot = SetupProt[Placed(t)]
      BY <1>1 DEF Good, ThreadOK, SetOK
    <3> QED
      BY <3>1 DEF SetupProt
  <2>2. prot'[map_base] = call[t].prot
    <3>1. map_base \in Span(map_base, call[t].size) /\ map_base \in Page
      BY <1>2, MemoryAssumption DEF Span, Page
    <3> QED
      BY <1>4, <3>1
  <2> QED
    BY <1>1, <1>5, <1>8, <2>1, <2>2, SetMem DEF Idle
<1>13. SecOK(t)' /\ Undisturbed(t)'
  BY <1>1, <1>4, <1>5, <1>7, SecMem, NextMem DEF Idle
<1>14. map_base' \in 0..Pages /\ prot' = [p \in Page |-> prot'[p]] /\ regions' \subseteq RegionRec
  BY <1>2, <1>4, <1>6
<1> QED
  BY <1>1, <1>4, <1>5, <1>7, <1>8, <1>9, <1>10, <1>11, <1>12, <1>13, <1>14, MemGood

(* map_base moves past what was mapped, which is its caller's from now on.  *)
LEMMA DynRaiseKeeps ==
  ASSUME Good, NEW t \in Thread, DynRaise(t), UNCHANGED ldrVars
  PROVE  Good'
<1>1. Types /\ MapOK /\ OwnOK /\ call[t].op = "dynamic" /\ ~Idle(t)
      /\ At(t, "dynamic", 3)
  BY DEF Good, DynRaise, At, Idle
<1>2. PICK mine : mine = Region(call[t].base, call[t].size, t)
  OBVIOUS
<1>3. /\ call[t].size \in 1..Pages - 1 /\ call[t].base \in Int /\ map_base \in 0..Pages
      /\ call[t].base = map_base /\ map_base + call[t].size <= Pages
      /\ mine \in regions \ owned[t] /\ call[t].base \notin GuardBases(t)
  BY <1>2, <1>1, CallShape DEF Types, Good, ThreadOK, CallOK
<1>4. /\ UNCHANGED <<prot, spoiled, regions, clashed>>
      /\ map_base' = map_base + call[t].size
  <2>1. map_base + call[t].size \in 0..2 * Pages - 1
    BY <1>3, MemoryAssumption
  <2> QED
    BY <2>1, NoWrap DEF DynRaise
<1>5. /\ call' \in [Thread -> NoCall \cup ActiveCall]
      /\ \A u \in Thread \ {t} : call'[u] = call[u]
      /\ Idle(t)' /\ call'[t].op = "none" /\ call'[t].base = call[t].base
  BY <1>1, <1>3, FinishFacts DEF DynRaise
<1>6. mine.base = call[t].base /\ mine.size = call[t].size /\ mine.by = t
  BY <1>2 DEF Region
<1>7. PinnedKept /\ GuardsKept
  BY <1>1, <1>4, <1>5, PinnedSame, GuardsSame
<1>8. MapOK'
  <2>1. ASSUME NEW r \in regions PROVE r.base + r.size <= map_base'
    <3>1. CASE r.base + r.size <= map_base
      BY <1>1, <1>3, <1>4, <3>1, RegionShape
    <3>2. CASE Raising(r)
      <4>1. r.by \in Thread /\ ~Idle(r.by)
        BY <1>1, <3>2, RegionShape DEF Raising, At, Idle
      <4>2. r.by = t
        BY <1>1, <4>1 DEF Good, Alone
      <4>3. r = mine
        BY <1>1, <1>3, <1>6, <3>2, <4>2, DistinctBases DEF Raising
      <4> QED
        BY <1>3, <1>4, <1>6, <4>3
    <3> QED
      BY <1>1, <3>1, <3>2 DEF MapOK
  <2> QED
    BY <1>1, <1>4, <2>1, MapStays DEF MapOK
<1>9. OwnOK'
  BY <1>1, <1>4 DEF OwnOK, ldrVars
<1>10. CallOK(t)'
  BY <1>5 DEF CallOK, At
<1>11. phase[t] # "allocating" => Pinned(mine)'
  BY <1>3, <1>4, <1>5, <1>6 DEF Pinned, Loose, ldrVars
<1>12. SecOK(t)'
  <2>1. LoadAt(t, "section") /\ Top(t).i = 0 => \A b : b = call'[t].base => Image(t, b)'
    <3>1. SUFFICES ASSUME LoadAt(t, "section"), Top(t).i = 0, NEW b, b = call'[t].base
                   PROVE  Image(t, b)'
      OBVIOUS
    <3>2. call[t].size = ImagePages
      BY <1>1, <3>1 DEF Good, ThreadOK, SecOK
    <3>3. phase[t] # "allocating"
      BY <1>1, <3>1 DEF Good, ThreadOK, PhaseOK, LoadAt, LoadPhases, Module
    <3>4. Usable(mine, t)'
      BY <1>3, <1>6 DEF Usable, GuardBases, ldrVars
    <3> QED
      BY <1>3, <1>4, <1>5, <1>6, <1>11, <3>1, <3>2, <3>3, <3>4 DEF Image, ImagePages
  <2> QED
    BY <1>1, <1>5, <1>7, <2>1, SecMem
<1>13. SetOK(t)'
  <2>1. ASSUME phase[t] = "setup", Placed(t) \in {4, 6}, NEW b, b = call'[t].base
        PROVE  GuardAt(t, b)'
    <3>1. call[t].size = SetupSize[Placed(t)] /\ prot[call[t].base] = "N"
      BY <1>1, <2>1 DEF Good, ThreadOK, SetOK
    <3>2. call[t].size = 1
      BY <2>1, <3>1 DEF SetupSize
    <3>3. mine = Region(b, 1, t)
      BY <1>2, <1>5, <2>1, <3>2
    <3>4. Pinned(mine)'
      BY <1>11, <2>1
    <3> QED
      BY <1>4, <1>5, <2>1, <3>1, <3>3, <3>4 DEF GuardAt, Region
  <2> QED
    BY <1>1, <1>5, <1>7, <2>1, SetMem DEF Idle, At
<1>14. Undisturbed(t)'
  BY <1>1, <1>3, <1>4, <1>5, NextMem
<1>15. map_base' \in 0..Pages /\ prot' = [p \in Page |-> prot'[p]] /\ regions' \subseteq RegionRec
  BY <1>1, <1>3, <1>4 DEF Types
<1> QED
  BY <1>1, <1>4, <1>5, <1>7, <1>8, <1>9, <1>10, <1>12, <1>13, <1>14, <1>15, MemGood

(* The set-up of a thread only maps dynamically; to reserve a range is to    *)
(* map it.                                                                  *)
LEMMA OtherCall ==
  ASSUME Good, NEW t \in Thread, call[t].op \in {"fixed", "unmap", "protect"}
  PROVE  /\ ~Idle(t) /\ ~At(t, "dynamic", 3) /\ ~At(t, "dynamic", 2) /\ phase[t] # "setup"
         /\ call[t].op # "fixed" => ~Reserving(t)
         /\ LoadAt(t, "section") /\ Top(t).i = 0 => call[t].size = ImagePages
<1>1. ~Idle(t) /\ ~At(t, "dynamic", 3) /\ ~At(t, "dynamic", 2)
  BY DEF Idle, At
<1>2. PhaseOK(t) /\ SecOK(t)
  BY DEF Good, ThreadOK
<1>3. phase[t] # "setup" /\ (call[t].op # "fixed" => phase[t] # "allocating")
  BY <1>2 DEF PhaseOK
<1>4. LoadAt(t, "section") /\ Top(t).i = 0 => call[t].op = "fixed" /\ call[t].size = ImagePages
  BY <1>1, <1>2 DEF SecOK
<1> QED
  BY <1>1, <1>3, <1>4 DEF Reserving

(* A range that passes the check does not wrap.                             *)
LEMMA RangeFacts ==
  ASSUME NEW c, c.base \in Nat, c.size \in 1..Pages - 1, InRange(c)
  PROVE  c.base + c.size < Pages
<1>1. c.base + c.size \in 0..2 * Pages - 1
  BY MemoryAssumption DEF InRange
<1> QED
  BY <1>1, NoWrap DEF InRange

(* A fixed mapping fits while the call goes on.                             *)
LEMMA FitsGoesOn ==
  ASSUME NEW t \in Thread, Fits(t), UNCHANGED ldrVars, regions' = regions,
         call'[t].base = call[t].base, call'[t].size = call[t].size
  PROVE  Fits(t)'
<1>1. Reserving(t)' <=> Reserving(t)
  BY DEF Reserving, LoadAt, Loading, Top, ldrVars
<1>2. CASE Free(call[t].base, call[t].size)
  BY <1>2 DEF Fits, Free
<1>3. CASE Inside(t, call[t].base, call[t].size) /\ ~Reserving(t)
  BY <1>1, <1>3 DEF Fits, Inside, Usable, GuardBases, ldrVars
<1> QED
  BY <1>2, <1>3 DEF Fits

(* The range is inside the space; the call remembers whether map_base has   *)
(* to move.                                                                 *)
LEMMA FixedTestKeeps ==
  ASSUME Good, NEW t \in Thread, FixedTest(t), UNCHANGED ldrVars
  PROVE  Good'
<1>1. Types /\ MapOK /\ OwnOK /\ call[t].op = "fixed" /\ CallOK(t)
  BY DEF Good, FixedTest, At, ThreadOK
<1>2. ~Idle(t) /\ ~At(t, "dynamic", 3) /\ phase[t] # "setup"
  BY <1>1, OtherCall
<1>3. /\ call[t].size \in 1..Pages - 1 /\ call[t].base \in Nat /\ map_base \in 0..Pages
      /\ Fits(t)
  BY <1>1, <1>2, CallShape DEF Types, CallOK
<1>4. CASE ~InRange(call[t])
  BY <1>4, GoodStutters DEF FixedTest, AssertFails
<1>5. CASE InRange(call[t])
  <2>1. PICK s \in 2..3 : /\ s = IF call[t].base + call[t].size > map_base THEN 2 ELSE 3
                          /\ GoTo(t, s) /\ UNCHANGED <<map_base, prot, spoiled, regions, clashed>>
    <3>1. call[t].base + call[t].size \in 0..2 * Pages - 1
      BY <1>3, <1>5, RangeFacts, MemoryAssumption
    <3>2. Wrap(call[t].base + call[t].size) = call[t].base + call[t].size
      BY <3>1, NoWrap
    <3> QED
      BY <1>5, <3>2 DEF FixedTest
  <2>2. /\ call' \in [Thread -> NoCall \cup ActiveCall]
        /\ \A u \in Thread \ {t} : call'[u] = call[u]
        /\ ~Idle(t)' /\ call'[t].step = s
        /\ call'[t].op = "fixed" /\ call'[t].base = call[t].base
        /\ call'[t].size = call[t].size /\ call'[t].prot = call[t].prot
    BY <1>1, <1>2, <2>1, GoToFacts
  <2>3. PinnedKept
    BY <1>1, <1>2, <2>1, <2>2, PinnedSame DEF At
  <2>4. GuardsKept
    BY <2>1, <2>3, GuardsSame
  <2>5. MapOK'
    BY <1>1, <1>2, <2>1, BelowBaseIn, MapStays DEF MapOK
  <2>7. OwnOK'
    BY <1>1, <2>1 DEF OwnOK, ldrVars
  <2>8. CallOK(t)'
    <3>1. Fits(t)'
      BY <1>3, <2>1, <2>2, FitsGoesOn
    <3>2. call[t].base + call[t].size < Pages
      BY <1>3, <1>5, RangeFacts
    <3>3. /\ s = 2 => call[t].base + call[t].size \in map_base..Pages
          /\ s = 3 => call[t].base + call[t].size <= map_base
      BY <1>3, <2>1, <3>2, MemoryAssumption
    <3> QED
      BY <1>3, <2>1, <2>2, <3>1, <3>3 DEF CallOK, At
  <2>9. SecOK(t)' /\ SetOK(t)' /\ Undisturbed(t)'
    BY <1>1, <1>2, <2>1, <2>2, <2>3, <2>4, SecMem, SetMem, NextMem
  <2> QED
    BY <1>1, <1>2, <2>1, <2>2, <2>3, <2>4, <2>5, <2>7, <2>8, <2>9, MemGood DEF Types
<1> QED
  BY <1>4, <1>5

(* map_base moves past the range.                                           *)
LEMMA FixedRaiseKeeps ==
  ASSUME Good, NEW t \in Thread, FixedRaise(t), UNCHANGED ldrVars
  PROVE  Good'
<1>1. Types /\ MapOK /\ OwnOK /\ call[t].op = "fixed" /\ call[t].step = 2 /\ CallOK(t)
  BY DEF Good, FixedRaise, At, ThreadOK
<1>2. ~Idle(t) /\ ~At(t, "dynamic", 3) /\ phase[t] # "setup"
  BY <1>1, OtherCall
<1>3. /\ call[t].size \in 1..Pages - 1 /\ call[t].base \in Nat /\ map_base \in 0..Pages
      /\ Fits(t)
      /\ call[t].base + call[t].size \in map_base..Pages
  BY <1>1, <1>2, CallShape DEF Types, CallOK
<1>4. /\ map_base' = call[t].base + call[t].size /\ GoTo(t, 3)
      /\ UNCHANGED <<prot, spoiled, regions, clashed>>
  <2>1. call[t].base + call[t].size \in 0..2 * Pages - 1
    BY <1>3, MemoryAssumption
  <2> QED
    BY <2>1, NoWrap DEF FixedRaise
<1>5. /\ call' \in [Thread -> NoCall \cup ActiveCall]
      /\ \A u \in Thread \ {t} : call'[u] = call[u]
      /\ ~Idle(t)' /\ call'[t].step = 3
      /\ call'[t].op = "fixed" /\ call'[t].base = call[t].base
      /\ call'[t].size = call[t].size /\ call'[t].prot = call[t].prot
  BY <1>1, <1>2, <1>4, GoToFacts
<1>6. PinnedKept
  BY <1>1, <1>2, <1>4, <1>5, PinnedSame DEF At
<1>7. GuardsKept
  BY <1>4, <1>6, GuardsSame
<1>8. MapOK'
  <2>1. ASSUME NEW r \in regions PROVE r.base + r.size <= map_base'
    <3>1. r.base + r.size <= map_base
      BY <1>2, BelowBaseIn
    <3> QED
      BY <1>1, <1>3, <1>4, <3>1, RegionShape
  <2> QED
    BY <1>1, <1>4, <2>1, MapStays DEF MapOK
<1>10. OwnOK'
  BY <1>1, <1>4 DEF OwnOK, ldrVars
<1>11. CallOK(t)'
  <2>1. Fits(t)'
    BY <1>3, <1>4, <1>5, FitsGoesOn
  <2> QED
    BY <1>3, <1>4, <1>5, <2>1 DEF CallOK, At
<1>12. SecOK(t)' /\ SetOK(t)' /\ Undisturbed(t)'
  BY <1>1, <1>2, <1>4, <1>5, <1>6, <1>7, SecMem, SetMem, NextMem
<1>13. map_base' \in 0..Pages
  BY <1>3, <1>4
<1> QED
  BY <1>1, <1>2, <1>4, <1>5, <1>6, <1>7, <1>8, <1>10, <1>11, <1>12, <1>13, MemGood DEF Types

(* Fresh pages are mapped over a range that is the thread's to use, or that  *)
(* is nobody's.                                                             *)
LEMMA FixedMapKeeps ==
  ASSUME Good, NEW t \in Thread, FixedMap(t), UNCHANGED ldrVars
  PROVE  Good'
<1>1. Types /\ MapOK /\ OwnOK /\ call[t].op = "fixed" /\ call[t].step = 3 /\ CallOK(t)
  BY DEF Good, FixedMap, At, ThreadOK
<1>2. ~Idle(t) /\ ~At(t, "dynamic", 3) /\ phase[t] # "setup"
  BY <1>1, OtherCall
<1>3. PICK b \in Nat, n \in 1..Pages - 1 : b = call[t].base /\ n = call[t].size
  BY <1>1, <1>2, CallShape DEF CallOK
<1>4. /\ map_base \in 0..Pages /\ b + n <= map_base
      /\ Free(b, n) \/ (Inside(t, b, n) /\ ~Reserving(t))
  BY <1>1, <1>3 DEF Types, CallOK, Fits
<1>5. /\ UNCHANGED <<map_base, clashed>> /\ Finish(t, b)
      /\ prot' = [q \in Page |-> IF q \in Span(b, n) THEN call[t].prot ELSE prot[q]]
      /\ spoiled' = spoiled \ Span(b, n)
  BY <1>3 DEF FixedMap, Mmap, SetProt
<1>6. /\ call' \in [Thread -> NoCall \cup ActiveCall]
      /\ \A u \in Thread \ {t} : call'[u] = call[u]
      /\ Idle(t)' /\ call'[t].op = "none" /\ call'[t].base = b
  BY <1>1, <1>5, FinishFacts
<1>7. PICK m : m = Region(b, n, t)
  OBVIOUS
<1>8. m.base = b /\ m.size = n /\ m.by = t /\ m \in RegionRec
  BY <1>3, <1>7 DEF Region, RegionRec
<1>9. Free(b, n) => \A r \in regions : r.base + r.size <= b \/ b + n <= r.base
  BY <1>1, <1>3, RegionShape DEF Free, Overlap
<1>10. /\ Inside(t, b, n) => regions' = regions
       /\ Free(b, n) => regions' = regions \cup {m} /\ m \notin regions
       /\ regions \subseteq regions'
  <2>1. ASSUME Free(b, n), NEW r \in regions PROVE ~(r.base <= b /\ b + n <= r.base + r.size)
    BY <1>1, <1>3, <1>9, <2>1, RegionShape
  <2>2. regions' = IF \E r \in regions : r.base <= b /\ b + n <= r.base + r.size
                   THEN regions ELSE regions \cup {m}
    BY <1>3, <1>7 DEF FixedMap, Region
  <2>3. Free(b, n) => m \notin regions
    BY <1>3, <1>8, <2>1
  <2> QED
    BY <2>1, <2>2, <2>3 DEF Inside
<1>11. PinnedKept
  <2> SUFFICES ASSUME NEW r \in regions, Loose(r)' PROVE Loose(r)
    BY <1>10 DEF PinnedKept
  <2>1. r.by \in Thread /\ phase' = phase /\ owned' = owned
    BY <1>1, RegionShape DEF ldrVars
  <2>2. CASE r.by # t
    BY <1>6, <2>1, <2>2 DEF Loose, Idle, At
  <2>3. CASE r.by = t /\ phase[t] # "allocating"
    BY <1>6, <2>1, <2>3 DEF Loose
  <2>4. CASE r.by = t /\ phase[t] = "allocating"
    <3>1. r.base # b
      BY <1>1, <1>3, <1>4, <1>9, <2>4, RegionShape DEF Reserving
    <3> QED
      BY <1>6, <2>1, <2>4, <3>1 DEF Loose
  <2> QED
    BY <2>2, <2>3, <2>4
<1>12. GuardsKept
  <2>1. ASSUME NEW u \in Thread \ {Main}, NEW g \in Int, GuardAt(u, g),
               g \in GuardBases(u) \/ Idle(u)
        PROVE  prot'[g] = prot[g]
    <3>1. PICK s \in regions : s = Region(g, 1, u) /\ ~Loose(s)
      BY <2>1 DEF GuardAt, Pinned
    <3>2. s.base = g /\ s.size = 1 /\ s.by = u /\ g \in Nat
      BY <1>1, <3>1, RegionShape DEF Region
    <3>3. ASSUME Free(b, n) PROVE g \notin Span(b, n)
      BY <1>3, <1>9, <3>1, <3>2, <3>3 DEF Span
    <3>4. ASSUME Inside(t, b, n) PROVE g \notin Span(b, n)
      <4>1. PICK r \in regions : r.base <= b /\ b + n <= r.base + r.size /\ Usable(r, t)
        BY <3>4 DEF Inside
      <4>2. r # s
        BY <1>2, <2>1, <3>1, <3>2, <4>1 DEF Usable, Loose
      <4>3. ~Overlap(r, s)
        BY <1>1, <4>2 DEF MapOK
      <4> QED
        BY <1>1, <1>3, <3>2, <4>1, <4>3, RegionShape DEF Overlap, Span
    <3>5. g \notin Span(b, n)
      BY <1>4, <3>3, <3>4
    <3>6. g \in Page
      BY <1>1, <3>1, <3>2, MemoryAssumption DEF MapOK, Page
    <3> QED
      BY <1>5, <3>5, <3>6
  <2> QED
    BY <1>11, <2>1, GuardsSame
<1>13. MapOK'
  <2>1. CASE Inside(t, b, n)
    BY <1>1, <1>2, <1>5, <1>10, <2>1, BelowBaseIn, MapStays DEF MapOK
  <2>2. CASE Free(b, n)
    <3>1. \A r \in regions : ~Overlap(r, m) /\ ~Overlap(m, r)
      BY <1>1, <1>3, <1>8, <1>9, <2>2, RegionShape DEF Overlap
    <3>2. \A r, s \in regions' : r # s => ~Overlap(r, s)
      BY <1>1, <1>10, <2>2, <3>1 DEF MapOK
    <3>3. m.base + m.size <= map_base' /\ m.base + m.size <= Pages
          /\ Span(m.base, m.size) \cap spoiled' = {}
      BY <1>3, <1>4, <1>5, <1>8, MemoryAssumption
    <3>4. ASSUME NEW r \in regions
          PROVE  /\ r.base + r.size <= map_base' /\ r.base + r.size <= Pages
                 /\ Span(r.base, r.size) \cap spoiled' = {}
      BY <1>1, <1>2, <1>5, BelowBaseIn DEF MapOK
    <3> QED
      BY <1>10, <2>2, <3>2, <3>3, <3>4 DEF MapOK, Overlap, Span, Page
  <2> QED
    BY <1>4, <2>1, <2>2
<1>14. OwnOK'
  BY <1>1, <1>10 DEF OwnOK, ldrVars
<1>15. CallOK(t)'
  BY <1>6 DEF CallOK, At
<1>16. SecOK(t)'
  <2>1. ASSUME LoadAt(t, "section"), Top(t).i = 0 PROVE Image(t, b)'
    <3>1. n = ImagePages /\ Free(b, n)
      BY <1>1, <1>3, <1>4, <2>1, OtherCall DEF Reserving
    <3>2. m \in regions' /\ m \notin owned[t]
      BY <1>1, <1>8, <1>10, <3>1 DEF OwnOK
    <3>3. phase[t] # "allocating"
      BY <2>1 DEF Good, ThreadOK, PhaseOK, LoadAt, LoadPhases, Module
    <3>4. Pinned(m)'
      BY <1>6, <1>8, <3>2, <3>3 DEF Pinned, Loose, ldrVars
    <3>5. b \notin GuardBases(t)
      <4>1. SUFFICES ASSUME b \in GuardBases(t) PROVE FALSE
        OBVIOUS
      <4>2. Region(b, 1, t) \in regions /\ Region(b, 1, t).base = b /\ Region(b, 1, t).size = 1
        BY <4>1, GuardFacts DEF Region
      <4> QED
        BY <1>3, <1>9, <3>1, <4>2
    <3>6. Usable(m, t)'
      BY <1>8, <3>5 DEF Usable, GuardBases, ldrVars
    <3> QED
      BY <1>8, <3>1, <3>2, <3>4, <3>6 DEF Image, ImagePages
  <2> QED
    BY <1>2, <1>6, <1>11, <2>1, SecMem
<1>17. SetOK(t)' /\ Undisturbed(t)'
  BY <1>2, <1>5, <1>6, <1>12, SetMem, NextMem
<1>18. map_base' \in 0..Pages /\ prot' = [p \in Page |-> prot'[p]] /\ regions' \subseteq RegionRec
  BY <1>1, <1>4, <1>5, <1>8, <1>10 DEF Types
<1> QED
  BY <1>2, <1>5, <1>6, <1>11, <1>12, <1>13, <1>14, <1>15, <1>16, <1>17, <1>18, MemGood

(* What is unmapped is the caller's, and no longer owned by anybody.        *)
LEMMA UnmapKeeps ==
  ASSUME Good, NEW t \in Thread, Unmap(t), UNCHANGED ldrVars
  PROVE  Good'
<1>1. Types /\ MapOK /\ OwnOK /\ call[t].op = "unmap" /\ CallOK(t)
  BY DEF Good, Unmap, At, ThreadOK
<1>2. /\ ~Idle(t) /\ ~At(t, "dynamic", 3) /\ phase[t] \notin {"allocating", "setup"}
      /\ ~(LoadAt(t, "section") /\ Top(t).i = 0)
  BY <1>1, OtherCall DEF Reserving
<1>3. PICK b \in Int, n \in 1..Pages - 1 : b = call[t].base /\ n = call[t].size
  BY <1>1, <1>2, CallShape
<1>4. PICK mine \in regions : mine = Region(b, n, t) /\ mine \notin owned[t]
  BY <1>1, <1>3 DEF CallOK
<1>5. mine.base = b /\ mine.size = n /\ mine.by = t /\ b \in Nat
  BY <1>1, <1>4, RegionShape DEF Region
<1>6. CASE ~InRange(call[t])
  BY <1>6, GoodStutters DEF Unmap, AssertFails
<1>7. CASE InRange(call[t])
  <2>1. /\ UNCHANGED <<map_base, clashed>> /\ Finish(t, b)
        /\ prot' = [q \in Page |-> IF q \in Span(b, n) THEN "N" ELSE prot[q]]
        /\ spoiled' = spoiled \ Span(b, n)
        /\ regions' = {r \in regions : r.base # b}
    BY <1>3, <1>7 DEF Unmap, Mmap, SetProt
  <2>2. /\ call' \in [Thread -> NoCall \cup ActiveCall]
        /\ \A u \in Thread \ {t} : call'[u] = call[u]
        /\ Idle(t)' /\ call'[t].op = "none" /\ call'[t].base = b
    BY <1>1, <2>1, FinishFacts
  <2>3. \A r \in regions : r.base = b => r = mine
    BY <1>1, <1>4, <1>5, DistinctBases
  <2>4. Loose(mine)
    BY <1>1, <1>3, <1>5 DEF Loose
  <2>5. PinnedKept
    <3> SUFFICES ASSUME NEW r \in regions, ~Loose(r) PROVE r \in regions' /\ ~Loose(r)'
      BY DEF PinnedKept
    <3>1. r \in regions' /\ r.by \in Thread /\ phase' = phase /\ owned' = owned
      BY <1>1, <2>1, <2>3, <2>4, RegionShape DEF ldrVars
    <3>2. CASE r.by # t
      BY <2>2, <3>1, <3>2 DEF Loose, Idle, At
    <3>3. CASE r.by = t
      BY <1>2, <2>2, <3>1, <3>3 DEF Loose
    <3> QED
      BY <3>1, <3>2, <3>3
  <2>6. GuardsKept
    <3>1. ASSUME NEW u \in Thread \ {Main}, NEW g \in Int, GuardAt(u, g)
          PROVE  prot'[g] = prot[g]
      <4>1. PICK s \in regions : s = Region(g, 1, u) /\ ~Loose(s)
        BY <3>1 DEF GuardAt, Pinned
      <4>2. s.base = g /\ s.size = 1 /\ g \in Nat
        BY <1>1, <4>1, RegionShape DEF Region
      <4>3. ~Overlap(mine, s)
        BY <1>1, <2>4, <4>1 DEF MapOK
      <4>4. g \notin Span(b, n)
        BY <1>3, <1>5, <4>2, <4>3 DEF Overlap, Span
      <4>5. g \in Page
        BY <1>1, <4>1, <4>2, MemoryAssumption DEF MapOK, Page
      <4> QED
        BY <2>1, <4>4, <4>5
    <3> QED
      BY <2>5, <3>1, GuardsSame
  <2>7. MapOK'
    <3>1. regions' \subseteq regions
      BY <2>1
    <3> QED
      BY <1>1, <1>2, <2>1, <3>1, BelowBaseIn, MapStays DEF MapOK
  <2>8. OwnOK'
    <3>1. ASSUME NEW u \in Thread, NEW r \in owned[u] PROVE r \in regions' /\ r.by = u
      BY <1>1, <1>4, <1>5, <2>1, <2>3 DEF OwnOK
    <3> QED
      BY <3>1 DEF OwnOK, ldrVars
  <2>10. CallOK(t)'
    BY <2>2 DEF CallOK, At
  <2>11. SecOK(t)' /\ SetOK(t)' /\ Undisturbed(t)'
    BY <1>2, <2>1, <2>2, <2>5, <2>6, SecMem, SetMem, NextMem
  <2>12. map_base' \in 0..Pages /\ prot' = [p \in Page |-> prot'[p]] /\ regions' \subseteq RegionRec
    BY <1>1, <2>1 DEF Types
  <2> QED
    BY <1>2, <2>1, <2>2, <2>5, <2>6, <2>7, <2>8, <2>10, <2>11, <2>12, MemGood
<1> QED
  BY <1>6, <1>7

(* The wrong pages are protected, those from map_base on: nobody's.         *)
LEMMA ProtectKeeps ==
  ASSUME Good, NEW t \in Thread, Protect(t), UNCHANGED ldrVars
  PROVE  Good'
<1>1. Types /\ MapOK /\ OwnOK /\ call[t].op = "protect"
  BY DEF Good, Protect, At
<1>2. /\ ~Idle(t) /\ ~At(t, "dynamic", 3) /\ phase[t] \notin {"allocating", "setup"}
      /\ ~(LoadAt(t, "section") /\ Top(t).i = 0)
  BY <1>1, OtherCall DEF Reserving
<1>3. PICK b \in Int, n \in 1..Pages - 1 : b = call[t].base /\ n = call[t].size
  BY <1>1, <1>2, CallShape
<1>4. CASE ~InRange(call[t]) \/ map_base + call[t].size > Pages
  BY <1>4, GoodStutters DEF Protect, AssertFails
<1>5. CASE ~(~InRange(call[t]) \/ map_base + call[t].size > Pages)
  <2>1. /\ UNCHANGED <<map_base, regions, clashed>> /\ Finish(t, b)
        /\ prot' = [q \in Page |-> IF q \in Span(map_base, n) THEN call[t].prot ELSE prot[q]]
        /\ spoiled' = spoiled \cup Span(map_base, n)
    BY <1>3, <1>5 DEF Protect, SetProt
  <2>2. /\ call' \in [Thread -> NoCall \cup ActiveCall]
        /\ \A u \in Thread \ {t} : call'[u] = call[u]
        /\ Idle(t)' /\ call'[t].op = "none" /\ call'[t].base = b
    BY <1>1, <2>1, FinishFacts
  <2>3. PinnedKept
    BY <1>2, <2>1, <2>2, PinnedSame
  <2>4. ASSUME NEW r \in regions
        PROVE  /\ r.base + r.size <= map_base
               /\ Span(r.base, r.size) \cap Span(map_base, n) = {}
    <3>1. r.base + r.size <= map_base
      BY <1>2, BelowBaseIn
    <3>2. r.base \in Nat /\ r.size \in 1..Pages - 1 /\ map_base \in 0..Pages
      BY <1>1, RegionShape DEF Types
    <3>3. \A q \in Page : ~(q \in Span(r.base, r.size) /\ q \in Span(map_base, n))
      BY <3>1, <3>2, MemoryAssumption DEF Span, Page
    <3> QED
      BY <3>1, <3>3 DEF Span
  <2>5. GuardsKept
    <3>1. ASSUME NEW u \in Thread \ {Main}, NEW g \in Int, GuardAt(u, g)
          PROVE  prot'[g] = prot[g]
      <4>1. PICK s \in regions : s = Region(g, 1, u)
        BY <3>1 DEF GuardAt, Pinned
      <4>2. s.base = g /\ s.size = 1 /\ g \in Nat
        BY <1>1, <4>1, RegionShape DEF Region
      <4>3. g \in Page /\ g \notin Span(map_base, n)
        BY <1>1, <2>4, <4>1, <4>2, MemoryAssumption DEF MapOK, Page, Span, Types
      <4> QED
        BY <2>1, <4>3
    <3> QED
      BY <2>3, <3>1, GuardsSame
  <2>6. MapOK'
    <3>1. \A r \in regions : Span(r.base, r.size) \cap spoiled' = {}
      BY <1>1, <2>1, <2>4 DEF MapOK
    <3> QED
      BY <1>1, <2>1, <2>4, <3>1, MapStays
  <2>7. OwnOK'
    BY <1>1, <2>1 DEF OwnOK, ldrVars
  <2>8. CallOK(t)'
    BY <2>2 DEF CallOK, At
  <2>9. SecOK(t)' /\ SetOK(t)' /\ Undisturbed(t)'
    BY <1>2, <2>1, <2>2, <2>3, <2>5, SecMem, SetMem, NextMem
  <2>10. map_base' \in 0..Pages /\ prot' = [p \in Page |-> prot'[p]] /\ regions' \subseteq RegionRec
    BY <1>1, <2>1 DEF Types
  <2> QED
    BY <1>2, <2>1, <2>2, <2>3, <2>5, <2>6, <2>7, <2>8, <2>9, <2>10, MemGood
<1> QED
  BY <1>4, <1>5

(* Every step inside a call.                                                *)
LEMMA MemStepKeeps ==
  ASSUME Good, NEW t \in Thread, MemStep(t), UNCHANGED ldrVars
  PROVE  Good'
BY DynCheckKeeps, DynMapKeeps, DynRaiseKeeps, FixedTestKeeps, FixedRaiseKeeps, FixedMapKeeps,
   UnmapKeeps, ProtectKeeps DEF MemStep

-----------------------------------------------------------------------------
\* The steps of the loader and of the program.

(* The first frame of a thread that loads.                                  *)
LEMMA TopShape ==
  ASSUME Types, NEW t \in Thread, Loading(t)
  PROVE  /\ stack[t] \in Seq(FrameRec) /\ 1 \in DOMAIN stack[t]
         /\ Top(t) = stack[t][1] /\ Top(t) \in FrameRec
BY DEF Types, Loading, Top

(* A thread changes its first frame.                                        *)
LEMMA TopChanges ==
  ASSUME Types, NEW t \in Thread, Loading(t), NEW f \in FrameRec,
         stack' = [stack EXCEPT ![t] = [stack[t] EXCEPT ![1] = f]]
  PROVE  /\ stack' = [u \in Thread |-> stack'[u]]
         /\ \A u \in Thread \ {t} : stack'[u] = stack[u]
         /\ stack'[t] \in Seq(FrameRec) /\ Loading(t)' /\ Top(t)' = f
         /\ \A k \in DOMAIN stack'[t] :
              k > 1 => k \in DOMAIN stack[t] /\ stack'[t][k] = stack[t][k]
<1>1. stack[t] \in Seq(FrameRec) /\ 1 \in DOMAIN stack[t]
  BY TopShape
<1>2. stack = [u \in Thread |-> stack[u]]
  BY DEF Types
<1>3. stack'[t] = [stack[t] EXCEPT ![1] = f] /\ \A u \in Thread \ {t} : stack'[u] = stack[u]
  BY <1>2
<1>4. stack' = [u \in Thread |-> stack'[u]]
  BY <1>2
<1>5. PICK s \in Seq(FrameRec) :
        s = [stack[t] EXCEPT ![1] = f] /\ Len(s) = Len(stack[t])
  <2>1. PICK q \in Seq(FrameRec) : q = stack[t] /\ 1 \in 1..Len(q)
    BY <1>1
  <2>2. [q EXCEPT ![1] = f] \in Seq(FrameRec) /\ Len([q EXCEPT ![1] = f]) = Len(q)
    BY <2>1, SMT
  <2> QED
    BY <2>1, <2>2
<1>6. DOMAIN s = DOMAIN stack[t] /\ s[1] = f /\ \A k \in DOMAIN s : k > 1 => s[k] = stack[t][k]
  BY <1>1, <1>5
<1>7. s # <<>> /\ Head(s) = f
  BY <1>1, <1>5, <1>6
<1> QED
  BY <1>3, <1>4, <1>5, <1>6, <1>7 DEF Loading, Top

(* It goes on to another step of its load.                                  *)
LEMMA AdvanceFacts ==
  ASSUME Types, NEW t \in Thread, Loading(t), NEW i \in Int,
         NEW step \in {"reserve", "section", "import", "protect"}, Advance(t, step, i)
  PROVE  /\ stack' = [u \in Thread |-> stack'[u]]
         /\ \A u \in Thread \ {t} : stack'[u] = stack[u]
         /\ stack'[t] \in Seq(FrameRec) /\ Loading(t)'
         /\ Top(t)'.mod = Top(t).mod /\ Top(t)'.step = step
         /\ Top(t)'.i = i /\ Top(t)'.base = Top(t).base
         /\ \A k \in DOMAIN stack'[t] :
              k > 1 => k \in DOMAIN stack[t] /\ stack'[t][k] = stack[t][k]
<1>1. Top(t) \in FrameRec /\ Top(t) = stack[t][1] /\ stack[t] \in Seq(FrameRec)
  BY TopShape
<1>2. PICK f \in FrameRec : /\ f = [Top(t) EXCEPT !.step = step, !.i = i]
                            /\ f.mod = Top(t).mod /\ f.step = step /\ f.i = i
                            /\ f.base = Top(t).base
  <2>1. PICK g \in FrameRec : g = [Top(t) EXCEPT !.step = step]
    BY <1>1 DEF FrameRec
  <2>2. PICK f \in FrameRec : f = [g EXCEPT !.i = i]
    BY DEF FrameRec
  <2>3. f.mod = Top(t).mod /\ f.step = step /\ f.i = i /\ f.base = Top(t).base
    BY <1>1, <2>1, <2>2 DEF FrameRec
  <2> QED
    BY <2>1, <2>2, <2>3
<1>3. stack' = [stack EXCEPT ![t] = [stack[t] EXCEPT ![1] = f]]
  BY <1>1, <1>2 DEF Advance
<1>4. /\ stack' = [u \in Thread |-> stack'[u]]
      /\ \A u \in Thread \ {t} : stack'[u] = stack[u]
      /\ stack'[t] \in Seq(FrameRec) /\ Loading(t)' /\ Top(t)' = f
      /\ \A k \in DOMAIN stack'[t] :
           k > 1 => k \in DOMAIN stack[t] /\ stack'[t][k] = stack[t][k]
  BY <1>3, TopChanges
<1> QED
  BY <1>2, <1>4

\* The thread enters a call, whatever the range is like.
Asks(t, op, b, n, p) == \E w, k \in BOOLEAN : Request(t, op, b, n, p, w, k)

(* A range that is known to be whole pages, and free or in use by the caller. *)
LEMMA CallAsks ==
  ASSUME NEW t, NEW op, NEW b, NEW n, NEW p, Call(t, op, b, n, p)
  PROVE  Asks(t, op, b, n, p)
BY DEF Call, Asks

(* Unless calls clash, nobody asks for a range that is taken.               *)
LEMMA NotTaken ==
  ASSUME NEW t, NEW op, NEW b, NEW n, NEW p, NEW w, NEW k \in BOOLEAN,
         Request(t, op, b, n, p, w, k), ~clashed'
  PROVE  ~k
BY DEF Request, Begin

\* The thread alone is in a call, which it has just entered.
Entered(t, op, b, n, p) ==
  /\ \A u \in Thread : Idle(u)
  /\ UNCHANGED <<map_base, prot, spoiled, regions>> /\ clashed' = FALSE
  /\ call' \in [Thread -> NoCall \cup ActiveCall]
  /\ \A u \in Thread \ {t} : call'[u] = call[u]
  /\ ~Idle(t)' /\ call'[t].op = op /\ call'[t].base = b /\ call'[t].size = n
  /\ call'[t].prot = p /\ call'[t].step = 1
  /\ \A u \in Thread \ {t} : u \notin disturbed' =>
       u \notin disturbed /\ ~(phase[u] = "setup" /\ Placed(u) \in 4..6)
  /\ t \in disturbed' <=> t \in disturbed
  /\ \A u \in Thread \ {t} : Idle(u)'

(* A thread enters a call and races with nobody: nobody else is in one, and *)
(* no memory changes.                                                       *)
LEMMA BeginFacts ==
  ASSUME Good, NEW t \in Thread, NEW op \in {"dynamic", "fixed", "unmap", "protect"},
         NEW b \in Int, NEW n \in 1..Pages - 1, NEW p \in Prot,
         Asks(t, op, b, n, p), ~clashed'
  PROVE  Entered(t, op, b, n, p) /\ MapOK' /\ Alone'
<1>1. Types /\ MapOK
  BY DEF Good
<1>2. clashed = FALSE /\ call \in [Thread -> NoCall \cup ActiveCall]
  BY <1>1 DEF Types
<1> PICK w, k \in BOOLEAN : Request(t, op, b, n, p, w, k)
  BY DEF Asks
<1>3. (\A u \in Thread : Idle(u)) /\ clashed' = FALSE
  BY <1>2 DEF Request, Begin
<1>4. UNCHANGED <<map_base, prot, spoiled, regions>>
  BY DEF Request, Begin
<1>5. PICK c : c = [op |-> op, base |-> b, size |-> n, prot |-> p, whole |-> w, step |-> 1]
  OBVIOUS
<1>6. /\ c \in ActiveCall /\ c.op = op /\ c.base = b /\ c.size = n /\ c.prot = p /\ c.step = 1
  BY <1>5 DEF ActiveCall
<1>7. call' = [call EXCEPT ![t] = c]
  BY <1>5 DEF Request, Begin
<1>8. call' \in [Thread -> NoCall \cup ActiveCall] /\ call'[t] = c
      /\ \A u \in Thread \ {t} : call'[u] = call[u]
  BY <1>2, <1>6, <1>7
<1>9. ~Idle(t)' /\ \A u \in Thread \ {t} : Idle(u)'
  BY <1>3, <1>6, <1>8 DEF Idle
<1>10. /\ \A u \in Thread \ {t} : u \notin disturbed' =>
              u \notin disturbed /\ ~(phase[u] = "setup" /\ Placed(u) \in 4..6)
       /\ t \in disturbed' <=> t \in disturbed
  BY DEF Request, Placed
<1>11. MapOK'
  <2>1. \A r \in regions : r.base + r.size <= map_base
    BY <1>1, <1>3, BelowBase DEF At, Idle
  <2> QED
    BY <1>1, <1>4, <2>1, MapStays DEF MapOK
<1>12. Alone'
  BY <1>9 DEF Alone
<1> QED
  BY <1>3, <1>4, <1>6, <1>8, <1>9, <1>10, <1>11, <1>12 DEF Entered

(* A thread that enters a call gives up at most a region it owns.           *)
LEMMA BeginPinned ==
  ASSUME Good, NEW t \in Thread, regions' = regions, prot' = prot,
         \A u \in Thread \ {t} : call'[u] = call[u] /\ phase'[u] = phase[u],
         ~Idle(t)', call'[t].step = 1,
         \A u \in Thread : owned'[u] \subseteq owned[u],
         call'[t].op = "unmap" => \E r \in owned[t] : r.base = call'[t].base
  PROVE  PinnedKept /\ GuardsKept
<1>1. PinnedKept
  <2> SUFFICES ASSUME NEW r \in regions, Loose(r)' PROVE Loose(r)
    BY DEF PinnedKept
  <2>1. r.by \in Thread /\ Types /\ MapOK /\ OwnOK
    BY RegionShape DEF Good
  <2>2. CASE r.by # t
    BY <2>1, <2>2 DEF Loose, Idle, At
  <2>3. CASE r.by = t
    <3>1. CASE r \in owned'[t]
      BY <2>3, <3>1 DEF Loose
    <3>2. CASE call'[t].op = "unmap" /\ call'[t].base = r.base
      <4>1. PICK s \in owned[t] : s.base = r.base
        BY <3>2
      <4>2. s = r
        BY <2>1, <4>1, DistinctBases DEF OwnOK
      <4> QED
        BY <2>3, <4>1, <4>2 DEF Loose
    <3> QED
      BY <2>3, <3>1, <3>2 DEF Loose, At
  <2> QED
    BY <2>2, <2>3
<1> QED
  BY <1>1, GuardsSame

(* What a step that enters a call has to show.                              *)
LEMMA BeginGood ==
  ASSUME Good, NEW t \in Thread, NEW op \in {"dynamic", "fixed", "unmap", "protect"},
         NEW b \in Int, NEW n \in 1..Pages - 1, NEW p \in Prot,
         Asks(t, op, b, n, p), ~clashed', graph' = graph, PinnedKept, GuardsKept,
         stack' = [u \in Thread |-> stack'[u]], stack'[t] \in Seq(FrameRec),
         phase' = [u \in Thread |-> phase'[u]],
         place' = [u \in Thread |-> place'[u]], place'[t] \in Seq(Int),
         owned' = [u \in Thread |-> owned'[u]], owned'[t] \subseteq owned[t],
         \A u \in Thread \ {t} : /\ stack'[u] = stack[u] /\ phase'[u] = phase[u]
                                 /\ place'[u] = place[u] /\ owned'[u] = owned[u],
         phase'[Main] \in StartPhases => phase[Main] \in StartPhases,
         CallOK(t)', SecOK(t)', PhaseOK(t)', SetOK(t)', Undisturbed(t)'
  PROVE  Good'
<1>1. /\ \A u \in Thread : Idle(u)
      /\ UNCHANGED <<map_base, prot, spoiled, regions>> /\ clashed' = FALSE
      /\ call' \in [Thread -> NoCall \cup ActiveCall]
      /\ \A u \in Thread \ {t} : call'[u] = call[u]
      /\ \A u \in Thread \ {t} : u \notin disturbed' =>
           u \notin disturbed /\ ~(phase[u] = "setup" /\ Placed(u) \in 4..6)
      /\ MapOK' /\ Alone'
  <2>1. Entered(t, op, b, n, p) /\ MapOK' /\ Alone'
    BY BeginFacts
  <2> QED
    BY <2>1 DEF Entered
<1>2. Types /\ OwnOK
  BY DEF Good
<1>3. Types'
  <2>1. \A u \in Thread : stack'[u] \in Seq(FrameRec) /\ place'[u] \in Seq(Int)
    BY <1>2 DEF Types
  <2>2. place' \in [Thread -> Seq(Int)]
    BY <2>1
  <2> QED
    BY <1>1, <1>2, <2>1, <2>2 DEF Types
<1>4. OwnOK'
  BY <1>1, <1>2 DEF OwnOK
<1>6. ASSUME NEW u \in Thread \ {t} PROVE ThreadOK(u)'
  <2>1. SameThread(u)
    BY <1>1 DEF SameThread
  <2> QED
    BY <1>1, <2>1, OtherOK
<1> QED
  BY <1>1, <1>3, <1>4, <1>6 DEF Good, ThreadOK

-----------------------------------------------------------------------------
\* What a thread's own step does not touch.

(* A thread that is not setting itself up keeps its guard pages.            *)
LEMMA SetOwn ==
  ASSUME Good, NEW t \in Thread, GuardsKept, place'[t] = place[t], phase'[t] # "setup"
  PROVE  SetOK(t)'
<1>1. SetOK(t) /\ PhaseOK(t) /\ Types
  BY DEF Good, ThreadOK
<1>2. Placed(t)' = Placed(t)
  BY DEF Placed
<1>3. Placed(t) \in Nat /\ \A k \in 1..Placed(t) : place[t][k] \in Int
  BY <1>1, PlacedShape
<1>4. ASSUME NEW k \in {5, 7}, k <= Placed(t), GuardAt(t, place[t][k])
      PROVE  \A b : b = place'[t][k] => GuardAt(t, b)'
  <2>1. t # Main
    BY <1>1, <1>3, <1>4 DEF PhaseOK
  <2>2. place[t][k] \in GuardBases(t) /\ place[t][k] \in Int
    BY <1>1, <1>3, <1>4, PlacedShape DEF GuardBases
  <2>3. ASSUME NEW b \in Int, b \in GuardBases(t), GuardAt(t, b) PROVE GuardAt(t, b)'
    BY <2>1, <2>3 DEF GuardsKept
  <2> QED
    BY <1>4, <2>2, <2>3
<1>5. Placed(t) >= 5 => GuardAt(t, place[t][5])'
  <2>1. Placed(t) >= 5 => \A b : b = place'[t][5] => GuardAt(t, b)'
    BY <1>1, <1>3, <1>4 DEF SetOK
  <2> QED
    BY <2>1
<1>6. Placed(t) = 7 => GuardAt(t, place[t][7])'
  <2>1. Placed(t) = 7 => \A b : b = place'[t][7] => GuardAt(t, b)'
    BY <1>1, <1>3, <1>4 DEF SetOK
  <2> QED
    BY <2>1
<1>7. Placed(t) <= 7
  BY <1>1, Zenon DEF SetOK
<1> QED
  BY <1>2, <1>5, <1>6, <1>7 DEF SetOK

(* Nor does it go on with its stack.                                        *)
LEMMA NextOwn ==
  ASSUME Good, NEW t \in Thread, place'[t] = place[t],
         phase[t] # "setup", phase'[t] # "setup", t \in disturbed' <=> t \in disturbed
  PROVE  Undisturbed(t)'
<1>1. Undisturbed(t) /\ Placed(t)' = Placed(t)
  BY DEF Good, ThreadOK, Placed
<1> QED
  BY <1>1 DEF Undisturbed, NextTo

-----------------------------------------------------------------------------
\* Entering a call.

(* The sizes that are asked for.                                            *)
LEMMA PageCounts ==
  /\ ImagePages \in 1..Pages - 1 /\ StackPages \in 1..Pages - 1
  /\ 1 \in 1..Pages - 1 /\ 2 \in 1..Pages - 1
  /\ \A i \in 1..ImagePages : SectionProt[i] \in Prot
  /\ {"N", "R", "RW"} \subseteq Prot
BY LoaderAssumption, MemoryAssumption DEF ImagePages, Prot

(* The range of an image is reserved: anywhere, or at its base, where       *)
(* nothing is mapped.                                                       *)
LEMMA ReserveKeeps ==
  ASSUME Good, NEW t \in Thread, Reserve(t), ~clashed'
  PROVE  Good'
<1>1. /\ Types /\ PhaseOK(t) /\ LoadAt(t, "reserve") /\ Loading(t) /\ Idle(t)
      /\ phase[t] \in LoadPhases
  BY DEF Good, ThreadOK, Reserve, LoadAt, PhaseOK
<1>2. UNCHANGED <<graph, owned, place, phase>> /\ Advance(t, "section", 0)
  BY DEF Reserve, progVars
<1>3. PICK op \in {"dynamic", "fixed"}, b \in Nat, w \in BOOLEAN, k \in BOOLEAN :
        /\ Request(t, op, b, ImagePages, "N", w, k)
        /\ op = "fixed" => k = ~Free(b, ImagePages)
  <2>1. Top(t).mod \in Module
    BY <1>1, TopShape DEF FrameRec
  <2>2. CASE Top(t).mod \in DOMAIN graph.fixed
    <3>1. graph.fixed[Top(t).mod] \in Nat
      BY <1>1, <2>1, <2>2, LoaderAssumption DEF Types
    <3>2. PICK b \in Nat : b = graph.fixed[Top(t).mod]
      BY <3>1
    <3>3. PICK k \in BOOLEAN : k = ~Free(b, ImagePages)
      OBVIOUS
    <3>4. \E w \in BOOLEAN : Request(t, "fixed", b, ImagePages, "N", w, k)
      BY <2>2, <3>2, <3>3 DEF Reserve
    <3> QED
      BY <3>3, <3>4
  <2>3. CASE Top(t).mod \notin DOMAIN graph.fixed
    <3>1. \E w \in BOOLEAN : Request(t, "dynamic", 0, ImagePages, "N", w, FALSE)
      BY <2>3 DEF Reserve
    <3> QED
      BY <3>1
  <2> QED
    BY <2>2, <2>3
<1>4. /\ op \in {"dynamic", "fixed", "unmap", "protect"} /\ b \in Int
      /\ ImagePages \in 1..Pages - 1 /\ "N" \in Prot
      /\ Asks(t, op, b, ImagePages, "N") /\ ~k
  BY <1>3, NotTaken, PageCounts DEF Asks
<1>5. /\ \A u \in Thread : Idle(u)
      /\ UNCHANGED <<map_base, prot, spoiled, regions>>
      /\ \A u \in Thread \ {t} : call'[u] = call[u] /\ Idle(u)'
      /\ ~Idle(t)' /\ call'[t].op = op /\ call'[t].base = b /\ call'[t].size = ImagePages
      /\ call'[t].step = 1 /\ (t \in disturbed' <=> t \in disturbed)
  <2>1. Entered(t, op, b, ImagePages, "N")
    BY <1>4, BeginFacts
  <2> QED
    BY <2>1 DEF Entered
<1>6. /\ stack' = [u \in Thread |-> stack'[u]]
      /\ \A u \in Thread \ {t} : stack'[u] = stack[u]
      /\ stack'[t] \in Seq(FrameRec) /\ Loading(t)'
      /\ Top(t)'.mod = Top(t).mod /\ Top(t)'.step = "section" /\ Top(t)'.i = 0
      /\ \A j \in DOMAIN stack'[t] :
           j > 1 => j \in DOMAIN stack[t] /\ stack'[t][j] = stack[t][j]
  BY <1>1, <1>2, AdvanceFacts
<1>7. PinnedKept /\ GuardsKept
  BY <1>1, <1>2, <1>3, <1>5, BeginPinned
<1>9. CallOK(t)'
  <2>1. op = "fixed" => Free(b, ImagePages)'
    BY <1>3, <1>4, <1>5 DEF Free, ImagePages
  <2> QED
    BY <1>5, <2>1 DEF CallOK, At, Fits, ImagePages
<1>10. SecOK(t)'
  BY <1>2, <1>3, <1>5, <1>6, PageCounts DEF SecOK, LoadAt, ImagePages
<1>11. PhaseOK(t)'
  BY <1>1, <1>2, <1>5, <1>6 DEF PhaseOK, LoadAt, Placed, LoadPhases, Module, MainPhases,
                                StartPhases
<1>12. SetOK(t)' /\ Undisturbed(t)'
  BY <1>1, <1>2, <1>5, <1>7, SetOwn, NextOwn DEF LoadPhases, Module
<1>13. /\ phase' = [u \in Thread |-> phase'[u]] /\ owned' = [u \in Thread |-> owned'[u]]
       /\ place' = [u \in Thread |-> place'[u]] /\ place'[t] \in Seq(Int)
  BY <1>1, <1>2 DEF Types
<1> QED
  BY <1>2, <1>3, <1>4, <1>6, <1>7, <1>9, <1>10, <1>11, <1>12, <1>13, BeginGood

(* A section is mapped inside its image.                                    *)
LEMMA MapSectionKeeps ==
  ASSUME Good, NEW t \in Thread, MapSection(t), ~clashed'
  PROVE  Good'
<1>1. /\ Types /\ PhaseOK(t) /\ SecOK(t) /\ LoadAt(t, "section") /\ Loading(t) /\ Idle(t)
      /\ phase[t] \in LoadPhases /\ Top(t) \in FrameRec /\ Top(t) = stack[t][1]
  BY TopShape DEF Good, ThreadOK, MapSection, LoadAt, PhaseOK
<1>2. UNCHANGED <<graph, owned, place, phase>> /\ Top(t).i < ImagePages
  BY DEF MapSection, progVars
<1>3. PICK base : base = IF Top(t).i = 0 THEN call[t].base ELSE Top(t).base
  OBVIOUS
<1>4. /\ Asks(t, "fixed", base + Top(t).i, 1, "RW")
      /\ stack' = [stack EXCEPT ![t][1].base = base, ![t][1].i = @ + 1]
  BY <1>3 DEF MapSection, Asks
<1>5. Image(t, base) /\ Top(t).i \in 0..ImagePages - 1
  BY <1>1, <1>2, <1>3, PageCounts DEF SecOK
<1>6. PICK r \in regions : Pinned(r) /\ Usable(r, t) /\ r.base = base /\ r.size = ImagePages
  BY <1>5 DEF Image
<1>7. base \in Nat
  BY <1>1, <1>6, RegionShape
<1>8. PICK b \in Nat : b = base + Top(t).i
  BY <1>5, <1>7
<1>9. Asks(t, "fixed", b, 1, "RW") /\ b \in Int /\ 1 \in 1..Pages - 1 /\ "RW" \in Prot
  BY <1>4, <1>8, PageCounts
<1>10. /\ UNCHANGED <<map_base, prot, spoiled, regions>>
       /\ \A u \in Thread \ {t} : call'[u] = call[u]
       /\ ~Idle(t)' /\ call'[t].op = "fixed" /\ call'[t].base = b /\ call'[t].size = 1
       /\ call'[t].step = 1 /\ (t \in disturbed' <=> t \in disturbed)
  <2>1. Entered(t, "fixed", b, 1, "RW")
    BY <1>9, BeginFacts
  <2> QED
    BY <2>1 DEF Entered
<1>11. PICK f \in FrameRec : /\ f = [Top(t) EXCEPT !.base = base, !.i = @ + 1]
                             /\ f.step = "section" /\ f.base = base /\ f.i = Top(t).i + 1
  <2>1. Top(t) \in FrameRec /\ base \in Int
    BY <1>1, <1>7
  <2>2. PICK g \in FrameRec : g = [Top(t) EXCEPT !.base = base]
    BY <2>1 DEF FrameRec
  <2>3. g.i = Top(t).i /\ g.i + 1 \in Int
    BY <1>1, <2>2 DEF FrameRec
  <2>4. PICK f \in FrameRec : f = [g EXCEPT !.i = @ + 1]
    BY <2>3 DEF FrameRec
  <2>5. f.step = "section" /\ f.base = base /\ f.i = Top(t).i + 1
    BY <1>1, <2>2, <2>3, <2>4 DEF FrameRec, LoadAt
  <2> QED
    BY <2>2, <2>4, <2>5
<1>12. stack' = [stack EXCEPT ![t] = [stack[t] EXCEPT ![1] = f]]
  <2>1. stack[t] \in Seq(FrameRec)
    BY <1>1, TopShape
  <2> QED
    BY <1>1, <1>4, <1>11, <2>1
<1>13. /\ stack' = [u \in Thread |-> stack'[u]]
       /\ \A u \in Thread \ {t} : stack'[u] = stack[u]
       /\ stack'[t] \in Seq(FrameRec) /\ Loading(t)' /\ Top(t)' = f
       /\ \A k \in DOMAIN stack'[t] :
            k > 1 => k \in DOMAIN stack[t] /\ stack'[t][k] = stack[t][k]
  BY <1>1, <1>12, TopChanges
<1>14. PinnedKept /\ GuardsKept
  BY <1>1, <1>2, <1>10, BeginPinned
<1>16. CallOK(t)'
  <2>1. Inside(t, b, 1)'
    BY <1>2, <1>5, <1>6, <1>7, <1>8, <1>10, PageCounts DEF Inside, Usable, GuardBases
  <2>2. ~Reserving(t)'
    <3>1. Top(t)'.i = Top(t).i + 1 /\ Top(t).i \in Nat
      BY <1>5, <1>11, <1>13
    <3>2. phase'[t] # "allocating"
      BY <1>1, <1>2 DEF LoadPhases, Module
    <3> QED
      BY <3>1, <3>2 DEF Reserving
  <2> QED
    BY <1>10, <2>1, <2>2 DEF CallOK, At, Fits
<1>17. SecOK(t)'
  <2>1. Image(t, base)'
    BY <1>2, <1>5, <1>14, ImageStays
  <2> QED
    BY <1>5, <1>11, <1>13, <2>1, PageCounts DEF SecOK, ImagePages
<1>18. Top(t)'.step = "section"
  BY <1>11, <1>13
<1>19. PhaseOK(t)'
  BY <1>18, <1>1, <1>2, <1>10, <1>13 DEF PhaseOK, LoadAt, Placed, LoadPhases, Module,
                                         MainPhases, StartPhases
<1>20. SetOK(t)' /\ Undisturbed(t)'
  BY <1>1, <1>2, <1>10, <1>14, SetOwn, NextOwn DEF LoadPhases, Module
<1>21. /\ phase' = [u \in Thread |-> phase'[u]] /\ owned' = [u \in Thread |-> owned'[u]]
       /\ place' = [u \in Thread |-> place'[u]] /\ place'[t] \in Seq(Int)
  BY <1>1, <1>2 DEF Types
<1> QED
  BY <1>2, <1>9, <1>13, <1>14, <1>16, <1>17, <1>19, <1>20, <1>21, BeginGood

(* The wrong pages are about to be protected.                               *)
LEMMA ProtectSectionKeeps ==
  ASSUME Good, NEW t \in Thread, ProtectSection(t), ~clashed'
  PROVE  Good'
<1>1. /\ Types /\ PhaseOK(t) /\ LoadAt(t, "protect") /\ Loading(t) /\ Idle(t)
      /\ phase[t] \in LoadPhases
  BY DEF Good, ThreadOK, ProtectSection, LoadAt, PhaseOK
<1>2. UNCHANGED <<graph, owned, place, phase>> /\ Top(t).i <= ImagePages
      /\ Advance(t, "protect", Top(t).i + 1)
  BY DEF ProtectSection, progVars
<1>3. Top(t).i \in 1..ImagePages /\ Top(t).base \in Int
  <2>1. Top(t) \in FrameRec
    BY <1>1, TopShape
  <2>2. Top(t).i \in Int /\ Top(t).base \in Int
    BY <2>1 DEF FrameRec
  <2>3. Top(t).i >= 1
    BY <1>1 DEF PhaseOK
  <2> QED
    BY <1>2, <2>2, <2>3, PageCounts
<1>4. PICK b \in Int, p \in Prot : Asks(t, "protect", b, 1, p)
  BY <1>3, CallAsks, PageCounts DEF ProtectSection
<1>5. /\ UNCHANGED <<map_base, prot, spoiled, regions>>
      /\ \A u \in Thread \ {t} : call'[u] = call[u]
      /\ ~Idle(t)' /\ call'[t].op = "protect" /\ call'[t].step = 1
      /\ (t \in disturbed' <=> t \in disturbed)
  <2>1. Entered(t, "protect", b, 1, p)
    BY <1>4, BeginFacts, PageCounts
  <2> QED
    BY <2>1 DEF Entered
<1>6. /\ stack' = [u \in Thread |-> stack'[u]]
      /\ \A u \in Thread \ {t} : stack'[u] = stack[u]
      /\ stack'[t] \in Seq(FrameRec) /\ Loading(t)'
      /\ Top(t)'.step = "protect" /\ Top(t)'.i = Top(t).i + 1
      /\ \A k \in DOMAIN stack'[t] :
           k > 1 => k \in DOMAIN stack[t] /\ stack'[t][k] = stack[t][k]
  <2>1. Top(t).i + 1 \in Int
    BY <1>3
  <2> QED
    BY <1>1, <1>2, <2>1, AdvanceFacts
<1>7. PinnedKept /\ GuardsKept
  BY <1>1, <1>2, <1>5, BeginPinned
<1>9. CallOK(t)' /\ SecOK(t)'
  BY <1>5, <1>6 DEF CallOK, At, SecOK, LoadAt
<1>10. PhaseOK(t)'
  <2>1. Top(t)'.i >= 1
    BY <1>3, <1>6, PageCounts
  <2> QED
    BY <1>1, <1>2, <1>5, <1>6, <2>1 DEF PhaseOK, LoadAt, Placed, LoadPhases, Module,
                                        MainPhases, StartPhases
<1>11. SetOK(t)' /\ Undisturbed(t)'
  BY <1>1, <1>2, <1>5, <1>7, SetOwn, NextOwn DEF LoadPhases, Module
<1>12. /\ phase' = [u \in Thread |-> phase'[u]] /\ owned' = [u \in Thread |-> owned'[u]]
       /\ place' = [u \in Thread |-> place'[u]] /\ place'[t] \in Seq(Int)
  BY <1>1, <1>2 DEF Types
<1> QED
  BY <1>2, <1>4, <1>6, <1>7, <1>9, <1>10, <1>11, <1>12, BeginGood, PageCounts

(* The main thread asks for the pages of the parameters.                    *)
LEMMA MapParametersKeeps ==
  ASSUME Good, MapParameters, ~clashed'
  PROVE  Good'
<1>1. /\ Types /\ PhaseOK(Main) /\ Idle(Main) /\ Main \in Thread
      /\ phase[Main] \in {"init list", "command line"}
  BY LoaderAssumption DEF Good, ThreadOK, MapParameters
<1>2. PICK b \in Int, n \in 1..Pages - 1, p \in Prot : Asks(Main, "dynamic", b, n, p)
  <2>1. Asks(Main, "dynamic", 0, 1, "RW")
    BY CallAsks DEF MapParameters
  <2>2. 0 \in Int /\ 1 \in 1..Pages - 1 /\ "RW" \in Prot
    BY PageCounts
  <2> QED
    BY <2>1, <2>2, Zenon
<1>3. /\ UNCHANGED <<graph, owned, place, stack>>
      /\ phase' = [phase EXCEPT ![Main] = IF phase[Main] = "init list" THEN "command line"
                                                                       ELSE "start thread"]
  BY DEF MapParameters, progVars, Enter
<1>4. /\ UNCHANGED <<map_base, prot, spoiled, regions>>
      /\ \A u \in Thread \ {Main} : call'[u] = call[u]
      /\ ~Idle(Main)' /\ call'[Main].op = "dynamic" /\ call'[Main].step = 1
      /\ (Main \in disturbed' <=> Main \in disturbed)
  <2>1. Entered(Main, "dynamic", b, n, p)
    BY <1>1, <1>2, BeginFacts
  <2> QED
    BY <2>1 DEF Entered
<1>5. /\ phase' = [u \in Thread |-> phase'[u]]
      /\ phase'[Main] \in {"command line", "start thread"}
      /\ \A u \in Thread \ {Main} : phase'[u] = phase[u]
  BY <1>1, <1>3 DEF Types
<1>6. PinnedKept /\ GuardsKept
  BY <1>1, <1>3, <1>4, <1>5, BeginPinned
<1>7. /\ ~Loading(Main) /\ ~Loading(Main)'
      /\ ~LoadAt(Main, "section")' /\ ~LoadAt(Main, "import")' /\ ~LoadAt(Main, "protect")'
  BY <1>1, <1>3 DEF PhaseOK, LoadPhases, Module, Loading, LoadAt
<1>9. CallOK(Main)' /\ SecOK(Main)'
  BY <1>4, <1>7 DEF CallOK, At, SecOK
<1>10. PhaseOK(Main)'
  BY <1>1, <1>3, <1>4, <1>5, <1>7 DEF PhaseOK, Placed, MainPhases, StartPhases
<1>11. SetOK(Main)' /\ Undisturbed(Main)'
  BY <1>1, <1>3, <1>4, <1>5, <1>6, SetOwn, NextOwn
<1>12. /\ owned' = [u \in Thread |-> owned'[u]] /\ stack' = [u \in Thread |-> stack'[u]]
       /\ place' = [u \in Thread |-> place'[u]] /\ place'[Main] \in Seq(Int)
       /\ stack'[Main] \in Seq(FrameRec)
  BY <1>1, <1>3 DEF Types
<1> QED
  BY <1>1, <1>2, <1>3, <1>5, <1>6, <1>9, <1>10, <1>11, <1>12, BeginGood DEF StartPhases

(* A thread stores another range.                                           *)
LEMMA PlaceGrows ==
  ASSUME Types, NEW t \in Thread, NEW b \in Int, place'[t] = Append(place[t], b)
  PROVE  /\ place'[t] \in Seq(Int)
         /\ Placed(t)' = Placed(t) + 1 /\ place'[t][Placed(t) + 1] = b
         /\ \A k \in 1..Placed(t) : place'[t][k] = place[t][k]
<1>1. PICK s \in Seq(Int) : s = place[t]
  BY DEF Types
<1>2. /\ Append(s, b) \in Seq(Int) /\ Len(Append(s, b)) = Len(s) + 1
      /\ \A k \in 1..Len(s) : Append(s, b)[k] = s[k]
      /\ Append(s, b)[Len(s) + 1] = b
  BY AppendProperties
<1>3. Placed(t) = Len(s) /\ Placed(t)' = Len(Append(s, b)) /\ place'[t] = Append(s, b)
  BY <1>1 DEF Placed
<1> QED
  BY <1>1, <1>2, <1>3

(* A thread that sets itself up asks for its next range; the last one was a *)
(* guard page, or its stack.                                                *)
LEMMA SetupMapKeeps ==
  ASSUME Good, NEW t \in Thread, SetupMap(t), ~clashed'
  PROVE  Good'
<1>1. /\ Types /\ PhaseOK(t) /\ SetOK(t) /\ Undisturbed(t) /\ Idle(t) /\ phase[t] = "setup"
  BY DEF Good, ThreadOK, SetupMap
<1>2. /\ UNCHANGED <<graph, owned, stack, phase>> /\ Placed(t) < 6
      /\ Asks(t, "dynamic", 0, SetupSize[Placed(t) + 1], SetupProt[Placed(t) + 1])
      /\ place' = [place EXCEPT ![t] = Append(@, call[t].base)]
  BY DEF SetupMap, Placed, Asks
<1>3. PICK b \in Int : b = call[t].base
  BY <1>1, CallShape
<1>4. /\ place' = [u \in Thread |-> place'[u]] /\ place'[t] \in Seq(Int)
      /\ \A u \in Thread \ {t} : place'[u] = place[u]
      /\ Placed(t)' = Placed(t) + 1 /\ place'[t][Placed(t) + 1] = b
      /\ \A k \in 1..Placed(t) : place'[t][k] = place[t][k]
  <2>1. place'[t] = Append(place[t], b) /\ place' = [u \in Thread |-> place'[u]]
        /\ \A u \in Thread \ {t} : place'[u] = place[u]
    BY <1>1, <1>2, <1>3 DEF Types
  <2> QED
    BY <1>1, <2>1, PlaceGrows
<1>5. Placed(t) \in 0..5
  BY <1>1, <1>2, PlacedShape
<1>6. PICK k \in 1..6 : k = Placed(t) + 1
  BY <1>5
<1>7. PICK n \in 1..Pages - 1, p \in Prot : n = SetupSize[k] /\ p = SetupProt[k]
  BY <1>6, PageCounts DEF SetupSize, SetupProt
<1>8. PICK z \in Int : Asks(t, "dynamic", z, n, p)
  BY <1>2, <1>6, <1>7
<1>9. /\ UNCHANGED <<map_base, prot, spoiled, regions>>
      /\ \A u \in Thread \ {t} : call'[u] = call[u] /\ Idle(u)'
      /\ ~Idle(t)' /\ call'[t].op = "dynamic" /\ call'[t].step = 1
      /\ call'[t].size = n /\ call'[t].prot = p
      /\ (t \in disturbed' <=> t \in disturbed)
  <2>1. Entered(t, "dynamic", z, n, p)
    BY <1>8, BeginFacts
  <2> QED
    BY <2>1 DEF Entered
<1>10. PinnedKept /\ GuardsKept
  BY <1>1, <1>2, <1>9, BeginPinned
<1>11. t # Main /\ ~Loading(t) /\ ~Loading(t)'
  BY <1>1, <1>2 DEF PhaseOK, MainPhases, StartPhases, LoadPhases, Module, Loading
<1>13. CallOK(t)' /\ SecOK(t)'
  BY <1>9, <1>11 DEF CallOK, At, SecOK, LoadAt
<1>14. PhaseOK(t)'
  <2>1. Placed(t)' <= 6
    BY <1>4, <1>5
  <2>2. phase[Main] \notin StartPhases
    BY <1>1, <1>11 DEF PhaseOK
  <2> QED
    BY <1>1, <1>2, <1>9, <1>11, <2>1, <2>2 DEF PhaseOK, LoadAt
<1>15. SetOK(t)'
  <2>1. k >= 5 => \A g : g = place'[t][5] => GuardAt(t, g)'
    <3>1. CASE k = 5
      <4>1. GuardAt(t, b)
        BY <1>1, <1>3, <1>5, <1>6, <3>1 DEF SetOK
      <4>2. GuardAt(t, b)'
        BY <1>1, <1>10, <1>11, <4>1 DEF GuardsKept
      <4> QED
        BY <1>4, <1>6, <3>1, <4>2
    <3>2. CASE k = 6
      <4>1. Placed(t) = 5 /\ place[t][5] \in Int /\ place'[t][5] = place[t][5]
        BY <1>1, <1>4, <1>6, <3>2, PlacedShape
      <4>2. GuardAt(t, place[t][5])
        BY <1>1, <4>1 DEF SetOK
      <4>3. ASSUME NEW g \in Int, GuardAt(t, g) PROVE GuardAt(t, g)'
        BY <1>1, <1>10, <1>11, <4>3 DEF GuardsKept
      <4> QED
        BY <4>1, <4>2, <4>3
    <3> QED
      BY <1>6, <3>1, <3>2
  <2>2. Placed(t)' = k /\ phase'[t] = "setup"
    BY <1>1, <1>2, <1>4, <1>6
  <2>3. k >= 5 => GuardAt(t, place[t][5])'
    BY <2>1
  <2> QED
    BY <1>6, <1>7, <1>9, <2>2, <2>3 DEF SetOK, At
<1>16. Undisturbed(t)'
  <2>1. CASE t \in disturbed
    BY <1>9, <2>1 DEF Undisturbed
  <2>2. CASE t \notin disturbed
    <3>1. /\ Placed(t) = 4 => map_base = b + 1
          /\ Placed(t) = 5 => b = place[t][5] + 1 /\ map_base = b + StackPages
      BY <1>1, <1>3, <2>2 DEF Undisturbed, NextTo
    <3>2. Placed(t)' = k /\ phase'[t] = "setup"
      BY <1>1, <1>2, <1>4, <1>6
    <3>3. NextTo(t)'
      <4>1. k = 5 => map_base' = place'[t][5] + 1
        BY <1>3, <1>4, <1>5, <1>6, <1>9, <3>1
      <4>2. k = 6 => place'[t][6] = place'[t][5] + 1 /\ map_base' = place'[t][6] + StackPages
        <5>1. k = 6 => Placed(t) = 5
          BY <1>5, <1>6
        <5>2. k = 6 => place'[t][6] = b /\ place'[t][5] = place[t][5]
          BY <1>4, <5>1
        <5> QED
          BY <1>9, <3>1, <5>1, <5>2
      <4> QED
        BY <1>6, <1>9, <3>2, <4>1, <4>2 DEF NextTo
    <3> QED
      BY <1>9, <3>3 DEF Undisturbed
  <2> QED
    BY <2>1, <2>2
<1>17. /\ owned' = [u \in Thread |-> owned'[u]] /\ stack' = [u \in Thread |-> stack'[u]]
       /\ phase' = [u \in Thread |-> phase'[u]] /\ stack'[t] \in Seq(FrameRec)
  BY <1>1, <1>2 DEF Types
<1> QED
  BY <1>2, <1>4, <1>8, <1>10, <1>13, <1>14, <1>15, <1>16, <1>17, BeginGood

(* Once the program may call, it has been started.                          *)
LEMMA MayCallFacts ==
  ASSUME Good, NEW t \in Thread, MayCall(t)
  PROVE  /\ phase[t] \in {"events", "run"} /\ (t = Main => phase[t] = "events")
         /\ ~Loading(t) /\ ~LoadAt(t, "section") /\ ~LoadAt(t, "protect") /\ Idle(t)
         /\ phase[Main] \notin StartPhases
<1>1. phase[t] \in {"events", "run"} /\ ~Loading(t) /\ Idle(t)
      /\ (t = Main => phase[t] = "events") /\ PhaseOK(t)
  BY DEF MayCall, Good, ThreadOK
<1>2. phase[Main] \notin StartPhases
  BY <1>1 DEF PhaseOK, StartPhases
<1> QED
  BY <1>1, <1>2 DEF LoadAt

(* The program, or a surface, asks for memory.                              *)
LEMMA AllocateKeeps ==
  ASSUME Good, NEW t \in Thread, Allocate(t), ~clashed'
  PROVE  Good'
<1>1. /\ Types /\ PhaseOK(t) /\ phase[t] \in {"events", "run"} /\ Idle(t)
      /\ ~Loading(t) /\ phase[Main] \notin StartPhases
  <2>1. MayCall(t)
    BY DEF Allocate
  <2> QED
    BY <2>1, MayCallFacts DEF Good, ThreadOK
<1>2. /\ UNCHANGED <<graph, owned, stack, place>>
      /\ phase' = [phase EXCEPT ![t] = "allocating"]
  BY DEF Allocate, Enter
<1>3. PICK n \in 1..Pages - 1, p \in Prot, b \in Int : Asks(t, "dynamic", b, n, p)
  <2>1. PICK n \in Nat \ {0}, w \in BOOLEAN :
          Request(t, "dynamic", 0, n, IF t = Main \/ n > 1 THEN "RW" ELSE "N", w, n >= Pages)
    BY LoaderAssumption DEF Allocate
  <2>2. PICK p \in Prot : p = IF t = Main \/ n > 1 THEN "RW" ELSE "N"
    BY PageCounts
  <2>3. ~(n >= Pages)
    BY <2>1 DEF Request, Begin
  <2>4. (n >= Pages) \in BOOLEAN
    OBVIOUS
  <2>5. Asks(t, "dynamic", 0, n, p)
    BY <2>1, <2>2, <2>4 DEF Asks
  <2>6. n \in 1..Pages - 1 /\ 0 \in Int /\ Asks(t, "dynamic", 0, n, p)
    BY <2>3, <2>5, MemoryAssumption
  <2> QED
    BY <2>6, Zenon
<1>4. /\ UNCHANGED <<map_base, prot, spoiled, regions>>
      /\ \A u \in Thread \ {t} : call'[u] = call[u]
      /\ ~Idle(t)' /\ call'[t].op = "dynamic" /\ call'[t].step = 1
      /\ (t \in disturbed' <=> t \in disturbed)
  <2>1. Entered(t, "dynamic", b, n, p)
    BY <1>3, BeginFacts
  <2> QED
    BY <2>1 DEF Entered
<1>5. /\ phase' = [u \in Thread |-> phase'[u]] /\ phase'[t] = "allocating"
      /\ \A u \in Thread \ {t} : phase'[u] = phase[u]
  BY <1>1, <1>2 DEF Types
<1>6. PinnedKept /\ GuardsKept
  BY <1>1, <1>2, <1>4, <1>5, BeginPinned
<1>7. phase'[Main] \notin StartPhases
  BY <1>1, <1>5, LoaderAssumption DEF StartPhases
<1>8. /\ ~Loading(t)'
      /\ ~LoadAt(t, "section")' /\ ~LoadAt(t, "import")' /\ ~LoadAt(t, "protect")'
  BY <1>1, <1>2 DEF Loading, LoadAt
<1>9. CallOK(t)' /\ SecOK(t)'
  BY <1>4, <1>8 DEF CallOK, At, SecOK
<1>10. PhaseOK(t)'
  BY <1>1, <1>2, <1>4, <1>5, <1>7, <1>8 DEF PhaseOK, Placed, MainPhases
<1>11. SetOK(t)' /\ Undisturbed(t)'
  BY <1>1, <1>2, <1>4, <1>5, <1>6, SetOwn, NextOwn
<1>12. /\ owned' = [u \in Thread |-> owned'[u]] /\ stack' = [u \in Thread |-> stack'[u]]
       /\ place' = [u \in Thread |-> place'[u]] /\ place'[t] \in Seq(Int)
       /\ stack'[t] \in Seq(FrameRec)
  BY <1>1, <1>2 DEF Types
<1> QED
  BY <1>1, <1>2, <1>3, <1>5, <1>6, <1>7, <1>9, <1>10, <1>11, <1>12, BeginGood

(* The program commits a page of a range of its own.                        *)
LEMMA CommitKeeps ==
  ASSUME Good, NEW t \in Thread, Commit(t), ~clashed'
  PROVE  Good'
<1>1. /\ Types /\ PhaseOK(t) /\ phase[t] \in {"events", "run"} /\ Idle(t)
      /\ ~Loading(t) /\ phase[Main] \notin StartPhases
  <2>1. MayCall(t)
    BY DEF Commit
  <2> QED
    BY <2>1, MayCallFacts DEF Good, ThreadOK
<1>2. UNCHANGED <<graph, owned, stack, place, phase>>
  BY DEF Commit
<1> PICK v \in Thread : \E r \in owned[v] : \E k \in 0..r.size - 1, p \in {"N", "RW"} :
                          Call(t, "fixed", r.base + k, 1, p)
  BY DEF Commit
<1> PICK r \in owned[v] : \E k \in 0..r.size - 1, p \in {"N", "RW"} :
                            Call(t, "fixed", r.base + k, 1, p)
  OBVIOUS
<1>3. PICK k \in 0..r.size - 1, p \in {"N", "RW"} : Call(t, "fixed", r.base + k, 1, p)
  OBVIOUS
<1>4. r \in regions /\ r.by = v /\ r.base \in Nat /\ r.size \in 1..Pages - 1
  BY <1>1, <1>3, OwnUsable, RegionShape
<1>5. PICK b \in Nat : b = r.base + k
  BY <1>3, <1>4
<1>6. Asks(t, "fixed", b, 1, p) /\ b \in Int /\ 1 \in 1..Pages - 1 /\ p \in Prot
  BY <1>3, <1>5, CallAsks, PageCounts
<1>7. /\ UNCHANGED <<map_base, prot, spoiled, regions>>
      /\ \A u \in Thread \ {t} : call'[u] = call[u]
      /\ ~Idle(t)' /\ call'[t].op = "fixed" /\ call'[t].step = 1
      /\ call'[t].base = b /\ call'[t].size = 1
      /\ (t \in disturbed' <=> t \in disturbed)
  <2>1. Entered(t, "fixed", b, 1, p)
    BY <1>6, BeginFacts
  <2> QED
    BY <2>1 DEF Entered
<1>8. PinnedKept /\ GuardsKept
  BY <1>1, <1>2, <1>7, BeginPinned
<1>9. /\ ~Loading(t)'
      /\ ~LoadAt(t, "section")' /\ ~LoadAt(t, "import")' /\ ~LoadAt(t, "protect")'
  BY <1>1, <1>2 DEF Loading, LoadAt
<1>10. CallOK(t)'
  <2>1. Inside(t, b, 1)'
    BY <1>2, <1>3, <1>4, <1>5, <1>7 DEF Inside, Usable
  <2>2. ~Reserving(t)'
    BY <1>1, <1>2, <1>9 DEF Reserving
  <2> QED
    BY <1>7, <2>1, <2>2 DEF CallOK, At, Fits
<1>11. SecOK(t)'
  BY <1>9 DEF SecOK
<1>12. PhaseOK(t)'
  BY <1>1, <1>2, <1>7, <1>9 DEF PhaseOK, Placed
<1>13. SetOK(t)' /\ Undisturbed(t)'
  BY <1>1, <1>2, <1>7, <1>8, SetOwn, NextOwn
<1>14. /\ owned' = [u \in Thread |-> owned'[u]] /\ stack' = [u \in Thread |-> stack'[u]]
       /\ place' = [u \in Thread |-> place'[u]] /\ place'[t] \in Seq(Int)
       /\ phase' = [u \in Thread |-> phase'[u]] /\ stack'[t] \in Seq(FrameRec)
  BY <1>1, <1>2 DEF Types
<1> QED
  BY <1>1, <1>2, <1>6, <1>8, <1>10, <1>11, <1>12, <1>13, <1>14, BeginGood

(* The program asks for a free range of its choice.                         *)
LEMMA AllocateAtKeeps ==
  ASSUME Good, NEW t \in Thread, AllocateAt(t), ~clashed'
  PROVE  Good'
<1>1. /\ Types /\ PhaseOK(t) /\ phase[t] \in {"events", "run"} /\ Idle(t)
      /\ ~Loading(t) /\ phase[Main] \notin StartPhases
  <2>1. MayCall(t)
    BY DEF AllocateAt
  <2> QED
    BY <2>1, MayCallFacts DEF Good, ThreadOK
<1>2. /\ UNCHANGED <<graph, owned, stack, place>>
      /\ phase' = [phase EXCEPT ![t] = "allocating"]
  BY DEF AllocateAt, Enter
<1>3. PICK a \in Asked, p \in {"N", "RW"}, w \in BOOLEAN :
        Request(t, "fixed", a.base, a.size, p, w, ~Free(a.base, a.size))
  BY DEF AllocateAt
<1>4. PICK b \in Nat, n \in Nat \ {0} : b = a.base /\ n = a.size
  BY <1>3, LoaderAssumption
<1>5. PICK k \in BOOLEAN : k = ~Free(b, n)
  OBVIOUS
<1>6. Request(t, "fixed", b, n, p, w, k)
  BY <1>3, <1>4, <1>5
<1>7. Free(b, n)
  BY <1>5, <1>6, NotTaken
<1>8. /\ Asks(t, "fixed", b, n, p) /\ b \in Int /\ p \in Prot
      /\ n \in 1..Pages - 1 /\ "fixed" \in {"dynamic", "fixed", "unmap", "protect"}
  <2>1. b + n < Pages
    BY <1>7 DEF Free
  <2> QED
    BY <1>6, <2>1, MemoryAssumption, PageCounts DEF Asks
<1>9. /\ UNCHANGED <<map_base, prot, spoiled, regions>>
      /\ \A u \in Thread \ {t} : call'[u] = call[u]
      /\ ~Idle(t)' /\ call'[t].op = "fixed" /\ call'[t].step = 1
      /\ call'[t].base = b /\ call'[t].size = n
      /\ (t \in disturbed' <=> t \in disturbed)
  <2>1. Entered(t, "fixed", b, n, p)
    BY <1>8, BeginFacts
  <2> QED
    BY <2>1 DEF Entered
<1>10. /\ phase' = [u \in Thread |-> phase'[u]] /\ phase'[t] = "allocating"
       /\ \A u \in Thread \ {t} : phase'[u] = phase[u]
  BY <1>1, <1>2 DEF Types
<1>11. PinnedKept /\ GuardsKept
  BY <1>1, <1>2, <1>9, <1>10, BeginPinned
<1>12. phase'[Main] \notin StartPhases
  BY <1>1, <1>10, LoaderAssumption DEF StartPhases
<1>13. /\ ~Loading(t)'
       /\ ~LoadAt(t, "section")' /\ ~LoadAt(t, "import")' /\ ~LoadAt(t, "protect")'
  BY <1>1, <1>2 DEF Loading, LoadAt
<1>14. CallOK(t)'
  <2>1. Free(b, n)'
    BY <1>7, <1>9 DEF Free
  <2> QED
    BY <1>9, <2>1 DEF CallOK, At, Fits
<1>15. SecOK(t)'
  BY <1>13 DEF SecOK
<1>16. PhaseOK(t)'
  BY <1>1, <1>2, <1>9, <1>10, <1>12, <1>13 DEF PhaseOK, Placed, MainPhases
<1>17. SetOK(t)' /\ Undisturbed(t)'
  BY <1>1, <1>2, <1>9, <1>10, <1>11, SetOwn, NextOwn
<1>18. /\ owned' = [u \in Thread |-> owned'[u]] /\ stack' = [u \in Thread |-> stack'[u]]
       /\ place' = [u \in Thread |-> place'[u]] /\ place'[t] \in Seq(Int)
       /\ stack'[t] \in Seq(FrameRec)
  BY <1>1, <1>2 DEF Types
<1> QED
  BY <1>1, <1>2, <1>8, <1>10, <1>11, <1>12, <1>14, <1>15, <1>16, <1>17, <1>18, BeginGood

(* The program gives up a range it owns.                                    *)
LEMMA ReleaseKeeps ==
  ASSUME Good, NEW t \in Thread, Release(t), ~clashed'
  PROVE  Good'
<1>1. /\ Types /\ PhaseOK(t) /\ phase[t] \in {"events", "run"} /\ Idle(t)
      /\ ~Loading(t) /\ phase[Main] \notin StartPhases
  <2>1. MayCall(t)
    BY DEF Release
  <2> QED
    BY <2>1, MayCallFacts DEF Good, ThreadOK
<1>2. UNCHANGED <<graph, stack, place, phase>>
  BY DEF Release
<1>3. PICK r \in owned[t] : /\ Call(t, "unmap", r.base, r.size, "N")
                            /\ owned' = [owned EXCEPT ![t] = @ \ {r}]
  BY DEF Release
<1>4. /\ r \in regions /\ r.by = t /\ r.base \in Nat /\ r.size \in 1..Pages - 1
      /\ r = Region(r.base, r.size, t)
  BY <1>1, <1>3, OwnUsable, RegionShape
<1>5. PICK b \in Int, n \in 1..Pages - 1 :
        b = r.base /\ n = r.size /\ Asks(t, "unmap", b, n, "N")
  BY <1>3, <1>4, CallAsks
<1>6. "N" \in Prot
  BY PageCounts
<1>7. /\ UNCHANGED <<map_base, prot, spoiled, regions>>
      /\ \A u \in Thread \ {t} : call'[u] = call[u]
      /\ ~Idle(t)' /\ call'[t].op = "unmap" /\ call'[t].step = 1
      /\ call'[t].base = b /\ call'[t].size = n
      /\ (t \in disturbed' <=> t \in disturbed)
  <2>1. Entered(t, "unmap", b, n, "N")
    BY <1>5, <1>6, BeginFacts
  <2> QED
    BY <2>1 DEF Entered
<1>8. /\ owned' = [u \in Thread |-> owned'[u]] /\ owned'[t] = owned[t] \ {r}
      /\ \A u \in Thread \ {t} : owned'[u] = owned[u]
  BY <1>1, <1>3 DEF Types
<1>9. PinnedKept /\ GuardsKept
  BY <1>1, <1>2, <1>5, <1>7, <1>8, BeginPinned
<1>10. /\ ~Loading(t)'
       /\ ~LoadAt(t, "section")' /\ ~LoadAt(t, "import")' /\ ~LoadAt(t, "protect")'
  BY <1>1, <1>2 DEF Loading, LoadAt
<1>11. CallOK(t)'
  BY <1>4, <1>5, <1>7, <1>8 DEF CallOK, At
<1>12. SecOK(t)'
  BY <1>10 DEF SecOK
<1>13. PhaseOK(t)'
  BY <1>1, <1>2, <1>7, <1>10 DEF PhaseOK, Placed
<1>14. SetOK(t)' /\ Undisturbed(t)'
  BY <1>1, <1>2, <1>7, <1>9, SetOwn, NextOwn
<1>15. /\ stack' = [u \in Thread |-> stack'[u]] /\ phase' = [u \in Thread |-> phase'[u]]
       /\ place' = [u \in Thread |-> place'[u]] /\ place'[t] \in Seq(Int)
       /\ stack'[t] \in Seq(FrameRec) /\ owned'[t] \subseteq owned[t]
  BY <1>1, <1>2, <1>8 DEF Types
<1> QED
  BY <1>1, <1>2, <1>5, <1>6, <1>8, <1>9, <1>11, <1>12, <1>13, <1>14, <1>15, BeginGood

-----------------------------------------------------------------------------
\* Steps outside the memory map.

\* Nothing of the memory map changes, but for the history of requests.
MemSame == UNCHANGED <<map_base, prot, call, spoiled, regions, clashed>>

(* Memory stays pinned when a thread gets only what it was about to get.    *)
LEMMA QuietPinned ==
  ASSUME Good, MemSame,
         \A u \in Thread : phase'[u] = "allocating" => phase[u] = "allocating",
         \A u \in Thread, r \in regions : r.by = u /\ r \in owned'[u] => Loose(r)
  PROVE  PinnedKept /\ GuardsKept
<1>1. PinnedKept
  <2> SUFFICES ASSUME NEW r \in regions, Loose(r)' PROVE Loose(r)
    BY DEF PinnedKept, MemSame
  <2>1. r.by \in Thread
    BY RegionShape DEF Good
  <2> QED
    BY <2>1 DEF Loose, MemSame, Idle, At
<1> QED
  BY <1>1, GuardsSame DEF MemSame

(* A thread that goes from one thing to another keeps what it has.          *)
LEMMA QuietThread ==
  ASSUME Good, NEW t \in Thread, MemSame, GuardsKept, disturbed' = disturbed,
         Idle(t) \/ owned'[t] = owned[t], place'[t] = place[t], OwnKept,
         phase'[t] = "allocating" => phase[t] = "allocating",
         phase[t] # "setup", phase'[t] # "setup", ~LoadAt(t, "section")', PhaseOK(t)'
  PROVE  ThreadOK(t)'
<1>1. CallOK(t)'
  <2>1. Reserving(t)' => Reserving(t)
    BY DEF Reserving
  <2> QED
    BY <2>1, CallStays DEF Good, ThreadOK, MemSame
<1>2. SecOK(t)'
  BY DEF SecOK
<1>3. SetOK(t)' /\ Undisturbed(t)'
  BY SetOwn, NextOwn
<1> QED
  BY <1>1, <1>2, <1>3 DEF ThreadOK

(* What a step outside the memory map has to show.                          *)
LEMMA QuietGood ==
  ASSUME Good, MemSame, PinnedKept, GuardsKept, OwnKept,
         graph' = graph, disturbed' = disturbed,
         stack' = [u \in Thread |-> stack'[u]], phase' = [u \in Thread |-> phase'[u]],
         place' = [u \in Thread |-> place'[u]], owned' = [u \in Thread |-> owned'[u]],
         phase'[Main] \in StartPhases => phase[Main] \in StartPhases,
         \A u \in Thread : \/ SameThread(u)
                           \/ /\ ThreadOK(u)' /\ stack'[u] \in Seq(FrameRec)
                              /\ place'[u] \in Seq(Int)
                              /\ \A r \in owned'[u] : r \in regions /\ r.by = u
  PROVE  Good'
<1>1. Types /\ Alone /\ MapOK /\ OwnOK
  BY DEF Good
<1>2. \A u \in Thread : stack'[u] \in Seq(FrameRec) /\ place'[u] \in Seq(Int)
  BY <1>1 DEF Types, SameThread
<1>3. Types'
  <2>1. place' \in [Thread -> Seq(Int)]
    BY <1>2
  <2> QED
    BY <1>1, <1>2, <2>1 DEF Types, MemSame
<1>4. Alone' /\ MapOK'
  BY <1>1 DEF Alone, MapOK, MemSame, Idle, Raising, At
<1>5. OwnOK'
  BY <1>1 DEF OwnOK, SameThread, MemSame
<1>7. ASSUME NEW u \in Thread, SameThread(u) PROVE ThreadOK(u)'
  <2>1. Undisturbed(u)
    BY DEF Good, ThreadOK
  <2>2. u \notin disturbed /\ phase[u] = "setup" /\ Placed(u) \in 4..6
          => \A v \in Thread \ {u} : Idle(v)'
    BY <2>1 DEF Undisturbed, MemSame, Idle
  <2> QED
    BY <1>7, <2>2, OtherOK DEF MemSame
<1> QED
  BY <1>3, <1>4, <1>5, <1>7 DEF Good

(* What a step of the loader outside the memory map has to show.            *)
LEMMA LoadQuiet ==
  ASSUME Good, NEW t \in Thread, Loading(t), MemSame,
         UNCHANGED <<graph, owned, place, phase, disturbed>>,
         stack' = [u \in Thread |-> stack'[u]], stack'[t] \in Seq(FrameRec),
         \A u \in Thread \ {t} : stack'[u] = stack[u],
         ~LoadAt(t, "section")',
         \A k \in DOMAIN stack'[t] :
           k > 1 => stack'[t][k].step = "import" /\ stack'[t][k].i >= 1,
         LoadAt(t, "import")' \/ LoadAt(t, "protect")' => Top(t)'.i >= 1
  PROVE  Good'
<1>1. Types /\ OwnOK /\ PhaseOK(t) /\ phase[t] \in LoadPhases
  BY DEF Good, ThreadOK, PhaseOK
<1>2. phase[t] \notin {"allocating", "setup", "unborn"}
  BY <1>1 DEF LoadPhases, Module
<1>3. PinnedKept /\ GuardsKept /\ OwnKept
  <2>1. \A u \in Thread, r \in regions : r.by = u /\ r \in owned'[u] => Loose(r)
    BY DEF Loose
  <2> QED
    BY <2>1, QuietPinned DEF OwnKept
<1>4. PhaseOK(t)'
  BY <1>1, <1>2 DEF PhaseOK, Placed
<1>5. ThreadOK(t)'
  BY <1>2, <1>3, <1>4, QuietThread
<1>6. \A u \in Thread \ {t} : SameThread(u)
  BY DEF SameThread, MemSame
<1>7. /\ place'[t] \in Seq(Int) /\ \A r \in owned'[t] : r \in regions /\ r.by = t
      /\ phase' = [u \in Thread |-> phase'[u]] /\ place' = [u \in Thread |-> place'[u]]
      /\ owned' = [u \in Thread |-> owned'[u]]
  BY <1>1 DEF Types, OwnOK
<1> QED
  BY <1>3, <1>5, <1>6, <1>7, QuietGood

(* A file that cannot be loaded ends the process.                           *)
LEMMA UnloadableKeeps ==
  ASSUME Good, NEW t \in Thread, Unloadable(t)
  PROVE  Good'
<1>1. /\ Types /\ PhaseOK(t) /\ Loading(t) /\ Top(t).step = "reserve"
      /\ stack[t] \in Seq(FrameRec)
  BY DEF Good, Types, ThreadOK, Unloadable, LoadAt
<1>2. MemSame /\ UNCHANGED <<stack, graph, owned, place, phase, disturbed>>
  BY DEF Unloadable, memVars, progVars, MemSame
<1>3. ~LoadAt(t, "section")' /\ ~LoadAt(t, "import")' /\ ~LoadAt(t, "protect")'
  BY <1>1, <1>2 DEF LoadAt, Top
<1> QED
  BY <1>1, <1>2, <1>3, LoadQuiet DEF Types, PhaseOK

(* All sections of an image are mapped; all imports of a module are loaded. *)
LEMMA SectionsMappedKeeps ==
  ASSUME Good, NEW t \in Thread, SectionsMapped(t) \/ ImportsDone(t)
  PROVE  Good'
<1>1. Types /\ PhaseOK(t) /\ Loading(t)
  BY DEF Good, ThreadOK, SectionsMapped, ImportsDone, LoadAt
<1>2. /\ MemSame /\ UNCHANGED <<graph, owned, place, phase, disturbed>>
  BY DEF SectionsMapped, ImportsDone, memVars, progVars, MemSame
<1>3. PICK step \in {"import", "protect"} : Advance(t, step, 1)
  BY DEF SectionsMapped, ImportsDone
<1>5. /\ stack' = [u \in Thread |-> stack'[u]]
      /\ \A u \in Thread \ {t} : stack'[u] = stack[u]
      /\ stack'[t] \in Seq(FrameRec) /\ Top(t)'.step = step /\ Top(t)'.i = 1
      /\ \A k \in DOMAIN stack'[t] :
           k > 1 => k \in DOMAIN stack[t] /\ stack'[t][k] = stack[t][k]
  BY <1>1, <1>3, AdvanceFacts
<1>6. /\ ~LoadAt(t, "section")'
      /\ \A k \in DOMAIN stack'[t] :
           k > 1 => stack'[t][k].step = "import" /\ stack'[t][k].i >= 1
  BY <1>1, <1>5 DEF PhaseOK, LoadAt
<1> QED
  BY <1>1, <1>2, <1>5, <1>6, LoadQuiet

(* The next import is linked, or its load begins, or the stack overflows.   *)
LEMMA ImportKeeps ==
  ASSUME Good, NEW t \in Thread, Import(t)
  PROVE  Good'
<1>1. /\ Types /\ PhaseOK(t) /\ Loading(t) /\ Top(t).step = "import" /\ Top(t).i >= 1
      /\ Top(t).i <= Len(graph.imports[Top(t).mod])
  BY DEF Good, ThreadOK, PhaseOK, Import, LoadAt
<1>2. MemSame /\ UNCHANGED <<graph, owned, place, phase, disturbed>>
  BY DEF Import, memVars, progVars, MemSame
<1>4. /\ stack[t] \in Seq(FrameRec) /\ 1 \in DOMAIN stack[t] /\ Top(t) = stack[t][1]
      /\ Top(t) \in FrameRec /\ Top(t).i \in Int /\ Top(t).mod \in Module
  BY <1>1, TopShape DEF FrameRec
<1>5. PICK dep \in Module : dep = graph.imports[Top(t).mod][Top(t).i]
  <2>1. graph.imports[Top(t).mod] \in Seq(Module)
    BY <1>1, <1>4, LoaderAssumption DEF Types
  <2> QED
    BY <1>1, <1>4, <2>1
<1>6. \A k \in DOMAIN stack[t] : stack[t][k].step = "import" /\ stack[t][k].i >= 1
  BY <1>1, <1>4 DEF PhaseOK
<1>7. CASE Advance(t, "import", Top(t).i + 1)
  <2>1. PICK i \in Int : i = Top(t).i + 1 /\ i >= 1 /\ Advance(t, "import", i)
    BY <1>1, <1>4, <1>7
  <2>2. /\ stack' = [u \in Thread |-> stack'[u]]
        /\ \A u \in Thread \ {t} : stack'[u] = stack[u]
        /\ stack'[t] \in Seq(FrameRec) /\ Top(t)'.step = "import" /\ Top(t)'.i = i
        /\ \A k \in DOMAIN stack'[t] :
             k > 1 => k \in DOMAIN stack[t] /\ stack'[t][k] = stack[t][k]
    BY <1>1, <2>1, AdvanceFacts
  <2>3. /\ ~LoadAt(t, "section")' /\ Top(t)'.i >= 1
        /\ \A k \in DOMAIN stack'[t] :
             k > 1 => stack'[t][k].step = "import" /\ stack'[t][k].i >= 1
    BY <1>6, <2>1, <2>2 DEF LoadAt
  <2> QED
    BY <1>1, <1>2, <2>2, <2>3, LoadQuiet
<1>8. CASE stack' = [stack EXCEPT ![t] = <<Frame(dep)>> \o @]
  <2>1. PICK f \in FrameRec : f = Frame(dep) /\ f.step = "reserve"
    <3>1. Frame(dep) \in FrameRec
      BY DEF Frame, FrameRec
    <3>2. Frame(dep).step = "reserve"
      BY DEF Frame
    <3> QED
      BY <3>1, <3>2
  <2>2. /\ stack' = [u \in Thread |-> stack'[u]] /\ stack'[t] = <<f>> \o stack[t]
        /\ \A u \in Thread \ {t} : stack'[u] = stack[u]
    BY <1>1, <1>8, <2>1 DEF Types
  <2>3. /\ stack'[t] \in Seq(FrameRec) /\ stack'[t] # <<>> /\ Head(stack'[t]) = f
        /\ \A k \in DOMAIN stack'[t] :
             k > 1 => k - 1 \in DOMAIN stack[t] /\ stack'[t][k] = stack[t][k - 1]
    BY <1>4, <2>2
  <2>4. ~LoadAt(t, "section")' /\ ~LoadAt(t, "import")' /\ ~LoadAt(t, "protect")'
    BY <2>1, <2>3 DEF LoadAt, Top
  <2>5. \A k \in DOMAIN stack'[t] :
          k > 1 => stack'[t][k].step = "import" /\ stack'[t][k].i >= 1
    BY <1>6, <2>3
  <2> QED
    BY <1>1, <1>2, <2>2, <2>3, <2>4, <2>5, LoadQuiet
<1>9. CASE UNCHANGED stack
  BY <1>1, <1>2, <1>4, <1>6, <1>9, LoadQuiet DEF Types, LoadAt, Top, Loading
<1> QED
  BY <1>5, <1>7, <1>8, <1>9 DEF Import

(* A module is complete: its importer goes on.                              *)
LEMMA CompleteKeeps ==
  ASSUME Good, NEW t \in Thread, Complete(t)
  PROVE  Good'
<1>1. Types /\ PhaseOK(t) /\ Loading(t)
  BY DEF Good, ThreadOK, Complete, LoadAt
<1>2. MemSame /\ UNCHANGED <<graph, owned, place, phase, disturbed>>
  BY DEF Complete, memVars, progVars, MemSame
<1>4. PICK s \in Seq(FrameRec) :
        /\ s = Tail(stack[t])
        /\ \A k \in DOMAIN s : k + 1 \in DOMAIN stack[t] /\ s[k] = stack[t][k + 1]
  <2>1. PICK q \in Seq(FrameRec) : q = stack[t] /\ q # <<>>
    BY <1>1, TopShape DEF Loading
  <2>2. /\ Tail(q) \in Seq(FrameRec) /\ Len(Tail(q)) = Len(q) - 1
        /\ \A k \in 1..Len(Tail(q)) : Tail(q)[k] = q[k + 1]
    BY <2>1, HeadTailProperties
  <2>3. \A k \in DOMAIN Tail(q) : k + 1 \in DOMAIN q /\ Tail(q)[k] = q[k + 1]
    BY <2>2
  <2> QED
    BY <2>1, <2>2, <2>3
<1>5. \A k \in DOMAIN s : s[k].step = "import" /\ s[k].i >= 1
  <2>1. \A k \in DOMAIN s : k + 1 \in DOMAIN stack[t] /\ k + 1 > 1 /\ s[k] = stack[t][k + 1]
    BY <1>4
  <2> QED
    BY <1>1, <2>1 DEF PhaseOK
<1>6. PICK z : z = IF s = <<>> THEN s ELSE [s EXCEPT ![1].i = @ + 1]
  OBVIOUS
<1>7. z \in Seq(FrameRec) /\ \A k \in DOMAIN z : z[k].step = "import" /\ z[k].i >= 1
  <2>1. CASE s = <<>>
    BY <1>6, <2>1
  <2>2. CASE s # <<>>
    <3>1. PICK g \in FrameRec : 1 \in 1..Len(s) /\ s[1] = g /\ g.step = "import" /\ g.i >= 1
      <4>1. 1 \in 1..Len(s) /\ 1 \in DOMAIN s /\ s[1] \in FrameRec
        BY <2>2
      <4> QED
        BY <1>5, <4>1
    <3>2. PICK f \in FrameRec : /\ f = [g EXCEPT !.i = g.i + 1]
                                /\ f.step = "import" /\ f.i >= 1
      <4>1. PICK i \in Int : i = g.i + 1 /\ i >= 1
        BY <3>1 DEF FrameRec
      <4>2. [g EXCEPT !.i = i] \in FrameRec
        BY DEF FrameRec
      <4>3. [g EXCEPT !.i = i].step = "import" /\ [g EXCEPT !.i = i].i = i
        BY <3>1 DEF FrameRec
      <4> QED
        BY <4>1, <4>2, <4>3
    <3>3. z = [s EXCEPT ![1] = f]
      BY <1>6, <2>2, <3>1, <3>2
    <3>4. z \in Seq(FrameRec) /\ Len(z) = Len(s)
      <4>1. 1 \in 1..Len(s) /\ s \in Seq(FrameRec) /\ f \in FrameRec
        BY <1>4, <3>1, <3>2
      <4>2. [s EXCEPT ![1] = f] \in Seq(FrameRec) /\ Len([s EXCEPT ![1] = f]) = Len(s)
        BY ONLY <4>1, SMT
      <4> QED
        BY <3>3, <4>2
    <3>5. \A k \in DOMAIN z : k \in DOMAIN s /\ z[k] = IF k = 1 THEN f ELSE s[k]
      BY <3>3, <3>4
    <3> QED
      BY <1>5, <3>2, <3>4, <3>5
  <2> QED
    BY <2>1, <2>2
<1>8. /\ stack' = [u \in Thread |-> stack'[u]] /\ stack'[t] = z
      /\ \A u \in Thread \ {t} : stack'[u] = stack[u]
  BY <1>1, <1>4, <1>6 DEF Complete, Types
<1>9. ASSUME Loading(t)' PROVE Top(t)'.step = "import" /\ Top(t)'.i >= 1
  BY <1>7, <1>8, <1>9 DEF Loading, Top
<1>10. ~LoadAt(t, "section")' /\ (LoadAt(t, "import")' \/ LoadAt(t, "protect")' => Top(t)'.i >= 1)
  BY <1>9 DEF LoadAt
<1> QED
  BY <1>1, <1>2, <1>7, <1>8, <1>10, LoadQuiet

(* Every step of the loader.                                                *)
LEMMA LoadStepKeeps ==
  ASSUME Good, NEW t \in Thread, LoadStep(t), ~clashed'
  PROVE  Good'
BY ReserveKeeps, UnloadableKeeps, MapSectionKeeps, SectionsMappedKeeps, ImportKeeps, ProtectSectionKeeps,
   CompleteKeeps DEF LoadStep

(* What a step that only moves one thread from phase to phase has to show.  *)
LEMMA PhaseQuiet ==
  ASSUME Good, NEW t \in Thread, MemSame,
         UNCHANGED <<graph, owned, place, disturbed>>,
         stack' = [u \in Thread |-> stack'[u]], stack'[t] \in Seq(FrameRec),
         \A u \in Thread \ {t} : stack'[u] = stack[u],
         phase' = [u \in Thread |-> phase'[u]],
         \A u \in Thread \ {t} : phase'[u] = phase[u],
         phase[t] # "setup", phase'[t] \notin {"setup", "allocating", "unborn"},
         phase'[Main] \in StartPhases => phase[Main] \in StartPhases,
         t = Main => phase'[t] \in MainPhases,
         t = Main \/ phase[t] # "unborn",
         Loading(t)' => phase'[t] \in LoadPhases,
         \A k \in DOMAIN stack'[t] : k = 1 /\ stack'[t][k].step = "reserve"
  PROVE  Good'
<1>1. Types /\ OwnOK /\ PhaseOK(t)
  BY DEF Good, ThreadOK
<1>2. PinnedKept /\ GuardsKept /\ OwnKept
  <2>1. \A u \in Thread, r \in regions : r.by = u /\ r \in owned'[u] => Loose(r)
    BY DEF Loose
  <2> QED
    BY <2>1, QuietPinned DEF OwnKept
<1>3. ASSUME Loading(t)' PROVE Top(t)'.step = "reserve"
  <2>1. PICK q \in Seq(FrameRec) : q = stack'[t] /\ q # <<>>
    BY <1>3 DEF Loading
  <2>2. 1 \in DOMAIN q /\ Head(q) = q[1]
    BY <2>1
  <2> QED
    BY <2>1, <2>2 DEF Top
<1>4. ~LoadAt(t, "section")' /\ ~LoadAt(t, "import")' /\ ~LoadAt(t, "protect")'
  BY <1>3 DEF LoadAt
<1>5. PhaseOK(t)'
  <2>1. t = Main => Placed(t)' = 0
    BY <1>1 DEF PhaseOK, Placed
  <2>2. phase'[Main] \in StartPhases => t = Main
    BY <1>1 DEF PhaseOK
  <2> QED
    BY <1>4, <2>1, <2>2 DEF PhaseOK
<1>6. ThreadOK(t)'
  BY <1>2, <1>4, <1>5, QuietThread
<1>7. \A u \in Thread \ {t} : SameThread(u)
  BY DEF SameThread, MemSame
<1>8. /\ place'[t] \in Seq(Int) /\ \A r \in owned'[t] : r \in regions /\ r.by = t
      /\ place' = [u \in Thread |-> place'[u]] /\ owned' = [u \in Thread |-> owned'[u]]
  BY <1>1 DEF Types, OwnOK
<1> QED
  BY <1>2, <1>6, <1>7, <1>8, QuietGood

\* The stack of a thread that loads nothing, or begins to load a module.
NewStack(t) ==
  /\ stack' = [u \in Thread |-> stack'[u]] /\ stack'[t] \in Seq(FrameRec)
  /\ \A u \in Thread \ {t} : stack'[u] = stack[u]
  /\ \A k \in DOMAIN stack'[t] : k = 1 /\ stack'[t][k].step = "reserve"

(* A thread has nothing to load.                                            *)
LEMMA StackEmpty ==
  ASSUME Types, NEW t \in Thread, ~Loading(t), stack' = stack
  PROVE  NewStack(t)
BY DEF Types, NewStack, Loading

(* A thread begins to load a module, unless it has it.                      *)
LEMMA StackBegins ==
  ASSUME Types, NEW t \in Thread, NEW m \in Module,
         stack' = [stack EXCEPT ![t] = <<>>] \/ stack' = [stack EXCEPT ![t] = <<Frame(m)>>]
  PROVE  NewStack(t)
<1>1. Frame(m) \in FrameRec /\ Frame(m).step = "reserve"
  BY DEF Frame, FrameRec
<1>2. PICK f \in FrameRec : f = Frame(m) /\ f.step = "reserve"
  BY <1>1
<1>3. stack' = [u \in Thread |-> stack'[u]] /\ \A u \in Thread \ {t} : stack'[u] = stack[u]
  BY DEF Types
<1>4. CASE stack' = [stack EXCEPT ![t] = <<>>]
  <2>1. stack'[t] = <<>>
    BY <1>4 DEF Types
  <2> QED
    BY <1>3, <2>1 DEF NewStack
<1>5. CASE stack' = [stack EXCEPT ![t] = <<Frame(m)>>]
  <2>1. stack'[t] = <<f>>
    BY <1>2, <1>5 DEF Types
  <2>2. stack'[t] \in Seq(FrameRec) /\ \A k \in DOMAIN stack'[t] : k = 1 /\ stack'[t][k] = f
    BY <2>1
  <2> QED
    BY <1>2, <1>3, <2>2 DEF NewStack
<1> QED
  BY <1>4, <1>5

(* The executable is loaded; init.dll is next.                              *)
LEMMA LoadInitKeeps ==
  ASSUME Good, LoadInit
  PROVE  Good'
<1>1. Types /\ PhaseOK(Main) /\ Main \in Thread /\ phase[Main] = "load exe" /\ ~Loading(Main)
  BY LoaderAssumption DEF Good, ThreadOK, LoadInit
<1>2. MemSame /\ UNCHANGED <<graph, owned, place, disturbed>>
  BY DEF LoadInit, memVars, progVars, MemSame
<1>3. NewStack(Main)
  <2>1. stack' = [stack EXCEPT ![Main] = IF "init" \in table THEN <<>> ELSE <<Frame("init")>>]
    BY DEF LoadInit
  <2>2. \/ stack' = [stack EXCEPT ![Main] = <<>>]
        \/ stack' = [stack EXCEPT ![Main] = <<Frame("init")>>]
    BY <2>1
  <2>3. "init" \in Module
    BY DEF Module
  <2> QED
    BY <1>1, <2>2, <2>3, StackBegins
<1>4. /\ phase' = [u \in Thread |-> phase'[u]] /\ phase'[Main] = "load init"
      /\ \A u \in Thread \ {Main} : phase'[u] = phase[u]
  BY <1>1 DEF LoadInit, Enter, Types
<1> QED
  BY <1>1, <1>2, <1>3, <1>4, PhaseQuiet
     DEF NewStack, StartPhases, MainPhases, LoadPhases

(* The last routine is erased.                                              *)
LEMMA EraseLastKeeps ==
  ASSUME Good, EraseLast
  PROVE  Good'
<1>1. Types /\ PhaseOK(Main) /\ Main \in Thread /\ phase[Main] = "load init" /\ ~Loading(Main)
  BY LoaderAssumption DEF Good, ThreadOK, EraseLast
<1>2. MemSame /\ UNCHANGED <<graph, owned, place, disturbed, stack>>
  BY DEF EraseLast, memVars, progVars, MemSame
<1>3. NewStack(Main)
  BY <1>1, <1>2, StackEmpty
<1>4. /\ phase' = [u \in Thread |-> phase'[u]] /\ phase'[Main] = "init list"
      /\ \A u \in Thread \ {Main} : phase'[u] = phase[u]
  BY <1>1 DEF EraseLast, Enter, Types
<1>5. ~Loading(Main)'
  BY <1>1, <1>2 DEF Loading
<1> QED
  BY <1>1, <1>2, <1>3, <1>4, <1>5, PhaseQuiet
     DEF NewStack, StartPhases, MainPhases, LoadPhases

(* An entry point is called, or the program's own.                          *)
LEMMA DllEntryKeeps ==
  ASSUME Good, DllEntry
  PROVE  Good'
<1>1. /\ Types /\ PhaseOK(First) /\ First \in Thread /\ First # Main
      /\ phase[First] = "dll entries"
  BY LoaderAssumption DEF Good, ThreadOK, DllEntry
<1>2. MemSame /\ UNCHANGED <<graph, owned, place, disturbed, stack>>
  BY DEF DllEntry, memVars, MemSame
<1>3. ~Loading(First) /\ ~Loading(First)'
  BY <1>1, <1>2 DEF PhaseOK, LoadPhases, Module, Loading
<1>4. NewStack(First)
  BY <1>1, <1>2, <1>3, StackEmpty
<1>5. /\ phase' = [u \in Thread |-> phase'[u]] /\ phase'[First] \in {"dll entries", "run"}
      /\ \A u \in Thread \ {First} : phase'[u] = phase[u]
  <2>1. phase' = [phase EXCEPT ![First] = "run"] \/ phase' = phase
    BY DEF DllEntry, Enter
  <2> QED
    BY <1>1, <2>1 DEF Types
<1>7. phase'[Main] = phase[Main]
  BY <1>1, <1>5, LoaderAssumption
<1> QED
  BY <1>1, <1>2, <1>3, <1>4, <1>5, <1>7, PhaseQuiet DEF NewStack

(* The program loads a library, unless it is loaded.                        *)
LEMMA LoadLibraryKeeps ==
  ASSUME Good, NEW t \in Thread, LoadLibrary(t)
  PROVE  Good'
<1>1. /\ Types /\ PhaseOK(t) /\ phase[t] \in {"events", "run"} /\ t # Main
      /\ ~Loading(t)
  <2>1. MayCall(t)
    BY DEF LoadLibrary
  <2> QED
    BY <2>1, MayCallFacts DEF Good, ThreadOK, LoadLibrary
<1>2. MemSame /\ UNCHANGED <<graph, owned, place, disturbed>>
  BY DEF LoadLibrary, memVars, MemSame
<1>3. PICK m \in Module : /\ stack' = [stack EXCEPT ![t] = IF m \in table THEN <<>> ELSE <<Frame(m)>>]
                          /\ phase' = [phase EXCEPT ![t] = m]
  BY DEF LoadLibrary, Enter
<1>4. NewStack(t)
  <2>1. stack' = [stack EXCEPT ![t] = <<>>] \/ stack' = [stack EXCEPT ![t] = <<Frame(m)>>]
    BY <1>3
  <2> QED
    BY <1>1, <2>1, StackBegins
<1>5. /\ phase' = [u \in Thread |-> phase'[u]] /\ phase'[t] = m
      /\ \A u \in Thread \ {t} : phase'[u] = phase[u]
  BY <1>1, <1>3 DEF Types
<1>6. m \notin {"setup", "allocating", "unborn"} /\ m \in LoadPhases
  BY DEF Module, LoadPhases
<1>7. phase'[Main] = phase[Main]
  BY <1>1, <1>5, LoaderAssumption
<1> QED
  BY <1>1, <1>2, <1>4, <1>5, <1>6, <1>7, PhaseQuiet DEF NewStack

(* The entry point of the library is called, if it has one.                 *)
LEMMA LibraryEntryKeeps ==
  ASSUME Good, NEW t \in Thread, LibraryEntry(t)
  PROVE  Good'
<1>1. Types /\ PhaseOK(t) /\ phase[t] \in Module /\ ~Loading(t)
  BY DEF Good, ThreadOK, LibraryEntry
<1>2. MemSame /\ UNCHANGED <<graph, owned, place, disturbed, stack>>
  BY DEF LibraryEntry, memVars, MemSame
<1>3. t # Main /\ phase[t] \notin {"setup", "allocating", "unborn", "load exe"}
  BY <1>1 DEF PhaseOK, Module, MainPhases, StartPhases
<1>4. NewStack(t) /\ ~Loading(t)'
  BY <1>1, <1>2, StackEmpty DEF Loading
<1>5. /\ phase' = [u \in Thread |-> phase'[u]] /\ phase'[t] \in {"run", phase[t]}
      /\ \A u \in Thread \ {t} : phase'[u] = phase[u]
  <2>1. phase' = [phase EXCEPT ![t] = "run"] \/ phase' = phase
    BY DEF LibraryEntry, Enter
  <2> QED
    BY <1>1, <2>1 DEF Types
<1>7. phase'[Main] = phase[Main]
  BY <1>3, <1>5, LoaderAssumption
<1> QED
  BY <1>1, <1>2, <1>3, <1>4, <1>5, <1>7, PhaseQuiet DEF NewStack

(* The thread that CreateThread has made has entered the guest.             *)
LEMMA CreatedKeeps ==
  ASSUME Good, Created
  PROVE  Good'
<1>1. /\ Types /\ PhaseOK(First) /\ First \in Thread /\ First # Main
      /\ phase[First] = "creating"
  BY LoaderAssumption DEF Good, ThreadOK, Created
<1>2. MemSame /\ UNCHANGED <<graph, owned, place, disturbed, stack>>
  BY DEF Created, memVars, progVars, MemSame
<1>3. ~Loading(First) /\ ~Loading(First)'
  BY <1>1, <1>2 DEF PhaseOK, LoadPhases, Module, Loading
<1>4. NewStack(First)
  BY <1>1, <1>2, <1>3, StackEmpty
<1>5. /\ phase' = [u \in Thread |-> phase'[u]] /\ phase'[First] = "run"
      /\ \A u \in Thread \ {First} : phase'[u] = phase[u]
  BY <1>1 DEF Created, Enter, Types
<1>7. phase'[Main] = phase[Main]
  BY <1>1, <1>5, LoaderAssumption
<1> QED
  BY <1>1, <1>2, <1>3, <1>4, <1>5, <1>7, PhaseQuiet DEF NewStack

(* A new thread has yet to set itself up.                                   *)
LEMMA StartsOK ==
  ASSUME Good, NEW t \in Thread, MemSame, phase[t] = "unborn", phase'[t] = "setup",
         place'[t] = place[t], stack'[t] = stack[t], phase'[Main] \notin StartPhases
  PROVE  ThreadOK(t)'
<1>1. Types /\ PhaseOK(t) /\ Idle(t) /\ Placed(t) = 0 /\ CallOK(t)
  BY DEF Good, ThreadOK, PhaseOK
<1>2. t # Main /\ ~Loading(t)
  BY <1>1 DEF PhaseOK, MainPhases, StartPhases, LoadPhases, Module
<1>3. /\ Idle(t)' /\ ~Loading(t)' /\ Placed(t)' = 0
      /\ ~LoadAt(t, "section")' /\ ~LoadAt(t, "import")' /\ ~LoadAt(t, "protect")'
  BY <1>1, <1>2 DEF MemSame, Idle, Loading, LoadAt, Placed
<1>4. CallOK(t)' /\ SecOK(t)'
  BY <1>1, <1>3, CallStays DEF MemSame, SecOK
<1>5. PhaseOK(t)'
  BY <1>1, <1>2, <1>3 DEF PhaseOK, Idle
<1>6. SetOK(t)' /\ Undisturbed(t)'
  BY <1>3 DEF SetOK, Undisturbed, NextTo
<1> QED
  BY <1>4, <1>5, <1>6 DEF ThreadOK

(* What a thread that starts another one has to show.                       *)
LEMMA StartGood ==
  ASSUME Good, MemSame, NEW s \in Thread, NEW t \in Thread, s # t,
         UNCHANGED <<graph, stack, owned, place, disturbed>>,
         phase' = [u \in Thread |-> phase'[u]],
         \A u \in Thread \ {s, t} : phase'[u] = phase[u],
         ~Loading(s), phase[s] # "setup", phase'[s] \in {"events", "creating"},
         s = Main => phase'[s] = "events",
         phase'[Main] \notin StartPhases, phase[t] = "unborn", phase'[t] = "setup"
  PROVE  Good'
<1>1. Types /\ PhaseOK(s) /\ OwnOK
  BY DEF Good, ThreadOK
<1>2. PinnedKept /\ GuardsKept /\ OwnKept
  <2>1. \A u \in Thread, r \in regions : r.by = u /\ r \in owned'[u] => Loose(r)
    BY DEF Loose
  <2>2. \A u \in Thread : phase'[u] = "allocating" => phase[u] = "allocating"
    OBVIOUS
  <2> QED
    BY <2>1, <2>2, QuietPinned DEF OwnKept
<1>3. ~LoadAt(s, "section")' /\ ~LoadAt(s, "import")' /\ ~LoadAt(s, "protect")' /\ ~Loading(s)'
  BY DEF LoadAt, Loading
<1>4. PhaseOK(s)'
  BY <1>1, <1>3 DEF PhaseOK, Placed, MainPhases
<1>5. ThreadOK(s)' /\ ThreadOK(t)'
  BY <1>2, <1>3, <1>4, QuietThread, StartsOK
<1>6. \A u \in Thread \ {s, t} : SameThread(u)
  BY DEF SameThread, MemSame
<1>7. \A u \in Thread : /\ stack'[u] \in Seq(FrameRec) /\ place'[u] \in Seq(Int)
                        /\ \A r \in owned'[u] : r \in regions /\ r.by = u
  BY <1>1 DEF Types, OwnOK
<1>8. /\ stack' = [u \in Thread |-> stack'[u]] /\ place' = [u \in Thread |-> place'[u]]
      /\ owned' = [u \in Thread |-> owned'[u]]
  BY <1>1 DEF Types
<1>9. \A u \in Thread : \/ SameThread(u)
                        \/ /\ ThreadOK(u)' /\ stack'[u] \in Seq(FrameRec)
                           /\ place'[u] \in Seq(Int)
                           /\ \A r \in owned'[u] : r \in regions /\ r.by = u
  BY <1>5, <1>6, <1>7
<1> QED
  BY <1>2, <1>8, <1>9, QuietGood

(* The main thread starts the initial one.                                  *)
LEMMA StartThreadKeeps ==
  ASSUME Good, StartThread
  PROVE  Good'
<1>1. /\ Types /\ PhaseOK(Main) /\ Main \in Thread /\ First \in Thread /\ First # Main
      /\ phase[Main] = "start thread" /\ PhaseOK(First)
  BY LoaderAssumption DEF Good, ThreadOK, StartThread
<1>2. MemSame /\ UNCHANGED <<graph, owned, place, disturbed, stack>>
  BY DEF StartThread, memVars, progVars, MemSame
<1>3. ~Loading(Main) /\ phase[First] = "unborn"
  BY <1>1 DEF PhaseOK, LoadPhases, Module, StartPhases
<1>4. /\ phase' = [u \in Thread |-> phase'[u]] /\ phase'[Main] = "events"
      /\ phase'[First] = "setup"
      /\ \A u \in Thread \ {Main, First} : phase'[u] = phase[u]
  BY <1>1 DEF StartThread, Types
<1> QED
  BY <1>1, <1>2, <1>3, <1>4, StartGood DEF StartPhases

(* The program creates a thread.                                            *)
LEMMA CreateThreadKeeps ==
  ASSUME Good, CreateThread
  PROVE  Good'
<1>1. /\ Types /\ Second \in Thread /\ First \in Thread /\ First # Main
      /\ MayCall(First) /\ phase[Second] = "unborn"
  BY LoaderAssumption DEF Good, CreateThread
<1>2. MemSame /\ UNCHANGED <<graph, owned, place, disturbed, stack>>
  BY DEF CreateThread, memVars, progVars, MemSame
<1>3. /\ phase[First] \in {"events", "run"} /\ ~Loading(First)
      /\ phase[Main] \notin StartPhases
  BY <1>1, MayCallFacts
<1>4. First # Second /\ Main # Second
  <2>1. PhaseOK(Main) /\ Main \in Thread
    BY LoaderAssumption DEF Good, ThreadOK
  <2> QED
    BY <1>1, <1>3, <2>1 DEF PhaseOK, MainPhases, StartPhases
<1>5. /\ phase' = [u \in Thread |-> phase'[u]] /\ phase'[First] = "creating"
      /\ phase'[Second] = "setup"
      /\ \A u \in Thread \ {First, Second} : phase'[u] = phase[u]
  BY <1>1, <1>4 DEF CreateThread, Types
<1>6. phase'[Main] = phase[Main]
  BY <1>1, <1>4, <1>5, LoaderAssumption
<1> QED
  BY <1>1, <1>2, <1>3, <1>4, <1>5, <1>6, StartGood

(* A thread has got the memory it asked for.                                *)
LEMMA AllocatedKeeps ==
  ASSUME Good, NEW t \in Thread, Allocated(t)
  PROVE  Good'
<1>1. Types /\ PhaseOK(t) /\ OwnOK /\ phase[t] = "allocating" /\ Idle(t)
  BY DEF Good, ThreadOK, Allocated
<1>2. MemSame /\ UNCHANGED <<graph, place, disturbed, stack>>
  BY DEF Allocated, memVars, MemSame
<1>3. /\ phase' = [u \in Thread |-> phase'[u]]
      /\ phase'[t] = (IF t = Main THEN "events" ELSE "run")
      /\ \A u \in Thread \ {t} : phase'[u] = phase[u]
  BY <1>1 DEF Allocated, Enter, Types
<1>4. /\ owned' = [u \in Thread |-> owned'[u]]
      /\ owned'[t] = owned[t] \cup {r \in regions : r.by = t /\ r.base = call[t].base}
      /\ \A u \in Thread \ {t} : owned'[u] = owned[u]
  BY <1>1 DEF Allocated, Types
<1>5. PinnedKept /\ GuardsKept /\ OwnKept
  <2>1. \A u \in Thread, r \in regions : r.by = u /\ r \in owned'[u] => Loose(r)
    BY <1>1, <1>4 DEF Loose
  <2>2. \A u \in Thread : phase'[u] = "allocating" => phase[u] = "allocating"
    BY <1>1, <1>3
  <2>3. OwnKept
    BY <1>1, <1>4, RegionShape DEF OwnKept
  <2> QED
    BY <1>2, <2>1, <2>2, <2>3, QuietPinned
<1>6. ~Loading(t) /\ ~Loading(t)'
  BY <1>1, <1>2 DEF PhaseOK, LoadPhases, Module, Loading
<1>7. phase[Main] \notin StartPhases /\ phase'[Main] \notin StartPhases
  <2>1. phase[Main] \notin StartPhases
    BY <1>1 DEF PhaseOK, StartPhases
  <2>2. Main \in Thread
    BY LoaderAssumption
  <2> QED
    BY <1>3, <2>1, <2>2 DEF StartPhases
<1>8. ~LoadAt(t, "section")' /\ ~LoadAt(t, "import")' /\ ~LoadAt(t, "protect")'
  BY <1>6 DEF LoadAt
<1>9. PhaseOK(t)'
  BY <1>1, <1>2, <1>3, <1>6, <1>7, <1>8 DEF PhaseOK, Placed, MainPhases
<1>10. ThreadOK(t)'
  BY <1>1, <1>2, <1>3, <1>5, <1>6, <1>8, <1>9, QuietThread
<1>11. \A u \in Thread \ {t} : SameThread(u)
  BY <1>2, <1>3, <1>4 DEF SameThread, MemSame
<1>12. /\ stack' = [u \in Thread |-> stack'[u]] /\ place' = [u \in Thread |-> place'[u]]
       /\ stack'[t] \in Seq(FrameRec) /\ place'[t] \in Seq(Int)
       /\ \A r \in owned'[t] : r \in regions /\ r.by = t
  BY <1>1, <1>2, <1>4 DEF Types, OwnOK
<1> QED
  BY <1>2, <1>3, <1>4, <1>5, <1>6, <1>7, <1>10, <1>11, <1>12, QuietGood

(* A thread stores its last range: the second guard page.                   *)
LEMMA SetupDoneKeeps ==
  ASSUME Good, NEW t \in Thread, SetupDone(t)
  PROVE  Good'
<1>1. /\ Types /\ PhaseOK(t) /\ SetOK(t) /\ Undisturbed(t) /\ OwnOK /\ CallOK(t)
      /\ Idle(t) /\ phase[t] = "setup" /\ Placed(t) = 6
  BY DEF Good, ThreadOK, SetupDone, Placed
<1>2. MemSame /\ UNCHANGED <<graph, owned, stack, disturbed>>
  BY DEF SetupDone, memVars, MemSame
<1>3. PICK b \in Int : b = call[t].base
  BY <1>1, CallShape
<1>4. /\ place' = [u \in Thread |-> place'[u]] /\ place'[t] \in Seq(Int)
      /\ \A u \in Thread \ {t} : place'[u] = place[u]
      /\ Placed(t)' = 7 /\ place'[t][7] = b
      /\ \A k \in 1..6 : place'[t][k] = place[t][k]
  <2>1. place'[t] = Append(place[t], b) /\ place' = [u \in Thread |-> place'[u]]
        /\ \A u \in Thread \ {t} : place'[u] = place[u]
    BY <1>1, <1>3 DEF SetupDone, Types
  <2>2. /\ place'[t] \in Seq(Int)
        /\ Placed(t)' = Placed(t) + 1 /\ place'[t][Placed(t) + 1] = b
        /\ \A k \in 1..Placed(t) : place'[t][k] = place[t][k]
    BY <1>1, <2>1, PlaceGrows
  <2>3. PICK n \in Nat : n = Placed(t) /\ n = 6
    BY <1>1
  <2>4. Placed(t)' = 7 /\ place'[t][7] = b /\ \A k \in 1..6 : place'[t][k] = place[t][k]
    BY <2>2, <2>3
  <2> QED
    BY <2>1, <2>2, <2>4
<1>5. /\ phase' = [u \in Thread |-> phase'[u]] /\ phase'[t] \in {"dll entries", "run"}
      /\ \A u \in Thread \ {t} : phase'[u] = phase[u]
  BY <1>1 DEF SetupDone, Enter, Types
<1>6. t # Main /\ ~Loading(t) /\ ~Loading(t)'
  BY <1>1, <1>2 DEF PhaseOK, MainPhases, StartPhases, LoadPhases, Module, Loading
<1>7. phase[Main] \notin StartPhases /\ phase'[Main] = phase[Main]
  BY <1>1, <1>5, <1>6, LoaderAssumption DEF PhaseOK
<1>8. PinnedKept /\ GuardsKept /\ OwnKept
  <2>1. \A u \in Thread, r \in regions : r.by = u /\ r \in owned'[u] => Loose(r)
    BY <1>2 DEF Loose
  <2>2. \A u \in Thread : phase'[u] = "allocating" => phase[u] = "allocating"
    BY <1>5
  <2> QED
    BY <1>2, <2>1, <2>2, QuietPinned DEF OwnKept
<1>9. ~LoadAt(t, "section")' /\ ~LoadAt(t, "import")' /\ ~LoadAt(t, "protect")'
  BY <1>6 DEF LoadAt
<1>10. CallOK(t)' /\ SecOK(t)'
  BY <1>1, <1>2, <1>9, CallStays DEF MemSame, SecOK
<1>11. PhaseOK(t)'
  BY <1>1, <1>2, <1>5, <1>6, <1>7, <1>9 DEF PhaseOK
<1>12. SetOK(t)'
  <2>1. GuardAt(t, place[t][5]) /\ GuardAt(t, b) /\ place[t][5] \in Int
    BY <1>1, <1>3, PlacedShape DEF SetOK
  <2>2. ASSUME NEW g \in Int, GuardAt(t, g) PROVE GuardAt(t, g)'
    BY <1>1, <1>6, <1>8, <2>2 DEF GuardsKept
  <2>3. \A g : g = place'[t][5] => GuardAt(t, g)'
    BY <1>4, <2>1, <2>2
  <2>4. \A g : g = place'[t][7] => GuardAt(t, g)'
    BY <1>4, <2>1, <2>2
  <2>5. GuardAt(t, place[t][5])' /\ GuardAt(t, place[t][7])'
    BY <2>3, <2>4
  <2>6. PICK n \in Nat : n = Placed(t)' /\ n = 7
    BY <1>4
  <2>7. phase'[t] # "setup"
    BY <1>5
  <2> QED
    BY <2>5, <2>6, <2>7 DEF SetOK
<1>13. Undisturbed(t)'
  <2>1. CASE t \in disturbed
    BY <1>2, <2>1 DEF Undisturbed
  <2>2. CASE t \notin disturbed
    <3>1. place[t][6] = place[t][5] + 1 /\ b = place[t][6] + StackPages
      BY <1>1, <1>3, <2>2 DEF Undisturbed, NextTo
    <3>2. place'[t][6] = place'[t][5] + 1 /\ place'[t][7] = place'[t][6] + StackPages
      <4>1. place'[t][5] = place[t][5] /\ place'[t][6] = place[t][6] /\ place'[t][7] = b
        BY <1>4
      <4> QED
        BY <3>1, <4>1
    <3>3. PICK n \in Nat : n = Placed(t)' /\ n = 7
      BY <1>4
    <3>4. phase'[t] # "setup"
      BY <1>5
    <3>5. NextTo(t)'
      <4>1. Placed(t)' # 4 /\ Placed(t)' # 5 /\ Placed(t)' # 6
        BY <3>3
      <4> QED
        BY <3>2, <3>4, <4>1 DEF NextTo
    <3> QED
      BY <3>4, <3>5 DEF Undisturbed
  <2> QED
    BY <2>1, <2>2
<1>14. ThreadOK(t)'
  BY <1>10, <1>11, <1>12, <1>13 DEF ThreadOK
<1>15. \A u \in Thread \ {t} : SameThread(u)
  BY <1>2, <1>4, <1>5 DEF SameThread, MemSame
<1>16. /\ stack' = [u \in Thread |-> stack'[u]] /\ owned' = [u \in Thread |-> owned'[u]]
       /\ stack'[t] \in Seq(FrameRec) /\ \A r \in owned'[t] : r \in regions /\ r.by = t
  BY <1>1, <1>2 DEF Types, OwnOK
<1> QED
  BY <1>2, <1>4, <1>5, <1>6, <1>7, <1>8, <1>14, <1>15, <1>16, QuietGood

-----------------------------------------------------------------------------
\* The invariant, and what follows from it.

(* At first the main thread is about to load the executable.                *)
LEMMA GoodInit ==
  ASSUME Init
  PROVE  Good
<1>1. Main \in Thread /\ "exe" \in Module
  BY LoaderAssumption DEF Module
<1>2. PICK f \in FrameRec : f = Frame("exe") /\ f.mod = "exe" /\ f.step = "reserve"
  <2>1. Frame("exe") \in FrameRec
    BY <1>1 DEF Frame, FrameRec
  <2>2. Frame("exe").mod = "exe" /\ Frame("exe").step = "reserve"
    BY DEF Frame
  <2> QED
    BY <2>1, <2>2
<1>3. /\ clashed = FALSE /\ regions = {} /\ map_base = FirstBase
      /\ prot = [p \in Page |-> "N"] /\ call = [t \in Thread |-> Returned(0)]
      /\ graph \in Graphs /\ owned = [t \in Thread |-> {}] /\ place = [t \in Thread |-> <<>>]
      /\ stack = [t \in Thread |-> IF t = Main THEN <<f>> ELSE <<>>]
      /\ phase = [t \in Thread |-> IF t = Main THEN "load exe" ELSE "unborn"]
  BY <1>2 DEF Init, MemInit
<1>4. \A t \in Thread : /\ call[t] \in NoCall /\ Idle(t) /\ place[t] = <<>> /\ owned[t] = {}
                        /\ stack[t] = (IF t = Main THEN <<f>> ELSE <<>>)
                        /\ phase[t] = (IF t = Main THEN "load exe" ELSE "unborn")
  <2> SUFFICES ASSUME NEW t \in Thread
               PROVE  /\ call[t] \in NoCall /\ Idle(t) /\ place[t] = <<>> /\ owned[t] = {}
                      /\ stack[t] = (IF t = Main THEN <<f>> ELSE <<>>)
                      /\ phase[t] = (IF t = Main THEN "load exe" ELSE "unborn")
    OBVIOUS
  <2>1. call[t] = Returned(0)
    BY <1>3
  <2>2. call[t] \in NoCall /\ Idle(t)
    BY <2>1 DEF Returned, Idle, NoCall
  <2> QED
    BY <1>3, <2>2
<1>5. \A t \in Thread : stack[t] \in Seq(FrameRec) /\ place[t] \in Seq(Int)
  <2>1. <<f>> \in Seq(FrameRec) /\ <<>> \in Seq(FrameRec) /\ <<>> \in Seq(Int)
    OBVIOUS
  <2> QED
    BY <1>4, <2>1
<1>6. Types
  <2>1. map_base \in 0..Pages
    BY <1>3, MemoryAssumption
  <2>2. call \in [Thread -> NoCall \cup ActiveCall] /\ place \in [Thread -> Seq(Int)]
    BY <1>3, <1>4, <1>5
  <2>3. /\ prot = [p \in Page |-> prot[p]] /\ stack = [t \in Thread |-> stack[t]]
        /\ phase = [t \in Thread |-> phase[t]] /\ owned = [t \in Thread |-> owned[t]]
    BY <1>3
  <2> QED
    BY <1>3, <1>5, <2>1, <2>2, <2>3 DEF Types
<1>7. Loading(Main) /\ Top(Main) = f /\ \A t \in Thread \ {Main} : ~Loading(t)
  <2>1. <<f>> # <<>> /\ Head(<<f>>) = f
    OBVIOUS
  <2> QED
    BY <1>1, <1>4, <2>1 DEF Loading, Top
<1>9. Alone /\ MapOK /\ OwnOK
  BY <1>3, <1>4 DEF Alone, MapOK, OwnOK
<1>10. ASSUME NEW t \in Thread PROVE ThreadOK(t)
  <2>1. Placed(t) = 0
    <3>1. place[t] = <<>>
      BY <1>4
    <3> QED
      BY <3>1 DEF Placed
  <2>2. ~LoadAt(t, "section") /\ ~LoadAt(t, "import") /\ ~LoadAt(t, "protect")
    BY <1>2, <1>7 DEF LoadAt
  <2>3. CallOK(t) /\ SecOK(t)
    BY <1>4, <2>2 DEF CallOK, SecOK, At, Idle
  <2>4. PhaseOK(t)
    <3>1. \A k \in DOMAIN stack[t] : k = 1
      <4>1. stack[t] = <<f>> \/ stack[t] = <<>>
        BY <1>4
      <4> QED
        BY <4>1
    <3>2. phase[t] \in {"load exe", "unborn"} /\ (phase[t] = "unborn" => t # Main)
          /\ (t # Main => phase[t] = "unborn")
      BY <1>4
    <3>3. Loading(t) => t = Main
      BY <1>7
    <3>4. phase[t] = "load exe" => t = Main
      BY <1>4
    <3>5. Idle(t) /\ call[t].op = "none"
      BY <1>4 DEF Idle
    <3>6. \A k \in DOMAIN stack[t] : ~(k > 1)
      BY <3>1
    <3> QED
      BY <2>1, <2>2, <3>2, <3>3, <3>4, <3>5, <3>6
         DEF PhaseOK, LoadPhases, MainPhases, StartPhases
  <2>5. SetOK(t) /\ Undisturbed(t)
    <3>1. phase[t] # "setup"
      BY <1>4
    <3> QED
      BY <2>1, <3>1 DEF SetOK, Undisturbed, NextTo
  <2> QED
    BY <2>3, <2>4, <2>5 DEF ThreadOK
<1> QED
  BY <1>6, <1>9, <1>10 DEF Good

(* Every step of a program whose calls have not clashed keeps all that.     *)
LEMMA StepKeeps ==
  ASSUME Good, Next, ~clashed'
  PROVE  Good'
<1>1. CASE Start
  BY <1>1, LoadInitKeeps, EraseLastKeeps, MapParametersKeeps, StartThreadKeeps, DllEntryKeeps
     DEF Start
<1>2. CASE CreateThread \/ Created
  BY <1>2, CreateThreadKeeps, CreatedKeeps
<1>3. ASSUME NEW t \in Thread, Proceed(t) PROVE Good'
  BY <1>3, LoadStepKeeps, AllocatedKeeps, SetupMapKeeps, SetupDoneKeeps, MemStepKeeps
     DEF Proceed
<1>4. ASSUME NEW t \in Thread, Program(t) PROVE Good'
  BY <1>4, AllocateKeeps, CommitKeeps, AllocateAtKeeps, ReleaseKeeps, LoadLibraryKeeps, LibraryEntryKeeps
     DEF Program
<1> QED
  BY <1>1, <1>2, <1>3, <1>4 DEF Next

(* That calls have clashed is not forgotten.                                *)
LEMMA RacedStays ==
  ASSUME Next, clashed
  PROVE  clashed'
<1>2. ASSUME UNCHANGED memVars PROVE clashed'
  BY <1>2 DEF memVars
<1>3. ASSUME NEW t \in Thread, MemStep(t) PROVE clashed'
  BY <1>3 DEF MemStep, DynCheck, DynMap, DynRaise, FixedTest, FixedRaise, FixedMap, Unmap,
              Protect, AssertFails
<1>4. ASSUME NEW t \in Thread, LoadStep(t) PROVE clashed'
  <2>1. CASE Reserve(t)
    BY <2>1 DEF Reserve, Request, Begin
  <2>2. CASE MapSection(t) \/ ProtectSection(t)
    BY <2>2 DEF MapSection, ProtectSection, Call, Request, Begin
  <2>3. CASE ~(Reserve(t) \/ MapSection(t) \/ ProtectSection(t))
    BY <1>2, <1>4, <2>3 DEF LoadStep, Unloadable, SectionsMapped, Import, ImportsDone, Complete
  <2> QED
    BY <2>1, <2>2, <2>3
<1>5. CASE Start
  <2>1. CASE MapParameters
    BY <2>1 DEF MapParameters, Call, Request, Begin
  <2>2. CASE ~MapParameters
    BY <1>2, <1>5, <2>2 DEF Start, LoadInit, EraseLast, StartThread, DllEntry
  <2> QED
    BY <2>1, <2>2
<1>6. ASSUME NEW t \in Thread, Program(t) PROVE clashed'
  <2>1. CASE Allocate(t)
    BY <2>1 DEF Allocate, Request, Begin
  <2>2. CASE AllocateAt(t)
    BY <2>2 DEF AllocateAt, Request, Begin
  <2>3. CASE Commit(t)
    BY <2>3 DEF Commit, Call, Request, Begin
  <2>4. CASE Release(t)
    BY <2>4 DEF Release, Call, Request, Begin
  <2>5. CASE LoadLibrary(t) \/ LibraryEntry(t)
    BY <1>2, <2>5 DEF LoadLibrary, LibraryEntry
  <2> QED
    BY <1>6, <2>1, <2>2, <2>3, <2>4, <2>5 DEF Program
<1>7. ASSUME NEW t \in Thread, Allocated(t) \/ SetupMap(t) \/ SetupDone(t) PROVE clashed'
  <2>1. CASE SetupMap(t)
    BY <2>1 DEF SetupMap, Request, Begin
  <2>2. CASE ~SetupMap(t)
    BY <1>2, <1>7, <2>2 DEF Allocated, SetupDone
  <2> QED
    BY <2>1, <2>2
<1>8. CASE CreateThread \/ Created
  BY <1>2, <1>8 DEF CreateThread, Created
<1> QED
  BY <1>3, <1>4, <1>5, <1>6, <1>7, <1>8 DEF Next, Proceed

(* Inv holds for whatever address space, images, stacks and import graphs,  *)
(* however the threads interleave.                                          *)
THEOREM InvHolds == Spec => []Inv
<1>1. Init => Inv
  BY GoodInit DEF Inv
<1>2. Inv /\ [Next]_vars => Inv'
  <2> SUFFICES ASSUME Inv, [Next]_vars, ~clashed' PROVE Good'
    BY DEF Inv
  <2>1. CASE Next
    BY <2>1, RacedStays, StepKeeps DEF Inv
  <2>2. CASE UNCHANGED vars
    <3>1. Good
      BY <2>2 DEF Inv, vars, memVars
    <3> QED
      BY <2>2, <3>1, GoodStutters DEF vars, memVars
  <2> QED
    BY <2>1, <2>2
<1> QED
  BY <1>1, <1>2, PTL DEF Spec

(* What uw_target_map_memory_dynamic and uw_target_map_memory_fixed handed  *)
(* out stays disjoint, inside the reserved range and below map_base, and    *)
(* uw_set_memprotect, which changes the wrong pages, changes none of them,  *)
(* as long as no two calls overlap in time and every range that the program *)
(* or an image without relocations chose was free.                          *)
THEOREM RegionsStayKept == Spec => []RegionsKept
<1>1. Inv => RegionsKept
  <2> SUFFICES ASSUME Good PROVE RegionsKept
    BY DEF Inv, RegionsKept, RegionsDisjoint, RegionsKeepProtection
  <2>1. Types /\ MapOK
    BY DEF Good
  <2>2. ASSUME NEW r \in regions, ~(r.base + r.size <= map_base)
        PROVE  \E t \in Thread : call[t].op = "dynamic" /\ call[t].base = r.base
    BY <2>1, <2>2, RegionShape DEF MapOK, Raising, At
  <2> QED
    BY <2>1, <2>2 DEF MapOK, RegionsKept, RegionsDisjoint, RegionsKeepProtection
<1> QED
  BY <1>1, InvHolds, PTL

(* The pages next to the stack of a thread stay its guard pages, unless     *)
(* calls clash or another thread maps memory in the middle of setup_stack.  *)
THEOREM StacksStayGuarded == Spec => []StackIsGuarded
<1>1. Inv => StackIsGuarded
  <2> SUFFICES ASSUME Inv, NEW t \in Thread, Len(place[t]) = 7, t \notin disturbed, ~clashed
               PROVE  prot[place[t][6] - 1] = "N" /\ prot[place[t][6] + StackPages] = "N"
    BY DEF StackIsGuarded
  <2>1. Types /\ SetOK(t) /\ Undisturbed(t)
    BY DEF Inv, Good, ThreadOK
  <2>2. Placed(t) = 7 /\ DOMAIN place[t] = 1..7 /\ \A k \in 1..7 : place[t][k] \in Int
    BY <2>1, PlacedShape DEF Placed
  <2>3. prot[place[t][5]] = "N" /\ prot[place[t][7]] = "N"
    BY <2>1, <2>2 DEF SetOK, GuardAt
  <2>4. place[t][6] = place[t][5] + 1 /\ place[t][7] = place[t][6] + StackPages
    BY <2>1, <2>2 DEF Undisturbed, NextTo
  <2>5. place[t][5] \in Int /\ place[t][6] - 1 = place[t][5]
    BY <2>2, <2>4
  <2> QED
    BY <2>3, <2>4, <2>5
<1> QED
  BY <1>1, InvHolds, PTL
-----------------------------------------------------------------------------
\* The second part: what is loaded and initialised, and why the process ends,
\* whether or not calls of the memory map clash.

NatFrame == [mod : Module, step : {"reserve", "section", "import", "protect"},
             i : Nat, base : Nat]
NatIdle == [op : {"none"}, base : Nat]
NatActive == [op : {"dynamic", "fixed", "unmap", "protect"}, base : Nat,
              size : Nat \ {0}, prot : Prot, whole : BOOLEAN, step : 1..3]
NatRegion == [base : Nat, size : Nat \ {0}, by : Thread]
NatCall == NatIdle \cup NatActive
Libraries == Module \ {"exe", "init"}
GuestPhases == {"unborn", "setup", "dll entries", "run", "allocating", "creating"}
               \cup Libraries
\* The initial thread has yet to enter the program.
EarlyPhases == {"unborn", "setup", "dll entries"}
Early == phase[First] \in EarlyPhases

\* The k-th activation of the loader in a thread.
FrameOK(t, k) == stack[t][k].step \in {"import", "protect"} => stack[t][k].i >= 1

MemTyped ==
  /\ map_base \in 0..2 * Pages - 1 /\ prot \in [Page -> Prot]
  /\ regions \subseteq NatRegion /\ call \in [Thread -> NatCall]

StackTyped ==
  /\ stack \in [Thread -> Seq(NatFrame)]
  /\ \A t \in Thread : /\ Len(stack[t]) <= StackMax
                        /\ \A k \in DOMAIN stack[t] : FrameOK(t, k)

PhaseTyped ==
  /\ phase = [t \in Thread |-> phase[t]] /\ phase[Main] \in MainPhases
  /\ \A t \in Thread \ {Main} : phase[t] \in GuestPhases

LinkTyped ==
  /\ table \subseteq Module /\ routines \in Seq(Module) /\ dllcalls \in Seq(Module)
  /\ maps \in [Module -> Nat] /\ owned \in [Thread -> SUBSET NatRegion]
  /\ place \in [Thread -> Seq(Nat)]
  /\ ops \in 0..MaxOps /\ graph \in Graphs

WellTyped == MemTyped /\ StackTyped /\ PhaseTyped /\ LinkTyped

\* What the thread's outermost activation loads.
Root(p) == CASE p = "load exe" -> "exe" [] p = "load init" -> "init" [] OTHER -> p

\* An activation waits for the one above it to load the import it has come to;
\* what it has come past is in the table.
Waits(t, k) ==
  LET f == stack[t][k] IN
  /\ k > 1 => /\ f.step = "import" /\ f.i \in DOMAIN graph.imports[f.mod]
              /\ graph.imports[f.mod][f.i] = stack[t][k - 1].mod
  /\ \A j \in 1..k - 1 : stack[t][j].mod \in Imports(f.mod)
  /\ f.step = "import" =>
       \A n \in DOMAIN graph.imports[f.mod] : n < f.i => graph.imports[f.mod][n] \in table
  /\ f.step = "protect" => Direct(graph, f.mod) \subseteq table
  /\ k = Len(stack[t]) => f.mod = Root(phase[t])

\* What is in the table is there with all its imports.
Linked == /\ \A t \in Thread : \A k \in DOMAIN stack[t] : Waits(t, k)
          /\ Closed(graph, table)

\* Only some threads are there, and few of them load.
Alive ==
  /\ \A t \in Thread : Loading(t) => phase[t] \in LoadPhases
  /\ \A t \in Thread : phase[t] = "dll entries" => t = First
  /\ Early => \A t \in Thread \ {Main, First} : phase[t] = "unborn"
  /\ phase[Main] \in StartPhases => phase[First] = "unborn"
  /\ \A t \in Thread : phase[t] \in Module /\ ~Loading(t) => phase[t] \in table

\* The executable is loaded before init.dll.
Loaded ==
  /\ phase[Main] = "load exe" => "init" \notin table /\ (~Loading(Main) => "exe" \in table)
  /\ phase[Main] = "load init" => "exe" \in table /\ (Loading(Main) <=> "init" \notin table)
  /\ phase[Main] \notin {"load exe", "load init"} => {"exe", "init"} \subseteq table

\* The list of entry points: those of the table, once each, imports first.
InitLast == phase[Main] = "load init" /\ ~Loading(Main)
Listed ==
  /\ InitLast => Len(routines) > 0 /\ routines[Len(routines)] = "init"
  /\ \A m \in (table \cap graph.dllmain) \ {"init"} : \E k \in DOMAIN routines : routines[k] = m
  /\ \A k \in DOMAIN routines :
       /\ routines[k] \in table \cap graph.dllmain
       /\ routines[k] = "init" => InitLast /\ k = Len(routines)
       /\ \A d \in Imports(routines[k]) \cap graph.dllmain :
            \E j \in 1..k - 1 : routines[j] = d
       /\ \A j \in DOMAIN routines : routines[j] = routines[k] => j = k

\* The calls of entry points follow the list.
Following ==
  /\ phase[First] \in {"unborn", "setup"} => dllcalls = <<>>
  /\ Len(dllcalls) <= Len(routines)
  /\ \A k \in DOMAIN dllcalls : dllcalls[k] = routines[k]

\* The program has been entered.
Initialised ==
  /\ \A k \in DOMAIN dllcalls : dllcalls[k] # "init"
  /\ \A m \in (Imports("exe") \cup Imports("init")) \cap graph.dllmain :
       /\ \E k \in DOMAIN dllcalls : Called(m, k)
       /\ \A k \in DOMAIN dllcalls : Called(m, k) =>
            \A d \in Imports(m) \cap graph.dllmain : \E j \in 1..k - 1 : Called(d, j)

Started ==
  /\ Alive /\ Loaded
  /\ Early => Listed /\ Following /\ ~loadRaced /\ again = {}
  /\ ~Early => Initialised
  /\ \A k \in DOMAIN dllcalls : dllcalls[k] \in table

\* As long as no two loads have overlapped, what is being loaded is not in the
\* table, and was mapped at most once unless it imports itself.
Mapping(m) == \E t \in Thread : \E k \in DOMAIN stack[t] :
                stack[t][k].mod = m /\ stack[t][k].step # "reserve"
Lone ==
  /\ \A t, u \in Thread : Loading(t) /\ Loading(u) => t = u
  /\ \A t \in Thread : \A k \in DOMAIN stack[t] : stack[t][k].mod \notin table
MapsOK == \A m \in Module : maps[m] <= 1 /\ (maps[m] = 1 => m \in table \/ Mapping(m))

\* No entry point is called twice.
CallsOK ==
  /\ \A t \in Thread : phase[t] \in Module \ again =>
       /\ \A k \in DOMAIN dllcalls : dllcalls[k] # phase[t]
       /\ \A u \in Thread \ {t} : phase[u] # phase[t]
  /\ \A j, k \in DOMAIN dllcalls : dllcalls[j] = dllcalls[k] => j = k \/ dllcalls[j] \in again

Unraced == ~loadRaced => Lone /\ (Cyclic \/ MapsOK) /\ CallsOK

LinkInv == WellTyped /\ Linked /\ Started /\ Unraced /\ CrashHasReason

\* What the loader works on lies below map_base.
LowFrame(t, k) ==
  LET f == stack[t][k] IN
  f.step \in {"import", "protect"} \/ (f.step = "section" /\ f.i > 0) =>
    f.base + ImagePages <= map_base
Low(t) ==
  /\ LoadAt(t, "section") /\ Top(t).i = 0 /\ Idle(t) => call[t].base + ImagePages <= map_base
  /\ \A k \in DOMAIN stack[t] : LowFrame(t, k)
  /\ call[t].op = "protect" => call[t].base + call[t].size <= map_base
LowInv == clashed \/ ((\A t \in Thread : Low(t)) /\ AbortMeansExhausted)


-----------------------------------------------------------------------------
\* What the files import.

(* The imports of a module are the least set that has its direct ones and,  *)
(* with a module, what that one imports.  Nothing imports init.dll.         *)
LEMMA ImportsLeast ==
  ASSUME graph \in Graphs, NEW m \in Module
  PROVE  Imports(m) = {d \in Module : \A S \in SUBSET Module :
                        Direct(graph, m) \subseteq S /\ Closed(graph, S) => d \in S}
BY DEF Imports, Reached

(* Direct imports are modules other than init.dll.                          *)
LEMMA DirectFacts ==
  ASSUME graph \in Graphs, NEW m \in Module
  PROVE  /\ graph.imports[m] \in Seq(Module) /\ Direct(graph, m) \subseteq Module \ {"init"}
         /\ "init" \in graph.dllmain
<1>1. graph.imports[m] \in Seq(Module) /\ "init" \in graph.dllmain
      /\ \A k \in DOMAIN graph.imports[m] : graph.imports[m][k] # "init"
  BY LoaderAssumption
<1>2. \A k \in DOMAIN graph.imports[m] : graph.imports[m][k] \in Module
  BY <1>1
<1> QED
  BY <1>1, <1>2 DEF Direct

(* What a module imports is closed, and nothing smaller is.                 *)
LEMMA ImportsFacts ==
  ASSUME graph \in Graphs, NEW m \in Module
  PROVE  /\ Imports(m) \subseteq Module \ {"init"}
         /\ Direct(graph, m) \subseteq Imports(m) /\ Closed(graph, Imports(m))
         /\ \A S \in SUBSET Module :
              Direct(graph, m) \subseteq S /\ Closed(graph, S) => Imports(m) \subseteq S
         /\ \A e \in Imports(m) : Imports(e) \subseteq Imports(m)
<1>1. Imports(m) \subseteq Module
  BY ImportsLeast
<1>2. \A S \in SUBSET Module :
        Direct(graph, m) \subseteq S /\ Closed(graph, S) => Imports(m) \subseteq S
  BY ImportsLeast
<1>3. Direct(graph, m) \subseteq Imports(m)
  BY ImportsLeast, DirectFacts
<1>4. ASSUME NEW e \in Imports(m), NEW d \in Direct(graph, e) PROVE d \in Imports(m)
  <2>1. e \in Module /\ d \in Module
    BY <1>1, <1>4, DirectFacts
  <2>2. ASSUME NEW S \in SUBSET Module, Direct(graph, m) \subseteq S, Closed(graph, S)
        PROVE  d \in S
    BY <1>2, <1>4, <2>2 DEF Closed
  <2> QED
    BY <2>1, <2>2, ImportsLeast
<1>5. Closed(graph, Imports(m))
  BY <1>4 DEF Closed
<1>6. "init" \notin Imports(m)
  <2>1. Closed(graph, Module \ {"init"}) /\ Direct(graph, m) \subseteq Module \ {"init"}
    BY DirectFacts DEF Closed
  <2>2. Module \ {"init"} \in SUBSET Module
    OBVIOUS
  <2> QED
    BY <1>2, <2>1, <2>2
<1>7. ASSUME NEW e \in Imports(m) PROVE Imports(e) \subseteq Imports(m)
  <2>1. e \in Module /\ Imports(m) \in SUBSET Module /\ Direct(graph, e) \subseteq Imports(m)
    BY <1>1, <1>5 DEF Closed
  <2> QED
    BY <1>5, <2>1, ImportsLeast
<1> QED
  BY <1>1, <1>2, <1>3, <1>5, <1>6, <1>7

(* The files on disk do not change.                                         *)
LEMMA ImportsSame ==
  ASSUME graph' = graph
  PROVE  (\A m : Imports(m)' = Imports(m)) /\ (Cyclic' <=> Cyclic)
BY DEF Imports, Cyclic

-----------------------------------------------------------------------------
\* The memory map is well typed whether or not calls overlap.

(* What the fields of a call can be.                                        *)
LEMMA NatCallShape ==
  ASSUME MemTyped, NEW t \in Thread
  PROVE  /\ call[t].base \in Nat
         /\ ~Idle(t) => /\ call[t].op \in {"dynamic", "fixed", "unmap", "protect"}
                        /\ call[t].size \in Nat \ {0} /\ call[t].prot \in Prot
                        /\ call[t].whole \in BOOLEAN /\ call[t].step \in 1..3
                        /\ call[t] = [op |-> call[t].op, base |-> call[t].base,
                                      size |-> call[t].size, prot |-> call[t].prot,
                                      whole |-> call[t].whole, step |-> call[t].step]
<1>1. call[t] \in NatCall
  BY DEF MemTyped
<1>2. CASE call[t] \in NatIdle
  BY <1>2 DEF NatIdle, Idle
<1>3. CASE call[t] \in NatActive
  BY <1>3 DEF NatActive, Idle
<1> QED
  BY <1>1, <1>2, <1>3 DEF NatCall

\* A call of the memory map.
IsCall(c, op, b, n, p, w, s) ==
  /\ c = [op |-> op, base |-> b, size |-> n, prot |-> p, whole |-> w, step |-> s]
  /\ c.op = op /\ c.base = b /\ c.size = n /\ c.step = s

(* Calls are well typed.                                                    *)
LEMMA ACall ==
  ASSUME NEW op \in {"dynamic", "fixed", "unmap", "protect"}, NEW b \in Nat,
         NEW n \in Nat \ {0}, NEW p \in Prot, NEW w \in BOOLEAN, NEW s \in 1..3
  PROVE  \E c \in NatCall : IsCall(c, op, b, n, p, w, s)
<1>1. PICK c : c = [op |-> op, base |-> b, size |-> n, prot |-> p, whole |-> w, step |-> s]
  OBVIOUS
<1>2. c \in NatActive
  BY <1>1 DEF NatActive
<1>3. IsCall(c, op, b, n, p, w, s)
  BY <1>1 DEF IsCall
<1> QED
  BY <1>2, <1>3 DEF NatCall

(* A call goes on.                                                          *)
LEMMA CallTyped ==
  ASSUME MemTyped, NEW t \in Thread, NEW c \in NatCall, call' = [call EXCEPT ![t] = c],
         map_base' \in 0..2 * Pages - 1, prot' \in [Page -> Prot], regions' \subseteq NatRegion
  PROVE  MemTyped'
<1>1. call' \in [Thread -> NatCall]
  BY DEF MemTyped
<1> QED
  BY <1>1 DEF MemTyped

(* A thread enters a call.                                                  *)
LEMMA CallBegins ==
  ASSUME MemTyped, NEW t \in Thread, NEW op \in {"dynamic", "fixed", "unmap", "protect"},
         NEW b \in Nat, NEW n \in Nat \ {0}, NEW p \in Prot, Asks(t, op, b, n, p)
  PROVE  MemTyped'
<1>1. PICK s \in 1..3 : s = 1
  OBVIOUS
<1>2. PICK w \in BOOLEAN, k \in BOOLEAN : Request(t, op, b, n, p, w, k)
  BY DEF Asks
<1>3. PICK c \in NatCall : IsCall(c, op, b, n, p, w, s)
  BY ACall
<1>4. call' = [call EXCEPT ![t] = c] /\ UNCHANGED <<map_base, prot, regions>>
  BY <1>1, <1>2, <1>3 DEF Request, Begin, IsCall
<1> QED
  BY <1>4, CallTyped DEF MemTyped

(* Sums of a base and a size are 32-bit numbers.                            *)
LEMMA WrapTyped ==
  ASSUME NEW n \in Int
  PROVE  Wrap(n) \in 0..2 * Pages - 1
BY MemoryAssumption DEF Wrap

(* Mapping sets the protection of pages.                                    *)
LEMMA ProtTyped ==
  ASSUME MemTyped, NEW b, NEW n, NEW p \in Prot, SetProt(b, n, p)
  PROVE  prot' \in [Page -> Prot]
BY DEF MemTyped, SetProt

(* A step of the memory map keeps its types.                                *)
LEMMA MemStepTyped ==
  ASSUME MemTyped, NEW t \in Thread, MemStep(t)
  PROVE  MemTyped'
<1> USE DEF MemTyped
<1>1. PICK b \in Nat : b = call[t].base
  BY NatCallShape
<1>2. ASSUME call' = call, map_base' = map_base, prot' = prot, regions' = regions PROVE MemTyped'
  BY <1>2
<1>3. ASSUME NEW s \in 1..3, GoTo(t, s), ~Idle(t), map_base' \in 0..2 * Pages - 1, prot' = prot,
             regions' = regions
      PROVE  MemTyped'
  <2>1. \E c \in NatCall :
          IsCall(c, call[t].op, b, call[t].size, call[t].prot, call[t].whole, s)
    BY <1>3, NatCallShape, ACall
  <2>3. PICK c \in NatCall : /\ c = [call[t] EXCEPT !.step = s] /\ c.step = s
                             /\ c.op = call[t].op /\ c.base = b /\ c.size = call[t].size
    <3>1. call[t] = [op |-> call[t].op, base |-> call[t].base, size |-> call[t].size,
                     prot |-> call[t].prot, whole |-> call[t].whole, step |-> call[t].step]
      BY <1>3, NatCallShape
    <3>2. [call[t] EXCEPT !.step = s] = [op |-> call[t].op, base |-> call[t].base,
             size |-> call[t].size, prot |-> call[t].prot, whole |-> call[t].whole, step |-> s]
      BY <3>1
    <3>3. PICK c \in NatCall :
            IsCall(c, call[t].op, b, call[t].size, call[t].prot, call[t].whole, s)
      BY <2>1
    <3> QED
      BY <1>1, <3>2, <3>3 DEF IsCall
  <2>2. call' = [call EXCEPT ![t] = c]
    BY <1>3, <2>3 DEF GoTo
  <2> QED
    BY <1>3, <2>3, <2>2, CallTyped
<1>4. ASSUME Finish(t, b), map_base' \in 0..2 * Pages - 1, prot' \in [Page -> Prot],
             regions' \subseteq NatRegion
      PROVE  MemTyped'
  <2>0. PICK c : c = Returned(b)
    OBVIOUS
  <2>1. c \in NatCall /\ c = Returned(b) /\ c.op = "none"
    BY <2>0 DEF NatCall, NatIdle, Returned
  <2>2. call' = [call EXCEPT ![t] = c]
    BY <1>4, <2>1 DEF Finish
  <2> QED
    BY <1>4, <2>1, <2>2, CallTyped
<1>5. CASE DynCheck(t)
  BY <1>2, <1>3, <1>5 DEF DynCheck, AssertFails, At, Idle
<1>6. CASE DynMap(t)
  <2>1. ~Idle(t) /\ At(t, "dynamic", 2)
    BY <1>6 DEF DynMap, At, Idle
  <2>2. PICK n \in Nat \ {0}, p \in Prot, w \in BOOLEAN :
          n = call[t].size /\ p = call[t].prot /\ w = call[t].whole
    BY <2>1, NatCallShape
  <2>3. prot' \in [Page -> Prot]
    BY <1>6, <2>2, ProtTyped DEF DynMap, Mmap
  <2>4. regions' \subseteq NatRegion
    BY <1>6, <2>2, MemoryAssumption DEF DynMap, NatRegion
  <2>5. PICK m \in Nat : m = map_base
    BY MemoryAssumption
  <2>7. PICK s \in 1..3 : s = 3
    OBVIOUS
  <2>8. PICK op \in {"dynamic", "fixed", "unmap", "protect"} : op = "dynamic"
    OBVIOUS
  <2>9. PICK c \in NatCall : IsCall(c, op, m, n, p, w, s)
    BY ACall
  <2>6. call' = [call EXCEPT ![t] = c]
    <3>1. call[t] = [op |-> call[t].op, base |-> call[t].base, size |-> call[t].size,
                     prot |-> call[t].prot, whole |-> call[t].whole, step |-> call[t].step]
      BY <2>1, NatCallShape
    <3>2. call[t] = [op |-> "dynamic", base |-> b, size |-> n, prot |-> p, whole |-> w,
                      step |-> 2]
      BY <1>1, <2>1, <2>2, <3>1 DEF At
    <3>3. PICK d : d = [call[t] EXCEPT !.base = m]
      OBVIOUS
    <3>4. d = [op |-> "dynamic", base |-> m, size |-> n, prot |-> p, whole |-> w, step |-> 2]
      BY <3>2, <3>3
    <3>6. [d EXCEPT !.step = s] = c
      BY <2>8, <2>9, <3>4 DEF IsCall
    <3>5. call' = [call EXCEPT ![t].base = m, ![t].step = s]
      BY <1>6, <2>5, <2>7 DEF DynMap
    <3> QED
      BY <3>3, <3>5, <3>6
  <2>10. map_base' \in 0..2 * Pages - 1
    BY <1>6 DEF DynMap
  <2> QED
    BY <2>3, <2>4, <2>6, <2>10, CallTyped
<1>7. CASE DynRaise(t)
  <2>1. call[t].size \in Nat
    BY <1>7, NatCallShape DEF DynRaise, At, Idle
  <2>2. map_base' \in 0..2 * Pages - 1
    BY <1>7, <2>1, WrapTyped DEF DynRaise
  <2> QED
    BY <1>1, <1>4, <1>7, <2>2 DEF DynRaise
<1>8. CASE FixedTest(t)
  <2>1. ~Idle(t)
    BY <1>8 DEF FixedTest, At, Idle
  <2>2. CASE AssertFails
    BY <1>2, <2>2 DEF AssertFails
  <2>3. CASE InRange(call[t])
    BY <1>3, <1>8, <2>1, <2>3 DEF FixedTest
  <2> QED
    BY <1>8, <2>2, <2>3 DEF FixedTest
<1>9. CASE FixedRaise(t)
  <2>1. ~Idle(t) /\ call[t].size \in Nat
    BY <1>9, NatCallShape DEF FixedRaise, At, Idle
  <2>2. map_base' \in 0..2 * Pages - 1
    BY <1>1, <1>9, <2>1, WrapTyped DEF FixedRaise
  <2> QED
    BY <1>3, <1>9, <2>1, <2>2 DEF FixedRaise
<1>10. CASE FixedMap(t)
  <2>1. PICK n \in Nat \ {0}, p \in Prot : n = call[t].size /\ p = call[t].prot
    BY <1>10, NatCallShape DEF FixedMap, At, Idle
  <2>2. regions' \subseteq regions \cup {[base |-> b, size |-> n, by |-> t]}
    BY <1>1, <1>10, <2>1 DEF FixedMap
  <2>3. regions' \subseteq NatRegion
    BY <2>2 DEF NatRegion
  <2> QED
    BY <1>1, <1>4, <1>10, <2>1, <2>3, ProtTyped DEF FixedMap, Mmap
<1>11. CASE Unmap(t)
  <2>1. CASE AssertFails
    BY <1>2, <2>1 DEF AssertFails
  <2>2. CASE Finish(t, b) /\ Mmap(call[t].base, call[t].size, "N") /\ map_base' = map_base
             /\ regions' = {r \in regions : r.base # call[t].base}
    <3>1. "N" \in Prot
      BY DEF Prot
    <3> QED
      BY <1>4, <2>2, <3>1, ProtTyped DEF Mmap
  <2> QED
    BY <1>1, <1>11, <2>1, <2>2 DEF Unmap
<1>12. CASE Protect(t)
  <2>1. CASE AssertFails
    BY <1>2, <2>1 DEF AssertFails
  <2>2. CASE Finish(t, b) /\ SetProt(map_base, call[t].size, call[t].prot)
             /\ UNCHANGED <<map_base, regions>>
    <3>1. call[t].prot \in Prot
      BY <1>12, NatCallShape DEF Protect, At, Idle
    <3> QED
      BY <1>4, <2>2, <3>1, ProtTyped
  <2> QED
    BY <1>1, <1>12, <2>1, <2>2 DEF Protect
<1> QED
  BY <1>5, <1>6, <1>7, <1>8, <1>9, <1>10, <1>11, <1>12 DEF MemStep


-----------------------------------------------------------------------------
\* What a step of the loader does to its activations.

Depth(t) == Len(stack[t])

(* There are five modules, and room to load each from within another.       *)
LEMMA ModuleCount ==
  IsFiniteSet(Module) /\ Cardinality(Module) = 5 /\ StackMax \in Nat /\ StackMax >= 5
<1>1. PICK A : A = {"exe"}
  OBVIOUS
<1>2. PICK B : B = A \cup {"init"}
  OBVIOUS
<1>3. PICK C : C = B \cup {"a"}
  OBVIOUS
<1>4. PICK D : D = C \cup {"b"}
  OBVIOUS
<1>5. PICK E : E = D \cup {"c"}
  OBVIOUS
<1>6. IsFiniteSet(A) /\ Cardinality(A) = 1
  BY <1>1, FS_Singleton
<1>7. IsFiniteSet(B) /\ Cardinality(B) = 2
  BY <1>1, <1>2, <1>6, FS_AddElement
<1>8. IsFiniteSet(C) /\ Cardinality(C) = 3
  BY <1>1, <1>2, <1>3, <1>7, FS_AddElement
<1>9. IsFiniteSet(D) /\ Cardinality(D) = 4
  BY <1>1, <1>2, <1>3, <1>4, <1>8, FS_AddElement
<1>10. IsFiniteSet(E) /\ Cardinality(E) = 5
  BY <1>1, <1>2, <1>3, <1>4, <1>5, <1>9, FS_AddElement
<1>11. E = Module
  BY <1>1, <1>2, <1>3, <1>4, <1>5 DEF Module
<1> QED
  BY <1>10, <1>11, LoaderAssumption

(* The activations of a thread.                                             *)
LEMMA StackShape ==
  ASSUME StackTyped, NEW t \in Thread
  PROVE  /\ stack[t] \in Seq(NatFrame) /\ Depth(t) \in 0..StackMax
         /\ DOMAIN stack[t] = 1..Depth(t)
         /\ \A k \in 1..Depth(t) : /\ stack[t][k] \in NatFrame /\ stack[t][k].mod \in Module
                                   /\ stack[t][k].i \in Nat /\ stack[t][k].base \in Nat
                                   /\ FrameOK(t, k)
         /\ Loading(t) <=> Depth(t) > 0
         /\ Loading(t) => Top(t) = stack[t][1]
<1>1. stack[t] \in Seq(NatFrame) /\ Len(stack[t]) <= StackMax
      /\ \A k \in DOMAIN stack[t] : FrameOK(t, k)
  BY DEF StackTyped
<1>2. PICK s \in Seq(NatFrame) : s = stack[t]
  BY <1>1
<1>3. /\ Len(s) \in Nat /\ DOMAIN s = 1..Len(s) /\ \A k \in 1..Len(s) : s[k] \in NatFrame
      /\ (s # <<>> <=> Len(s) > 0) /\ (s # <<>> => Head(s) = s[1])
  OBVIOUS
<1>4. \A f \in NatFrame : f.mod \in Module /\ f.i \in Nat /\ f.base \in Nat
  BY DEF NatFrame
<1>5. Len(s) \in 0..StackMax
  BY <1>1, <1>2, <1>3, LoaderAssumption
<1> QED
  BY <1>1, <1>2, <1>3, <1>4, <1>5 DEF Depth, Loading, Top

\* The thread's activations become s, the others' stay.
StackIs(t, s) == stack' = [stack EXCEPT ![t] = s]

(* A thread gets another sequence of activations.                           *)
LEMMA StackIsFacts ==
  ASSUME StackTyped, NEW t \in Thread, NEW s \in Seq(NatFrame), StackIs(t, s)
  PROVE  /\ stack' \in [Thread -> Seq(NatFrame)] /\ stack'[t] = s
         /\ Depth(t)' = Len(s) /\ DOMAIN stack'[t] = 1..Len(s)
         /\ \A u \in Thread \ {t} : stack'[u] = stack[u] /\ Depth(u)' = Depth(u)
                                    /\ (Loading(u)' <=> Loading(u))
         /\ Loading(t)' <=> s # <<>>
<1>1. stack \in [Thread -> Seq(NatFrame)]
  BY DEF StackTyped
<1>2. stack' \in [Thread -> Seq(NatFrame)] /\ stack'[t] = s
      /\ \A u \in Thread \ {t} : stack'[u] = stack[u]
  BY <1>1 DEF StackIs
<1> QED
  BY <1>2 DEF Depth, Loading

(* It keeps the types if the new activations have theirs.                   *)
LEMMA StackIsTyped ==
  ASSUME StackTyped, NEW t \in Thread, NEW s \in Seq(NatFrame), StackIs(t, s),
         Len(s) <= StackMax,
         \A k \in 1..Len(s) : s[k].step \in {"import", "protect"} => s[k].i >= 1
  PROVE  StackTyped'
<1>1. /\ stack' \in [Thread -> Seq(NatFrame)] /\ stack'[t] = s /\ DOMAIN stack'[t] = 1..Len(s)
      /\ \A u \in Thread \ {t} : stack'[u] = stack[u]
  BY StackIsFacts
<1>2. ASSUME NEW u \in Thread \ {t}
      PROVE  Len(stack'[u]) <= StackMax /\ \A k \in DOMAIN stack'[u] : FrameOK(u, k)'
  BY <1>1 DEF StackTyped, FrameOK
<1>3. Len(stack'[t]) <= StackMax /\ \A k \in DOMAIN stack'[t] : FrameOK(t, k)'
  BY <1>1 DEF FrameOK
<1> QED
  BY <1>1, <1>2, <1>3 DEF StackTyped

\* The innermost activation becomes f.
Moved(t, f) ==
  /\ Loading(t)' /\ Depth(t)' = Depth(t) /\ stack'[t][1] = f
  /\ \A u \in Thread \ {t} : stack'[u] = stack[u] /\ Depth(u)' = Depth(u)
                             /\ (Loading(u)' <=> Loading(u))
  /\ \A k \in 2..Depth(t) : stack'[t][k] = stack[t][k]

(* The innermost activation is replaced by another.                         *)
LEMMA StackMoves ==
  ASSUME StackTyped, NEW t \in Thread, Loading(t), NEW f \in NatFrame,
         f.step \in {"import", "protect"} => f.i >= 1,
         stack' = [stack EXCEPT ![t] = [stack[t] EXCEPT ![1] = f]]
  PROVE  StackTyped' /\ Moved(t, f)
<1>1. /\ stack[t] \in Seq(NatFrame) /\ Depth(t) \in 1..StackMax /\ DOMAIN stack[t] = 1..Depth(t)
      /\ \A k \in 1..Depth(t) : FrameOK(t, k)
  BY StackShape, LoaderAssumption
<1>2. PICK q \in Seq(NatFrame) : q = stack[t] /\ 1 \in 1..Len(q)
  BY <1>1
<1>3. PICK s : s = [q EXCEPT ![1] = f]
  OBVIOUS
<1>4. s \in Seq(NatFrame) /\ Len(s) = Len(q)
  BY <1>2, <1>3, SMT
<1>5. s[1] = f /\ \A k \in 2..Len(q) : s[k] = q[k]
  BY <1>2, <1>3
<1>6. StackIs(t, s)
  BY <1>2, <1>3 DEF StackIs
<1>7. Len(q) = Depth(t) /\ Len(s) = Depth(t) /\ s # <<>>
  BY <1>1, <1>2, <1>4 DEF Depth
<1>8. Moved(t, f)
  BY <1>2, <1>4, <1>5, <1>6, <1>7, StackIsFacts DEF Moved
<1>9. ASSUME NEW k \in 1..Len(s), s[k].step \in {"import", "protect"} PROVE s[k].i >= 1
  <2>1. k = 1 \/ k \in 2..Len(q)
    BY <1>4, <1>7
  <2> QED
    BY <1>1, <1>2, <1>5, <1>7, <1>9, <2>1 DEF FrameOK
<1>10. Len(s) <= StackMax
  BY <1>1, <1>7
<1> QED
  BY <1>4, <1>6, <1>8, <1>9, <1>10, StackIsTyped

(* The innermost activation goes on to another step, or to another section. *)
LEMMA AdvanceMoves ==
  ASSUME StackTyped, NEW t \in Thread, Loading(t), NEW i \in Nat,
         NEW step \in {"reserve", "section", "import", "protect"}, Advance(t, step, i),
         step \in {"import", "protect"} => i >= 1
  PROVE  StackTyped' /\ \E f \in NatFrame : /\ Moved(t, f) /\ f.mod = Top(t).mod /\ f.step = step
                                            /\ f.i = i /\ f.base = Top(t).base
<1>1. Top(t) \in NatFrame /\ Top(t) = stack[t][1]
  BY StackShape
<1>2. PICK f \in NatFrame : /\ f = [Top(t) EXCEPT !.step = step, !.i = i]
                            /\ f.mod = Top(t).mod /\ f.step = step /\ f.i = i
                            /\ f.base = Top(t).base
  <2>1. PICK g \in NatFrame : g = [Top(t) EXCEPT !.step = step]
    BY <1>1 DEF NatFrame
  <2>2. PICK f \in NatFrame : f = [g EXCEPT !.i = i]
    BY DEF NatFrame
  <2>3. f.mod = Top(t).mod /\ f.step = step /\ f.i = i /\ f.base = Top(t).base
    BY <1>1, <2>1, <2>2 DEF NatFrame
  <2> QED
    BY <2>1, <2>2, <2>3
<1>3. stack' = [stack EXCEPT ![t] = [stack[t] EXCEPT ![1] = f]]
  BY <1>1, <1>2 DEF Advance
<1> QED
  BY <1>2, <1>3, StackMoves

(* MapSection goes on to the next section.                                  *)
LEMMA SectionMoves ==
  ASSUME StackTyped, NEW t \in Thread, Loading(t), NEW b \in Nat, Top(t).step = "section",
         stack' = [stack EXCEPT ![t][1].base = b, ![t][1].i = @ + 1]
  PROVE  StackTyped' /\ \E f \in NatFrame : /\ Moved(t, f) /\ f.mod = Top(t).mod
                                            /\ f.step = "section" /\ f.base = b
                                            /\ f.i = Top(t).i + 1
<1>1. Top(t) \in NatFrame /\ Top(t) = stack[t][1] /\ Top(t).i \in Nat
  BY StackShape
<1>2. PICK n \in Nat : n = Top(t).i + 1
  BY <1>1
<1>3. PICK f \in NatFrame : /\ f = [Top(t) EXCEPT !.base = b, !.i = @ + 1]
                            /\ f.mod = Top(t).mod /\ f.step = "section" /\ f.base = b /\ f.i = n
  <2>1. PICK g \in NatFrame : g = [Top(t) EXCEPT !.base = b]
    BY <1>1 DEF NatFrame
  <2>2. PICK f \in NatFrame : f = [g EXCEPT !.i = n]
    BY DEF NatFrame
  <2>3. f.mod = Top(t).mod /\ f.step = "section" /\ f.base = b /\ f.i = n
    BY <1>1, <2>1, <2>2 DEF NatFrame
  <2>4. g.i + 1 = n
    BY <1>1, <1>2, <2>1 DEF NatFrame
  <2>5. f = [Top(t) EXCEPT !.base = b, !.i = @ + 1]
    BY <2>1, <2>2, <2>4
  <2> QED
    BY <2>3, <2>5
<1>4. stack' = [stack EXCEPT ![t] = [stack[t] EXCEPT ![1] = f]]
  BY <1>1, <1>3
<1>5. StackTyped' /\ Moved(t, f)
  BY <1>3, <1>4, StackMoves
<1> QED
  BY <1>2, <1>3, <1>5

\* The module is about to be loaded from within the innermost activation.
Pushed(t, f) ==
  /\ Loading(t)' /\ Depth(t)' = Depth(t) + 1 /\ stack'[t][1] = f
  /\ \A u \in Thread \ {t} : stack'[u] = stack[u] /\ Depth(u)' = Depth(u)
                             /\ (Loading(u)' <=> Loading(u))
  /\ \A k \in 1..Depth(t) : stack'[t][k + 1] = stack[t][k]

(* An import begins an activation of its own.                               *)
LEMMA StackPushes ==
  ASSUME StackTyped, NEW t \in Thread, NEW m \in Module, Depth(t) < StackMax,
         stack' = [stack EXCEPT ![t] = <<Frame(m)>> \o stack[t]]
  PROVE  StackTyped' /\ Pushed(t, Frame(m)) /\ Frame(m).mod = m /\ Frame(m).step = "reserve"
<1>1. /\ stack[t] \in Seq(NatFrame) /\ Depth(t) \in 0..StackMax /\ DOMAIN stack[t] = 1..Depth(t)
      /\ \A k \in 1..Depth(t) : FrameOK(t, k)
  BY StackShape
<1>2. Frame(m) \in NatFrame /\ Frame(m).mod = m /\ Frame(m).step = "reserve"
  BY DEF Frame, NatFrame
<1>3. PICK f \in NatFrame : f = Frame(m) /\ f.step = "reserve"
  BY <1>2
<1>4. PICK q \in Seq(NatFrame) : q = stack[t] /\ Len(q) = Depth(t)
  BY <1>1 DEF Depth
<1>5. PICK s : s = <<f>> \o q
  OBVIOUS
<1>6. s \in Seq(NatFrame) /\ Len(s) = Len(q) + 1 /\ s[1] = f
      /\ \A k \in 1..Len(q) : s[k + 1] = q[k]
  BY <1>5
<1>7. StackIs(t, s) /\ s # <<>>
  BY <1>3, <1>4, <1>5, <1>6 DEF StackIs
<1>8. Pushed(t, f)
  BY <1>4, <1>6, <1>7, StackIsFacts DEF Pushed
<1>9. ASSUME NEW k \in 1..Len(s), s[k].step \in {"import", "protect"} PROVE s[k].i >= 1
  <2>1. k # 1
    BY <1>3, <1>6, <1>9
  <2>2. PICK j \in 1..Len(q) : k = j + 1
    BY <1>1, <1>4, <1>6, <2>1
  <2> QED
    BY <1>1, <1>4, <1>6, <1>9, <2>2 DEF FrameOK
<1>10. Len(s) <= StackMax
  BY <1>1, <1>4, <1>6, LoaderAssumption
<1> QED
  BY <1>2, <1>3, <1>6, <1>7, <1>8, <1>9, <1>10, StackIsTyped

\* The innermost activation returns, and the one below it goes on.
Popped(t) ==
  /\ Depth(t) \in 1..StackMax /\ Depth(t)' = Depth(t) - 1
  /\ \A u \in Thread \ {t} : stack'[u] = stack[u] /\ Depth(u)' = Depth(u)
                             /\ (Loading(u)' <=> Loading(u))
  /\ \A k \in 2..Depth(t)' : stack'[t][k] = stack[t][k + 1]
  /\ Depth(t)' >= 1 =>
       /\ stack'[t][1].mod = stack[t][2].mod /\ stack'[t][1].step = stack[t][2].step
       /\ stack'[t][1].base = stack[t][2].base /\ stack'[t][1].i = stack[t][2].i + 1
  /\ Loading(t)' <=> Depth(t)' >= 1

(* A complete module leaves its importer at the next import.                *)
LEMMA StackPops ==
  ASSUME StackTyped, NEW t \in Thread, Loading(t),
         stack' = [stack EXCEPT ![t] =
             LET rest == Tail(@)
             IN IF rest = <<>> THEN rest ELSE [rest EXCEPT ![1].i = @ + 1]]
  PROVE  StackTyped' /\ Popped(t)
<1>1. /\ stack[t] \in Seq(NatFrame) /\ Depth(t) \in 1..StackMax /\ DOMAIN stack[t] = 1..Depth(t)
      /\ \A k \in 1..Depth(t) : FrameOK(t, k)
  BY StackShape, LoaderAssumption
<1>2. PICK q \in Seq(NatFrame) : q = stack[t] /\ Len(q) = Depth(t) /\ q # <<>>
  BY <1>1 DEF Depth
<1>3. PICK r : r = Tail(q)
  OBVIOUS
<1>4. r \in Seq(NatFrame) /\ Len(r) = Len(q) - 1 /\ \A k \in 1..Len(r) : r[k] = q[k + 1]
  BY <1>1, <1>2, <1>3, HeadTailProperties
<1>5. CASE r = <<>>
  <2>1. StackIs(t, r) /\ Len(r) = 0
    BY <1>2, <1>3, <1>5 DEF StackIs
  <2>2. StackTyped'
    <3>1. Len(r) <= StackMax /\ \A k \in 1..Len(r) : FALSE
      BY <2>1, ModuleCount
    <3> QED
      BY <1>4, <2>1, <3>1, StackIsTyped
  <2>3. Popped(t)
    BY <1>1, <1>2, <1>4, <1>5, <2>1, StackIsFacts DEF Popped
  <2> QED
    BY <2>2, <2>3
<1>6. CASE r # <<>>
  <2>1. 1 \in 1..Len(r) /\ r[1] \in NatFrame /\ Len(r) \in Nat
    BY <1>4, <1>6
  <2>2. PICK n \in Nat : n = r[1].i + 1 /\ n >= 1
    BY <2>1 DEF NatFrame
  <2>3. PICK f \in NatFrame : /\ f = [r[1] EXCEPT !.i = n] /\ f.mod = r[1].mod
                              /\ f.step = r[1].step /\ f.base = r[1].base /\ f.i = n
    <3>1. PICK g \in NatFrame : g = r[1]
      BY <2>1
    <3>2. PICK f \in NatFrame : f = [g EXCEPT !.i = n]
      BY DEF NatFrame
    <3>3. f.mod = g.mod /\ f.step = g.step /\ f.base = g.base /\ f.i = n
      BY <3>2 DEF NatFrame
    <3> QED
      BY <3>1, <3>2, <3>3
  <2>4. PICK s : s = [r EXCEPT ![1] = f]
    OBVIOUS
  <2>5. s \in Seq(NatFrame) /\ Len(s) = Len(r) /\ s[1] = f /\ \A k \in 2..Len(r) : s[k] = r[k]
    <3>1. s \in Seq(NatFrame) /\ Len(s) = Len(r)
      BY <1>4, <2>1, <2>4, SMT
    <3> QED
      BY <1>4, <2>1, <2>4, <3>1
  <2>6. StackIs(t, s) /\ s # <<>>
    <3>1. [r EXCEPT ![1].i = @ + 1] = [r EXCEPT ![1] = f]
      BY <2>2, <2>3
    <3>2. stack' = [stack EXCEPT ![t] = [r EXCEPT ![1].i = @ + 1]]
      BY <1>2, <1>3, <1>6
    <3>3. StackIs(t, s)
      BY <2>4, <3>1, <3>2 DEF StackIs
    <3>4. s # <<>>
      BY <2>1, <2>5
    <3> QED
      BY <3>3, <3>4
  <2>7. Popped(t)
    <3>1. /\ stack'[t] = s /\ Depth(t)' = Len(s)
          /\ \A u \in Thread \ {t} : stack'[u] = stack[u] /\ Depth(u)' = Depth(u)
                                     /\ (Loading(u)' <=> Loading(u))
          /\ Loading(t)'
      BY <2>5, <2>6, StackIsFacts
    <3>2. Depth(t)' = Depth(t) - 1 /\ Depth(t)' >= 1
      BY <1>1, <1>2, <1>4, <2>1, <2>5, <3>1
    <3>3. \A k \in 2..Len(s) : s[k] = q[k + 1]
      BY <1>4, <2>1, <2>5
    <3>4. r[1] = q[2]
      BY <1>4, <2>1
    <3> QED
      BY <1>1, <1>2, <2>2, <2>3, <2>5, <3>1, <3>2, <3>3, <3>4 DEF Popped
  <2>8. ASSUME NEW k \in 1..Len(s), s[k].step \in {"import", "protect"} PROVE s[k].i >= 1
    <3>1. CASE k = 1
      BY <2>2, <2>3, <2>5, <3>1
    <3>2. CASE k # 1
      <4>1. k \in 2..Len(r) /\ k + 1 \in 1..Depth(t)
        BY <1>1, <1>2, <1>4, <2>1, <2>5, <3>2
      <4>2. s[k] = stack[t][k + 1]
        BY <1>2, <1>4, <2>5, <4>1
      <4> QED
        BY <1>1, <2>8, <4>1, <4>2 DEF FrameOK
    <3> QED
      BY <3>1, <3>2
  <2>9. Len(s) <= StackMax
    BY <1>1, <1>2, <1>4, <2>5, LoaderAssumption
  <2> QED
    BY <2>5, <2>6, <2>7, <2>8, <2>9, StackIsTyped
<1> QED
  BY <1>5, <1>6

\* The thread begins to load a module, or nothing.
Begun(t, m, new) ==
  /\ \A u \in Thread \ {t} : stack'[u] = stack[u] /\ Depth(u)' = Depth(u)
                             /\ (Loading(u)' <=> Loading(u))
  /\ Loading(t)' <=> new
  /\ Depth(t)' = IF new THEN 1 ELSE 0
  /\ new => stack'[t][1].mod = m /\ stack'[t][1].step = "reserve"

(* A load begins with one activation, or there is nothing to load.          *)
LEMMA StackBegun ==
  ASSUME StackTyped, NEW t \in Thread, NEW m \in Module, NEW new \in BOOLEAN,
         stack' = [stack EXCEPT ![t] = IF new THEN <<Frame(m)>> ELSE <<>>]
  PROVE  StackTyped' /\ Begun(t, m, new)
<1>1. Frame(m) \in NatFrame /\ Frame(m).mod = m /\ Frame(m).step = "reserve"
  BY DEF Frame, NatFrame
<1>2. PICK f \in NatFrame : f = Frame(m) /\ f.mod = m /\ f.step = "reserve"
  BY <1>1
<1>3. 1 <= StackMax
  BY ModuleCount
<1>4. CASE new
  <2>1. StackIs(t, <<f>>) /\ <<f>> \in Seq(NatFrame) /\ Len(<<f>>) = 1 /\ <<f>>[1] = f
        /\ <<f>> # <<>>
    BY <1>2, <1>4 DEF StackIs
  <2>2. StackTyped'
    <3>1. PICK s \in Seq(NatFrame) : s = <<f>> /\ Len(s) = 1 /\ s[1] = f
      BY <2>1
    <3>2. Len(s) <= StackMax /\ \A k \in 1..Len(s) : s[k].step = "reserve"
      BY <1>2, <1>3, <3>1
    <3> QED
      BY <2>1, <3>1, <3>2, StackIsTyped
  <2> QED
    BY <1>2, <1>4, <2>1, <2>2, StackIsFacts DEF Begun
<1>5. CASE ~new
  <2>1. StackIs(t, <<>>) /\ <<>> \in Seq(NatFrame) /\ Len(<<>>) = 0
    BY <1>5 DEF StackIs
  <2>2. StackTyped'
    <3>1. PICK s \in Seq(NatFrame) : s = <<>> /\ Len(s) = 0
      BY <2>1
    <3>2. Len(s) <= StackMax /\ \A k \in 1..Len(s) : FALSE
      BY <3>1, ModuleCount
    <3> QED
      BY <2>1, <3>1, <3>2, StackIsTyped
  <2> QED
    BY <1>5, <2>1, <2>2, StackIsFacts DEF Begun
<1> QED
  BY <1>4, <1>5


-----------------------------------------------------------------------------
\* The steps of the loader, as far as its activations and tables go.

Quiet == UNCHANGED <<graph, phase, table, routines, dllcalls, again, loadRaced>>

\* The innermost activation goes on; the module is mapped when its first step is.
Moves(t) ==
  /\ Loading(t) /\ Quiet /\ UNCHANGED crashed
  /\ \E f \in NatFrame :
       /\ Moved(t, f) /\ f.mod = Top(t).mod /\ f.step # "reserve"
       /\ IF Top(t).step = "reserve"
          THEN f.step = "section" /\ maps' = [maps EXCEPT ![f.mod] = @ + 1]
          ELSE maps' = maps
       /\ f.step = "import" => \A n \in DOMAIN graph.imports[f.mod] :
                                  n < f.i => graph.imports[f.mod][n] \in table
       /\ f.step = "protect" => Direct(graph, f.mod) \subseteq table

\* It has come to an import that is not in the table.
Wants(t, dep) ==
  /\ Loading(t) /\ Quiet /\ maps' = maps /\ dep \in Module \ table
  /\ Top(t).step = "import" /\ Top(t).i \in DOMAIN graph.imports[Top(t).mod]
  /\ graph.imports[Top(t).mod][Top(t).i] = dep
Pushes(t) == \E dep \in Module :
               Wants(t, dep) /\ Pushed(t, Frame(dep)) /\ UNCHANGED crashed
Overflows(t) == \E dep \in Module :
                  Wants(t, dep) /\ Depth(t) = StackMax /\ stack' = stack

\* An imported symbol is missing in a module of the table.
Unlinked == \E m \in Module : \E dep \in table \cap Direct(graph, m) : ~Links(m, dep)

\* The file, or a symbol it imports, is missing.
Lacks(t) ==
  /\ Loading(t) /\ Quiet /\ maps' = maps /\ stack' = stack
  /\ Top(t).mod \in graph.absent \/ Unlinked

\* It is done.
Completes(t) ==
  /\ Loading(t) /\ Top(t).step = "protect" /\ Popped(t)
  /\ routines' = IF Top(t).mod \in graph.dllmain THEN Append(routines, Top(t).mod) ELSE routines
  /\ table' = table \cup {Top(t).mod}
  /\ UNCHANGED <<graph, phase, maps, dllcalls, again, loadRaced>>
  /\ crashed' => Unlinked'

LoadKept == UNCHANGED <<owned, place, ops>>

(* The imports of a module are numbered from 1.                             *)
LEMMA ImportRange ==
  ASSUME graph \in Graphs, NEW m \in Module
  PROVE  /\ Len(graph.imports[m]) \in Nat /\ DOMAIN graph.imports[m] = 1..Len(graph.imports[m])
         /\ \A k \in DOMAIN graph.imports[m] :
              graph.imports[m][k] \in Module /\ graph.imports[m][k] \in Direct(graph, m)
<1>1. graph.imports[m] \in Seq(Module)
  BY DirectFacts
<1> QED
  BY <1>1 DEF Direct

(* The module an activation loads.                                          *)
LEMMA TopModule ==
  ASSUME StackTyped, NEW t \in Thread, Loading(t)
  PROVE  /\ Top(t).mod \in Module /\ Top(t) = stack[t][1] /\ 1 \in DOMAIN stack[t]
         /\ Depth(t) \in 1..StackMax /\ DOMAIN stack[t] = 1..Depth(t)
<1>1. Top(t) = stack[t][1] /\ Depth(t) > 0 /\ Depth(t) \in Nat /\ DOMAIN stack[t] = 1..Depth(t)
  BY StackShape, ModuleCount
<1> QED
  BY <1>1, StackShape

(* Where an image is mapped.                                                *)
LEMMA ReserveAsks ==
  ASSUME StackTyped, graph \in Graphs, NEW t \in Thread, Loading(t), Reserve(t)
  PROVE  \E op \in {"dynamic", "fixed"}, b \in Nat : Asks(t, op, b, ImagePages, "N")
<1>1. PICK m \in Module : m = Top(t).mod
  BY TopModule
<1>2. CASE m \in DOMAIN graph.fixed
  <2>1. PICK b \in Nat : b = graph.fixed[m]
    BY <1>2, LoaderAssumption
  <2>2. \E w \in BOOLEAN :
          Request(t, "fixed", b, ImagePages, "N", w, ~Free(b, ImagePages))
    BY <1>1, <1>2, <2>1 DEF Reserve
  <2>3. PICK k \in BOOLEAN : k = ~Free(b, ImagePages)
    OBVIOUS
  <2>4. Asks(t, "fixed", b, ImagePages, "N")
    BY <2>2, <2>3 DEF Asks
  <2> QED
    BY <2>4
<1>3. CASE m \notin DOMAIN graph.fixed
  <2>1. \E w \in BOOLEAN : Request(t, "dynamic", 0, ImagePages, "N", w, FALSE)
    BY <1>1, <1>3 DEF Reserve
  <2>2. Asks(t, "dynamic", 0, ImagePages, "N")
    BY <2>1 DEF Asks
  <2> QED
    BY <2>2
<1> QED
  BY <1>2, <1>3

(* Reserve moves the innermost activation to the sections.                  *)
LEMMA ReserveShape ==
  ASSUME WellTyped, NEW t \in Thread, Reserve(t)
  PROVE  MemTyped' /\ StackTyped' /\ Moves(t) /\ LoadKept
<1>1. Loading(t) /\ Top(t).step = "reserve" /\ MemTyped /\ StackTyped /\ graph \in Graphs
  BY DEF Reserve, LoadAt, WellTyped, LinkTyped
<1>2. PICK op \in {"dynamic", "fixed"}, b \in Nat : Asks(t, op, b, ImagePages, "N")
  BY <1>1, ReserveAsks
<1>8. op \in {"dynamic", "fixed", "unmap", "protect"}
  OBVIOUS
<1>3. MemTyped'
  BY <1>1, <1>2, <1>8, PageCounts, CallBegins
<1>4. PICK i \in Nat, step \in {"reserve", "section", "import", "protect"} :
        Advance(t, step, i) /\ i = 0 /\ step = "section"
  BY DEF Reserve
<1>5. PICK f \in NatFrame : Moved(t, f) /\ f.mod = Top(t).mod /\ f.step = "section"
  BY <1>1, <1>4, AdvanceMoves
<1>6. StackTyped'
  BY <1>1, <1>4, AdvanceMoves
<1>7. Moves(t) /\ LoadKept
  BY <1>1, <1>5 DEF Reserve, Moves, Quiet, LoadKept, progVars
<1> QED
  BY <1>3, <1>6, <1>7

(* MapSection moves it to the next section.                                 *)
LEMMA MapSectionShape ==
  ASSUME WellTyped, NEW t \in Thread, MapSection(t)
  PROVE  MemTyped' /\ StackTyped' /\ Moves(t) /\ LoadKept
<1>1. Loading(t) /\ Top(t).step = "section" /\ MemTyped /\ StackTyped /\ graph \in Graphs
  BY DEF MapSection, LoadAt, WellTyped, LinkTyped
<1>2. Top(t).i \in Nat /\ Top(t).base \in Nat /\ call[t].base \in Nat
  <2>1. Top(t) = stack[t][1] /\ Depth(t) > 0 /\ Depth(t) \in Nat
    BY <1>1, StackShape, ModuleCount
  <2>2. 1 \in 1..Depth(t)
    BY <2>1
  <2>3. call[t].base \in Nat
    BY <1>1, NatCallShape
  <2> QED
    BY <1>1, <2>1, <2>2, <2>3, StackShape
<1>3. PICK b \in Nat : /\ Asks(t, "fixed", b + Top(t).i, 1, "RW")
                       /\ stack' = [stack EXCEPT ![t][1].base = b, ![t][1].i = @ + 1]
  BY <1>2 DEF MapSection, Asks
<1>4. PICK c \in Nat, op \in {"dynamic", "fixed", "unmap", "protect"} :
        c = b + Top(t).i /\ op = "fixed"
  BY <1>2
<1>5. MemTyped'
  <2>1. Asks(t, op, c, 1, "RW") /\ "RW" \in Prot
    BY <1>3, <1>4, PageCounts
  <2> QED
    BY <1>1, <2>1, CallBegins
<1>6. StackTyped' /\ \E f \in NatFrame : Moved(t, f) /\ f.mod = Top(t).mod /\ f.step = "section"
  BY <1>1, <1>3, SectionMoves
<1>7. PICK f \in NatFrame : Moved(t, f) /\ f.mod = Top(t).mod /\ f.step = "section"
  BY <1>6
<1>8. Moves(t) /\ LoadKept
  BY <1>1, <1>7 DEF MapSection, Moves, Quiet, LoadKept, progVars, linkVars
<1> QED
  BY <1>5, <1>6, <1>8

(* A step without a call moves it to the imports or the protections.        *)
LEMMA AdvanceShape ==
  ASSUME WellTyped, NEW t \in Thread, Loading(t), Top(t).step # "reserve", NEW i \in Nat, i >= 1,
         NEW step \in {"import", "protect"}, Advance(t, step, i),
         step = "import" => \A n \in DOMAIN graph.imports[Top(t).mod] :
                              n < i => graph.imports[Top(t).mod][n] \in table,
         step = "protect" => Direct(graph, Top(t).mod) \subseteq table,
         UNCHANGED <<progVars, linkVars, phase, crashed>>
  PROVE  StackTyped' /\ Moves(t) /\ LoadKept
<1>1. StackTyped
  BY DEF WellTyped
<1>2. StackTyped' /\ \E f \in NatFrame : /\ Moved(t, f) /\ f.mod = Top(t).mod /\ f.step = step
                                         /\ f.i = i
  <2>1. step \in {"reserve", "section", "import", "protect"}
    OBVIOUS
  <2> QED
    BY <1>1, <2>1, AdvanceMoves
<1>3. PICK f \in NatFrame : Moved(t, f) /\ f.mod = Top(t).mod /\ f.step = step /\ f.i = i
  BY <1>2
<1>4. Moves(t) /\ LoadKept
  BY <1>3 DEF Moves, Quiet, LoadKept, progVars, linkVars
<1> QED
  BY <1>2, <1>4

(* SectionsMapped moves it to the first import.                             *)
LEMMA SectionsMappedShape ==
  ASSUME WellTyped, NEW t \in Thread, SectionsMapped(t)
  PROVE  MemTyped' /\ StackTyped' /\ Moves(t) /\ LoadKept
<1>1. Loading(t) /\ Top(t).step = "section" /\ MemTyped /\ StackTyped /\ graph \in Graphs
  BY DEF SectionsMapped, LoadAt, WellTyped, LinkTyped
<1>2. MemTyped'
  BY <1>1 DEF SectionsMapped, memVars, MemTyped
<1>3. Top(t).mod \in Module
  <2>1. Top(t) = stack[t][1] /\ Depth(t) > 0 /\ Depth(t) \in Nat
    BY <1>1, StackShape, ModuleCount
  <2> QED
    BY <1>1, <2>1, StackShape
<1>4. PICK i \in Nat : i = 1 /\ i >= 1
  OBVIOUS
<1>5. PICK step \in {"import", "protect"} : step = "import"
  OBVIOUS
<1>6. \A n \in DOMAIN graph.imports[Top(t).mod] : ~(n < i)
  BY <1>1, <1>3, <1>4, ImportRange
<1>7. Advance(t, step, i) /\ UNCHANGED <<progVars, linkVars, phase, crashed>>
  BY <1>4, <1>5 DEF SectionsMapped
<1>8. Top(t).step # "reserve" /\ step # "protect"
  BY <1>1, <1>5
<1> QED
  BY <1>1, <1>2, <1>6, <1>7, <1>8, <1>4, AdvanceShape

\* What has been read of the import table of a thread's module.
LEMMA ImportFacts ==
  ASSUME WellTyped, Linked, NEW t \in Thread, LoadAt(t, "import")
  PROVE  /\ Loading(t) /\ Top(t).i \in Nat /\ Top(t).i >= 1 /\ Top(t).mod \in Module
         /\ graph \in Graphs
         /\ \A n \in DOMAIN graph.imports[Top(t).mod] :
              n < Top(t).i => graph.imports[Top(t).mod][n] \in table
<1>1. Loading(t) /\ Top(t).step = "import" /\ StackTyped /\ graph \in Graphs
  BY DEF LoadAt, WellTyped, LinkTyped
<1>2. /\ Top(t) = stack[t][1] /\ 1 \in DOMAIN stack[t] /\ FrameOK(t, 1)
      /\ stack[t][1].mod \in Module /\ stack[t][1].i \in Nat
  <2>1. Top(t) = stack[t][1] /\ Depth(t) > 0 /\ Depth(t) \in Nat /\ DOMAIN stack[t] = 1..Depth(t)
    BY <1>1, StackShape, ModuleCount
  <2> QED
    BY <1>1, <2>1, StackShape
<1>3. Waits(t, 1)
  BY <1>2 DEF Linked
<1> QED
  BY <1>1, <1>2, <1>3 DEF Waits, FrameOK

(* ImportsDone moves it to the protections: all imports are in the table.   *)
LEMMA ImportsDoneShape ==
  ASSUME WellTyped, Linked, NEW t \in Thread, ImportsDone(t)
  PROVE  MemTyped' /\ StackTyped' /\ Moves(t) /\ LoadKept
<1>1. /\ Loading(t) /\ Top(t).i \in Nat /\ Top(t).i >= 1 /\ Top(t).mod \in Module
      /\ graph \in Graphs /\ Top(t).step = "import"
      /\ \A n \in DOMAIN graph.imports[Top(t).mod] :
           n < Top(t).i => graph.imports[Top(t).mod][n] \in table
  BY ImportFacts DEF ImportsDone, LoadAt
<1>2. MemTyped'
  BY DEF ImportsDone, memVars, WellTyped, MemTyped
<1>3. PICK m \in Module : m = Top(t).mod
  BY <1>1
<1>4. Direct(graph, m) \subseteq table
  <2>1. Top(t).i > Len(graph.imports[m])
    BY <1>3 DEF ImportsDone
  <2>2. Len(graph.imports[m]) \in Nat /\ DOMAIN graph.imports[m] = 1..Len(graph.imports[m])
    BY <1>1, ImportRange
  <2>3. \A n \in DOMAIN graph.imports[m] : n < Top(t).i
    BY <1>1, <2>1, <2>2
  <2> QED
    BY <1>1, <1>3, <2>3 DEF Direct
<1>5. PICK i \in Nat : i = 1 /\ i >= 1
  OBVIOUS
<1>6. PICK step \in {"import", "protect"} : step = "protect"
  OBVIOUS
<1>7. Advance(t, step, i) /\ UNCHANGED <<progVars, linkVars, phase, crashed>>
  BY <1>5, <1>6 DEF ImportsDone
<1>8. Top(t).step # "reserve" /\ step # "import"
  BY <1>1, <1>6
<1> QED
  BY <1>1, <1>2, <1>3, <1>4, <1>5, <1>7, <1>8, AdvanceShape

(* ProtectSection moves it to the next protection.                          *)
LEMMA ProtectSectionShape ==
  ASSUME WellTyped, Linked, NEW t \in Thread, ProtectSection(t)
  PROVE  MemTyped' /\ StackTyped' /\ Moves(t) /\ LoadKept
<1>1. /\ Loading(t) /\ Top(t).step = "protect" /\ MemTyped /\ StackTyped /\ graph \in Graphs
      /\ Top(t).i <= ImagePages
  BY DEF ProtectSection, LoadAt, WellTyped, LinkTyped
<1>2. /\ Top(t) = stack[t][1] /\ 1 \in DOMAIN stack[t] /\ FrameOK(t, 1)
      /\ stack[t][1].mod \in Module /\ stack[t][1].i \in Nat /\ stack[t][1].base \in Nat
  <2>1. Top(t) = stack[t][1] /\ Depth(t) > 0 /\ Depth(t) \in Nat /\ DOMAIN stack[t] = 1..Depth(t)
    BY <1>1, StackShape, ModuleCount
  <2> QED
    BY <1>1, <2>1, StackShape
<1>3. Waits(t, 1)
  BY <1>2 DEF Linked
<1>4. Top(t).i >= 1 /\ Direct(graph, Top(t).mod) \subseteq table
  BY <1>1, <1>2, <1>3 DEF FrameOK, Waits
<1>5. MemTyped'
  <2>1. PICK b \in Nat, op \in {"dynamic", "fixed", "unmap", "protect"}, p \in Prot :
          b = Top(t).base + Top(t).i - 1 /\ op = "protect" /\ p = SectionProt[Top(t).i]
    <3>1. Top(t).i \in 1..ImagePages
      BY <1>1, <1>2, <1>4, PageCounts
    <3> QED
      BY <1>2, <1>4, <3>1, PageCounts
  <2>2. Call(t, op, b, 1, p)
    BY <2>1 DEF ProtectSection
  <2> QED
    BY <1>1, <2>2, PageCounts, CallAsks, CallBegins
<1>6. PICK i \in Nat : i = Top(t).i + 1 /\ i >= 1
  BY <1>2, <1>4
<1>7. PICK step \in {"import", "protect"} : step = "protect"
  OBVIOUS
<1>8. Advance(t, step, i) /\ UNCHANGED <<progVars, linkVars, phase, crashed>>
  BY <1>6, <1>7 DEF ProtectSection
<1>9. Top(t).step # "reserve" /\ step # "import"
  BY <1>1, <1>7
<1> QED
  BY <1>1, <1>4, <1>5, <1>6, <1>8, <1>9, AdvanceShape

(* Import goes on to the next import, begins to load it, overflows the stack *)
(* or misses a symbol.                                                      *)
LEMMA ImportShape ==
  ASSUME WellTyped, Linked, NEW t \in Thread, Import(t)
  PROVE  /\ MemTyped' /\ StackTyped' /\ LoadKept
         /\ Moves(t) \/ Pushes(t) \/ Overflows(t) \/ Lacks(t)
<1>1. /\ Loading(t) /\ Top(t).i \in Nat /\ Top(t).i >= 1 /\ Top(t).mod \in Module
      /\ graph \in Graphs /\ Top(t).step = "import"
      /\ \A n \in DOMAIN graph.imports[Top(t).mod] :
           n < Top(t).i => graph.imports[Top(t).mod][n] \in table
  BY ImportFacts DEF Import, LoadAt
<1>2. MemTyped' /\ LoadKept
  BY DEF Import, memVars, WellTyped, MemTyped, LoadKept, progVars
<1>3. PICK m \in Module : m = Top(t).mod
  BY <1>1
<1>4. PICK n \in Nat : n = Top(t).i /\ n \in DOMAIN graph.imports[m]
  <2>1. Top(t).i <= Len(graph.imports[m])
    BY <1>3 DEF Import
  <2> QED
    BY <1>1, <2>1, ImportRange
<1>5. PICK dep \in Module : dep = graph.imports[m][n]
  BY <1>1, <1>4, ImportRange
<1>6. /\ UNCHANGED <<progVars, linkVars, phase>>
      /\ \/ dep \in table /\ Advance(t, "import", n + 1) /\ UNCHANGED crashed
         \/ dep \in table /\ ~Links(m, dep) /\ stack' = stack
         \/ /\ dep \notin table /\ Len(stack[t]) < StackMax /\ UNCHANGED crashed
            /\ stack' = [stack EXCEPT ![t] = <<Frame(dep)>> \o stack[t]]
         \/ dep \notin table /\ Len(stack[t]) = StackMax /\ stack' = stack
  BY <1>3, <1>4, <1>5 DEF Import
<1>7. dep \notin table => Wants(t, dep)
  BY <1>1, <1>3, <1>4, <1>5, <1>6 DEF Wants, Quiet, progVars, linkVars
<1>11. CASE dep \in table /\ ~Links(m, dep) /\ stack' = stack
  <2>1. StackTyped'
    BY <1>11 DEF WellTyped, StackTyped, FrameOK
  <2>2. dep \in Direct(graph, m)
    BY <1>4, <1>5 DEF Direct
  <2>3. Unlinked
    BY <1>11, <2>2 DEF Unlinked
  <2>4. Lacks(t)
    BY <1>1, <1>6, <1>11, <2>3 DEF Lacks, Quiet, progVars, linkVars
  <2> QED
    BY <1>2, <2>1, <2>4
<1>8. CASE dep \in table /\ Advance(t, "import", n + 1) /\ UNCHANGED crashed
  <2>1. PICK i \in Nat : i = n + 1 /\ i >= 1
    BY <1>4
  <2>2. PICK step \in {"import", "protect"} : step = "import"
    OBVIOUS
  <2>3. Advance(t, step, i) /\ UNCHANGED crashed
    BY <1>6, <1>8, <2>1, <2>2
  <2>4. \A k \in DOMAIN graph.imports[m] : k < i => graph.imports[m][k] \in table
    BY <1>1, <1>3, <1>4, <1>5, <1>8, <2>1, ImportRange
  <2>5. Top(t).step # "reserve" /\ step # "protect"
    BY <1>1, <2>2
  <2> QED
    BY <1>1, <1>2, <1>3, <1>6, <2>1, <2>3, <2>4, <2>5, AdvanceShape
<1>9. CASE dep \notin table /\ Len(stack[t]) < StackMax /\ UNCHANGED crashed
           /\ stack' = [stack EXCEPT ![t] = <<Frame(dep)>> \o stack[t]]
  <2>1. StackTyped' /\ Pushed(t, Frame(dep))
    BY <1>9, StackPushes DEF WellTyped, Depth
  <2> QED
    BY <1>2, <1>7, <1>9, <2>1 DEF Pushes
<1>10. CASE dep \notin table /\ Len(stack[t]) = StackMax /\ stack' = stack
  <2>1. StackTyped'
    BY <1>10 DEF WellTyped, StackTyped, FrameOK
  <2> QED
    BY <1>2, <1>7, <1>10, <2>1 DEF Overflows, Depth
<1> QED
  BY <1>6, <1>8, <1>9, <1>10, <1>11

(* Unloadable finds no file.                                                *)
LEMMA UnloadableShape ==
  ASSUME WellTyped, NEW t \in Thread, Unloadable(t)
  PROVE  MemTyped' /\ StackTyped' /\ Lacks(t) /\ LoadKept
<1>1. MemTyped'
  BY DEF Unloadable, memVars, WellTyped, MemTyped
<1>2. StackTyped'
  BY DEF Unloadable, WellTyped, StackTyped, FrameOK
<1> QED
  BY <1>1, <1>2 DEF Unloadable, LoadAt, Lacks, Quiet, LoadKept, progVars, linkVars

(* Complete records the entry point, fills the table and returns.           *)
LEMMA CompleteShape ==
  ASSUME WellTyped, Linked, NEW t \in Thread, Complete(t)
  PROVE  MemTyped' /\ StackTyped' /\ Completes(t) /\ LoadKept
<1>1. Loading(t) /\ Top(t).step = "protect" /\ StackTyped
  BY DEF Complete, LoadAt, WellTyped
<1>2. MemTyped' /\ LoadKept
  BY DEF Complete, memVars, WellTyped, MemTyped, LoadKept, progVars
<1>3. StackTyped' /\ Popped(t)
  BY <1>1, StackPops DEF Complete
<1>4. crashed' => Unlinked'
  <2> SUFFICES ASSUME Len(stack[t]) > 1, ~Links(stack[t][2].mod, Top(t).mod) PROVE Unlinked'
    BY DEF Complete
  <2>1. PICK n \in Nat : n = Depth(t) /\ DOMAIN stack[t] = 1..n /\ Top(t) = stack[t][1]
    BY <1>1, TopModule, ModuleCount
  <2>2. n > 1 /\ 2 \in 1..n
    BY <2>1 DEF Depth
  <2>3. PICK m \in Module, d \in Module : m = stack[t][2].mod /\ d = Top(t).mod
    BY <1>1, <2>1, <2>2, TopModule, StackShape
  <2>4. Waits(t, 2)
    BY <2>1, <2>2 DEF Linked
  <2>5. d \in Direct(graph, m)
    <3>1. 2 > 1 /\ 2 - 1 = 1
      OBVIOUS
    <3>2. /\ stack[t][2].i \in DOMAIN graph.imports[m]
          /\ graph.imports[m][stack[t][2].i] = stack[t][1].mod
      BY <2>3, <2>4, <3>1 DEF Waits
    <3> QED
      BY <2>1, <2>3, <3>2 DEF Direct
  <2>6. d \in table' /\ graph' = graph
    BY <2>3 DEF Complete, progVars
  <2> QED
    BY <2>3, <2>5, <2>6 DEF Unlinked, Links, Direct
<1> QED
  BY <1>1, <1>2, <1>3, <1>4 DEF Complete, Completes, progVars

(* A step of the loader is one of these.                                    *)
LEMMA LoadShape ==
  ASSUME WellTyped, Linked, NEW t \in Thread, LoadStep(t)
  PROVE  /\ MemTyped' /\ StackTyped' /\ LoadKept
         /\ Moves(t) \/ Pushes(t) \/ Overflows(t) \/ Lacks(t) \/ Completes(t)
BY ReserveShape, UnloadableShape, MapSectionShape, SectionsMappedShape, ImportShape, ImportsDoneShape,
   ProtectSectionShape, CompleteShape DEF LoadStep

(* A step of the loader keeps the types.                                    *)
LEMMA LoadTyped ==
  ASSUME WellTyped, Linked, NEW t \in Thread, LoadStep(t)
  PROVE  WellTyped'
<1>1. /\ MemTyped' /\ StackTyped' /\ LoadKept
      /\ Moves(t) \/ Pushes(t) \/ Overflows(t) \/ Lacks(t) \/ Completes(t)
  BY LoadShape
<1>2. PhaseTyped /\ LinkTyped /\ phase' = phase
  BY <1>1 DEF WellTyped, Moves, Pushes, Wants, Overflows, Lacks, Completes, Quiet
<1>3. PhaseTyped'
  BY <1>2 DEF PhaseTyped
<1>4. CASE Moves(t)
  <2>1. maps' \in [Module -> Nat]
    <3>1. PICK m \in Module : maps' = maps \/ maps' = [maps EXCEPT ![m] = @ + 1]
      <4>1. \A f \in NatFrame : f.mod \in Module
        BY DEF NatFrame
      <4>2. \E f \in NatFrame : maps' = maps \/ maps' = [maps EXCEPT ![f.mod] = @ + 1]
        BY <1>4 DEF Moves
      <4> QED
        BY <4>1, <4>2
    <3>2. maps \in [Module -> Nat]
      BY <1>2 DEF LinkTyped
    <3> QED
      BY <3>1, <3>2
  <2> QED
    BY <1>1, <1>2, <1>3, <1>4, <2>1 DEF Moves, Quiet, LinkTyped, WellTyped, LoadKept
<1>5. CASE Pushes(t) \/ Overflows(t) \/ Lacks(t)
  BY <1>1, <1>2, <1>3, <1>5 DEF Pushes, Overflows, Lacks, Wants, Quiet, LinkTyped, WellTyped, LoadKept
<1>6. CASE Completes(t)
  <2>1. PICK m \in Module : m = Top(t).mod
    BY <1>6, TopModule DEF Completes, WellTyped
  <2>2. table' \subseteq Module /\ routines' \in Seq(Module)
    BY <1>2, <1>6, <2>1 DEF Completes, LinkTyped
  <2> QED
    BY <1>1, <1>2, <1>3, <1>6, <2>2 DEF Completes, LinkTyped, WellTyped, LoadKept
<1> QED
  BY <1>1, <1>4, <1>5, <1>6


-----------------------------------------------------------------------------
\* The other steps are well typed.

(* The memory map's types do not depend on the loader.                      *)
LEMMA MemTypedSame ==
  ASSUME MemTyped, UNCHANGED memVars
  PROVE  MemTyped'
BY DEF MemTyped, memVars

(* Nor do the activations' on anything else.                                *)
LEMMA StackTypedSame ==
  ASSUME StackTyped, stack' = stack
  PROVE  StackTyped'
BY DEF StackTyped, FrameOK

(* A thread enters another phase.                                           *)
LEMMA PhaseTypedEnter ==
  ASSUME PhaseTyped, NEW t \in Thread, NEW p, Enter(t, p),
         p \in IF t = Main THEN MainPhases ELSE GuestPhases
  PROVE  PhaseTyped' /\ phase'[t] = p /\ \A u \in Thread \ {t} : phase'[u] = phase[u]
<1>1. /\ phase' = [u \in Thread |-> phase'[u]] /\ phase'[t] = p
      /\ \A u \in Thread \ {t} : phase'[u] = phase[u]
  BY DEF PhaseTyped, Enter
<1>2. Main \in Thread
  BY LoaderAssumption
<1> QED
  BY <1>1, <1>2 DEF PhaseTyped

(* Where a thread that may call the memory map or load is.                  *)
LEMMA Calling ==
  ASSUME NEW t \in Thread, MayCall(t), CountOp, WellTyped
  PROVE  /\ phase[t] = (IF t = Main THEN "events" ELSE "run") /\ ~Loading(t) /\ Idle(t)
         /\ ops' \in 0..MaxOps
<1>1. ops \in 0..MaxOps /\ ops < MaxOps /\ MaxOps \in Nat
  BY LoaderAssumption DEF MayCall, WellTyped, LinkTyped
<1>2. ops' = ops + 1
  BY DEF CountOp
<1>3. ops' \in 0..MaxOps
  BY <1>1, <1>2
<1> QED
  BY <1>3 DEF MayCall

LinksStay == UNCHANGED <<graph, table, routines, maps, dllcalls, again, loadRaced, crashed>>

\* Nothing happens but in the memory map.
Still == LinksStay /\ stack' = stack /\ phase' = phase

\* A thread that loads nothing enters another phase.
Turns(t, p, q) ==
  /\ LinksStay /\ stack' = stack /\ ~Loading(t) /\ phase[t] = p /\ phase'[t] = q
  /\ \A u \in Thread \ {t} : phase'[u] = phase[u]

(* A step of the memory map leaves the loader alone.                        *)
LEMMA MemStill ==
  ASSUME WellTyped, NEW t \in Thread, MemStep(t) /\ UNCHANGED ldrVars
  PROVE  WellTyped' /\ Still
<1>1. MemTyped'
  BY MemStepTyped DEF WellTyped
<1>2. StackTyped' /\ PhaseTyped' /\ LinkTyped'
  BY StackTypedSame DEF WellTyped, ldrVars, PhaseTyped, LinkTyped
<1> QED
  BY <1>1, <1>2 DEF WellTyped, Still, LinksStay, ldrVars

(* So does a mapping for a new thread's stack.                              *)
LEMMA SetupMapStill ==
  ASSUME WellTyped, NEW t \in Thread, SetupMap(t)
  PROVE  WellTyped' /\ Still
<1>1. Still /\ owned' = owned /\ ops' = ops
  BY DEF SetupMap, Still, LinksStay, linkVars
<1>2. MemTyped'
  <2>1. PICK k : k = Len(place[t]) + 1
    OBVIOUS
  <2>2. Asks(t, "dynamic", 0, SetupSize[k], SetupProt[k])
    BY <2>1 DEF SetupMap, Asks
  <2>4. Len(place[t]) \in Nat /\ Len(place[t]) < 6
    BY DEF SetupMap, WellTyped, LinkTyped
  <2>3. CASE k \in 1..6
    <3>1. SetupSize[k] \in 1..Pages - 1 /\ SetupProt[k] \in Prot
      BY <2>3, PageCounts DEF SetupSize, SetupProt, Prot
    <3>2. PICK b \in Nat, op \in {"dynamic", "fixed", "unmap", "protect"} :
            b = 0 /\ op = "dynamic"
      OBVIOUS
    <3> QED
      BY <2>2, <3>1, <3>2, CallBegins DEF WellTyped
  <2> QED
    BY <2>1, <2>3, <2>4
<1>4. place' \in [Thread -> Seq(Nat)]
  <2>1. PICK b \in Nat : b = call[t].base
    BY NatCallShape DEF WellTyped
  <2>2. place \in [Thread -> Seq(Nat)] /\ place' = [place EXCEPT ![t] = Append(place[t], b)]
    BY <2>1 DEF SetupMap, WellTyped, LinkTyped
  <2>3. Append(place[t], b) \in Seq(Nat)
    BY <2>2
  <2> QED
    BY <2>2, <2>3
<1>3. StackTyped' /\ PhaseTyped' /\ LinkTyped'
  BY <1>1, <1>4, StackTypedSame DEF WellTyped, Still, LinksStay, PhaseTyped, LinkTyped
<1> QED
  BY <1>1, <1>2, <1>3 DEF WellTyped

(* So does the commit of a page of a reserved range.                        *)
LEMMA CommitStill ==
  ASSUME WellTyped, NEW t \in Thread, Commit(t)
  PROVE  WellTyped' /\ Still
<1>1. Still /\ owned' = owned /\ place' = place /\ ops' \in 0..MaxOps
  BY Calling DEF Commit, Still, LinksStay, linkVars
<1>2. MemTyped'
  <2>1. PICK u \in Thread : \E r \in owned[u] : \E k \in 0..r.size - 1, p \in {"N", "RW"} :
          Call(t, "fixed", r.base + k, 1, p)
    BY DEF Commit
  <2>2. PICK r \in owned[u] : \E k \in 0..r.size - 1, p \in {"N", "RW"} :
          Call(t, "fixed", r.base + k, 1, p)
    BY <2>1
  <2>3. r.base \in Nat
    BY <2>2 DEF WellTyped, LinkTyped, NatRegion
  <2>4. PICK k \in 0..r.size - 1, p \in {"N", "RW"} : Call(t, "fixed", r.base + k, 1, p)
    BY <2>2
  <2>5. PICK b \in Nat : b = r.base + k
    BY <2>3, <2>4
  <2>6. PICK op \in {"dynamic", "fixed", "unmap", "protect"} : op = "fixed"
    OBVIOUS
  <2>7. Asks(t, op, b, 1, p) /\ p \in Prot
    BY <2>4, <2>5, <2>6, CallAsks, PageCounts
  <2> QED
    BY <2>7, CallBegins DEF WellTyped
<1>3. StackTyped' /\ PhaseTyped' /\ LinkTyped'
  BY <1>1, StackTypedSame DEF WellTyped, Still, LinksStay, PhaseTyped, LinkTyped
<1> QED
  BY <1>1, <1>2, <1>3 DEF WellTyped

(* So does the release of a range.                                          *)
LEMMA ReleaseStill ==
  ASSUME WellTyped, NEW t \in Thread, Release(t)
  PROVE  WellTyped' /\ Still
<1>1. Still /\ place' = place /\ ops' \in 0..MaxOps
  BY Calling DEF Release, Still, LinksStay, linkVars
<1>2. PICK r \in owned[t] : /\ Call(t, "unmap", r.base, r.size, "N")
                            /\ owned' = [owned EXCEPT ![t] = owned[t] \ {r}]
  BY DEF Release
<1>3. r \in NatRegion /\ owned' \in [Thread -> SUBSET NatRegion]
  BY <1>2 DEF WellTyped, LinkTyped
<1>4. MemTyped'
  <2>1. r.base \in Nat /\ r.size \in Nat \ {0}
    BY <1>3 DEF NatRegion
  <2>2. PICK op \in {"dynamic", "fixed", "unmap", "protect"} : op = "unmap"
    OBVIOUS
  <2> QED
    BY <1>2, <2>1, <2>2, PageCounts, CallAsks, CallBegins DEF WellTyped
<1>5. StackTyped' /\ PhaseTyped' /\ LinkTyped'
  BY <1>1, <1>3, StackTypedSame DEF WellTyped, Still, LinksStay, PhaseTyped, LinkTyped
<1> QED
  BY <1>1, <1>4, <1>5 DEF WellTyped

\* What a step that turns has to show.
LEMMA TurnTyped ==
  ASSUME WellTyped, NEW t \in Thread, NEW p, MemTyped', LinksStay, stack' = stack, Enter(t, p),
         ~Loading(t), p \in IF t = Main THEN MainPhases ELSE GuestPhases,
         owned' \in [Thread -> SUBSET NatRegion], place' \in [Thread -> Seq(Nat)],
         ops' \in 0..MaxOps
  PROVE  WellTyped' /\ Turns(t, phase[t], p)
<1>1. PhaseTyped' /\ phase'[t] = p /\ \A u \in Thread \ {t} : phase'[u] = phase[u]
  BY PhaseTypedEnter DEF WellTyped
<1>2. StackTyped' /\ LinkTyped'
  BY StackTypedSame DEF WellTyped, LinksStay, LinkTyped
<1> QED
  BY <1>1, <1>2 DEF WellTyped, Turns

(* An allocation only takes the thread into its call.                       *)
LEMMA AllocatingTurns ==
  ASSUME WellTyped, NEW t \in Thread, MayCall(t), CountOp, Enter(t, "allocating"),
         LinksStay, stack' = stack, owned' = owned, place' = place,
         NEW op \in {"dynamic", "fixed"}, NEW b \in Nat, NEW n \in Nat \ {0}, NEW p \in Prot,
         Asks(t, op, b, n, p)
  PROVE  WellTyped' /\ Turns(t, IF t = Main THEN "events" ELSE "run", "allocating")
<1>1. /\ phase[t] = (IF t = Main THEN "events" ELSE "run") /\ ~Loading(t)
      /\ ops' \in 0..MaxOps
  BY Calling
<1>2. MemTyped'
  <2>1. op \in {"dynamic", "fixed", "unmap", "protect"}
    OBVIOUS
  <2> QED
    BY <2>1, CallBegins DEF WellTyped
<1>3. "allocating" \in IF t = Main THEN MainPhases ELSE GuestPhases
  BY DEF MainPhases, GuestPhases
<1>4. owned' \in [Thread -> SUBSET NatRegion] /\ place' \in [Thread -> Seq(Nat)]
  BY DEF WellTyped, LinkTyped
<1>5. WellTyped' /\ Turns(t, phase[t], "allocating")
  BY <1>1, <1>2, <1>3, <1>4, TurnTyped
<1> QED
  BY <1>1, <1>5

(* Where an allocation anywhere goes.                                       *)
LEMMA AllocateAsks ==
  ASSUME NEW t \in Thread, Allocate(t)
  PROVE  \E n \in Nat \ {0}, p \in Prot : Asks(t, "dynamic", 0, n, p)
<1>1. PICK n \in IF t = Main THEN {1} ELSE Sizes :
        \E w \in BOOLEAN : Request(t, "dynamic", 0, n, IF t = Main \/ n > 1 THEN "RW" ELSE "N", w,
                                   n >= Pages)
  BY DEF Allocate
<1>2. n \in Nat \ {0}
  BY <1>1, LoaderAssumption
<1>3. PICK p : p = IF t = Main \/ n > 1 THEN "RW" ELSE "N"
  OBVIOUS
<1>4. p \in Prot
  BY <1>3 DEF Prot
<1>5. PICK k : k = (n >= Pages)
  OBVIOUS
<1>7. k \in BOOLEAN
  BY <1>2, <1>5, MemoryAssumption
<1>6. Asks(t, "dynamic", 0, n, p)
  BY <1>1, <1>3, <1>5, <1>7 DEF Asks
<1> QED
  BY <1>2, <1>4, <1>6

(* Where one at an address goes.                                            *)
LEMMA AllocateAtAsks ==
  ASSUME NEW t \in Thread, AllocateAt(t)
  PROVE  \E b \in Nat, n \in Nat \ {0}, p \in Prot : Asks(t, "fixed", b, n, p)
<1>1. PICK a \in Asked : \E p \in {"N", "RW"}, w \in BOOLEAN :
        Request(t, "fixed", a.base, a.size, p, w, ~Free(a.base, a.size))
  BY DEF AllocateAt
<1>2. PICK p \in {"N", "RW"} : \E w \in BOOLEAN :
        Request(t, "fixed", a.base, a.size, p, w, ~Free(a.base, a.size))
  BY <1>1
<1>3. PICK b \in Nat, n \in Nat \ {0} : b = a.base /\ n = a.size
  BY LoaderAssumption
<1>4. PICK k \in BOOLEAN : k = ~Free(b, n)
  OBVIOUS
<1>5. Asks(t, "fixed", b, n, p) /\ p \in Prot
  BY <1>2, <1>3, <1>4 DEF Asks, Prot
<1> QED
  BY <1>5

(* Allocate only takes the thread into its call.                            *)
LEMMA AllocateTurns ==
  ASSUME WellTyped, NEW t \in Thread, Allocate(t)
  PROVE  WellTyped' /\ Turns(t, IF t = Main THEN "events" ELSE "run", "allocating")
<1>1. /\ MayCall(t) /\ CountOp /\ Enter(t, "allocating")
      /\ LinksStay /\ stack' = stack /\ owned' = owned /\ place' = place
  BY DEF Allocate, LinksStay, linkVars
<1>2. PICK n \in Nat \ {0}, p \in Prot : Asks(t, "dynamic", 0, n, p)
  BY AllocateAsks
<1>3. PICK op \in {"dynamic", "fixed"}, b \in Nat : op = "dynamic" /\ b = 0
  OBVIOUS
<1> QED
  BY <1>1, <1>2, <1>3, AllocatingTurns

(* So does AllocateAt.                                                      *)
LEMMA AllocateAtTurns ==
  ASSUME WellTyped, NEW t \in Thread, AllocateAt(t)
  PROVE  WellTyped' /\ Turns(t, IF t = Main THEN "events" ELSE "run", "allocating")
<1>1. /\ MayCall(t) /\ CountOp /\ Enter(t, "allocating")
      /\ LinksStay /\ stack' = stack /\ owned' = owned /\ place' = place
  BY DEF AllocateAt, LinksStay, linkVars
<1>2. PICK b \in Nat, n \in Nat \ {0}, p \in Prot : Asks(t, "fixed", b, n, p)
  BY AllocateAtAsks
<1>3. PICK op \in {"dynamic", "fixed"} : op = "fixed"
  OBVIOUS
<1> QED
  BY <1>1, <1>2, <1>3, AllocatingTurns

(* Allocated only takes it back.                                            *)
LEMMA AllocatedTurns ==
  ASSUME WellTyped, Alive, NEW t \in Thread, Allocated(t)
  PROVE  WellTyped' /\ Turns(t, "allocating", IF t = Main THEN "events" ELSE "run")
<1>1. phase[t] = "allocating" /\ ~Loading(t)
  BY DEF Allocated, Alive, LoadPhases, Module
<1>2. /\ LinksStay /\ stack' = stack /\ place' = place /\ ops' = ops
      /\ Enter(t, IF t = Main THEN "events" ELSE "run")
  BY DEF Allocated, LinksStay, linkVars
<1>3. MemTyped'
  BY MemTypedSame DEF Allocated, WellTyped
<1>4. owned' \in [Thread -> SUBSET NatRegion]
  BY DEF Allocated, WellTyped, LinkTyped, MemTyped
<1>5. (IF t = Main THEN "events" ELSE "run") \in IF t = Main THEN MainPhases ELSE GuestPhases
  BY DEF MainPhases, GuestPhases
<1>6. place' \in [Thread -> Seq(Nat)] /\ ops' \in 0..MaxOps
  BY <1>2 DEF WellTyped, LinkTyped
<1>7. PICK q : q = (IF t = Main THEN "events" ELSE "run")
  OBVIOUS
<1>8. WellTyped' /\ Turns(t, phase[t], q)
  BY <1>1, <1>2, <1>3, <1>4, <1>5, <1>6, <1>7, TurnTyped
<1> QED
  BY <1>1, <1>7, <1>8

(* SetupDone takes a new thread into the guest.                             *)
LEMMA SetupDoneTurns ==
  ASSUME WellTyped, Alive, NEW t \in Thread, SetupDone(t)
  PROVE  WellTyped' /\ Turns(t, "setup", IF t = First THEN "dll entries" ELSE "run")
<1>1. phase[t] = "setup" /\ ~Loading(t) /\ t # Main
  BY DEF SetupDone, Alive, LoadPhases, Module, WellTyped, PhaseTyped, MainPhases, StartPhases
<1>2. /\ LinksStay /\ stack' = stack /\ owned' = owned /\ ops' = ops
      /\ Enter(t, IF t = First THEN "dll entries" ELSE "run")
  BY DEF SetupDone, LinksStay, linkVars
<1>3. MemTyped'
  BY MemTypedSame DEF SetupDone, WellTyped
<1>4. place' \in [Thread -> Seq(Nat)]
  <2>1. PICK b \in Nat : b = call[t].base
    BY NatCallShape DEF WellTyped
  <2>2. place \in [Thread -> Seq(Nat)] /\ place' = [place EXCEPT ![t] = Append(place[t], b)]
    BY <2>1 DEF SetupDone, WellTyped, LinkTyped
  <2>3. Append(place[t], b) \in Seq(Nat)
    BY <2>2
  <2> QED
    BY <2>2, <2>3
<1>5. (IF t = First THEN "dll entries" ELSE "run") \in IF t = Main THEN MainPhases ELSE GuestPhases
  BY <1>1 DEF GuestPhases
<1>6. owned' \in [Thread -> SUBSET NatRegion] /\ ops' \in 0..MaxOps
  BY <1>2 DEF WellTyped, LinkTyped
<1>7. PICK q : q = (IF t = First THEN "dll entries" ELSE "run")
  OBVIOUS
<1>8. WellTyped' /\ Turns(t, phase[t], q)
  BY <1>1, <1>2, <1>3, <1>4, <1>5, <1>6, <1>7, TurnTyped
<1> QED
  BY <1>1, <1>7, <1>8

(* MapParameters takes the main thread on.                                  *)
LEMMA MapParametersTurns ==
  ASSUME WellTyped, Alive, MapParameters
  PROVE  /\ WellTyped' /\ Main \in Thread
         /\ \/ Turns(Main, "init list", "command line")
            \/ Turns(Main, "command line", "start thread")
<1>1. /\ Main \in Thread /\ phase[Main] \in {"init list", "command line"} /\ ~Loading(Main)
  BY LoaderAssumption DEF MapParameters, Alive, LoadPhases, Module
<1>2. PICK q : q = (IF phase[Main] = "init list" THEN "command line" ELSE "start thread")
  OBVIOUS
<1>3. /\ LinksStay /\ stack' = stack /\ owned' = owned /\ ops' = ops /\ place' = place
      /\ Enter(Main, q)
  BY <1>2 DEF MapParameters, LinksStay, linkVars, progVars
<1>4. MemTyped'
  <2>1. PICK b \in Nat, op \in {"dynamic", "fixed", "unmap", "protect"} :
          b = 0 /\ op = "dynamic"
    OBVIOUS
  <2>2. Call(Main, op, b, 1, "RW")
    BY <2>1 DEF MapParameters
  <2>3. Asks(Main, op, b, 1, "RW") /\ 1 \in Nat \ {0} /\ "RW" \in Prot
    BY <2>2, CallAsks, PageCounts
  <2> QED
    BY <1>1, <2>3, CallBegins DEF WellTyped
<1>5. q \in IF Main = Main THEN MainPhases ELSE GuestPhases
  BY <1>2 DEF MainPhases, StartPhases
<1>6. /\ owned' \in [Thread -> SUBSET NatRegion] /\ ops' \in 0..MaxOps
      /\ place' \in [Thread -> Seq(Nat)]
  BY <1>3 DEF WellTyped, LinkTyped
<1>7. WellTyped' /\ Turns(Main, phase[Main], q)
  BY <1>1, <1>3, <1>4, <1>5, <1>6, TurnTyped
<1> QED
  BY <1>1, <1>2, <1>7

(* Created takes the creator back into the program.                         *)
LEMMA CreatedTurns ==
  ASSUME WellTyped, Alive, Created
  PROVE  WellTyped' /\ First \in Thread /\ Turns(First, "creating", "run")
<1>1. First \in Thread /\ First # Main /\ phase[First] = "creating" /\ ~Loading(First)
  BY LoaderAssumption DEF Created, Alive, LoadPhases, Module
<1>2. /\ LinksStay /\ stack' = stack /\ owned' = owned /\ ops' = ops /\ place' = place
      /\ Enter(First, "run")
  BY DEF Created, LinksStay, linkVars, progVars
<1>3. MemTyped'
  BY MemTypedSame DEF Created, WellTyped
<1>4. "run" \in IF First = Main THEN MainPhases ELSE GuestPhases
  BY <1>1 DEF GuestPhases
<1>5. /\ owned' \in [Thread -> SUBSET NatRegion] /\ ops' \in 0..MaxOps
      /\ place' \in [Thread -> Seq(Nat)]
  BY <1>2 DEF WellTyped, LinkTyped
<1>6. WellTyped' /\ Turns(First, phase[First], "run")
  BY <1>1, <1>2, <1>3, <1>4, <1>5, TurnTyped
<1> QED
  BY <1>1, <1>6

\* One thread starts another.
Starts(s, t, q) ==
  /\ LinksStay /\ stack' = stack /\ s # t /\ ~Loading(s) /\ ~Loading(t)
  /\ phase'[s] = q /\ phase[t] = "unborn" /\ phase'[t] = "setup"
  /\ \A u \in Thread \ {s, t} : phase'[u] = phase[u]

(* StartThread starts the initial thread.                                   *)
LEMMA StartThreadStarts ==
  ASSUME WellTyped, Alive, StartThread
  PROVE  /\ WellTyped' /\ {Main, First} \subseteq Thread /\ phase[Main] = "start thread"
         /\ Starts(Main, First, "events")
<1>1. /\ {Main, First} \subseteq Thread /\ First # Main /\ phase[Main] = "start thread"
      /\ ~Loading(Main) /\ phase[First] = "unborn" /\ ~Loading(First)
  BY LoaderAssumption DEF StartThread, Alive, LoadPhases, Module, StartPhases
<1>2. /\ LinksStay /\ stack' = stack /\ owned' = owned /\ ops' = ops /\ place' = place
      /\ phase' = [phase EXCEPT ![Main] = "events", ![First] = "setup"]
  BY DEF StartThread, LinksStay, linkVars, progVars
<1>3. /\ phase' = [u \in Thread |-> phase'[u]] /\ phase'[Main] = "events"
      /\ phase'[First] = "setup" /\ \A u \in Thread \ {Main, First} : phase'[u] = phase[u]
  BY <1>1, <1>2 DEF WellTyped, PhaseTyped
<1>4. PhaseTyped'
  <2>1. "events" \in MainPhases /\ "setup" \in GuestPhases
    BY DEF MainPhases, GuestPhases
  <2> QED
    BY <1>1, <1>3, <2>1 DEF WellTyped, PhaseTyped
<1>5. MemTyped' /\ StackTyped' /\ LinkTyped'
  BY <1>2, MemTypedSame, StackTypedSame DEF StartThread, WellTyped, LinksStay, LinkTyped
<1> QED
  BY <1>1, <1>2, <1>3, <1>4, <1>5 DEF WellTyped, Starts

(* CreateThread starts the second one.                                      *)
LEMMA CreateThreadStarts ==
  ASSUME WellTyped, Alive, CreateThread
  PROVE  /\ WellTyped' /\ {First, Second} \subseteq Thread /\ Second # Main /\ phase[First] = "run"
         /\ Starts(First, Second, "creating")
<1>1. /\ {First, Second} \subseteq Thread /\ First # Main /\ Second # Main
      /\ phase[First] = "run" /\ ~Loading(First) /\ phase[Second] = "unborn" /\ ~Loading(Second)
      /\ First # Second
  BY LoaderAssumption DEF CreateThread, MayCall, Alive, LoadPhases, Module
<1>2. /\ LinksStay /\ stack' = stack /\ owned' = owned /\ ops' = ops /\ place' = place
      /\ phase' = [phase EXCEPT ![First] = "creating", ![Second] = "setup"]
  BY DEF CreateThread, LinksStay, linkVars, progVars
<1>3. /\ phase' = [u \in Thread |-> phase'[u]] /\ phase'[First] = "creating"
      /\ phase'[Second] = "setup" /\ \A u \in Thread \ {First, Second} : phase'[u] = phase[u]
  BY <1>1, <1>2 DEF WellTyped, PhaseTyped
<1>4. PhaseTyped'
  <2>1. "creating" \in GuestPhases /\ "setup" \in GuestPhases /\ Main \in Thread
    BY LoaderAssumption DEF GuestPhases
  <2> QED
    BY <1>1, <1>3, <2>1 DEF WellTyped, PhaseTyped
<1>5. MemTyped' /\ StackTyped' /\ LinkTyped'
  BY <1>2, MemTypedSame, StackTypedSame DEF CreateThread, WellTyped, LinksStay, LinkTyped
<1> QED
  BY <1>1, <1>2, <1>3, <1>4, <1>5 DEF WellTyped, Starts


\* The executable is loaded, init.dll is next.
InitNext ==
  /\ LinksStay /\ ~Loading(Main) /\ phase[Main] = "load exe" /\ phase'[Main] = "load init"
  /\ \A u \in Thread \ {Main} : phase'[u] = phase[u]
  /\ Begun(Main, "init", "init" \notin table)

(* LoadInit begins with init.dll unless it is in the table.                 *)
LEMMA LoadInitNext ==
  ASSUME WellTyped, LoadInit
  PROVE  WellTyped' /\ Main \in Thread /\ InitNext
<1>1. /\ Main \in Thread /\ phase[Main] = "load exe" /\ ~Loading(Main) /\ "init" \in Module
  BY LoaderAssumption DEF LoadInit, Module
<1>2. /\ LinksStay /\ owned' = owned /\ ops' = ops /\ place' = place /\ Enter(Main, "load init")
  BY DEF LoadInit, LinksStay, linkVars, progVars
<1>3. MemTyped'
  BY MemTypedSame DEF LoadInit, WellTyped
<1>4. "load init" \in IF Main = Main THEN MainPhases ELSE GuestPhases
  BY DEF MainPhases, StartPhases
<1>5. PhaseTyped' /\ phase'[Main] = "load init" /\ \A u \in Thread \ {Main} : phase'[u] = phase[u]
  BY <1>1, <1>2, <1>4, PhaseTypedEnter DEF WellTyped
<1>6. StackTyped' /\ Begun(Main, "init", "init" \notin table)
  <2>1. PICK new \in BOOLEAN : new <=> "init" \notin table
    OBVIOUS
  <2>2. stack' = [stack EXCEPT ![Main] = IF new THEN <<Frame("init")>> ELSE <<>>]
    BY <2>1 DEF LoadInit
  <2>3. StackTyped' /\ Begun(Main, "init", new)
    BY <1>1, <2>2, StackBegun DEF WellTyped
  <2> QED
    BY <2>1, <2>3 DEF Begun
<1>7. LinkTyped'
  BY <1>2 DEF WellTyped, LinkTyped, LinksStay
<1> QED
  BY <1>1, <1>2, <1>3, <1>5, <1>6, <1>7 DEF WellTyped, InitNext

\* Its routine is erased.
Erased ==
  /\ UNCHANGED <<graph, stack, table, maps, dllcalls, again, loadRaced, crashed>>
  /\ ~Loading(Main) /\ phase[Main] = "load init" /\ phase'[Main] = "init list"
  /\ \A u \in Thread \ {Main} : phase'[u] = phase[u]
  /\ routines' \in Seq(Module) /\ Len(routines') = Len(routines) - 1 /\ Len(routines) > 0
  /\ \A k \in 1..Len(routines') : routines'[k] = routines[k]

(* EraseLast shortens the list of entry points by its last.                 *)
LEMMA EraseLastErases ==
  ASSUME WellTyped, Started, EraseLast
  PROVE  WellTyped' /\ Main \in Thread /\ Erased
<1>1. Main \in Thread /\ phase[Main] = "load init" /\ ~Loading(Main)
  BY LoaderAssumption DEF EraseLast
<1>2. /\ UNCHANGED <<graph, stack, table, maps, dllcalls, again, loadRaced, crashed, owned, ops,
                     place>>
      /\ Enter(Main, "init list")
  BY DEF EraseLast, progVars
<1>3. Len(routines) > 0 /\ routines \in Seq(Module)
  <2>1. Early
    BY <1>1 DEF Started, Alive, StartPhases, Early, EarlyPhases
  <2> QED
    BY <1>1, <2>1 DEF Started, Listed, InitLast, WellTyped, LinkTyped
<1>4. /\ routines' \in Seq(Module) /\ Len(routines') = Len(routines) - 1
      /\ \A k \in 1..Len(routines') : routines'[k] = routines[k]
  <2>1. PICK q \in Seq(Module), n \in Nat : q = routines /\ n = Len(q) - 1 /\ n >= 0
    BY <1>3
  <2>2. 1 \in 1..Len(q) + 1 /\ n \in 1 - 1..Len(q)
    BY <2>1
  <2>3. /\ SubSeq(q, 1, n) \in Seq(Module) /\ Len(SubSeq(q, 1, n)) = n
        /\ \A k \in 1..n : SubSeq(q, 1, n)[k] = q[k]
    BY <2>1, <2>2, SubSeqProperties
  <2>4. routines' = SubSeq(q, 1, n)
    BY <2>1 DEF EraseLast
  <2> QED
    BY <2>1, <2>3, <2>4
<1>5. MemTyped' /\ StackTyped'
  BY <1>2, MemTypedSame, StackTypedSame DEF EraseLast, WellTyped
<1>6. "init list" \in IF Main = Main THEN MainPhases ELSE GuestPhases
  BY DEF MainPhases, StartPhases
<1>7. PhaseTyped' /\ phase'[Main] = "init list" /\ \A u \in Thread \ {Main} : phase'[u] = phase[u]
  BY <1>1, <1>2, <1>6, PhaseTypedEnter DEF WellTyped
<1>8. LinkTyped'
  BY <1>2, <1>4 DEF WellTyped, LinkTyped
<1> QED
  BY <1>1, <1>2, <1>3, <1>4, <1>5, <1>7, <1>8 DEF WellTyped, Erased

\* A thread calls an entry point.
Calls(t, m, p) ==
  /\ UNCHANGED <<graph, stack, table, routines, maps, again, loadRaced, crashed>>
  /\ ~Loading(t) /\ phase'[t] = p /\ \A u \in Thread \ {t} : phase'[u] = phase[u]
  /\ dllcalls' \in Seq(Module) /\ Len(dllcalls') = Len(dllcalls) + 1
  /\ dllcalls'[Len(dllcalls) + 1] = m
  /\ \A k \in 1..Len(dllcalls) : dllcalls'[k] = dllcalls[k]

(* The calls made so far and the list of entry points.                      *)
LEMMA CallsShape ==
  ASSUME WellTyped
  PROVE  /\ dllcalls \in Seq(Module) /\ Len(dllcalls) \in Nat /\ DOMAIN dllcalls = 1..Len(dllcalls)
         /\ routines \in Seq(Module) /\ Len(routines) \in Nat /\ DOMAIN routines = 1..Len(routines)
         /\ \A k \in 1..Len(dllcalls) : dllcalls[k] \in Module
         /\ \A k \in 1..Len(routines) : routines[k] \in Module
BY DEF WellTyped, LinkTyped

(* The call of an entry point keeps the types.                              *)
LEMMA CallTypedAppend ==
  ASSUME WellTyped, NEW t \in Thread, NEW m \in Module, NEW p,
         MemTyped', dllcalls' = Append(dllcalls, m), Enter(t, p), ~Loading(t),
         p \in IF t = Main THEN MainPhases ELSE GuestPhases,
         UNCHANGED <<graph, stack, table, routines, maps, again, loadRaced, crashed, owned, ops,
                     place>>
  PROVE  WellTyped' /\ Calls(t, m, p)
<1>1. PhaseTyped' /\ phase'[t] = p /\ \A u \in Thread \ {t} : phase'[u] = phase[u]
  BY PhaseTypedEnter DEF WellTyped
<1>2. /\ dllcalls' \in Seq(Module) /\ Len(dllcalls') = Len(dllcalls) + 1
      /\ dllcalls'[Len(dllcalls) + 1] = m
      /\ \A k \in 1..Len(dllcalls) : dllcalls'[k] = dllcalls[k]
  BY CallsShape, AppendProperties
<1>3. StackTyped' /\ LinkTyped'
  BY <1>2, StackTypedSame DEF WellTyped, LinkTyped
<1> QED
  BY <1>1, <1>2, <1>3 DEF WellTyped, Calls

(* DllEntry calls the next entry point of the list or enters the program.   *)
LEMMA DllEntryCalls ==
  ASSUME WellTyped, Alive, DllEntry
  PROVE  /\ WellTyped' /\ First \in Thread /\ phase[First] = "dll entries"
         /\ \/ /\ Len(dllcalls) + 1 <= Len(routines)
               /\ Calls(First, routines[Len(dllcalls) + 1], "dll entries")
            \/ /\ Len(dllcalls) + 1 > Len(routines)
               /\ Turns(First, "dll entries", "run")
<1>1. First \in Thread /\ First # Main /\ phase[First] = "dll entries" /\ ~Loading(First)
  BY LoaderAssumption DEF DllEntry, Alive, LoadPhases, Module
<1>2. UNCHANGED <<graph, stack, table, routines, maps, again, loadRaced, crashed, owned, ops, place>>
  BY DEF DllEntry, linkVars
<1>3. MemTyped'
  BY MemTypedSame DEF DllEntry, WellTyped
<1>4. {"dll entries", "run"} \subseteq IF First = Main THEN MainPhases ELSE GuestPhases
  BY <1>1 DEF GuestPhases
<1>5. CASE Len(dllcalls) + 1 <= Len(routines)
  <2>1. Len(dllcalls) + 1 \in 1..Len(routines)
    BY <1>5, CallsShape
  <2>2. PICK m \in Module : m = routines[Len(dllcalls) + 1]
    BY <2>1, CallsShape
  <2>3. dllcalls' = Append(dllcalls, m) /\ phase' = phase
    BY <1>5, <2>2 DEF DllEntry, NextRoutine
  <2>4. Enter(First, "dll entries")
    BY <1>1, <2>3 DEF Enter, WellTyped, PhaseTyped
  <2>5. WellTyped' /\ Calls(First, m, "dll entries")
    BY <1>1, <1>2, <1>3, <1>4, <2>3, <2>4, CallTypedAppend
  <2> QED
    BY <1>1, <1>5, <2>2, <2>5
<1>6. CASE Len(dllcalls) + 1 > Len(routines)
  <2>1. ~(Len(dllcalls) + 1 <= Len(routines))
    BY <1>6, CallsShape
  <2>2. Enter(First, "run") /\ dllcalls' = dllcalls
    BY <2>1 DEF DllEntry, NextRoutine
  <2>3. /\ owned' \in [Thread -> SUBSET NatRegion] /\ ops' \in 0..MaxOps
        /\ place' \in [Thread -> Seq(Nat)] /\ LinksStay
    BY <1>2, <2>2 DEF WellTyped, LinkTyped, LinksStay
  <2>4. WellTyped' /\ Turns(First, phase[First], "run")
    BY <1>1, <1>2, <1>3, <1>4, <2>2, <2>3, TurnTyped
  <2> QED
    BY <1>1, <1>6, <2>4
<1>7. PICK n \in Nat, k \in Nat : n = Len(routines) /\ k = Len(dllcalls)
  BY CallsShape
<1>8. k + 1 <= n \/ k + 1 > n
  OBVIOUS
<1> QED
  BY <1>5, <1>6, <1>7, <1>8

\* The program loads a library, by its name or with a directory.
Libs(t, m) ==
  /\ UNCHANGED <<graph, table, routines, maps, dllcalls, crashed>>
  /\ t # Main /\ m \in Libraries /\ ~Loading(t) /\ phase[t] = "run" /\ phase'[t] = m
  /\ \A u \in Thread \ {t} : phase'[u] = phase[u]
  /\ again' \in {again, again \cup {m}} /\ (m \in table => m \in again')
  /\ loadRaced' = (loadRaced \/ \E u \in Thread \ {t} : Loading(u))
  /\ Begun(t, m, m \notin table)

(* LoadLibrary begins a load, or finds the library in the table.            *)
LEMMA LoadLibraryLibs ==
  ASSUME WellTyped, NEW t \in Thread, LoadLibrary(t)
  PROVE  WellTyped' /\ \E m \in Module : Libs(t, m)
<1>1. t # Main /\ phase[t] = "run" /\ ~Loading(t) /\ ops' \in 0..MaxOps
  BY Calling DEF LoadLibrary
<1>2. PICK m \in Libraries, path \in BOOLEAN :
        /\ m \notin table \/ path
        /\ again' = IF path THEN again \cup {m} ELSE again
        /\ stack' = [stack EXCEPT ![t] = IF m \in table THEN <<>> ELSE <<Frame(m)>>]
        /\ Enter(t, m)
        /\ loadRaced' = (loadRaced \/ \E u \in Thread \ {t} : Loading(u))
  BY DEF LoadLibrary, Libraries
<1>3. UNCHANGED <<graph, table, routines, maps, dllcalls, crashed, owned, place>>
  BY DEF LoadLibrary, linkVars
<1>4. MemTyped'
  BY MemTypedSame DEF LoadLibrary, WellTyped
<1>5. m \in Module /\ m \in IF t = Main THEN MainPhases ELSE GuestPhases
  BY <1>1 DEF Libraries, GuestPhases
<1>6. PhaseTyped' /\ phase'[t] = m /\ \A u \in Thread \ {t} : phase'[u] = phase[u]
  BY <1>2, <1>5, PhaseTypedEnter DEF WellTyped
<1>7. StackTyped' /\ Begun(t, m, m \notin table)
  <2>1. PICK new \in BOOLEAN : new <=> m \notin table
    OBVIOUS
  <2>2. stack' = [stack EXCEPT ![t] = IF new THEN <<Frame(m)>> ELSE <<>>]
    BY <1>2, <2>1
  <2>3. StackTyped' /\ Begun(t, m, new)
    BY <1>5, <2>2, StackBegun DEF WellTyped
  <2> QED
    BY <2>1, <2>3 DEF Begun
<1>8. LinkTyped'
  BY <1>1, <1>3 DEF WellTyped, LinkTyped
<1>9. again' \in {again, again \cup {m}} /\ (m \in table => m \in again')
  BY <1>2
<1>10. Libs(t, m)
  BY <1>1, <1>2, <1>3, <1>6, <1>7, <1>9 DEF Libs
<1> QED
  BY <1>4, <1>5, <1>6, <1>7, <1>8, <1>10 DEF WellTyped

\* A library without an entry point is called, or one whose DllMain fails.
NoEntry(t) ==
  /\ UNCHANGED <<graph, stack, phase, table, routines, maps, dllcalls, again, loadRaced>>
  /\ phase[t] \in Module \ (graph.dllmain \ graph.refuses)

(* LibraryEntry calls the entry point of the library, if it has one.        *)
LEMMA LibraryEntryCalls ==
  ASSUME WellTyped, NEW t \in Thread, LibraryEntry(t)
  PROVE  /\ WellTyped' /\ phase[t] \in Libraries /\ t # Main
         /\ NoEntry(t) \/ Calls(t, phase[t], "run")
<1>1. phase[t] \in Module /\ ~Loading(t)
  BY DEF LibraryEntry
<1>2. phase[t] \in Libraries /\ t # Main
  BY <1>1 DEF WellTyped, PhaseTyped, MainPhases, StartPhases, GuestPhases, Module, Libraries
<1>3. UNCHANGED <<graph, stack, table, routines, maps, again, loadRaced, owned, ops, place>>
  BY DEF LibraryEntry, linkVars
<1>4. MemTyped'
  BY MemTypedSame DEF LibraryEntry, WellTyped
<1>5. CASE phase[t] \in graph.dllmain \ graph.refuses
  <2>1. PICK m \in Module : m = phase[t]
    BY <1>1
  <2>2. dllcalls' = Append(dllcalls, m) /\ Enter(t, "run") /\ UNCHANGED crashed
    BY <1>5, <2>1 DEF LibraryEntry
  <2>3. "run" \in IF t = Main THEN MainPhases ELSE GuestPhases
    BY <1>2 DEF GuestPhases
  <2>4. WellTyped' /\ Calls(t, m, "run")
    BY <1>1, <1>3, <1>4, <2>2, <2>3, CallTypedAppend
  <2> QED
    BY <1>2, <2>1, <2>4
<1>6. CASE phase[t] \notin graph.dllmain \ graph.refuses
  <2>1. dllcalls' = dllcalls /\ phase' = phase
    BY <1>6 DEF LibraryEntry
  <2>2. StackTyped' /\ PhaseTyped' /\ LinkTyped'
    BY <1>3, <2>1, StackTypedSame DEF WellTyped, PhaseTyped, LinkTyped
  <2>3. NoEntry(t)
    BY <1>1, <1>3, <1>6, <2>1 DEF NoEntry
  <2> QED
    BY <1>2, <1>4, <2>2, <2>3 DEF WellTyped
<1> QED
  BY <1>5, <1>6


-----------------------------------------------------------------------------
\* What is linked: an activation waits for the one above it.

(* An activation that nothing has changed still waits.                      *)
LEMMA WaitsSame ==
  ASSUME graph' = graph, table \subseteq table', NEW t \in Thread, NEW k,
         stack'[t] = stack[t], Loading(t) => Root(phase[t])' = Root(phase[t]), Loading(t),
         Waits(t, k)
  PROVE  Waits(t, k)'
BY ImportsSame DEF Waits

(* Links hold as long as files, activations and table are what they were.   *)
LEMMA LinkedSame ==
  ASSUME Linked, UNCHANGED <<graph, stack, table>>,
         \A t \in Thread : Loading(t) => phase'[t] = phase[t]
  PROVE  Linked'
<1>1. Closed(graph, table)'
  BY DEF Linked, Closed, Direct
<1>2. ASSUME NEW t \in Thread, NEW k \in DOMAIN stack[t], Loading(t) PROVE Waits(t, k)'
  BY <1>2, WaitsSame DEF Linked, Root
<1>3. ASSUME NEW t \in Thread, ~Loading(t), NEW k \in DOMAIN stack[t] PROVE FALSE
  BY <1>3 DEF Loading
<1> QED
  BY <1>1, <1>2, <1>3 DEF Linked

(* The other threads' activations wait as they did.                         *)
LEMMA OthersWait ==
  ASSUME StackTyped, Linked, graph' = graph, table \subseteq table', NEW t \in Thread,
         \A u \in Thread \ {t} : stack'[u] = stack[u] /\ phase'[u] = phase[u],
         \A k \in DOMAIN stack'[t] : Waits(t, k)', Closed(graph, table)'
  PROVE  Linked'
<1>1. ASSUME NEW u \in Thread \ {t}, NEW k \in DOMAIN stack'[u] PROVE Waits(u, k)'
  <2>1. Loading(u)
    BY <1>1 DEF Loading
  <2>2. Waits(u, k)
    BY <1>1 DEF Linked
  <2> QED
    BY <2>1, <2>2, WaitsSame DEF Root
<1> QED
  BY <1>1 DEF Linked

(* They hold when the innermost activation goes on.                         *)
LEMMA MovesLinked ==
  ASSUME WellTyped, Linked, NEW t \in Thread, Moves(t), StackTyped'
  PROVE  Linked'
<1>1. PICK f \in NatFrame :
       /\ Moved(t, f) /\ f.mod = Top(t).mod
       /\ f.step = "import" => \A n \in DOMAIN graph.imports[f.mod] :
                                  n < f.i => graph.imports[f.mod][n] \in table
       /\ f.step = "protect" => Direct(graph, f.mod) \subseteq table
  BY DEF Moves
<1>2. graph' = graph /\ table' = table /\ phase' = phase /\ Loading(t) /\ StackTyped
  BY DEF Moves, Quiet, WellTyped
<1>3. /\ DOMAIN stack[t] = 1..Depth(t) /\ DOMAIN stack'[t] = 1..Depth(t) /\ Depth(t) \in Nat
      /\ Top(t) = stack[t][1] /\ Depth(t) >= 1
  BY <1>1, <1>2, TopModule, StackShape, ModuleCount DEF Depth, Moved
<1>4. /\ stack'[t][1] = f /\ \A k \in 2..Depth(t) : stack'[t][k] = stack[t][k]
      /\ Len(stack'[t]) = Depth(t) /\ Len(stack[t]) = Depth(t)
  BY <1>1 DEF Moved, Depth
<1>5. \A k \in 1..Depth(t) : stack'[t][k].mod = stack[t][k].mod
  BY <1>1, <1>3, <1>4
<1>6. ASSUME NEW k \in 1..Depth(t) PROVE Waits(t, k)'
  <2>1. Waits(t, k)
    BY <1>3, <1>6 DEF Linked
  <2>2. k > 1 => k - 1 \in 1..Depth(t) /\ \A j \in 1..k - 1 : j \in 1..Depth(t)
    BY <1>3, <1>6
  <2>3. CASE k = 1
    <3>1. f.mod = stack[t][1].mod /\ ~(k > 1) /\ \A j \in 1..k - 1 : FALSE
      BY <1>1, <1>3, <2>3
    <3>2. k = Len(stack[t]) => f.mod = Root(phase[t])
      BY <2>1, <2>3, <3>1 DEF Waits
    <3> QED
      BY <1>1, <1>2, <1>4, <2>3, <3>1, <3>2 DEF Waits, Root
  <2>4. CASE k # 1
    <3>1. stack'[t][k] = stack[t][k] /\ stack'[t][k - 1].mod = stack[t][k - 1].mod
      BY <1>4, <1>5, <1>6, <2>2, <2>4
    <3>2. \A j \in 1..k - 1 : stack'[t][j].mod \in Imports(stack[t][k].mod)
      BY <1>5, <1>6, <2>1, <2>2, <2>4 DEF Waits
    <3> QED
      BY <1>2, <1>4, <2>1, <3>1, <3>2, ImportsSame DEF Waits, Root
  <2> QED
    BY <2>3, <2>4
<1>7. \A u \in Thread \ {t} : stack'[u] = stack[u] /\ phase'[u] = phase[u]
  BY <1>1, <1>2 DEF Moved
<1>8. Closed(graph, table)'
  BY <1>2 DEF Linked, Closed, Direct
<1> QED
  BY <1>2, <1>3, <1>6, <1>7, <1>8, OthersWait

(* They hold when an import's activation begins: the importer waits for it. *)
LEMMA PushesLinked ==
  ASSUME WellTyped, Linked, NEW t \in Thread, Pushes(t), StackTyped'
  PROVE  Linked'
<1>1. PICK dep \in Module : Wants(t, dep) /\ Pushed(t, Frame(dep))
  BY DEF Pushes
<1>2. /\ graph' = graph /\ table' = table /\ phase' = phase /\ Loading(t) /\ StackTyped
      /\ graph \in Graphs
  BY <1>1 DEF Wants, Quiet, WellTyped, LinkTyped
<1>3. PICK n \in Nat : n = Depth(t) /\ n >= 1 /\ DOMAIN stack[t] = 1..n
                       /\ Top(t) = stack[t][1] /\ Len(stack[t]) = n
  BY <1>2, TopModule, ModuleCount DEF Depth
<1>4. /\ Depth(t)' = n + 1 /\ DOMAIN stack'[t] = 1..n + 1 /\ Len(stack'[t]) = n + 1
      /\ stack'[t][1].mod = dep /\ stack'[t][1].step = "reserve"
      /\ \A k \in 1..n : stack'[t][k + 1] = stack[t][k]
  <2>1. Depth(t)' = n + 1 /\ stack'[t][1] = Frame(dep)
        /\ \A k \in 1..n : stack'[t][k + 1] = stack[t][k]
    BY <1>1, <1>3 DEF Pushed
  <2>2. stack'[t] \in Seq(NatFrame)
    BY DEF StackTyped
  <2> QED
    BY <2>1, <2>2 DEF Depth, Frame
<1>5. dep \in Direct(graph, Top(t).mod) /\ Top(t).mod \in Module
  BY <1>1, <1>2, TopModule DEF Wants, Direct
<1>6. ASSUME NEW k \in 1..n + 1 PROVE Waits(t, k)'
  <2>1. CASE k = 1
    <3>1. ~(k > 1) /\ (\A j \in 1..k - 1 : FALSE) /\ k # Len(stack'[t])
      BY <1>3, <1>4, <2>1
    <3> QED
      BY <1>4, <2>1, <3>1 DEF Waits
  <2>2. CASE k # 1
    <3>1. PICK i \in 1..n : k = i + 1
      BY <1>3, <2>2
    <3>2. stack'[t][k] = stack[t][i] /\ Waits(t, i) /\ stack[t][i].mod \in Module
      <4>1. stack[t][i].mod \in Module
        BY <1>2, <1>3, <3>1, StackShape
      <4> QED
        BY <1>3, <1>4, <3>1, <4>1 DEF Linked
    <3>3. PICK g : g = stack[t][i]
      OBVIOUS
    <3>4. Top(t).mod = g.mod \/ Top(t).mod \in Imports(g.mod)
      <4>1. CASE i = 1
        BY <1>3, <3>3, <4>1
      <4>2. CASE i # 1
        BY <1>3, <3>2, <3>3, <4>2 DEF Waits
      <4> QED
        BY <4>1, <4>2
    <3>5. dep \in Imports(g.mod)
      BY <1>2, <1>5, <3>2, <3>3, <3>4, ImportsFacts DEF Closed
    <3>6. \A j \in 1..k - 1 : stack'[t][j].mod \in Imports(g.mod)
      <4> TAKE j \in 1..k - 1
      <4>1. CASE j = 1
        BY <1>4, <3>5, <4>1
      <4>2. CASE j # 1
        <5>1. PICK l \in 1..i - 1 : j = l + 1 /\ l \in 1..n
          BY <3>1, <4>2
        <5> QED
          BY <1>4, <3>2, <3>3, <5>1 DEF Waits
      <4> QED
        BY <4>1, <4>2
    <3>7. /\ g.step = "import" /\ g.i \in DOMAIN graph.imports[g.mod]
          /\ graph.imports[g.mod][g.i] = stack'[t][i].mod
      <4>1. CASE i = 1
        BY <1>1, <1>3, <1>4, <3>3, <4>1 DEF Wants
      <4>2. CASE i # 1
        <5>1. PICK l \in 1..n : i = l + 1
          <6>1. i - 1 \in 1..n /\ i = (i - 1) + 1
            BY <1>3, <3>1, <4>2
          <6> QED
            BY <6>1
        <5>2. stack'[t][i] = stack[t][l]
          BY <1>4, <5>1
        <5>3. i - 1 = l /\ i > 1
          BY <1>3, <5>1
        <5> QED
          BY <3>2, <3>3, <5>1, <5>2, <5>3 DEF Waits
      <4> QED
        BY <4>1, <4>2
    <3>8. /\ k - 1 = i /\ (k = Len(stack'[t]) <=> i = Len(stack[t]))
      BY <1>3, <1>4, <3>1
    <3> QED
      BY <1>2, <3>2, <3>3, <3>6, <3>7, <3>8, ImportsSame DEF Waits, Root
  <2> QED
    BY <2>1, <2>2
<1>7. \A u \in Thread \ {t} : stack'[u] = stack[u] /\ phase'[u] = phase[u]
  BY <1>1, <1>2 DEF Pushed
<1>8. Closed(graph, table)'
  BY <1>2 DEF Linked, Closed, Direct
<1> QED
  BY <1>2, <1>4, <1>6, <1>7, <1>8, OthersWait

(* They hold when a module is complete: its imports are in the table.       *)
LEMMA CompletesLinked ==
  ASSUME WellTyped, Linked, NEW t \in Thread, Completes(t), StackTyped'
  PROVE  Linked'
<1>1. /\ graph' = graph /\ phase' = phase /\ Loading(t) /\ StackTyped /\ graph \in Graphs
      /\ Top(t).step = "protect" /\ Popped(t)
  BY DEF Completes, WellTyped, LinkTyped
<1>2. PICK n \in Nat : n = Depth(t) /\ n >= 1 /\ DOMAIN stack[t] = 1..n
                       /\ Top(t) = stack[t][1] /\ Len(stack[t]) = n
  BY <1>1, TopModule, ModuleCount DEF Depth
<1>3. PICK m \in Module : m = Top(t).mod
  BY <1>1, TopModule
<1>4. table' = table \cup {m} /\ Direct(graph, m) \subseteq table
  <2>1. Waits(t, 1)
    BY <1>2 DEF Linked
  <2> QED
    BY <1>1, <1>2, <1>3, <2>1 DEF Waits, Completes
<1>5. Closed(graph, table)'
  BY <1>1, <1>4 DEF Linked, Closed, Direct
<1>6. /\ DOMAIN stack'[t] = 1..n - 1 /\ Len(stack'[t]) = n - 1
      /\ \A k \in 2..n - 1 : stack'[t][k] = stack[t][k + 1]
      /\ n - 1 >= 1 =>
           /\ stack'[t][1].mod = stack[t][2].mod /\ stack'[t][1].step = stack[t][2].step
           /\ stack'[t][1].i = stack[t][2].i + 1
  <2>1. stack'[t] \in Seq(NatFrame)
    BY DEF StackTyped
  <2>2. Depth(t)' = n - 1
    BY <1>1, <1>2 DEF Popped
  <2> QED
    BY <1>1, <1>2, <2>1, <2>2 DEF Popped, Depth
<1>7. ASSUME NEW k \in 1..n - 1 PROVE Waits(t, k)'
  <2>1. /\ Waits(t, k + 1) /\ k + 1 > 1 /\ (k + 1) - 1 = k /\ k + 1 \in 1..n
        /\ (k = Len(stack'[t]) <=> k + 1 = Len(stack[t]))
    <3>1. /\ k + 1 > 1 /\ (k + 1) - 1 = k /\ k + 1 \in 1..n
          /\ (k = n - 1 <=> k + 1 = n)
      BY <1>2, <1>7
    <3>2. Waits(t, k + 1)
      BY <1>2, <3>1 DEF Linked
    <3> QED
      BY <1>2, <1>6, <3>1, <3>2
  <2>2. PICK g : g = stack[t][k + 1]
    OBVIOUS
  <2>3. \A j \in 1..n - 1 : stack'[t][j].mod = stack[t][j + 1].mod
    <3> TAKE j \in 1..n - 1
    <3>1. j = 1 \/ j \in 2..n - 1
      OBVIOUS
    <3>2. CASE j = 1
      <4>1. n - 1 >= 1 /\ j + 1 = 2
        BY <3>2
      <4> QED
        BY <1>6, <3>2, <4>1
    <3>3. CASE j \in 2..n - 1
      <4>1. stack'[t][j] = stack[t][j + 1]
        BY <1>6, <3>3
      <4> QED
        BY <4>1
    <3> QED
      BY <3>1, <3>2, <3>3
  <2>4. \A j \in 1..k - 1 : stack'[t][j].mod \in Imports(g.mod)
    <3> TAKE j \in 1..k - 1
    <3>1. j + 1 \in 1..(k + 1) - 1 /\ j \in 1..n - 1
      BY <1>7
    <3> QED
      BY <2>1, <2>2, <2>3, <3>1 DEF Waits
  <2>5. /\ g.step = "import" /\ g.i \in DOMAIN graph.imports[g.mod]
        /\ graph.imports[g.mod][g.i] = stack[t][k].mod /\ g.mod \in Module /\ g.i \in Nat
    <3>1. g.mod \in Module /\ g.i \in Nat
      BY <1>1, <1>2, <2>1, <2>2, StackShape
    <3> QED
      BY <2>1, <2>2, <3>1 DEF Waits
  <2>6. CASE k = 1
    <3>1. /\ stack'[t][k].mod = g.mod /\ stack'[t][k].step = "import" /\ stack'[t][k].i = g.i + 1
      BY <1>6, <1>7, <2>2, <2>5, <2>6
    <3>2. \A l \in DOMAIN graph.imports[g.mod] :
            l < g.i + 1 => graph.imports[g.mod][l] \in table'
      <4> TAKE l \in DOMAIN graph.imports[g.mod]
      <4> HAVE l < g.i + 1
      <4>1. l \in Nat
        BY <1>1, <2>5, ImportRange
      <4>2. CASE l < g.i
        BY <1>4, <2>1, <2>2, <2>5, <4>2 DEF Waits
      <4>3. CASE l = g.i
        BY <1>2, <1>3, <1>4, <2>5, <2>6, <4>3
      <4> QED
        BY <2>5, <4>1, <4>2, <4>3
    <3>3. k = Len(stack'[t]) => g.mod = Root(phase[t])
      BY <2>1, <2>2 DEF Waits
    <3>4. ~(k > 1) /\ \A j \in 1..k - 1 : FALSE
      BY <2>6
    <3> QED
      BY <1>1, <3>1, <3>2, <3>3, <3>4 DEF Waits, Root
  <2>7. CASE k # 1
    <3>1. stack'[t][k] = g /\ k \in 2..n - 1 /\ k - 1 \in 1..n - 1
      <4>1. k \in 2..n - 1 /\ k - 1 \in 1..n - 1
        BY <1>2, <1>7, <2>7
      <4> QED
        BY <1>6, <2>2, <4>1
    <3>2. stack'[t][k - 1].mod = stack[t][k].mod
      <4>1. (k - 1) + 1 = k
        BY <1>7
      <4> QED
        BY <2>3, <3>1, <4>1
    <3>3. \A l \in DOMAIN graph.imports[g.mod] :
            l < g.i => graph.imports[g.mod][l] \in table'
      BY <1>4, <2>1, <2>2, <2>5 DEF Waits
    <3>4. k = Len(stack'[t]) => g.mod = Root(phase[t])
      BY <2>1, <2>2 DEF Waits
    <3> QED
      BY <1>1, <2>4, <2>5, <3>1, <3>2, <3>3, <3>4, ImportsSame DEF Waits, Root
  <2> QED
    BY <2>6, <2>7
<1>8. \A u \in Thread \ {t} : stack'[u] = stack[u] /\ phase'[u] = phase[u]
  BY <1>1 DEF Popped
<1> QED
  BY <1>1, <1>4, <1>5, <1>6, <1>7, <1>8, OthersWait

(* They hold when a load begins.                                            *)
LEMMA BegunLinked ==
  ASSUME WellTyped, Linked, NEW t \in Thread, NEW m \in Module, NEW new \in BOOLEAN,
         Begun(t, m, new), StackTyped', graph' = graph, table' = table,
         \A u \in Thread \ {t} : phase'[u] = phase[u], m = Root(phase'[t])
  PROVE  Linked'
<1>1. StackTyped /\ Closed(graph, table)'
  BY DEF WellTyped, Linked, Closed, Direct
<1>2. ASSUME NEW k \in DOMAIN stack'[t] PROVE Waits(t, k)'
  <2>1. stack'[t] \in Seq(NatFrame)
    BY DEF StackTyped
  <2>2. k = 1 /\ stack'[t][k].mod = m /\ stack'[t][k].step = "reserve"
    BY <1>2, <2>1 DEF Begun, Depth
  <2>3. ~(k > 1) /\ \A j \in 1..k - 1 : FALSE
    BY <2>2
  <2> QED
    BY <2>2, <2>3 DEF Waits, Root
<1> QED
  BY <1>1, <1>2, OthersWait DEF Begun


-----------------------------------------------------------------------------
\* What is started and in which order, shape by shape.

SameLinks == UNCHANGED <<graph, table, routines, dllcalls, again, loadRaced>>

(* A step that changes only the activations of threads that load before and  *)
(* after it.                                                                 *)
LEMMA StartedSame ==
  ASSUME Started, SameLinks, phase' = phase, \A t \in Thread : Loading(t)' <=> Loading(t),
         Main \in Thread
  PROVE  Started'
<1>1. \A m : Imports(m)' = Imports(m)
  BY ImportsSame DEF SameLinks
<1>2. Alive' /\ Loaded' /\ (InitLast' <=> InitLast) /\ (Early' <=> Early)
  BY DEF Started, Alive, Loaded, InitLast, Early, SameLinks
<1>3. Listed => Listed'
  BY <1>1, <1>2 DEF Listed, SameLinks
<1>4. (Following => Following') /\ (Initialised => Initialised')
  BY <1>1 DEF Following, Initialised, Called, SameLinks
<1> QED
  BY <1>2, <1>3, <1>4 DEF Started, SameLinks

(* The list of entry points is as good as it was.                           *)
LEMMA ListedSame ==
  ASSUME UNCHANGED <<graph, table, routines>>, InitLast' <=> InitLast, Listed
  PROVE  Listed'
<1>1. \A m : Imports(m)' = Imports(m)
  BY ImportsSame
<1> QED
  BY <1>1 DEF Listed

(* So are the calls that were made.                                         *)
LEMMA InitialisedSame ==
  ASSUME SameLinks, Initialised
  PROVE  Initialised'
<1>1. \A m : Imports(m)' = Imports(m)
  BY ImportsSame DEF SameLinks
<1> QED
  BY <1>1 DEF Initialised, Called, SameLinks

(* So do they follow the list.                                              *)
LEMMA FollowingSame ==
  ASSUME SameLinks, Following,
         phase'[First] \in {"unborn", "setup"} => phase[First] \in {"unborn", "setup"}
  PROVE  Following'
BY DEF Following, SameLinks

(* Entry points stay called once if only activations change.                *)
LEMMA CallsSame ==
  ASSUME CallsOK, SameLinks, phase' = phase
  PROVE  CallsOK'
BY DEF CallsOK, SameLinks

(* No library is entered that was not being entered.                       *)
LEMMA CallsOtherwise ==
  ASSUME CallsOK, dllcalls' = dllcalls, again' = again,
         \A u \in Thread : phase'[u] \in Module => phase'[u] = phase[u]
  PROVE  CallsOK'
<1>1. ASSUME NEW u \in Thread, phase'[u] \in Module \ again'
      PROVE  /\ \A k \in DOMAIN dllcalls : dllcalls[k] # phase'[u]
             /\ \A v \in Thread \ {u} : phase'[v] # phase'[u]
  <2>1. phase[u] \in Module \ again /\ phase'[u] = phase[u]
    BY <1>1
  <2>2. /\ \A k \in DOMAIN dllcalls : dllcalls[k] # phase[u]
        /\ \A v \in Thread \ {u} : phase[v] # phase[u]
    BY <2>1 DEF CallsOK
  <2>3. ASSUME NEW v \in Thread \ {u} PROVE phase'[v] # phase'[u]
    <3>1. phase'[v] = phase'[u] => phase[v] = phase[u]
      BY <2>1
    <3> QED
      BY <2>2, <3>1
  <2> QED
    BY <2>1, <2>2, <2>3
<1>2. \A j, k \in DOMAIN dllcalls' : dllcalls'[j] = dllcalls'[k] => j = k \/ dllcalls'[j] \in again'
  BY DEF CallsOK
<1> QED
  BY <1>1, <1>2 DEF CallsOK

(* A load stays alone when nothing is loaded.                               *)
LEMMA StillLone ==
  ASSUME Unraced, SameLinks, phase' = phase, stack' = stack, maps' = maps
  PROVE  Unraced'
<1>1. \A m : Mapping(m) <=> Mapping(m)'
  BY DEF Mapping
<1>2. Lone => Lone'
  BY DEF Lone, Loading, SameLinks
<1>3. MapsOK => MapsOK'
  BY <1>1 DEF MapsOK, SameLinks
<1>4. CallsOK => CallsOK'
  BY CallsSame
<1>5. (Cyclic' <=> Cyclic) /\ loadRaced' = loadRaced
  BY ImportsSame DEF SameLinks
<1> QED
  BY <1>2, <1>3, <1>4, <1>5 DEF Unraced

(* The order of initialisation and the counts of mappings survive a move ... *)
LEMMA MovesKeeps ==
  ASSUME WellTyped, Linked, Started, Unraced, NEW t \in Thread, Moves(t), StackTyped'
  PROVE  Started' /\ Unraced'
<1>1. PICK f \in NatFrame :
       /\ Moved(t, f) /\ f.mod = Top(t).mod /\ f.step # "reserve"
       /\ IF Top(t).step = "reserve"
          THEN f.step = "section" /\ maps' = [maps EXCEPT ![f.mod] = @ + 1]
          ELSE maps' = maps
  BY DEF Moves
<1>2. /\ SameLinks /\ phase' = phase /\ Loading(t) /\ StackTyped /\ Main \in Thread
      /\ \A u \in Thread : Loading(u)' <=> Loading(u)
  BY <1>1, LoaderAssumption DEF Moves, Quiet, WellTyped, SameLinks, Moved
<1>3. Started'
  BY <1>2, StartedSame
<1>4. PICK n \in Nat : n = Depth(t) /\ n >= 1 /\ DOMAIN stack[t] = 1..n /\ Top(t) = stack[t][1]
  BY <1>2, TopModule, ModuleCount
<1>5. /\ DOMAIN stack'[t] = 1..n /\ stack'[t][1] = f
      /\ \A k \in 2..n : stack'[t][k] = stack[t][k]
  BY <1>1, <1>4, StackShape DEF Moved, Depth
<1>6. /\ \A k \in 1..n : stack'[t][k].mod = stack[t][k].mod
      /\ \A k \in 1..n : stack[t][k].step # "reserve" => stack'[t][k].step # "reserve"
  BY <1>1, <1>4, <1>5
<1>7. ASSUME Lone PROVE Lone'
  <2>1. \A u \in Thread \ {t} : stack'[u] = stack[u]
    BY <1>1 DEF Moved
  <2> QED
    BY <1>2, <1>4, <1>5, <1>6, <1>7, <2>1 DEF Lone, SameLinks
<1>8. \A m : Mapping(m) => Mapping(m)'
  <2>1. \A u \in Thread \ {t} : stack'[u] = stack[u]
    BY <1>1 DEF Moved
  <2> QED
    BY <1>4, <1>5, <1>6, <2>1 DEF Mapping
<1>9. ASSUME Lone, MapsOK, ~Cyclic PROVE MapsOK'
  <2>1. CASE maps' = maps
    BY <1>2, <1>8, <1>9, <2>1 DEF MapsOK, SameLinks
  <2>2. CASE Top(t).step = "reserve" /\ maps' = [maps EXCEPT ![f.mod] = @ + 1]
    <3>1. f.mod \in Module /\ maps \in [Module -> Nat] /\ graph \in Graphs
      BY <1>1 DEF NatFrame, WellTyped, LinkTyped
    <3>2. f.mod \notin table
      BY <1>1, <1>4, <1>9 DEF Lone
    <3>3. ~Mapping(f.mod)
      <4>1. SUFFICES ASSUME NEW u \in Thread, NEW k \in DOMAIN stack[u],
                            stack[u][k].mod = f.mod, stack[u][k].step # "reserve"
                     PROVE  FALSE
        BY DEF Mapping
      <4>2. u = t
        BY <1>2, <1>9 DEF Lone, Loading
      <4>3. k \in 1..n /\ k # 1
        BY <1>4, <2>2, <4>1, <4>2
      <4>4. 1 \in 1..k - 1
        BY <4>3
      <4>5. stack[t][1].mod \in Imports(stack[t][k].mod)
        BY <4>1, <4>2, <4>4 DEF Linked, Waits
      <4> QED
        BY <1>1, <1>4, <1>9, <3>1, <4>1, <4>2, <4>5 DEF Cyclic
    <3>4. maps[f.mod] = 0
      BY <1>9, <3>1, <3>2, <3>3 DEF MapsOK
    <3>5. Mapping(f.mod)'
      BY <1>1, <1>4, <1>5 DEF Mapping
    <3>6. \A m \in Module : maps'[m] <= 1 /\ (maps'[m] = 1 => m \in table \/ Mapping(m)')
      <4> TAKE m \in Module
      <4>1. CASE m = f.mod
        BY <2>2, <3>1, <3>4, <3>5, <4>1
      <4>2. CASE m # f.mod
        BY <1>8, <1>9, <2>2, <3>1, <4>2 DEF MapsOK
      <4> QED
        BY <4>1, <4>2
    <3> QED
      BY <1>2, <3>6 DEF MapsOK, SameLinks
  <2> QED
    BY <1>1, <2>1, <2>2
<1>10. (Cyclic' <=> Cyclic) /\ loadRaced' = loadRaced /\ (CallsOK => CallsOK')
  BY <1>2, ImportsSame, CallsSame DEF SameLinks
<1> QED
  BY <1>3, <1>7, <1>9, <1>10 DEF Unraced

(* ... the beginning of an import ...                                       *)
LEMMA PushesKeeps ==
  ASSUME WellTyped, Linked, Started, Unraced, NEW t \in Thread, Pushes(t), StackTyped'
  PROVE  Started' /\ Unraced'
<1>1. PICK dep \in Module : Wants(t, dep) /\ Pushed(t, Frame(dep))
  BY DEF Pushes
<1>2. /\ SameLinks /\ phase' = phase /\ maps' = maps /\ Loading(t) /\ StackTyped /\ Main \in Thread
      /\ \A u \in Thread : Loading(u)' <=> Loading(u)
      /\ \A u \in Thread \ {t} : stack'[u] = stack[u]
  BY <1>1, LoaderAssumption DEF Wants, Quiet, WellTyped, SameLinks, Pushed
<1>3. Started'
  BY <1>2, StartedSame
<1>4. PICK n \in Nat : n = Depth(t) /\ n >= 1 /\ DOMAIN stack[t] = 1..n
  BY <1>2, TopModule, ModuleCount
<1>5. /\ DOMAIN stack'[t] = 1..n + 1 /\ stack'[t][1].mod = dep
      /\ \A k \in 1..n : stack'[t][k + 1] = stack[t][k]
  <2>1. DOMAIN stack'[t] = 1..n + 1
    <3>1. stack'[t] \in Seq(NatFrame) /\ Depth(t)' = n + 1
      BY <1>1, <1>4 DEF StackTyped, Pushed
    <3> QED
      BY <3>1 DEF Depth
  <2> QED
    BY <1>1, <1>4, <2>1 DEF Pushed, Frame
<1>6. dep \notin table
  BY <1>1 DEF Wants
<1>7. ASSUME Lone PROVE Lone'
  <2>1. ASSUME NEW k \in 1..n + 1 PROVE stack'[t][k].mod \notin table
    <3>1. CASE k = 1
      BY <1>5, <1>6, <3>1
    <3>2. CASE k # 1
      <4>1. k - 1 \in 1..n /\ (k - 1) + 1 = k
        BY <1>4, <2>1, <3>2
      <4>2. stack'[t][k] = stack[t][k - 1]
        BY <1>5, <4>1
      <4> QED
        BY <1>4, <1>7, <4>1, <4>2 DEF Lone
    <3> QED
      BY <3>1, <3>2
  <2> QED
    BY <1>2, <1>5, <1>7, <2>1 DEF Lone, SameLinks
<1>8. \A m : Mapping(m) => Mapping(m)'
  <2> TAKE m
  <2> HAVE Mapping(m)
  <2>5. PICK u \in Thread :
          \E k \in DOMAIN stack[u] : stack[u][k].mod = m /\ stack[u][k].step # "reserve"
    BY DEF Mapping
  <2>1. PICK k \in DOMAIN stack[u] : stack[u][k].mod = m /\ stack[u][k].step # "reserve"
    BY <2>5
  <2>2. CASE u = t
    <3>1. k + 1 \in 1..n + 1 /\ k \in 1..n
      BY <1>4, <2>1, <2>2
    <3> QED
      BY <1>5, <2>1, <2>2, <3>1 DEF Mapping
  <2>3. CASE u # t
    BY <1>2, <2>1, <2>3 DEF Mapping
  <2> QED
    BY <2>2, <2>3
<1>9. MapsOK => MapsOK'
  BY <1>2, <1>8 DEF MapsOK, SameLinks
<1>10. (Cyclic' <=> Cyclic) /\ loadRaced' = loadRaced /\ (CallsOK => CallsOK')
  BY <1>2, ImportsSame, CallsSame DEF SameLinks
<1> QED
  BY <1>3, <1>7, <1>9, <1>10 DEF Unraced


(* Until the program is entered only the main thread loads, the executable  *)
(* and then init.dll, and no entry point has been called.                   *)
LEMMA EarlyLoads ==
  ASSUME WellTyped, Started, Early, NEW t \in Thread, Loading(t)
  PROVE  /\ t = Main /\ phase[Main] \in {"load exe", "load init"} /\ phase[First] = "unborn"
         /\ dllcalls = <<>>
<1>1. phase[t] \in LoadPhases /\ Main \in Thread /\ First \in Thread
  BY LoaderAssumption DEF Started, Alive
<1>2. t = Main
  <2>1. CASE t = First
    BY <1>1, <2>1 DEF Early, EarlyPhases, LoadPhases, Module
  <2>2. CASE t \notin {Main, First}
    BY <1>1, <2>2 DEF Started, Alive, LoadPhases, Module
  <2> QED
    BY <2>1, <2>2
<1>3. phase[Main] \in {"load exe", "load init"}
  BY <1>1, <1>2 DEF WellTyped, PhaseTyped, MainPhases, StartPhases, LoadPhases, Module
<1>4. phase[First] = "unborn"
  BY <1>3 DEF Started, Alive, StartPhases
<1> QED
  BY <1>2, <1>3, <1>4 DEF Started, Following

(* The module that is complete is not init.dll unless it is what the thread *)
(* loads; its imports are in the table, and no other activation loads it    *)
(* if none of them loads what is in the table.                              *)
LEMMA CompleteFacts ==
  ASSUME WellTyped, Linked, NEW t \in Thread, Completes(t), StackTyped'
  PROVE  \E m \in Module, n \in Nat :
           /\ m = Top(t).mod /\ n >= 1 /\ DOMAIN stack[t] = 1..n /\ DOMAIN stack'[t] = 1..n - 1
           /\ \A k \in 1..n - 1 : /\ stack'[t][k].mod = stack[t][k + 1].mod
                                  /\ stack'[t][k].step = stack[t][k + 1].step
           /\ stack[t][1].mod = m
           /\ table' = table \cup {m} /\ Imports(m) \subseteq table
           /\ \A k \in 2..n : m \in Imports(stack[t][k].mod)
           /\ IF n = 1 THEN m = Root(phase[t]) /\ ~Loading(t)'
              ELSE m # "init" /\ Loading(t)'
<1>1. /\ graph' = graph /\ Loading(t) /\ StackTyped /\ graph \in Graphs
      /\ Top(t).step = "protect" /\ Popped(t)
  BY DEF Completes, WellTyped, LinkTyped
<1>2. PICK n \in Nat : n = Depth(t) /\ n >= 1 /\ DOMAIN stack[t] = 1..n
                       /\ Top(t) = stack[t][1] /\ Len(stack[t]) = n
  BY <1>1, TopModule, ModuleCount DEF Depth
<1>3. PICK m \in Module : m = Top(t).mod
  BY <1>1, TopModule
<1>4. table' = table \cup {m} /\ Direct(graph, m) \subseteq table
  <2>1. Waits(t, 1)
    BY <1>2 DEF Linked
  <2> QED
    BY <1>1, <1>2, <1>3, <2>1 DEF Waits, Completes
<1>5. Imports(m) \subseteq table
  BY <1>1, <1>4, ImportsFacts DEF Linked, WellTyped, LinkTyped
<1>6. DOMAIN stack'[t] = 1..n - 1 /\ Depth(t)' = n - 1
  <2>1. stack'[t] \in Seq(NatFrame)
    BY DEF StackTyped
  <2>2. Depth(t)' = n - 1
    BY <1>1, <1>2 DEF Popped
  <2> QED
    BY <2>1, <2>2 DEF Depth
<1>7. \A k \in 1..n - 1 : /\ stack'[t][k].mod = stack[t][k + 1].mod
                          /\ stack'[t][k].step = stack[t][k + 1].step
  <2> TAKE k \in 1..n - 1
  <2>1. k = 1 \/ k \in 2..n - 1
    BY <1>2
  <2>2. n - 1 >= 1 /\ 1 + 1 = 2
    BY <1>2
  <2> QED
    BY <1>1, <1>6, <2>1, <2>2 DEF Popped
<1>8. \A k \in 2..n : m \in Imports(stack[t][k].mod)
  <2> TAKE k \in 2..n
  <2>1. 1 \in 1..k - 1 /\ k \in 1..n
    BY <1>2
  <2> QED
    BY <1>2, <1>3, <2>1 DEF Linked, Waits
<1>9. IF n = 1 THEN m = Root(phase[t]) /\ ~Loading(t)' ELSE m # "init" /\ Loading(t)'
  <2>1. CASE n = 1
    <3>1. Waits(t, 1)
      BY <1>2 DEF Linked
    <3>2. ~Loading(t)'
      BY <1>1, <1>6, <2>1 DEF Popped
    <3> QED
      BY <1>2, <1>3, <2>1, <3>1, <3>2 DEF Waits
  <2>2. CASE n # 1
    <3>1. 2 \in 2..n /\ 2 \in 1..n /\ n - 1 >= 1
      BY <1>2, <2>2
    <3>2. stack[t][2].mod \in Module
      BY <1>1, <1>2, <3>1, StackShape
    <3>3. m # "init"
      BY <1>1, <1>8, <3>1, <3>2, ImportsFacts
    <3>4. Loading(t)'
      BY <1>1, <1>6, <3>1 DEF Popped
    <3> QED
      BY <2>2, <3>3, <3>4
  <2> QED
    BY <2>1, <2>2
<1> QED
  BY <1>2, <1>3, <1>4, <1>5, <1>6, <1>7, <1>8, <1>9

(* ... and the completion of a module, whose entry point ends the list ...  *)
LEMMA CompletesStarted ==
  ASSUME WellTyped, Linked, Started, Unraced, NEW t \in Thread, Completes(t), StackTyped'
  PROVE  Started'
<1>1. PICK m \in Module, n \in Nat :
           /\ m = Top(t).mod /\ n >= 1 /\ DOMAIN stack[t] = 1..n
           /\ stack[t][1].mod = m
           /\ table' = table \cup {m} /\ Imports(m) \subseteq table
           /\ IF n = 1 THEN m = Root(phase[t]) /\ ~Loading(t)'
              ELSE m # "init" /\ Loading(t)'
  BY CompleteFacts
<1>2. /\ graph' = graph /\ phase' = phase /\ Loading(t) /\ graph \in Graphs
      /\ UNCHANGED <<dllcalls, again, loadRaced>>
      /\ \A u \in Thread \ {t} : Loading(u)' <=> Loading(u)
      /\ Main \in Thread /\ First \in Thread /\ "init" \in graph.dllmain
  BY LoaderAssumption DEF Completes, Popped, WellTyped, LinkTyped
<1>3. Alive'
  <2>1. ASSUME NEW u \in Thread, phase'[u] \in Module, ~Loading(u)' PROVE phase'[u] \in table'
    <3>1. CASE u = t
      <4>1. m = Root(phase[t])
        BY <1>1, <2>1, <3>1
      <4> QED
        BY <1>1, <1>2, <2>1, <3>1, <4>1 DEF Root, Module
    <3>2. CASE u # t
      BY <1>1, <1>2, <2>1, <3>2 DEF Started, Alive
    <3> QED
      BY <3>1, <3>2
  <2>2. (Early' <=> Early) /\ \A u \in Thread : Loading(u)' => Loading(u)
    BY <1>2 DEF Early
  <2> QED
    BY <1>2, <2>1, <2>2 DEF Started, Alive
<1>4. ASSUME Early
      PROVE  /\ t = Main /\ phase[Main] \in {"load exe", "load init"} /\ dllcalls = <<>>
             /\ phase[First] = "unborn" /\ m \notin table
             /\ m = "init" <=> n = 1 /\ phase[Main] = "load init"
             /\ n = 1 /\ phase[Main] = "load exe" => m = "exe"
  <2>1. /\ t = Main /\ phase[Main] \in {"load exe", "load init"} /\ dllcalls = <<>>
        /\ phase[First] = "unborn"
    BY <1>2, <1>4, EarlyLoads
  <2>2. m \notin table
    <3>1. 1 \in 1..n
      BY <1>1
    <3> QED
      BY <1>1, <1>2, <1>4, <3>1 DEF Started, Unraced, Lone
  <2> QED
    BY <1>1, <2>1, <2>2 DEF Root
<1>5. Loaded'
  <2>1. phase[Main] \in {"load exe", "load init"} => Early
    BY DEF Started, Alive, StartPhases, Early, EarlyPhases
  <2>2. CASE phase[Main] = "load exe"
    BY <1>1, <1>2, <1>4, <2>1, <2>2 DEF Started, Loaded
  <2>3. CASE phase[Main] = "load init"
    BY <1>1, <1>2, <1>4, <2>1, <2>3 DEF Started, Loaded
  <2>4. CASE phase[Main] \notin {"load exe", "load init"}
    BY <1>1, <1>2, <2>4 DEF Started, Loaded
  <2> QED
    BY <2>2, <2>3, <2>4
<1>6. ASSUME Early PROVE Listed'
  <2>1. InitLast' <=> m = "init"
    BY <1>1, <1>2, <1>4, <1>6 DEF InitLast
  <2>2. ~InitLast /\ Listed /\ "init" \notin Imports(m)
    BY <1>2, <1>4, <1>6, ImportsFacts DEF InitLast, Started
  <2>3. \A x : Imports(x)' = Imports(x)
    BY <1>2, ImportsSame
  <2>4. PICK h \in Nat : h = Len(routines) /\ DOMAIN routines = 1..h
    BY CallsShape
  <2>5. CASE m \in graph.dllmain
    <3>1. /\ DOMAIN routines' = 1..h + 1 /\ routines'[h + 1] = m /\ Len(routines') = h + 1
          /\ \A k \in 1..h : routines'[k] = routines[k]
      <4>1. routines' = Append(routines, m) /\ routines \in Seq(Module)
        BY <1>1, <2>5 DEF Completes, WellTyped, LinkTyped
      <4> QED
        BY <2>4, <4>1, AppendProperties
    <3>2. InitLast' => Len(routines') > 0 /\ routines'[Len(routines')] = "init"
      BY <2>1, <2>4, <3>1
    <3>3. \A x \in (table' \cap graph.dllmain) \ {"init"} :
            \E k \in 1..h + 1 : routines'[k] = x
      <4> TAKE x \in (table' \cap graph.dllmain) \ {"init"}
      <4>1. CASE x = m
        <5>1. h + 1 \in 1..h + 1
          BY <2>4
        <5> QED
          BY <3>1, <4>1, <5>1
      <4>2. CASE x # m
        <5>1. PICK k \in 1..h : routines[k] = x
          BY <1>1, <2>2, <2>4, <4>2 DEF Listed
        <5>2. k \in 1..h + 1
          BY <2>4, <5>1
        <5> QED
          BY <3>1, <5>1, <5>2
      <4> QED
        BY <4>1, <4>2
    <3>4. ASSUME NEW k \in 1..h + 1
          PROVE  /\ routines'[k] \in table' \cap graph.dllmain
                 /\ routines'[k] = "init" => InitLast' /\ k = h + 1
                 /\ \A d \in Imports(routines'[k]) \cap graph.dllmain :
                      \E j \in 1..k - 1 : routines'[j] = d
                 /\ \A j \in 1..h + 1 : routines'[j] = routines'[k] => j = k
      <4>1. \A j \in 1..h : routines[j] \in table \cap graph.dllmain /\ routines[j] # m
        <5> TAKE j \in 1..h
        <5>1. routines[j] \in table \cap graph.dllmain
          BY <2>2, <2>4 DEF Listed
        <5>2. m \notin table
          BY <1>4, <1>6
        <5> QED
          BY <5>1, <5>2
      <4>2. CASE k = h + 1
        <5>1. /\ routines'[k] \in table' \cap graph.dllmain
              /\ routines'[k] = "init" => InitLast' /\ k = h + 1
          BY <1>1, <2>1, <2>5, <3>1, <4>2
        <5>2. ASSUME NEW d \in Imports(m) \cap graph.dllmain
              PROVE  \E j \in 1..k - 1 : routines'[j] = d
          <6>1. PICK j \in 1..h : routines[j] = d
            BY <1>1, <2>2, <2>4, <5>2 DEF Listed
          <6>2. j \in 1..k - 1
            BY <2>4, <4>2, <6>1
          <6> QED
            BY <3>1, <6>1, <6>2
        <5>3. \A j \in 1..h + 1 : routines'[j] = routines'[k] => j = k
          <6> TAKE j \in 1..h + 1
          <6>1. j \in 1..h \/ j = k
            BY <2>4, <4>2
          <6> QED
            BY <3>1, <4>1, <4>2, <6>1
        <5> QED
          BY <3>1, <4>2, <5>1, <5>2, <5>3
      <4>3. CASE k # h + 1
        <5>1. k \in 1..h
          BY <2>4, <3>4, <4>3
        <5>2. routines'[k] = routines[k] /\ routines[k] # "init"
          BY <2>2, <2>4, <3>1, <5>1 DEF Listed
        <5>3. ASSUME NEW d \in Imports(routines[k]) \cap graph.dllmain
              PROVE  \E j \in 1..k - 1 : routines'[j] = d
          <6>1. PICK j \in 1..k - 1 : routines[j] = d
            BY <2>2, <2>4, <5>1, <5>3 DEF Listed
          <6>2. j \in 1..h
            BY <2>4, <5>1, <6>1
          <6> QED
            BY <3>1, <6>1, <6>2
        <5>4. \A j \in 1..h + 1 : routines'[j] = routines'[k] => j = k
          <6> TAKE j \in 1..h + 1
          <6>1. j \in 1..h \/ j = h + 1
            BY <2>4
          <6>2. CASE j \in 1..h
            BY <2>2, <2>4, <3>1, <5>1, <5>2, <6>2 DEF Listed
          <6>3. CASE j = h + 1
            BY <3>1, <4>1, <5>1, <5>2, <6>3
          <6> QED
            BY <6>1, <6>2, <6>3
        <5> QED
          BY <1>1, <4>1, <5>1, <5>2, <5>3, <5>4
      <4> QED
        BY <4>2, <4>3
    <3> QED
      BY <1>2, <2>3, <3>1, <3>2, <3>3, <3>4 DEF Listed
  <2>6. CASE m \notin graph.dllmain
    <3>1. routines' = routines /\ ~InitLast'
      BY <1>1, <1>2, <2>1, <2>6 DEF Completes
    <3>2. \A k \in DOMAIN routines : routines[k] # "init"
      BY <2>2 DEF Listed
    <3> QED
      BY <1>1, <1>2, <2>2, <2>3, <2>6, <3>1, <3>2 DEF Listed
  <2> QED
    BY <2>5, <2>6
<1>7. ASSUME Early PROVE Following'
  <2>1. Len(routines') \in Nat
    <3>1. routines \in Seq(Module)
      BY CallsShape
    <3>2. routines' \in Seq(Module)
      BY <1>1, <3>1 DEF Completes
    <3> QED
      BY <3>2
  <2>2. dllcalls' = <<>>
    BY <1>2, <1>4, <1>7
  <2>3. Len(dllcalls') = 0
    BY <2>2
  <2>4. \A k \in DOMAIN dllcalls' : FALSE
    BY <2>2
  <2> QED
    BY <2>1, <2>2, <2>3, <2>4 DEF Following
<1>8. (Early' <=> Early) /\ (~Early => Initialised')
  BY <1>2, ImportsSame DEF Started, Initialised, Called, Early
<1> QED
  BY <1>1, <1>2, <1>3, <1>5, <1>6, <1>7, <1>8 DEF Started

(* ... and which was mapped once, if it does not import itself.             *)
LEMMA CompletesUnraced ==
  ASSUME WellTyped, Linked, Unraced, NEW t \in Thread, Completes(t), StackTyped'
  PROVE  Unraced'
<1>1. PICK m \in Module, n \in Nat :
           /\ m = Top(t).mod /\ n >= 1 /\ DOMAIN stack[t] = 1..n /\ DOMAIN stack'[t] = 1..n - 1
           /\ \A k \in 1..n - 1 : /\ stack'[t][k].mod = stack[t][k + 1].mod
                                  /\ stack'[t][k].step = stack[t][k + 1].step
           /\ stack[t][1].mod = m
           /\ table' = table \cup {m} /\ Imports(m) \subseteq table
           /\ \A k \in 2..n : m \in Imports(stack[t][k].mod)
  BY CompleteFacts
<1>2. /\ graph' = graph /\ phase' = phase /\ Loading(t)
      /\ UNCHANGED <<dllcalls, again, loadRaced, maps>>
      /\ \A u \in Thread \ {t} : stack'[u] = stack[u] /\ (Loading(u)' <=> Loading(u))
  BY DEF Completes, Popped
<1>3. ASSUME Lone PROVE Lone'
  <2>1. m \notin table
    <3>1. 1 \in 1..n
      BY <1>1
    <3> QED
      BY <1>1, <1>3, <3>1 DEF Lone
  <2>2. ASSUME NEW k \in 1..n - 1 PROVE stack'[t][k].mod \notin table'
    <3>1. k + 1 \in 2..n /\ k + 1 \in 1..n
      BY <1>1, <2>2
    <3>2. stack[t][k + 1].mod \notin table /\ m \in Imports(stack[t][k + 1].mod)
      BY <1>1, <1>3, <3>1 DEF Lone
    <3> QED
      BY <1>1, <2>1, <2>2, <3>2
  <2>3. \A u \in Thread : Loading(u)' => Loading(u)
    BY <1>2
  <2>4. \A u \in Thread \ {t} : ~Loading(u)
    BY <1>2, <1>3 DEF Lone
  <2>5. ASSUME NEW u \in Thread \ {t}, NEW k \in DOMAIN stack'[u] PROVE FALSE
    BY <1>2, <2>4, <2>5 DEF Loading
  <2>6. \A u, v \in Thread : Loading(u)' /\ Loading(v)' => u = v
    BY <1>3, <2>3 DEF Lone
  <2>7. \A u \in Thread : \A k \in DOMAIN stack'[u] : stack'[u][k].mod \notin table'
    BY <1>1, <2>2, <2>5
  <2> QED
    BY <2>6, <2>7 DEF Lone
<1>4. \A x : Mapping(x) => x = m \/ Mapping(x)'
  <2> TAKE x
  <2> HAVE Mapping(x)
  <2>1. PICK u \in Thread :
          \E k \in DOMAIN stack[u] : stack[u][k].mod = x /\ stack[u][k].step # "reserve"
    BY DEF Mapping
  <2>2. PICK k \in DOMAIN stack[u] : stack[u][k].mod = x /\ stack[u][k].step # "reserve"
    BY <2>1
  <2>3. CASE u # t
    BY <1>2, <2>2, <2>3 DEF Mapping
  <2>4. CASE u = t /\ k = 1
    BY <1>1, <2>2, <2>4
  <2>5. CASE u = t /\ k # 1
    <3>1. k - 1 \in 1..n - 1 /\ (k - 1) + 1 = k
      BY <1>1, <2>2, <2>5
    <3>2. PICK j \in 1..n - 1 : j + 1 = k
      BY <3>1
    <3>3. stack'[t][j].mod = x /\ stack'[t][j].step # "reserve"
      BY <1>1, <2>2, <2>5, <3>2
    <3>4. j \in DOMAIN stack'[t]
      BY <1>1
    <3> QED
      BY <3>3, <3>4 DEF Mapping
  <2> QED
    BY <2>3, <2>4, <2>5
<1>5. MapsOK => MapsOK'
  BY <1>1, <1>2, <1>4 DEF MapsOK
<1>6. (Cyclic' <=> Cyclic) /\ (CallsOK => CallsOK')
  BY <1>2, ImportsSame DEF CallsOK
<1> QED
  BY <1>2, <1>3, <1>5, <1>6 DEF Unraced


\* All of the list has been gone through.
ListDone == phase[First] = "dll entries" /\ Len(dllcalls) + 1 > Len(routines)

(* When the list of entry points has been gone through, every library the   *)
(* executable and init.dll need has been initialised after its imports.     *)
LEMMA AllInitialised ==
  ASSUME WellTyped, Linked, Started, ListDone
  PROVE  Initialised
<1>1. Early /\ phase[Main] \notin {"load exe", "load init"}
  BY DEF Early, EarlyPhases, Started, Alive, StartPhases, ListDone
<1>2. ~InitLast /\ {"exe", "init"} \subseteq table /\ Listed /\ Following
  BY <1>1 DEF InitLast, Started, Loaded
<1>3. PICK n \in Nat : n = Len(routines) /\ n = Len(dllcalls) /\ DOMAIN routines = 1..n
                       /\ DOMAIN dllcalls = 1..n
  <2>1. PICK n \in Nat, c \in Nat : n = Len(routines) /\ c = Len(dllcalls) /\ DOMAIN routines = 1..n
                                    /\ DOMAIN dllcalls = 1..c
    BY CallsShape
  <2>2. c <= n /\ c + 1 > n
    BY <1>2, <2>1 DEF Following, ListDone
  <2>3. n = c
    BY <2>2
  <2> QED
    BY <2>1, <2>3
<1>4. \A k \in 1..n : dllcalls[k] = routines[k] /\ routines[k] # "init"
  BY <1>2, <1>3 DEF Following, Listed
<1>5. /\ graph \in Graphs /\ {"exe", "init"} \subseteq Module /\ Closed(graph, table)
      /\ table \subseteq Module
  BY DEF WellTyped, LinkTyped, Module, Linked
<1>6. ASSUME NEW m \in {"exe", "init"} PROVE Imports(m) \subseteq table \ {"init"}
  <2>1. m \in Module /\ m \in table
    BY <1>2, <1>5, <1>6
  <2>2. Direct(graph, m) \subseteq table
    BY <1>5, <2>1 DEF Closed
  <2>3. Imports(m) \subseteq table
    BY <1>5, <2>1, <2>2, ImportsFacts
  <2>4. "init" \notin Imports(m)
    BY <1>5, <2>1, ImportsFacts
  <2> QED
    BY <2>3, <2>4
<1>7. ASSUME NEW m \in (Imports("exe") \cup Imports("init")) \cap graph.dllmain
      PROVE  /\ \E k \in 1..n : Called(m, k)
             /\ \A k \in 1..n : Called(m, k) =>
                  \A d \in Imports(m) \cap graph.dllmain : \E j \in 1..k - 1 : Called(d, j)
  <2>1. m \in (table \cap graph.dllmain) \ {"init"}
    BY <1>6, <1>7
  <2>2. PICK k \in 1..n : routines[k] = m
    BY <1>2, <1>3, <2>1 DEF Listed
  <2>3. Called(m, k)
    BY <1>3, <1>4, <2>2 DEF Called
  <2>4. ASSUME NEW l \in 1..n, Called(m, l), NEW d \in Imports(m) \cap graph.dllmain
        PROVE  \E j \in 1..l - 1 : Called(d, j)
    <3>1. routines[l] = m
      BY <1>4, <2>4 DEF Called
    <3>2. PICK j \in 1..l - 1 : routines[j] = d
      BY <1>2, <1>3, <2>4, <3>1 DEF Listed
    <3>3. j \in 1..n
      BY <2>4, <3>2
    <3> QED
      BY <1>3, <1>4, <3>2, <3>3 DEF Called
  <2> QED
    BY <2>3, <2>4
<1> QED
  BY <1>3, <1>4, <1>7 DEF Initialised

\* The phases of a thread that neither loads nor is new.
BusyPhases == {"init list", "command line", "start thread", "events", "allocating", "setup",
               "dll entries", "run", "creating"}

(* They survive a thread's turn from one phase to another ...               *)
LEMMA TurnsKeeps ==
  ASSUME WellTyped, Started, Unraced, NEW t \in Thread, NEW p \in BusyPhases, NEW q \in BusyPhases,
         Turns(t, p, q), q = "dll entries" => t = First /\ p = "setup",
         q = "setup" => FALSE,
         q \in StartPhases => p \in StartPhases,
         t = First /\ q \in EarlyPhases => p \in EarlyPhases,
         t = First /\ p \in EarlyPhases /\ q \notin EarlyPhases => Initialised
  PROVE  Started' /\ Unraced'
<1>1. /\ graph' = graph /\ UNCHANGED <<table, routines, maps, dllcalls, again, loadRaced>>
      /\ stack' = stack /\ ~Loading(t) /\ phase[t] = p /\ phase'[t] = q
      /\ \A u \in Thread \ {t} : phase'[u] = phase[u]
      /\ \A u \in Thread : Loading(u)' <=> Loading(u)
      /\ Main \in Thread /\ First \in Thread /\ First # Main
  BY LoaderAssumption DEF Turns, LinksStay, Loading
<1>2. Early' => Early
  BY <1>1 DEF Early
<1>3. /\ p \notin Module /\ q \notin Module /\ p \notin {"unborn", "load exe", "load init"}
      /\ q \notin {"unborn", "load exe", "load init"}
  BY DEF BusyPhases, Module
<1>4. Alive'
  <2>1. \A u \in Thread : Loading(u)' => phase'[u] \in LoadPhases
    BY <1>1 DEF Started, Alive
  <2>2. \A u \in Thread : phase'[u] = "dll entries" => u = First
    <3> TAKE u \in Thread
    <3>1. CASE u = t
      BY <1>1, <3>1
    <3>2. CASE u # t
      BY <1>1, <3>2 DEF Started, Alive
    <3> QED
      BY <3>1, <3>2
  <2>3. Early' => \A u \in Thread \ {Main, First} : phase'[u] = "unborn"
    BY <1>1, <1>2, <1>3 DEF Started, Alive
  <2>4. ASSUME phase'[Main] \in StartPhases PROVE phase'[First] = "unborn"
    <3>1. phase[Main] \in StartPhases
      BY <1>1, <2>4
    <3>2. phase[First] = "unborn"
      BY <3>1 DEF Started, Alive
    <3> QED
      BY <1>1, <1>3, <3>2
  <2>5. \A u \in Thread : phase'[u] \in Module /\ ~Loading(u)' => phase'[u] \in table'
    BY <1>1, <1>3 DEF Started, Alive
  <2> QED
    BY <2>1, <2>2, <2>3, <2>4, <2>5 DEF Alive
<1>5. Loaded'
  BY <1>1, <1>3 DEF Started, Loaded
<1>6. InitLast' <=> InitLast
  BY <1>1, <1>3 DEF InitLast
<1>7. \A m : Imports(m)' = Imports(m)
  BY <1>1, ImportsSame
<1>8. Listed => Listed'
  BY <1>1, <1>6, ListedSame DEF SameLinks
<1>9. Following => Following'
  BY <1>1, <1>3, FollowingSame DEF SameLinks
<1>10. Initialised => Initialised'
  BY <1>1, InitialisedSame DEF SameLinks
<1>11. ASSUME ~Early' PROVE Initialised'
  <2>1. CASE ~Early
    BY <1>10, <2>1 DEF Started
  <2>2. CASE Early
    BY <1>1, <1>10, <1>11, <2>2 DEF Early
  <2> QED
    BY <2>1, <2>2
<1>12. Started'
  BY <1>1, <1>2, <1>4, <1>5, <1>8, <1>9, <1>11 DEF Started
<1>13. CallsOK => CallsOK'
  <2>1. \A u \in Thread : phase'[u] \in Module => phase'[u] = phase[u]
    BY <1>1, <1>3
  <2> QED
    BY <1>1, <2>1, CallsOtherwise
<1>14. (Lone => Lone') /\ (MapsOK => MapsOK')
  BY <1>1 DEF Lone, MapsOK, Mapping
<1>15. (Cyclic' <=> Cyclic) /\ loadRaced' = loadRaced
  BY <1>1, ImportsSame
<1> QED
  BY <1>12, <1>13, <1>14, <1>15 DEF Unraced

(* ... the start of a thread ...                                            *)
LEMMA StartsKeeps ==
  ASSUME WellTyped, Started, Unraced, NEW s \in Thread, NEW t \in Thread,
         NEW q \in {"events", "creating"}, Starts(s, t, q),
         \/ s = Main /\ t = First /\ phase[s] = "start thread" /\ q = "events"
         \/ s = First /\ t = Second /\ phase[s] = "run" /\ t # Main /\ q = "creating"
  PROVE  Started' /\ Unraced'
<1>1. /\ graph' = graph /\ UNCHANGED <<table, routines, maps, dllcalls, again, loadRaced>>
      /\ stack' = stack /\ ~Loading(s) /\ ~Loading(t) /\ s # t
      /\ phase'[s] = q /\ phase[t] = "unborn" /\ phase'[t] = "setup"
      /\ \A u \in Thread \ {s, t} : phase'[u] = phase[u]
      /\ \A u \in Thread : Loading(u)' <=> Loading(u)
      /\ Main \in Thread /\ First \in Thread /\ First # Main
  BY LoaderAssumption DEF Starts, LinksStay, Loading
<1>2. Early' <=> Early
  BY <1>1 DEF Early, EarlyPhases
<1>3. "setup" \notin Module /\ q \notin Module /\ q \notin StartPhases /\ q # "dll entries"
  BY DEF Module, StartPhases
<1>4. Alive'
  <2>1. \A u \in Thread : Loading(u)' => phase'[u] \in LoadPhases
    BY <1>1 DEF Started, Alive
  <2>2. \A u \in Thread : phase'[u] = "dll entries" => u = First
    BY <1>1, <1>3 DEF Started, Alive
  <2>3. Early' => \A u \in Thread \ {Main, First} : phase'[u] = "unborn"
    <3>1. CASE s = Main
      BY <1>1, <1>2, <3>1 DEF Started, Alive
    <3>2. CASE s = First
      BY <1>1, <3>2 DEF Early, EarlyPhases
    <3> QED
      BY <3>1, <3>2
  <2>4. phase'[Main] \notin StartPhases
    <3>1. CASE s = Main
      BY <1>1, <1>3, <3>1
    <3>2. CASE s = First
      BY <1>1, <3>2 DEF Started, Alive
    <3> QED
      BY <3>1, <3>2
  <2>5. \A u \in Thread : phase'[u] \in Module /\ ~Loading(u)' => phase'[u] \in table'
    BY <1>1, <1>3 DEF Started, Alive
  <2> QED
    BY <2>1, <2>2, <2>3, <2>4, <2>5 DEF Alive
<1>5. /\ phase[Main] \notin {"load exe", "load init"}
      /\ phase'[Main] \notin {"load exe", "load init"}
  <2>1. CASE s = Main
    BY <1>1, <1>3, <2>1 DEF StartPhases
  <2>2. CASE s = First
    BY <1>1, <2>2 DEF Started, Alive, StartPhases
  <2> QED
    BY <2>1, <2>2
<1>6. Loaded' /\ (InitLast' <=> InitLast)
  BY <1>1, <1>5 DEF Started, Loaded, InitLast
<1>7. \A m : Imports(m)' = Imports(m)
  BY <1>1, ImportsSame
<1>8. Listed => Listed'
  BY <1>1, <1>6, ListedSame DEF SameLinks
<1>9. Early /\ Following => Following'
  <2>1. phase[First] \in {"unborn", "setup"} \/ phase'[First] \notin {"unborn", "setup"}
    BY <1>1
  <2> QED
    BY <1>1, <2>1, FollowingSame DEF SameLinks
<1>10. Initialised => Initialised'
  BY <1>1, InitialisedSame DEF SameLinks
<1>11. Started'
  BY <1>1, <1>2, <1>4, <1>6, <1>8, <1>9, <1>10 DEF Started
<1>12. CallsOK => CallsOK'
  <2>1. \A u \in Thread : phase'[u] \in Module => phase'[u] = phase[u]
    BY <1>1, <1>3
  <2> QED
    BY <1>1, <2>1, CallsOtherwise
<1>13. (Lone => Lone') /\ (MapsOK => MapsOK')
  BY <1>1 DEF Lone, MapsOK, Mapping
<1>14. (Cyclic' <=> Cyclic) /\ loadRaced' = loadRaced
  BY <1>1, ImportsSame
<1> QED
  BY <1>11, <1>12, <1>13, <1>14 DEF Unraced

(* ... the turn from the executable to init.dll ...                         *)
LEMMA InitNextKeeps ==
  ASSUME WellTyped, Started, Unraced, InitNext, StackTyped'
  PROVE  Started' /\ Unraced'
<1>1. /\ graph' = graph /\ UNCHANGED <<table, routines, maps, dllcalls, again, loadRaced>>
      /\ ~Loading(Main) /\ phase[Main] = "load exe" /\ phase'[Main] = "load init"
      /\ \A u \in Thread \ {Main} : phase'[u] = phase[u] /\ stack'[u] = stack[u]
                                    /\ (Loading(u)' <=> Loading(u))
      /\ Main \in Thread /\ First \in Thread /\ First # Main
  BY LoaderAssumption DEF InitNext, LinksStay, Begun
<1>2. Early /\ phase[First] = "unborn" /\ (Early' <=> Early) /\ ~loadRaced
  <2>1. phase[First] = "unborn"
    BY <1>1 DEF Started, Alive, StartPhases
  <2> QED
    BY <1>1, <2>1 DEF Early, EarlyPhases, Started
<1>3. "init" \notin table /\ "exe" \in table
  BY <1>1 DEF Started, Loaded
<1>4. Loading(Main)' /\ DOMAIN stack'[Main] = {1} /\ stack'[Main][1].mod = "init"
  <2>1. Loading(Main)' /\ Depth(Main)' = 1 /\ stack'[Main][1].mod = "init"
    BY <1>3 DEF InitNext, Begun
  <2>2. stack'[Main] \in Seq(NatFrame)
    BY <1>1 DEF StackTyped
  <2> QED
    BY <2>1, <2>2 DEF Depth
<1>5. "load init" \notin Module /\ "load init" \in LoadPhases
  BY DEF Module, LoadPhases
<1>6. Alive'
  BY <1>1, <1>2, <1>4, <1>5 DEF Started, Alive
<1>7. Loaded' /\ ~InitLast' /\ ~InitLast
  BY <1>1, <1>3, <1>4 DEF Loaded, InitLast
<1>8. \A m : Imports(m)' = Imports(m)
  BY <1>1, ImportsSame
<1>9. Listed' /\ Following'
  <2>1. Listed /\ Following /\ (InitLast' <=> InitLast)
    BY <1>2, <1>7 DEF Started
  <2> QED
    BY <1>1, <1>2, <2>1, ListedSame, FollowingSame DEF SameLinks
<1>10. Started'
  BY <1>1, <1>2, <1>6, <1>7, <1>9 DEF Started
<1>11. \A u \in Thread \ {Main} : ~Loading(u)
  BY <1>2, EarlyLoads
<1>12. Lone'
  <2>1. ASSUME NEW u \in Thread \ {Main} PROVE \A k \in DOMAIN stack'[u] : FALSE
    <3>1. stack'[u] = <<>>
      BY <1>1, <1>11, <2>1 DEF Loading
    <3> QED
      BY <3>1
  <2>2. \A u \in Thread \ {Main} : ~Loading(u)'
    BY <1>1, <1>11
  <2>3. \A u, v \in Thread : Loading(u)' /\ Loading(v)' => u = v
    BY <2>2
  <2>4. \A k \in DOMAIN stack'[Main] : stack'[Main][k].mod \notin table'
    BY <1>1, <1>3, <1>4
  <2>5. \A u \in Thread : \A k \in DOMAIN stack'[u] : stack'[u][k].mod \notin table'
    BY <2>1, <2>4
  <2> QED
    BY <2>3, <2>5 DEF Lone
<1>13. MapsOK => MapsOK'
  <2>1. \A m : Mapping(m) => Mapping(m)'
    <3>1. \A k \in DOMAIN stack[Main] : FALSE
      <4>1. stack[Main] = <<>>
        BY <1>1 DEF Loading
      <4> QED
        BY <4>1
    <3> TAKE m
    <3> HAVE Mapping(m)
    <3>2. PICK u \in Thread :
            \E k \in DOMAIN stack[u] : stack[u][k].mod = m /\ stack[u][k].step # "reserve"
      BY DEF Mapping
    <3>3. u # Main
      BY <3>1, <3>2
    <3>4. stack'[u] = stack[u]
      BY <1>1, <3>3
    <3> QED
      BY <3>2, <3>4 DEF Mapping
  <2> QED
    BY <1>1, <2>1 DEF MapsOK
<1>14. CallsOK => CallsOK'
  <2>1. \A u \in Thread : phase'[u] \in Module => phase'[u] = phase[u]
    BY <1>1, <1>5
  <2> QED
    BY <1>1, <2>1, CallsOtherwise
<1>15. (Cyclic' <=> Cyclic) /\ loadRaced' = loadRaced
  BY <1>1, ImportsSame
<1> QED
  BY <1>10, <1>12, <1>13, <1>14, <1>15 DEF Unraced

(* ... and the erasure of init.dll's routine, the last of the list.         *)
LEMMA ErasedKeeps ==
  ASSUME WellTyped, Started, Unraced, Erased
  PROVE  Started' /\ Unraced'
<1>1. /\ graph' = graph /\ UNCHANGED <<table, stack, maps, dllcalls, again, loadRaced>>
      /\ ~Loading(Main) /\ phase[Main] = "load init" /\ phase'[Main] = "init list"
      /\ \A u \in Thread \ {Main} : phase'[u] = phase[u]
      /\ \A u \in Thread : Loading(u)' <=> Loading(u)
      /\ Main \in Thread /\ First \in Thread /\ First # Main
  BY LoaderAssumption DEF Erased, Loading
<1>2. Early /\ phase[First] = "unborn" /\ (Early' <=> Early)
  <2>1. phase[First] = "unborn"
    BY <1>1 DEF Started, Alive, StartPhases
  <2> QED
    BY <1>1, <2>1 DEF Early, EarlyPhases
<1>3. {"init", "exe"} \subseteq table /\ InitLast /\ ~InitLast' /\ Listed
  BY <1>1, <1>2 DEF Started, Loaded, InitLast
<1>4. "init list" \notin Module /\ "init list" \in StartPhases
  BY DEF Module, StartPhases
<1>5. Alive'
  BY <1>1, <1>2, <1>4 DEF Started, Alive, StartPhases
<1>6. Loaded'
  BY <1>1, <1>3 DEF Loaded
<1>7. \A m : Imports(m)' = Imports(m)
  BY <1>1, ImportsSame
<1>8. PICK h \in Nat : /\ h + 1 = Len(routines) /\ DOMAIN routines = 1..h + 1
                       /\ h = Len(routines') /\ DOMAIN routines' = 1..h
                       /\ \A k \in 1..h : routines'[k] = routines[k]
  <2>1. PICK n \in Nat : n = Len(routines) /\ DOMAIN routines = 1..n
    BY CallsShape
  <2>2. routines' \in Seq(Module) /\ Len(routines') = n - 1 /\ n > 0
        /\ \A k \in 1..Len(routines') : routines'[k] = routines[k]
    BY <2>1 DEF Erased
  <2>3. PICK h \in Nat : h + 1 = n /\ h = n - 1
    BY <2>1, <2>2
  <2> QED
    BY <2>1, <2>2, <2>3
<1>9. Listed'
  <2>1. routines[h + 1] = "init"
    BY <1>3, <1>8 DEF Listed
  <2>2. ASSUME NEW m \in (table \cap graph.dllmain) \ {"init"} PROVE \E k \in 1..h : routines'[k] = m
    <3>1. PICK k \in 1..h + 1 : routines[k] = m
      BY <1>3, <1>8, <2>2 DEF Listed
    <3>2. k \in 1..h
      <4>1. k # h + 1
        BY <2>1, <2>2, <3>1
      <4> QED
        BY <1>8, <4>1
    <3> QED
      BY <1>8, <3>1, <3>2
  <2>3. ASSUME NEW k \in 1..h
        PROVE  /\ routines'[k] \in table \cap graph.dllmain /\ routines'[k] # "init"
               /\ \A d \in Imports(routines'[k]) \cap graph.dllmain :
                    \E j \in 1..k - 1 : routines'[j] = d
               /\ \A j \in 1..h : routines'[j] = routines'[k] => j = k
    <3>1. k \in 1..h + 1 /\ k # h + 1 /\ \A j \in 1..h : j \in 1..h + 1
      BY <1>8, <2>3
    <3>2. routines'[k] \in table \cap graph.dllmain /\ routines'[k] # "init"
      BY <1>3, <1>8, <2>3, <3>1 DEF Listed
    <3>3. ASSUME NEW d \in Imports(routines[k]) \cap graph.dllmain
          PROVE  \E j \in 1..k - 1 : routines'[j] = d
      <4>1. PICK j \in 1..k - 1 : routines[j] = d
        BY <1>3, <1>8, <3>1, <3>3 DEF Listed
      <4>2. j \in 1..h
        BY <1>8, <2>3, <4>1
      <4> QED
        BY <1>8, <4>1, <4>2
    <3>4. \A j \in 1..h : routines'[j] = routines'[k] => j = k
      BY <1>3, <1>8, <2>3, <3>1 DEF Listed
    <3> QED
      BY <1>8, <2>3, <3>2, <3>3, <3>4
  <2> QED
    BY <1>1, <1>3, <1>7, <1>8, <2>2, <2>3 DEF Listed
<1>10. Following'
  <2>1. dllcalls' = <<>>
    BY <1>1, <1>2 DEF Started, Following
  <2>2. Len(dllcalls') = 0
    BY <2>1
  <2>3. \A k \in DOMAIN dllcalls' : FALSE
    BY <2>1
  <2> QED
    BY <1>8, <2>1, <2>2, <2>3 DEF Following
<1>11. Started'
  BY <1>1, <1>2, <1>5, <1>6, <1>9, <1>10 DEF Started
<1>12. CallsOK => CallsOK'
  <2>1. \A u \in Thread : phase'[u] \in Module => phase'[u] = phase[u]
    BY <1>1, <1>4
  <2> QED
    BY <1>1, <2>1, CallsOtherwise
<1>13. (Lone => Lone') /\ (MapsOK => MapsOK')
  BY <1>1 DEF Lone, MapsOK, Mapping
<1>14. (Cyclic' <=> Cyclic) /\ loadRaced' = loadRaced
  BY <1>1, ImportsSame
<1> QED
  BY <1>11, <1>12, <1>13, <1>14 DEF Unraced


NextEntry(c) ==
  /\ First \in Thread /\ phase[First] = "dll entries"
  /\ c \in Nat /\ c = Len(dllcalls) /\ c + 1 <= Len(routines)
  /\ Calls(First, routines[c + 1], "dll entries")

(* The first thread calls the next entry point of the list.                 *)
LEMMA EntryKeeps ==
  ASSUME WellTyped, Started, Unraced, NEW c \in Nat, NextEntry(c)
  PROVE  Started' /\ Unraced'
<1>1. /\ graph' = graph /\ UNCHANGED <<table, routines, maps, again, loadRaced, stack>>
      /\ Main \in Thread /\ First # Main
  BY LoaderAssumption DEF NextEntry, Calls
<1>2. First \in Thread /\ phase[First] = "dll entries" /\ \A u \in Thread : phase'[u] = phase[u]
  BY DEF NextEntry, Calls
<1>3. /\ Early /\ (Early' <=> Early) /\ Listed /\ Following /\ again = {} /\ ~loadRaced
      /\ (Loaded' <=> Loaded) /\ (Alive' <=> Alive) /\ (InitLast' <=> InitLast)
  BY <1>1, <1>2 DEF Early, EarlyPhases, Started, Alive, Loaded, InitLast, Loading
<1>4. PICK h \in Nat : /\ h = Len(routines) /\ DOMAIN routines = 1..h /\ c + 1 <= h
                       /\ DOMAIN dllcalls = 1..c
  BY CallsShape DEF NextEntry
<1>5. /\ DOMAIN dllcalls' = 1..c + 1 /\ Len(dllcalls') = c + 1 /\ dllcalls'[c + 1] = routines[c + 1]
      /\ \A k \in 1..c : dllcalls'[k] = dllcalls[k]
  <2>1. /\ dllcalls' \in Seq(Module) /\ Len(dllcalls') = Len(dllcalls) + 1
        /\ dllcalls'[Len(dllcalls) + 1] = routines[c + 1] /\ c = Len(dllcalls)
        /\ \A k \in 1..Len(dllcalls) : dllcalls'[k] = dllcalls[k]
    BY DEF NextEntry, Calls
  <2>2. Len(dllcalls') = c + 1
    BY <2>1
  <2>3. DOMAIN dllcalls' = 1..c + 1
    BY <2>1, <2>2
  <2> QED
    BY <2>1, <2>2, <2>3
<1>6. \A k \in 1..c + 1 : k \in 1..h
  BY <1>4
<1>7. \A k \in 1..c + 1 : dllcalls'[k] = routines[k]
  <2> TAKE k \in 1..c + 1
  <2>1. k \in 1..c \/ k = c + 1
    OBVIOUS
  <2> QED
    BY <1>3, <1>4, <1>5, <2>1 DEF Following
<1>8. Listed'
  BY <1>1, <1>3, ListedSame
<1>9. Following'
  BY <1>1, <1>2, <1>4, <1>5, <1>7 DEF Following
<1>10. \A k \in DOMAIN dllcalls' : dllcalls'[k] \in table
  BY <1>3, <1>4, <1>5, <1>6, <1>7 DEF Listed
<1>11. Started'
  BY <1>1, <1>3, <1>8, <1>9, <1>10 DEF Started
<1>12. CallsOK'
  <2>1. \A u \in Thread : phase'[u] \notin Module
    <3>1. phase[Main] \notin Module /\ phase[First] \notin Module
      BY <1>2 DEF WellTyped, PhaseTyped, MainPhases, StartPhases, Module
    <3>2. \A u \in Thread \ {Main, First} : phase[u] \notin Module
      BY <1>3 DEF Started, Alive, Module
    <3> QED
      BY <1>2, <3>1, <3>2
  <2>2. ASSUME NEW j \in 1..c + 1, NEW k \in 1..c + 1, dllcalls'[j] = dllcalls'[k] PROVE j = k
    <3>1. j \in 1..h /\ k \in 1..h /\ routines[j] = routines[k]
      BY <1>6, <1>7, <2>2
    <3> QED
      BY <1>3, <1>4, <3>1 DEF Listed
  <2> QED
    BY <1>5, <2>1, <2>2 DEF CallsOK
<1>13. (Lone => Lone') /\ (MapsOK => MapsOK')
  BY <1>1 DEF Lone, MapsOK, Mapping, Loading
<1>14. (Cyclic' <=> Cyclic) /\ loadRaced' = loadRaced
  BY <1>1, ImportsSame
<1> QED
  BY <1>11, <1>12, <1>13, <1>14 DEF Unraced

(* LoadLibraryA calls the entry point of its library.                       *)
LEMMA LibraryKeeps ==
  ASSUME WellTyped, Started, Unraced, NEW t \in Thread, t # Main, NEW x \in Libraries,
         phase[t] = x, Calls(t, x, "run")
  PROVE  Started' /\ Unraced'
<1>1. /\ graph' = graph /\ UNCHANGED <<table, routines, maps, again, loadRaced, stack>>
      /\ ~Loading(t) /\ phase'[t] = "run" /\ \A u \in Thread \ {t} : phase'[u] = phase[u]
      /\ Main \in Thread /\ First \in Thread /\ x \in Module /\ x # "init"
      /\ \A u \in Thread : Loading(u)' <=> Loading(u)
  BY LoaderAssumption DEF Calls, Loading, Libraries
<1>2. /\ "run" \notin Module /\ "run" \notin EarlyPhases /\ x \notin EarlyPhases /\ x # "unborn"
      /\ x # "setup"
  BY DEF Module, EarlyPhases, Libraries
<1>3. ~Early /\ ~Early' /\ phase[Main] \notin StartPhases /\ phase'[Main] = phase[Main]
  <2>1. ~Early
    <3>1. CASE t = First
      BY <1>2, <3>1 DEF Early
    <3>2. CASE t # First
      BY <1>2, <3>2 DEF Started, Alive
    <3> QED
      BY <3>1, <3>2
  <2>2. ~Early'
    BY <1>1, <1>2, <2>1 DEF Early
  <2>3. phase[Main] \notin StartPhases
    BY <2>1 DEF Started, Alive, Early, EarlyPhases
  <2> QED
    BY <1>1, <2>1, <2>2, <2>3
<1>4. Alive'
  <2>1. \A u \in Thread : phase'[u] \in Module => u # t /\ phase'[u] = phase[u]
    BY <1>1, <1>2
  <2>2. \A u \in Thread : phase'[u] = "dll entries" => u = First
    BY <1>1 DEF Started, Alive
  <2>3. \A u \in Thread : Loading(u)' => phase'[u] \in LoadPhases
    BY <1>1 DEF Started, Alive
  <2>4. \A u \in Thread : phase'[u] \in Module /\ ~Loading(u)' => phase'[u] \in table'
    BY <1>1, <2>1 DEF Started, Alive
  <2> QED
    BY <1>3, <2>2, <2>3, <2>4 DEF Alive
<1>5. Loaded'
  BY <1>1, <1>3 DEF Started, Loaded
<1>6. PICK c \in Nat : c = Len(dllcalls) /\ DOMAIN dllcalls = 1..c
  BY CallsShape
<1>7. /\ DOMAIN dllcalls' = 1..c + 1 /\ dllcalls'[c + 1] = x
      /\ \A k \in 1..c : dllcalls'[k] = dllcalls[k]
  BY <1>6 DEF Calls
<1>8. x \in table
  BY <1>1 DEF Started, Alive
<1>9. \A k \in DOMAIN dllcalls' : dllcalls'[k] \in table' /\ dllcalls'[k] # "init"
  <2>1. \A k \in 1..c : dllcalls[k] \in table /\ dllcalls[k] # "init"
    BY <1>3, <1>6 DEF Started, Initialised
  <2>2. \A k \in 1..c + 1 : k \in 1..c \/ k = c + 1
    BY <1>6
  <2> QED
    BY <1>1, <1>7, <1>8, <2>1, <2>2
<1>10. Initialised'
  <2>1. \A m : Imports(m)' = Imports(m)
    BY <1>1, ImportsSame
  <2>2. \A m, k : Called(m, k) => k \in 1..c /\ k \in 1..c + 1 /\ Called(m, k)'
    BY <1>6, <1>7 DEF Called
  <2>3. ASSUME NEW m \in (Imports("exe") \cup Imports("init")) \cap graph.dllmain
        PROVE  /\ \E k \in 1..c + 1 : Called(m, k)'
               /\ \A k \in 1..c + 1 : Called(m, k)' =>
                    \A d \in Imports(m) \cap graph.dllmain : \E j \in 1..k - 1 : Called(d, j)'
    <3>1. PICK l \in 1..c : Called(m, l)
      BY <1>3, <1>6, <2>3 DEF Started, Initialised
    <3>2. ASSUME NEW k \in 1..c + 1, Called(m, k)', NEW d \in Imports(m) \cap graph.dllmain
          PROVE  \E j \in 1..k - 1 : Called(d, j)'
      <4>1. CASE k \in 1..c
        <5>1. Called(m, k)
          BY <1>6, <1>7, <3>2, <4>1 DEF Called
        <5>2. PICK j \in 1..k - 1 : Called(d, j)
          BY <1>3, <1>6, <2>3, <3>2, <4>1, <5>1 DEF Started, Initialised
        <5> QED
          BY <2>2, <5>2
      <4>2. CASE k = c + 1
        <5>1. PICK j \in 1..l - 1 : Called(d, j)
          BY <1>3, <1>6, <2>3, <3>1, <3>2 DEF Started, Initialised
        <5>2. j \in 1..k - 1
          BY <1>6, <3>1, <4>2, <5>1
        <5> QED
          BY <2>2, <5>1, <5>2
      <4>3. k \in 1..c \/ k = c + 1
        BY <1>6, <3>2
      <4> QED
        BY <4>1, <4>2, <4>3
    <3>3. \E k \in 1..c + 1 : Called(m, k)'
      BY <2>2, <3>1
    <3> QED
      BY <3>2, <3>3
  <2> QED
    BY <1>1, <1>7, <1>9, <2>1, <2>3 DEF Initialised
<1>11. Started'
  BY <1>3, <1>4, <1>5, <1>9, <1>10 DEF Started
<1>12. ASSUME CallsOK PROVE CallsOK'
  <2>1. ASSUME NEW u \in Thread, phase'[u] \in Module \ again
        PROVE  /\ u # t /\ phase'[u] = phase[u] /\ phase[u] # x
               /\ \A k \in 1..c : dllcalls[k] # phase[u]
               /\ \A v \in Thread \ {u} : phase[v] # phase[u]
    <3>1. u # t /\ phase'[u] = phase[u]
      BY <1>1, <1>2, <2>1
    <3> QED
      BY <1>6, <1>12, <2>1, <3>1 DEF CallsOK
  <2>2. ASSUME NEW u \in Thread, phase'[u] \in Module \ again
        PROVE  /\ \A k \in 1..c + 1 : dllcalls'[k] # phase'[u]
               /\ \A v \in Thread \ {u} : phase'[v] # phase'[u]
    <3>1. \A k \in 1..c + 1 : k \in 1..c \/ k = c + 1
      BY <1>6
    <3>2. \A v \in Thread \ {u} : phase'[v] # phase'[u]
      BY <1>1, <1>2, <2>1, <2>2
    <3> QED
      BY <1>7, <2>1, <2>2, <3>1, <3>2
  <2>3. ASSUME NEW j \in 1..c + 1, NEW k \in 1..c + 1, dllcalls'[j] = dllcalls'[k]
        PROVE  j = k \/ dllcalls'[j] \in again
    <3>1. (j \in 1..c \/ j = c + 1) /\ (k \in 1..c \/ k = c + 1)
      BY <1>6
    <3>2. x \in again \/ \A l \in 1..c : dllcalls[l] # x
      BY <1>1, <1>6, <1>12 DEF CallsOK
    <3>3. CASE j \in 1..c /\ k \in 1..c
      BY <1>6, <1>7, <1>12, <2>3, <3>3 DEF CallsOK
    <3>4. CASE j = c + 1 \/ k = c + 1
      BY <1>7, <2>3, <3>1, <3>2, <3>4
    <3> QED
      BY <3>1, <3>3, <3>4
  <2> QED
    BY <1>1, <1>7, <2>2, <2>3 DEF CallsOK
<1>13. (Lone => Lone') /\ (MapsOK => MapsOK')
  BY <1>1 DEF Lone, MapsOK, Mapping
<1>14. (Cyclic' <=> Cyclic) /\ loadRaced' = loadRaced
  BY <1>1, ImportsSame
<1> QED
  BY <1>11, <1>12, <1>13, <1>14 DEF Unraced

(* LoadLibraryA looks for its library and loads it if it is not there.      *)
LEMMA LibsKeeps ==
  ASSUME WellTyped, Started, Unraced, NEW t \in Thread, NEW m \in Module, Libs(t, m), StackTyped'
  PROVE  Started' /\ Unraced'
<1>1. /\ graph' = graph /\ UNCHANGED <<table, routines, maps, dllcalls>>
      /\ t # Main /\ m \in Libraries /\ ~Loading(t) /\ phase[t] = "run" /\ phase'[t] = m
      /\ \A u \in Thread \ {t} : phase'[u] = phase[u] /\ stack'[u] = stack[u]
                                 /\ (Loading(u)' <=> Loading(u))
      /\ (Loading(t)' <=> m \notin table)
      /\ again \subseteq again' /\ (m \in table => m \in again')
      /\ Main \in Thread /\ First \in Thread
  BY LoaderAssumption DEF Libs, Begun
<1>2. /\ m \in LoadPhases /\ m \notin EarlyPhases /\ m # "dll entries" /\ "run" \notin EarlyPhases
      /\ "run" # "unborn" /\ "run" \notin Module
  BY <1>1 DEF LoadPhases, EarlyPhases, Module
<1>3. ~Early /\ ~Early' /\ phase[Main] \notin StartPhases /\ phase'[Main] = phase[Main]
  <2>1. ~Early
    <3>1. CASE t = First
      BY <1>1, <1>2, <3>1 DEF Early
    <3>2. CASE t # First
      BY <1>1, <1>2, <3>2 DEF Started, Alive
    <3> QED
      BY <3>1, <3>2
  <2>2. ~Early'
    BY <1>1, <1>2, <2>1 DEF Early
  <2>3. phase[Main] \notin StartPhases
    BY <2>1 DEF Started, Alive, Early, EarlyPhases
  <2> QED
    BY <1>1, <2>1, <2>2, <2>3
<1>4. Alive'
  <2>1. \A u \in Thread : Loading(u)' => phase'[u] \in LoadPhases
    BY <1>1, <1>2 DEF Started, Alive
  <2>2. \A u \in Thread : phase'[u] = "dll entries" => u = First
    BY <1>1, <1>2 DEF Started, Alive
  <2>3. \A u \in Thread : phase'[u] \in Module /\ ~Loading(u)' => phase'[u] \in table'
    BY <1>1 DEF Started, Alive
  <2> QED
    BY <1>3, <2>1, <2>2, <2>3 DEF Alive
<1>5. Loaded'
  BY <1>1, <1>3 DEF Started, Loaded, StartPhases
<1>6. Initialised'
  <2>1. \A x : Imports(x)' = Imports(x)
    BY <1>1, ImportsSame
  <2> QED
    BY <1>1, <1>3, <2>1 DEF Started, Initialised, Called
<1>7. Started'
  BY <1>1, <1>3, <1>4, <1>5, <1>6 DEF Started
<1>8. ASSUME ~loadRaced' PROVE ~loadRaced /\ \A u \in Thread \ {t} : ~Loading(u)
  BY <1>8 DEF Libs
<1>9. ASSUME ~loadRaced', Lone PROVE Lone'
  <2>1. \A u, v \in Thread : Loading(u)' /\ Loading(v)' => u = v
    BY <1>1, <1>8, <1>9
  <2>2. ASSUME NEW u \in Thread \ {t}, NEW k \in DOMAIN stack'[u] PROVE FALSE
    <3>1. stack'[u] = <<>>
      BY <1>1, <1>8, <1>9, <2>2 DEF Loading
    <3> QED
      BY <2>2, <3>1
  <2>3. ASSUME NEW k \in DOMAIN stack'[t] PROVE stack'[t][k].mod \notin table'
    <3>1. stack'[t] \in Seq(NatFrame)
      BY DEF StackTyped
    <3>2. CASE m \notin table
      <4>1. Depth(t)' = 1 /\ stack'[t][1].mod = m
        BY <3>2 DEF Libs, Begun
      <4>2. k = 1
        BY <2>3, <3>1, <4>1 DEF Depth
      <4> QED
        BY <1>1, <3>2, <4>1, <4>2
    <3>3. CASE m \in table
      <4>1. Depth(t)' = 0
        BY <3>3 DEF Libs, Begun
      <4> QED
        BY <2>3, <3>1, <4>1 DEF Depth
    <3> QED
      BY <3>2, <3>3
  <2>4. \A u \in Thread : \A k \in DOMAIN stack'[u] : stack'[u][k].mod \notin table'
    BY <2>2, <2>3
  <2> QED
    BY <2>1, <2>4 DEF Lone
<1>10. MapsOK => MapsOK'
  <2>1. \A x : Mapping(x) => Mapping(x)'
    <3>1. \A k \in DOMAIN stack[t] : FALSE
      <4>1. stack[t] = <<>>
        BY <1>1 DEF Loading
      <4> QED
        BY <4>1
    <3> QED
      BY <1>1, <3>1 DEF Mapping
  <2> QED
    BY <1>1, <2>1 DEF MapsOK
<1>11. ASSUME ~loadRaced', CallsOK PROVE CallsOK'
  <2>1. ASSUME NEW u \in Thread \ {t}, phase[u] = m PROVE m \in table
    BY <1>8, <1>11, <2>1 DEF Started, Alive
  <2>2. ASSUME NEW u \in Thread, phase'[u] \in Module \ again'
        PROVE  /\ \A k \in DOMAIN dllcalls : dllcalls[k] # phase'[u]
               /\ \A v \in Thread \ {u} : phase'[v] # phase'[u]
    <3>1. CASE u = t
      <4>1. m \notin table /\ phase'[u] = m
        BY <1>1, <2>2, <3>1
      <4>2. \A k \in DOMAIN dllcalls : dllcalls[k] # m
        BY <4>1 DEF Started
      <4> QED
        BY <1>1, <2>1, <3>1, <4>1, <4>2
    <3>2. CASE u # t
      <4>1. phase'[u] = phase[u] /\ phase[u] \in Module \ again /\ phase[u] # m
        BY <1>1, <2>1, <2>2, <3>2
      <4> QED
        BY <1>1, <1>11, <4>1 DEF CallsOK
    <3> QED
      BY <3>1, <3>2
  <2>3. \A j, k \in DOMAIN dllcalls :
          dllcalls[j] = dllcalls[k] => j = k \/ dllcalls[j] \in again'
    BY <1>1, <1>11 DEF CallsOK
  <2> QED
    BY <1>1, <2>2, <2>3 DEF CallsOK
<1>12. Cyclic' <=> Cyclic
  BY <1>1, ImportsSame
<1> QED
  BY <1>7, <1>8, <1>9, <1>10, <1>11, <1>12 DEF Unraced


-----------------------------------------------------------------------------
\* The invariant holds.

(* Modules that are loaded from within one another deeper than there are    *)
(* modules import one another in a circle.                                  *)
LEMMA OverflowsCyclic ==
  ASSUME WellTyped, Linked, NEW t \in Thread, Overflows(t)
  PROVE  Cyclic
<1>1. PICK dep \in Module : Wants(t, dep) /\ Depth(t) = StackMax
  BY DEF Overflows
<1>2. Loading(t) /\ StackTyped /\ graph \in Graphs
  BY <1>1 DEF Wants, WellTyped, LinkTyped
<1>3. PICK n \in Nat : n = Depth(t) /\ n >= 5 /\ DOMAIN stack[t] = 1..n /\ Top(t) = stack[t][1]
  BY <1>1, <1>2, TopModule, ModuleCount
<1>4. dep \in Direct(graph, Top(t).mod) /\ Top(t).mod \in Module
  BY <1>1, <1>2, TopModule DEF Wants, Direct
<1>5. \A k \in 1..n : stack[t][k].mod \in Module
  BY <1>2, <1>3, StackShape
<1>6. PICK f : f = [k \in 0..n |-> IF k = 0 THEN dep ELSE stack[t][k].mod]
  OBVIOUS
<1>7. f \in [0..n -> Module] /\ f[0] = dep /\ \A k \in 1..n : f[k] = stack[t][k].mod
  <2>1. \A k \in 0..n : k = 0 \/ k \in 1..n
    BY <1>3
  <2>2. f \in [0..n -> Module]
    BY <1>5, <1>6, <2>1
  <2>3. \A k \in 1..n : k \in 0..n /\ k # 0
    BY <1>3
  <2>4. 0 \in 0..n
    BY <1>3
  <2> QED
    BY <1>6, <2>2, <2>3, <2>4
<1>8. PICK x \in 0..n, y \in 0..n : x # y /\ f[x] = f[y]
  <2>1. IsFiniteSet(0..n) /\ Cardinality(0..n) = n + 1
    <3>1. 0 \in Int /\ n \in Int
      OBVIOUS
    <3>2. IsFiniteSet(0..n) /\ Cardinality(0..n) = IF 0 > n THEN 0 ELSE n - 0 + 1
      BY <3>1, FS_Interval
    <3> QED
      BY <3>2
  <2>2. Cardinality(Module) < Cardinality(0..n)
    BY <1>3, <2>1, ModuleCount
  <2> QED
    BY <1>7, <2>1, <2>2, ModuleCount, FS_PigeonHole
<1>9. ASSUME NEW i \in 0..n, NEW j \in 0..n, i < j PROVE f[i] \in Imports(f[j])
  <2>1. j \in 1..n
    BY <1>9
  <2>2. f[j] = stack[t][j].mod /\ f[j] \in Module
    BY <1>5, <1>7, <2>1
  <2>3. Waits(t, j)
    BY <1>3, <2>1 DEF Linked
  <2>4. CASE i # 0
    <3>1. i \in 1..j - 1 /\ i \in 1..n
      BY <1>9, <2>4
    <3> QED
      BY <1>7, <2>2, <2>3, <3>1 DEF Waits
  <2>5. CASE i = 0
    <3>1. CASE j = 1
      BY <1>2, <1>3, <1>4, <1>7, <2>2, <2>5, <3>1, ImportsFacts
    <3>2. CASE j # 1
      <4>1. 1 \in 1..j - 1
        BY <2>1, <3>2
      <4>2. Top(t).mod \in Imports(f[j])
        BY <1>3, <2>2, <2>3, <4>1 DEF Waits
      <4>3. Closed(graph, Imports(f[j]))
        BY <1>2, <2>2, ImportsFacts
      <4> QED
        BY <1>4, <1>7, <2>5, <4>2, <4>3 DEF Closed
    <3> QED
      BY <3>1, <3>2
  <2> QED
    BY <2>4, <2>5
<1>10. x < y \/ y < x
  BY <1>8
<1>11. f[x] \in Module
  BY <1>7, <1>8
<1> QED
  BY <1>8, <1>9, <1>10, <1>11 DEF Cyclic

\* The parts of the invariant that a step may disturb together.
Kept == WellTyped /\ Linked /\ Started /\ Unraced

(* A step of the loader keeps all this, and crashes only for a reason.      *)
LEMMA LoadKeeps ==
  ASSUME Kept, ~crashed, NEW t \in Thread, LoadStep(t)
  PROVE  Kept' /\ CrashHasReason'
<1>1. WellTyped' /\ (Moves(t) \/ Pushes(t) \/ Overflows(t) \/ Lacks(t) \/ Completes(t))
  BY LoadTyped, LoadShape DEF Kept
<1>2. StackTyped' /\ WellTyped /\ Linked /\ Started /\ Unraced /\ Main \in Thread
  BY <1>1, LoaderAssumption DEF WellTyped, Kept
<1>3. CASE Moves(t)
  BY <1>1, <1>2, <1>3, MovesLinked, MovesKeeps DEF Kept, CrashHasReason, Moves
<1>4. CASE Pushes(t)
  BY <1>1, <1>2, <1>4, PushesLinked, PushesKeeps DEF Kept, CrashHasReason, Pushes
<1>5. CASE Completes(t)
  <2>1. Linked' /\ Started' /\ Unraced'
    BY <1>1, <1>2, <1>5, CompletesLinked, CompletesStarted, CompletesUnraced
  <2>2. crashed' => Unlinked'
    BY <1>5 DEF Completes
  <2>3. CrashHasReason'
    BY <2>2 DEF CrashHasReason, Unlinked
  <2> QED
    BY <1>1, <2>1, <2>3 DEF Kept
<1>6. CASE Overflows(t)
  <2>1. SameLinks /\ phase' = phase /\ stack' = stack /\ maps' = maps
    BY <1>6 DEF Overflows, Wants, Quiet, SameLinks
  <2>2. Linked'
    BY <1>2, <2>1, LinkedSame DEF SameLinks
  <2>3. Started' /\ Unraced'
    BY <1>2, <2>1, StartedSame, StillLone DEF Loading
  <2>4. Cyclic'
    BY <1>2, <1>6, <2>1, OverflowsCyclic, ImportsSame DEF SameLinks
  <2> QED
    BY <1>1, <2>2, <2>3, <2>4 DEF Kept, CrashHasReason
<1>7. CASE Lacks(t)
  <2>1. SameLinks /\ phase' = phase /\ stack' = stack /\ maps' = maps
    BY <1>7 DEF Lacks, Quiet, SameLinks
  <2>2. Linked'
    BY <1>2, <2>1, LinkedSame DEF SameLinks
  <2>3. Started' /\ Unraced'
    BY <1>2, <2>1, StartedSame, StillLone DEF Loading
  <2>4. CASE Top(t).mod \in graph.absent
    <3>1. Loading(t)' /\ Top(t)'.mod \in graph'.absent
      BY <1>7, <2>1, <2>4 DEF Lacks, Loading, Top, SameLinks
    <3> QED
      BY <1>1, <2>2, <2>3, <3>1 DEF Kept, CrashHasReason
  <2>5. CASE Unlinked
    <3>1. Unlinked'
      BY <2>1, <2>5 DEF Unlinked, SameLinks, Links, Direct
    <3> QED
      BY <1>1, <2>2, <2>3, <3>1 DEF Kept, CrashHasReason, Unlinked
  <2> QED
    BY <1>7, <2>4, <2>5 DEF Lacks
<1> QED
  BY <1>1, <1>3, <1>4, <1>5, <1>6, <1>7

(* A step that leaves the loader alone keeps it.                            *)
LEMMA StillKeeps ==
  ASSUME Kept, WellTyped', Still
  PROVE  Kept' /\ (CrashHasReason => CrashHasReason')
<1>1. SameLinks /\ phase' = phase /\ stack' = stack /\ maps' = maps /\ graph' = graph
      /\ crashed' = crashed
  BY DEF Still, LinksStay, SameLinks
<1>2. WellTyped /\ Linked /\ Started /\ Unraced /\ Main \in Thread
  BY LoaderAssumption DEF Kept
<1>3. Linked'
  BY <1>1, <1>2, LinkedSame DEF SameLinks
<1>4. Started' /\ Unraced'
  BY <1>1, <1>2, StartedSame, StillLone DEF Loading
<1>5. Cyclic' <=> Cyclic
  BY <1>1, ImportsSame
<1>6. ASSUME CrashHasReason PROVE CrashHasReason'
  <2>1. /\ \A t \in Thread : Loading(t)' = Loading(t) /\ Top(t)' = Top(t)
        /\ table' = table
    BY <1>1 DEF Loading, Top, SameLinks
  <2>2. Unlinked' = Unlinked
    BY <1>1, <2>1 DEF Unlinked, Links, Direct
  <2> QED
    BY <1>1, <1>5, <1>6, <2>1, <2>2 DEF CrashHasReason, Unlinked
<1> QED
  BY <1>1, <1>3, <1>4, <1>6 DEF Kept

(* A thread's turn keeps the links.                                         *)
LEMMA TurnsLinked ==
  ASSUME Linked, NEW t \in Thread, NEW p, NEW q, Turns(t, p, q)
  PROVE  Linked'
BY LinkedSame DEF Turns, LinksStay

\* A thread starts or starts another.
LEMMA StartKeeps ==
  ASSUME Kept, ~crashed, Start \/ CreateThread \/ Created
  PROVE  Kept' /\ CrashHasReason'
<1>1. WellTyped /\ Linked /\ Started /\ Unraced /\ Alive /\ {Main, First, Second} \subseteq Thread
      /\ First # Main /\ Second # Main
  BY LoaderAssumption DEF Kept, Started
<1>2. CASE LoadInit
  <2>1. WellTyped' /\ StackTyped' /\ InitNext
    BY <1>1, <1>2, LoadInitNext DEF WellTyped
  <2>2. Started' /\ Unraced'
    BY <1>1, <2>1, InitNextKeeps
  <2>3. Linked'
    <3>1. PICK m \in Module, new \in BOOLEAN : m = "init" /\ new = ("init" \notin table)
      BY DEF Module
    <3>2. /\ Begun(Main, m, new) /\ graph' = graph /\ table' = table
          /\ \A u \in Thread \ {Main} : phase'[u] = phase[u]
          /\ m = Root(phase'[Main])
      BY <2>1, <3>1 DEF InitNext, LinksStay, Root
    <3> QED
      BY <1>1, <2>1, <3>2, BegunLinked
  <2> QED
    BY <2>1, <2>2, <2>3 DEF Kept, CrashHasReason, InitNext, LinksStay
<1>3. CASE EraseLast
  <2>1. WellTyped' /\ Erased
    BY <1>1, <1>3, EraseLastErases
  <2>2. Started' /\ Unraced'
    BY <1>1, <2>1, ErasedKeeps
  <2>3. \A t \in Thread : Loading(t) => phase'[t] = phase[t]
    BY <2>1 DEF Erased
  <2>4. Linked'
    BY <1>1, <2>1, <2>3, LinkedSame DEF Erased
  <2> QED
    BY <2>1, <2>2, <2>4 DEF Kept, CrashHasReason, Erased
<1>4. ASSUME NEW t \in Thread, NEW p \in BusyPhases, NEW q \in BusyPhases, Turns(t, p, q),
             WellTyped', Started', Unraced'
      PROVE  Kept' /\ CrashHasReason'
  BY <1>1, <1>4, TurnsLinked DEF Kept, CrashHasReason, Turns, LinksStay
<1>5. CASE MapParameters
  <2>1. PICK p \in BusyPhases, q \in BusyPhases :
          /\ WellTyped' /\ Turns(Main, p, q) /\ p \in StartPhases
          /\ q # "dll entries" /\ q # "setup"
    BY <1>1, <1>5, MapParametersTurns DEF BusyPhases, StartPhases
  <2>2. Started' /\ Unraced'
    BY <1>1, <2>1, TurnsKeeps
  <2> QED
    BY <1>1, <1>4, <2>1, <2>2
<1>6. CASE StartThread
  <2>1. WellTyped' /\ Starts(Main, First, "events") /\ phase[Main] = "start thread"
    BY <1>1, <1>6, StartThreadStarts
  <2>2. Started' /\ Unraced'
    BY <1>1, <2>1, StartsKeeps
  <2>3. Linked'
    BY <1>1, <2>1, LinkedSame DEF Starts, LinksStay
  <2> QED
    BY <2>1, <2>2, <2>3 DEF Kept, CrashHasReason, Starts, LinksStay
<1>7. CASE DllEntry
  <2>1. WellTyped' /\ phase[First] = "dll entries"
    BY <1>1, <1>7, DllEntryCalls
  <2>2. CASE /\ Len(dllcalls) + 1 <= Len(routines)
             /\ Calls(First, routines[Len(dllcalls) + 1], "dll entries")
    <3>1. PICK c \in Nat : c = Len(dllcalls)
      BY <1>1, CallsShape
    <3>2. NextEntry(c)
      BY <1>1, <2>1, <2>2, <3>1 DEF NextEntry
    <3>3. Started' /\ Unraced'
      BY <1>1, <3>1, <3>2, EntryKeeps
    <3>4. Linked'
      <4>1. UNCHANGED <<graph, stack, table>> /\ \A t \in Thread : Loading(t) => phase'[t] = phase[t]
        BY <2>2 DEF Calls
      <4> QED
        BY <1>1, <4>1, LinkedSame
    <3> QED
      BY <2>1, <2>2, <3>3, <3>4 DEF Kept, CrashHasReason, Calls
  <2>3. CASE Len(dllcalls) + 1 > Len(routines) /\ Turns(First, "dll entries", "run")
    <3>1. Initialised
      BY <1>1, <2>1, <2>3, AllInitialised DEF ListDone
    <3>2. "dll entries" \in BusyPhases /\ "run" \in BusyPhases /\ "run" \notin StartPhases
          /\ "run" \notin EarlyPhases
      BY DEF BusyPhases, StartPhases, EarlyPhases
    <3>3. Started' /\ Unraced'
      BY <1>1, <2>3, <3>1, <3>2, TurnsKeeps
    <3> QED
      BY <1>1, <1>4, <2>1, <2>3, <3>2, <3>3
  <2> QED
    BY <1>1, <1>7, <2>2, <2>3, DllEntryCalls
<1>8. CASE CreateThread
  <2>1. WellTyped' /\ Starts(First, Second, "creating") /\ phase[First] = "run"
    BY <1>1, <1>8, CreateThreadStarts
  <2>2. Started' /\ Unraced'
    BY <1>1, <2>1, StartsKeeps
  <2>3. Linked'
    BY <1>1, <2>1, LinkedSame DEF Starts, LinksStay
  <2> QED
    BY <2>1, <2>2, <2>3 DEF Kept, CrashHasReason, Starts, LinksStay
<1>9. CASE Created
  <2>1. WellTyped' /\ Turns(First, "creating", "run")
    BY <1>1, <1>9, CreatedTurns
  <2>2. "creating" \in BusyPhases /\ "run" \in BusyPhases /\ "run" \notin StartPhases
        /\ "run" \notin EarlyPhases /\ "creating" \notin EarlyPhases
    BY DEF BusyPhases, StartPhases, EarlyPhases
  <2>3. Started' /\ Unraced'
    BY <1>1, <2>1, <2>2, TurnsKeeps
  <2> QED
    BY <1>1, <1>4, <2>1, <2>2, <2>3
<1> QED
  BY <1>2, <1>3, <1>5, <1>6, <1>7, <1>8, <1>9 DEF Start

\* The running program, and threads that proceed in a call.
LEMMA ProgramKeeps ==
  ASSUME Kept, ~crashed, NEW t \in Thread,
         Program(t) \/ Allocated(t) \/ SetupMap(t) \/ SetupDone(t) \/ (MemStep(t) /\ UNCHANGED ldrVars)
  PROVE  Kept' /\ CrashHasReason'
<1>1. WellTyped /\ Linked /\ Started /\ Unraced /\ Alive /\ CrashHasReason
  BY DEF Kept, Started, CrashHasReason
<1>2. CASE Commit(t) \/ Release(t) \/ SetupMap(t) \/ (MemStep(t) /\ UNCHANGED ldrVars)
  BY <1>1, <1>2, CommitStill, ReleaseStill, SetupMapStill, MemStill, StillKeeps
<1>3. ASSUME NEW p \in BusyPhases, NEW q \in BusyPhases, Turns(t, p, q),
             WellTyped', Started', Unraced'
      PROVE  Kept' /\ CrashHasReason'
  BY <1>1, <1>3, TurnsLinked DEF Kept, CrashHasReason, Turns, LinksStay
<1>4. /\ {"events", "run", "allocating", "setup", "dll entries"} \subseteq BusyPhases
      /\ "events" \notin StartPhases /\ "run" \notin StartPhases /\ "allocating" \notin StartPhases
      /\ "events" \notin EarlyPhases /\ "run" \notin EarlyPhases /\ "allocating" \notin EarlyPhases
      /\ "setup" \notin StartPhases /\ "dll entries" \notin StartPhases
      /\ "setup" \in EarlyPhases /\ "dll entries" \in EarlyPhases
  BY DEF BusyPhases, StartPhases, EarlyPhases
<1>5. CASE Allocate(t) \/ AllocateAt(t)
  <2>1. PICK p \in {"events", "run"} : WellTyped' /\ Turns(t, p, "allocating")
    BY <1>1, <1>5, AllocateTurns, AllocateAtTurns
  <2>2. Started' /\ Unraced'
    BY <1>1, <1>4, <2>1, TurnsKeeps
  <2> QED
    BY <1>3, <1>4, <2>1, <2>2
<1>6. CASE Allocated(t)
  <2>1. PICK q \in {"events", "run"} : WellTyped' /\ Turns(t, "allocating", q)
    BY <1>1, <1>6, AllocatedTurns
  <2>2. Started' /\ Unraced'
    BY <1>1, <1>4, <2>1, TurnsKeeps
  <2> QED
    BY <1>3, <1>4, <2>1, <2>2
<1>7. CASE SetupDone(t)
  <2>1. WellTyped' /\ Turns(t, "setup", IF t = First THEN "dll entries" ELSE "run")
    BY <1>1, <1>7, SetupDoneTurns
  <2>2. CASE t = First
    <3>1. Turns(t, "setup", "dll entries")
      BY <2>1, <2>2
    <3>2. Started' /\ Unraced'
      BY <1>1, <1>4, <2>2, <3>1, TurnsKeeps
    <3> QED
      BY <1>3, <1>4, <2>1, <3>1, <3>2
  <2>3. CASE t # First
    <3>1. Turns(t, "setup", "run")
      BY <2>1, <2>3
    <3>2. Started' /\ Unraced'
      BY <1>1, <1>4, <2>3, <3>1, TurnsKeeps
    <3> QED
      BY <1>3, <1>4, <2>1, <3>1, <3>2
  <2> QED
    BY <2>2, <2>3
<1>8. CASE LoadLibrary(t)
  <2>1. PICK m \in Module : WellTyped' /\ StackTyped' /\ Libs(t, m)
    BY <1>1, <1>8, LoadLibraryLibs DEF WellTyped
  <2>2. Started' /\ Unraced'
    BY <1>1, <2>1, LibsKeeps
  <2>3. PICK new \in BOOLEAN : new = (m \notin table)
    OBVIOUS
  <2>4. /\ Begun(t, m, new) /\ graph' = graph /\ table' = table
        /\ \A u \in Thread \ {t} : phase'[u] = phase[u]
        /\ m = Root(phase'[t])
    BY <2>1, <2>3 DEF Libs, Root, Libraries, Module
  <2>5. Linked'
    BY <1>1, <2>1, <2>4, BegunLinked
  <2> QED
    BY <2>1, <2>2, <2>5 DEF Kept, CrashHasReason, Libs
<1>9. CASE LibraryEntry(t)
  <2>1. /\ WellTyped' /\ phase[t] \in Libraries /\ t # Main
        /\ NoEntry(t) \/ Calls(t, phase[t], "run")
    BY <1>1, <1>9, LibraryEntryCalls
  <2>2. CASE Calls(t, phase[t], "run")
    <3>1. PICK x \in Libraries : x = phase[t]
      BY <2>1
    <3>2. Started' /\ Unraced'
      BY <1>1, <2>1, <2>2, <3>1, LibraryKeeps
    <3>3. UNCHANGED <<graph, stack, table>> /\ \A u \in Thread : Loading(u) => phase'[u] = phase[u]
      BY <2>2 DEF Calls
    <3>4. Linked'
      BY <1>1, <3>3, LinkedSame
    <3> QED
      BY <2>1, <2>2, <3>2, <3>4 DEF Kept, CrashHasReason, Calls
  <2>3. CASE NoEntry(t)
    <3>1. SameLinks /\ phase' = phase /\ stack' = stack /\ maps' = maps /\ graph' = graph
      BY <2>3 DEF NoEntry, SameLinks
    <3>2. Main \in Thread
      BY LoaderAssumption
    <3>3. Linked' /\ Started' /\ Unraced'
      BY <1>1, <3>1, <3>2, LinkedSame, StartedSame, StillLone DEF Loading, SameLinks
    <3>4. CrashHasReason'
      BY <2>3, <3>1 DEF NoEntry, CrashHasReason
    <3> QED
      BY <2>1, <3>3, <3>4 DEF Kept
  <2> QED
    BY <2>1, <2>2, <2>3
<1> QED
  BY <1>2, <1>5, <1>6, <1>7, <1>8, <1>9 DEF Program

(* Every step keeps the invariant ...                                       *)
LEMMA LinkStep ==
  ASSUME LinkInv, [Next]_vars
  PROVE  LinkInv'
<1>1. Kept /\ CrashHasReason
  BY DEF LinkInv, Kept
<1>2. CASE Next
  <2>1. ~crashed
    BY <1>2 DEF Next, Live
  <2>2. CASE Start \/ CreateThread \/ Created
    BY <1>1, <2>1, <2>2, StartKeeps DEF LinkInv, Kept
  <2>3. ASSUME NEW t \in Thread, Proceed(t) \/ Program(t) PROVE LinkInv'
    BY <1>1, <2>1, <2>3, LoadKeeps, ProgramKeeps DEF Proceed, LinkInv, Kept
  <2> QED
    BY <1>2, <2>2, <2>3 DEF Next
<1>3. CASE UNCHANGED vars
  <2>1. UNCHANGED memVars /\ UNCHANGED ldrVars
    BY <1>3 DEF vars
  <2>2. Still
    BY <2>1 DEF ldrVars, Still, LinksStay
  <2>3. WellTyped'
    <3>1. MemTyped' /\ StackTyped'
      BY <1>1, <2>1, MemTypedSame, StackTypedSame DEF Kept, WellTyped, ldrVars
    <3>2. PhaseTyped' /\ LinkTyped'
      BY <1>1, <2>1 DEF Kept, WellTyped, ldrVars, PhaseTyped, LinkTyped
    <3> QED
      BY <3>1, <3>2 DEF WellTyped
  <2> QED
    BY <1>1, <2>2, <2>3, StillKeeps DEF LinkInv, Kept
<1> QED
  BY <1>2, <1>3


(* ... which holds at the start, when the executable's load begins.         *)
LEMMA LinkInit ==
  ASSUME Init
  PROVE  LinkInv
<1>1. /\ {Main, First, Second} \subseteq Thread /\ First # Main /\ Second # Main
      /\ "exe" \in Module /\ "init" \in Module
      /\ Pages \in Nat /\ Pages > 2 /\ FirstBase \in 0..Pages /\ MaxOps \in Nat
  BY LoaderAssumption, MemoryAssumption DEF Module
<1>2. PICK f \in NatFrame : f = Frame("exe") /\ f.mod = "exe" /\ f.step = "reserve"
  <2>1. Frame("exe") \in NatFrame
    BY <1>1 DEF Frame, NatFrame
  <2>2. Frame("exe").mod = "exe" /\ Frame("exe").step = "reserve"
    BY DEF Frame
  <2> QED
    BY <2>1, <2>2
<1>3. /\ regions = {} /\ map_base = FirstBase
      /\ prot = [p \in Page |-> "N"] /\ call = [t \in Thread |-> Returned(0)]
      /\ graph \in Graphs /\ owned = [t \in Thread |-> {}] /\ place = [t \in Thread |-> <<>>]
      /\ stack = [t \in Thread |-> IF t = Main THEN <<f>> ELSE <<>>]
      /\ phase = [t \in Thread |-> IF t = Main THEN "load exe" ELSE "unborn"]
      /\ table = {} /\ routines = <<>> /\ maps = [m \in Module |-> 0] /\ dllcalls = <<>>
      /\ again = {} /\ loadRaced = FALSE /\ ops = 0 /\ crashed = FALSE
  BY <1>2 DEF Init, MemInit
<1>4. \A t \in Thread : call[t] \in NatCall /\ Idle(t)
  <2> TAKE t \in Thread
  <2>1. call[t] = Returned(0)
    BY <1>3
  <2> QED
    BY <2>1 DEF Returned, Idle, NatCall, NatIdle
<1>5. MemTyped
  <2>1. map_base \in 0..2 * Pages - 1
    <3>1. map_base = FirstBase /\ Pages \in Nat /\ Pages > 2 /\ FirstBase \in 0..Pages
      BY <1>1, <1>3
    <3> QED
      BY <3>1
  <2>2. prot \in [Page -> Prot] /\ regions \subseteq NatRegion
    BY <1>3 DEF Prot
  <2>3. call \in [Thread -> NatCall]
    BY <1>3, <1>4
  <2>4. \A t \in Thread : ~At(t, "fixed", 2)
    BY <1>4 DEF Idle, At
  <2> QED
    BY <2>1, <2>2, <2>3, <2>4 DEF MemTyped
<1>6. /\ stack[Main] = <<f>> /\ \A t \in Thread \ {Main} : stack[t] = <<>>
      /\ phase[Main] = "load exe" /\ \A t \in Thread \ {Main} : phase[t] = "unborn"
  BY <1>1, <1>3
<1>7. /\ Loading(Main) /\ DOMAIN stack[Main] = {1} /\ stack[Main][1] = f /\ Len(stack[Main]) = 1
      /\ stack[Main] \in Seq(NatFrame)
      /\ \A t \in Thread \ {Main} : /\ ~Loading(t) /\ (\A k \in DOMAIN stack[t] : FALSE)
                                    /\ Len(stack[t]) = 0 /\ stack[t] \in Seq(NatFrame)
  <2>1. /\ <<f>> # <<>> /\ DOMAIN <<f>> = {1} /\ <<f>>[1] = f /\ Len(<<f>>) = 1
        /\ <<f>> \in Seq(NatFrame)
    OBVIOUS
  <2>2. (\A k \in DOMAIN <<>> : FALSE) /\ Len(<<>>) = 0
    OBVIOUS
  <2>3. <<>> \in Seq(NatFrame)
    OBVIOUS
  <2> QED
    BY <1>6, <2>1, <2>2, <2>3 DEF Loading
<1>8. StackTyped
  <2>1. stack \in [Thread -> Seq(NatFrame)]
    BY <1>3, <1>7
  <2>2. Len(stack[Main]) <= StackMax /\ \A t \in Thread \ {Main} : Len(stack[t]) <= StackMax
    BY <1>7, ModuleCount
  <2>3. \A t \in Thread : \A k \in DOMAIN stack[t] : FrameOK(t, k)
    BY <1>2, <1>7 DEF FrameOK
  <2> QED
    BY <2>1, <2>2, <2>3 DEF StackTyped
<1>9. PhaseTyped
  BY <1>3, <1>6 DEF PhaseTyped, MainPhases, StartPhases, GuestPhases
<1>10. LinkTyped
  <2>1. <<>> \in Seq(Module) /\ <<>> \in Seq(Nat)
    OBVIOUS
  <2>2. table \subseteq Module /\ routines \in Seq(Module) /\ dllcalls \in Seq(Module)
    BY <1>3, <2>1
  <2>3. maps \in [Module -> Nat]
    BY <1>3
  <2>4. owned \in [Thread -> SUBSET NatRegion]
    BY <1>3
  <2>5. place \in [Thread -> Seq(Nat)]
    BY <1>3, <2>1
  <2>6. ops \in 0..MaxOps
    <3>1. ops = 0 /\ MaxOps \in Nat
      BY <1>1, <1>3
    <3> QED
      BY <3>1
  <2> QED
    BY <1>3, <2>2, <2>3, <2>4, <2>5, <2>6 DEF LinkTyped
<1>11. Linked
  <2>1. Waits(Main, 1)
    <3>1. ~(1 > 1) /\ \A j \in 1..1 - 1 : FALSE
      OBVIOUS
    <3> QED
      BY <1>2, <1>6, <1>7, <3>1 DEF Waits, Root
  <2>2. Closed(graph, table)
    BY <1>3 DEF Closed
  <2> QED
    BY <1>7, <2>1, <2>2 DEF Linked
<1>12. Early /\ Alive /\ Loaded /\ ~InitLast
  <2>1. Early
    BY <1>1, <1>6 DEF Early, EarlyPhases
  <2>2. Alive
    BY <1>1, <1>6, <1>7 DEF Alive, LoadPhases, Module
  <2>3. Loaded /\ ~InitLast
    BY <1>3, <1>6, <1>7 DEF Loaded, InitLast
  <2> QED
    BY <2>1, <2>2, <2>3
<1>13. (\A k \in DOMAIN dllcalls : FALSE) /\ (\A k \in DOMAIN routines : FALSE)
       /\ Len(dllcalls) = 0 /\ Len(routines) = 0
  <2>1. (\A k \in DOMAIN <<>> : FALSE) /\ Len(<<>>) = 0
    OBVIOUS
  <2> QED
    BY <1>3, <2>1
<1>14. Started
  <2>1. table = {} /\ dllcalls = <<>> /\ again = {} /\ ~loadRaced
    BY <1>3
  <2>2. Listed
    BY <1>12, <1>13, <2>1 DEF Listed
  <2>3. Following
    BY <1>13, <2>1 DEF Following
  <2> QED
    BY <1>12, <1>13, <2>1, <2>2, <2>3 DEF Started
<1>15. Unraced
  <2>1. Lone
    BY <1>3, <1>7 DEF Lone
  <2>2. MapsOK
    <3>1. \A m \in Module : maps[m] = 0
      BY <1>3
    <3> QED
      BY <3>1 DEF MapsOK
  <2>3. CallsOK
    <3>1. \A t \in Thread : phase[t] \notin Module
      BY <1>6 DEF Module
    <3> QED
      BY <1>13, <3>1 DEF CallsOK
  <2> QED
    BY <2>1, <2>2, <2>3 DEF Unraced
<1> QED
  BY <1>3, <1>5, <1>8, <1>9, <1>10, <1>11, <1>14, <1>15 DEF LinkInv, WellTyped, CrashHasReason

(* What is loaded, listed and initialised is so in order, for whatever the   *)
(* files import and however the threads and their calls interleave.          *)
THEOREM LinkInvHolds == Spec => []LinkInv
<1>1. Init => LinkInv
  BY LinkInit
<1>2. LinkInv /\ [Next]_vars => LinkInv'
  BY LinkStep
<1> QED
  BY <1>1, <1>2, PTL DEF Spec

(* A module is mapped once and initialised once: MappedOnce and              *)
(* InitialisedOnce, with the types of what the loader keeps.                 *)
THEOREM ModulesLoadedOnce == Spec => []LoadedOnce
<1>1. Inv /\ LinkInv => LoadedOnce
  <2> SUFFICES ASSUME Inv, LinkInv PROVE LoadedOnce
    OBVIOUS
  <2>1. WellTyped /\ Unraced
    BY DEF LinkInv
  <2>2. TypeOK
    <3>1. map_base \in 0..2 * Pages - 1 /\ prot \in [Page -> Prot]
      BY <2>1 DEF WellTyped, MemTyped
    <3>2. regions \subseteq [base : Nat, size : Nat, by : Thread]
      BY <2>1 DEF WellTyped, MemTyped, NatRegion
    <3>3. ASSUME NEW t \in Thread
          PROVE  /\ Len(stack[t]) <= StackMax
                 /\ \A k \in DOMAIN stack[t] :
                      stack[t][k] \in [mod : Module, i : Nat, base : Nat,
                                       step : {"reserve", "section", "import", "protect"}]
      <4>1. Len(stack[t]) <= StackMax
        BY <2>1 DEF WellTyped, StackTyped
      <4>2. \A k \in DOMAIN stack[t] : stack[t][k] \in NatFrame
        BY <2>1, StackShape DEF WellTyped
      <4> QED
        BY <4>1, <4>2 DEF NatFrame
    <3>4. table \subseteq Module /\ routines \in Seq(Module) /\ dllcalls \in Seq(Module)
          /\ ops \in 0..MaxOps
      BY <2>1 DEF WellTyped, LinkTyped
    <3>5. owned \in [Thread -> SUBSET regions] \/ clashed
      <4>1. owned = [t \in Thread |-> owned[t]]
        BY <2>1 DEF WellTyped, LinkTyped
      <4> QED
        BY <4>1 DEF Inv, Good, OwnOK
    <3> QED
      BY <3>1, <3>2, <3>3, <3>4, <3>5 DEF TypeOK
  <2>3. MappedOnce
    <3> SUFFICES ASSUME NEW m \in Module, ~Cyclic, ~loadRaced PROVE ~(maps[m] > 1)
      BY DEF MappedOnce
    <3>1. maps[m] <= 1 /\ maps[m] \in Nat
      BY <2>1 DEF Unraced, MapsOK, WellTyped, LinkTyped
    <3> QED
      BY <3>1
  <2>4. InitialisedOnce
    <3> SUFFICES ASSUME NEW m \in Module, m \notin again, ~loadRaced
                 PROVE  ~(Cardinality({k \in DOMAIN dllcalls : dllcalls[k] = m}) > 1)
      BY DEF InitialisedOnce
    <3>1. PICK K : K = {k \in DOMAIN dllcalls : dllcalls[k] = m}
      OBVIOUS
    <3>2. \A j, k \in K : j = k
      BY <2>1, <3>1 DEF Unraced, CallsOK
    <3>3. Cardinality(K) \in {0, 1}
      <4>1. CASE K = {}
        BY <4>1, FS_EmptySet
      <4>2. CASE K # {}
        <5>1. PICK k : K = {k}
          BY <3>2, <4>2
        <5> QED
          BY <5>1, FS_Singleton
      <4> QED
        BY <4>1, <4>2
    <3> QED
      BY <3>1, <3>3
  <2> QED
    BY <2>2, <2>3, <2>4 DEF LoadedOnce
<1> QED
  BY <1>1, InvHolds, LinkInvHolds, PTL

(* A set of numbers that is not empty has a least one.                      *)
LEMMA LeastIndex ==
  ASSUME NEW S, S \subseteq Nat, S # {}
  PROVE  \E x \in S : \A y \in S : x <= y
<1>1. PICK R : R = {p \in Nat \X Nat : p[1] < p[2]}
  OBVIOUS
<1>2. IsWellFoundedOn(R, Nat)
  BY <1>1, NatLessThanWellFounded DEF OpToRel
<1>3. PICK x \in S : \A y \in S : ~(<<y, x>> \in R)
  BY <1>2, WFMin
<1>4. ASSUME NEW y \in S PROVE x <= y
  <2>1. <<y, x>> \in Nat \X Nat /\ <<y, x>>[1] = y /\ <<y, x>>[2] = x
    OBVIOUS
  <2>2. ~(y < x)
    BY <1>1, <1>3, <2>1
  <2> QED
    BY <2>2
<1> QED
  BY <1>4

(* The position of a module that has been called is its first call.         *)
LEMMA PositionIsFirst ==
  ASSUME WellTyped, NEW m, NEW k, Called(m, k)
  PROVE  /\ Called(m, Position(m)) /\ Position(m) \in Nat /\ Position(m) <= k
         /\ \A j \in 1..Position(m) - 1 : ~Called(m, j)
<1>1. PICK c \in Nat : c = Len(dllcalls) /\ DOMAIN dllcalls = 1..c
  BY CallsShape
<1>2. PICK S : S = {j \in 1..c : Called(m, j)}
  OBVIOUS
<1>3. S \subseteq Nat /\ S # {} /\ k \in S
  BY <1>1, <1>2 DEF Called
<1>4. PICK x \in S : \A y \in S : x <= y
  BY <1>3, LeastIndex
<1>5. x \in DOMAIN dllcalls /\ Called(m, x) /\ x \in 1..c
  BY <1>1, <1>2, <1>4
<1>6. \A j \in 1..x - 1 : ~Called(m, j)
  <2> SUFFICES ASSUME NEW j \in 1..x - 1, Called(m, j) PROVE FALSE
    OBVIOUS
  <2>1. j \in 1..c
    BY <1>5
  <2>2. x <= j
    BY <1>2, <1>4, <2>1
  <2> QED
    BY <1>5, <2>2
<1>7. /\ Position(m) \in DOMAIN dllcalls /\ Called(m, Position(m))
      /\ \A j \in 1..Position(m) - 1 : ~Called(m, j)
  BY <1>5, <1>6 DEF Position
<1>8. Position(m) \in 1..c /\ k \in 1..c
  BY <1>1, <1>3, <1>7, <1>2
<1>9. Position(m) <= k
  <2> SUFFICES ASSUME ~(Position(m) <= k) PROVE FALSE
    OBVIOUS
  <2>1. k \in 1..Position(m) - 1
    BY <1>8
  <2> QED
    BY <1>7, <2>1
<1> QED
  BY <1>7, <1>8, <1>9

(* When the program is entered, what it needs has been initialised, imports *)
(* first, and init.dll's routine has not been called as an entry point.     *)
THEOREM ProgramIsInitialised == Spec => []ProgramRunsInitialised
<1>1. LinkInv => ProgramRunsInitialised
  <2> SUFFICES ASSUME LinkInv, phase[First] \in {"run", "allocating", "creating"}
               PROVE  /\ "init" \notin {dllcalls[k] : k \in DOMAIN dllcalls}
                      /\ \A m \in (Imports("exe") \cup Imports("init")) \cap graph.dllmain :
                           /\ \E k \in DOMAIN dllcalls : Called(m, k)
                           /\ \A d \in Imports(m) \cap graph.dllmain : Position(d) < Position(m)
    BY DEF ProgramRunsInitialised
  <2>1. WellTyped /\ Initialised
    BY DEF LinkInv, Started, Early, EarlyPhases
  <2>2. ASSUME NEW m \in (Imports("exe") \cup Imports("init")) \cap graph.dllmain,
               NEW d \in Imports(m) \cap graph.dllmain
        PROVE  Position(d) < Position(m)
    <3>1. PICK k \in DOMAIN dllcalls : Called(m, k)
      BY <2>1, <2>2 DEF Initialised
    <3>2. Called(m, Position(m)) /\ Position(m) \in Nat
      BY <2>1, <3>1, PositionIsFirst
    <3>3. PICK p \in Nat : p = Position(m) /\ Called(m, p) /\ p \in DOMAIN dllcalls
      BY <3>2 DEF Called
    <3>4. PICK j \in 1..p - 1 : Called(d, j)
      BY <2>1, <2>2, <3>3 DEF Initialised
    <3>5. Position(d) \in Nat /\ Position(d) <= j
      BY <2>1, <3>4, PositionIsFirst
    <3> QED
      BY <3>3, <3>4, <3>5
  <2> QED
    BY <2>1, <2>2 DEF Initialised
<1> QED
  BY <1>1, LinkInvHolds, PTL


-----------------------------------------------------------------------------
\* Why an assertion of the memory map fails.

(* A thread that takes no step, or none of this kind, is where it was.      *)
LEMMA LowStays ==
  ASSUME WellTyped, NEW t \in Thread, Low(t), call'[t] = call[t], stack'[t] = stack[t],
         map_base \in Nat, map_base' \in Nat, map_base <= map_base'
  PROVE  Low(t)'
<1>1. call[t].base \in Nat /\ (~Idle(t) => call[t].size \in Nat)
  <2>1. call[t].base \in Nat /\ (~Idle(t) => call[t].size \in Nat \ {0})
    BY NatCallShape DEF WellTyped
  <2> QED
    BY <2>1
<1>2. \A k \in DOMAIN stack[t] : stack[t][k].base \in Nat
  BY StackShape DEF WellTyped
<1>3. ImagePages \in Nat
  BY LoaderAssumption DEF ImagePages
<1>4. PICK a \in Nat, b \in Nat, n \in Nat : a = map_base /\ b = map_base' /\ n = ImagePages /\ a <= b
  BY <1>3
<1>5. \A x \in Nat : x + n <= a => x + n <= b
  BY <1>4
<1>6. \A x, y \in Nat : x + y <= a => x + y <= b
  BY <1>4
<1>7. /\ (LoadAt(t, "section") <=> LoadAt(t, "section")') /\ (Idle(t) <=> Idle(t)')
      /\ Top(t)' = Top(t) /\ ImagePages' = ImagePages
  BY DEF LoadAt, Loading, Top, Idle, ImagePages
<1>8. LoadAt(t, "section")' /\ Top(t)'.i = 0 /\ Idle(t)' => call'[t].base + ImagePages <= map_base'
  BY <1>1, <1>4, <1>5, <1>7 DEF Low
<1>9. \A k \in DOMAIN stack[t] : LowFrame(t, k)'
  BY <1>2, <1>4, <1>5, <1>7 DEF Low, LowFrame
<1>10. call'[t].op = "protect" => call'[t].base + call'[t].size <= map_base'
  <2> SUFFICES ASSUME call[t].op = "protect" PROVE call[t].base + call[t].size <= map_base'
    OBVIOUS
  <2>1. call[t].size \in Nat /\ call[t].base + call[t].size <= a
    BY <1>1, <1>4 DEF Low, Idle
  <2> QED
    BY <1>1, <1>4, <1>6, <2>1
<1> QED
  BY <1>7, <1>8, <1>9, <1>10 DEF Low

(* The innermost activation of a thread goes on.                            *)
LEMMA MovedLow ==
  ASSUME WellTyped, StackTyped', NEW t \in Thread, Loading(t), Low(t), NEW f \in NatFrame,
         Moved(t, f), map_base' = map_base,
         f.step \in {"import", "protect"} \/ (f.step = "section" /\ f.i > 0) =>
           f.base + ImagePages <= map_base,
         f.step = "section" /\ f.i = 0 => ~Idle(t)',
         call'[t].op = "protect" => call'[t].base + call'[t].size <= map_base
  PROVE  Low(t)'
<1>1. PICK n \in Nat : n = Depth(t) /\ n >= 1 /\ DOMAIN stack[t] = 1..n
  BY TopModule, ModuleCount DEF WellTyped
<1>2. /\ DOMAIN stack'[t] = 1..n /\ stack'[t][1] = f /\ Top(t)' = f
      /\ \A k \in 2..n : stack'[t][k] = stack[t][k]
  <2>1. /\ Depth(t)' = n /\ Loading(t)' /\ stack'[t][1] = f
        /\ \A k \in 2..n : stack'[t][k] = stack[t][k]
    BY <1>1 DEF Moved
  <2>2. stack'[t] \in Seq(NatFrame) /\ stack'[t] # <<>>
    BY <2>1 DEF StackTyped, Loading
  <2>3. DOMAIN stack'[t] = 1..n
    BY <2>1, <2>2 DEF Depth
  <2>4. Top(t)' = stack'[t][1]
    BY <2>2 DEF Top
  <2> QED
    BY <2>1, <2>3, <2>4
<1>3. ImagePages' = ImagePages
  BY DEF ImagePages
<1>4. \A k \in 1..n : LowFrame(t, k)'
  <2> TAKE k \in 1..n
  <2>1. CASE k = 1
    BY <1>2, <1>3, <2>1 DEF LowFrame
  <2>2. CASE k # 1
    <3>1. k \in 2..n
      BY <1>1, <2>2
    <3>2. LowFrame(t, k)
      BY <1>1 DEF Low
    <3> QED
      BY <1>2, <1>3, <3>1, <3>2 DEF LowFrame
  <2> QED
    BY <2>1, <2>2
<1>5. ~(LoadAt(t, "section")' /\ Top(t)'.i = 0 /\ Idle(t)')
  BY <1>2 DEF LoadAt
<1> QED
  BY <1>2, <1>4, <1>5 DEF Low

(* What a thread has entered, and that nothing else has happened.           *)
LEMMA CallEntered ==
  ASSUME MemTyped, NEW t \in Thread, NEW op, NEW b, NEW n, NEW p, Asks(t, op, b, n, p)
  PROVE  /\ call'[t].op = op /\ call'[t].base = b /\ call'[t].size = n
         /\ \A u \in Thread \ {t} : call'[u] = call[u]
         /\ map_base' = map_base /\ aborted' = aborted
<1>0. PICK w \in BOOLEAN, k \in BOOLEAN : Request(t, op, b, n, p, w, k)
  BY DEF Asks
<1>4. PICK c : IsCall(c, op, b, n, p, w, 1)
  <2>1. PICK c : c = [op |-> op, base |-> b, size |-> n, prot |-> p, whole |-> w, step |-> 1]
    OBVIOUS
  <2> QED
    BY <2>1 DEF IsCall
<1>1. call' = [call EXCEPT ![t] = c]
      /\ call \in [Thread -> NatCall] /\ map_base' = map_base /\ aborted' = aborted
  BY <1>0, <1>4 DEF Request, Begin, MemTyped, IsCall
<1>2. call'[t] = c
  BY <1>1
<1>3. call'[t].op = op /\ call'[t].base = b /\ call'[t].size = n
  BY <1>2, <1>4 DEF IsCall
<1> QED
  BY <1>1, <1>3

\* All threads' loading is below map_base.
AllLow == \A t \in Thread : Low(t)

(* A step of one thread that does not move map_base.                        *)
LEMMA OthersLow ==
  ASSUME WellTyped, AllLow, NEW t \in Thread, Low(t)', map_base' = map_base,
         \A u \in Thread \ {t} : call'[u] = call[u] /\ stack'[u] = stack[u]
  PROVE  AllLow'
<1>1. map_base \in Nat
  <2>1. map_base \in 0..2 * Pages - 1
    BY DEF WellTyped, MemTyped
  <2> QED
    BY <2>1
<1>2. ASSUME NEW u \in Thread \ {t} PROVE Low(u)'
  BY <1>1, <1>2, LowStays DEF AllLow
<1> QED
  BY <1>2 DEF AllLow

(* Reserve enters a call whose result is not used yet.                      *)
LEMMA ReserveLow ==
  ASSUME WellTyped, AllLow, NEW t \in Thread, Reserve(t)
  PROVE  AllLow' /\ aborted' = aborted
<1>1. Loading(t) /\ MemTyped /\ StackTyped /\ graph \in Graphs
  BY DEF Reserve, LoadAt, WellTyped, LinkTyped
<1>2. PICK op \in {"dynamic", "fixed"}, b \in Nat : Asks(t, op, b, ImagePages, "N")
  BY <1>1, ReserveAsks
<1>3. PICK i \in Nat, step \in {"reserve", "section", "import", "protect"} :
        Advance(t, step, i) /\ i = 0 /\ step = "section"
  BY DEF Reserve
<1>4. StackTyped'
  BY <1>1, <1>3, AdvanceMoves
<1>5. PICK f \in NatFrame : Moved(t, f) /\ f.step = "section" /\ f.i = 0
  BY <1>1, <1>3, AdvanceMoves
<1>6. /\ ~Idle(t)' /\ call'[t].op # "protect" /\ map_base' = map_base /\ aborted' = aborted
      /\ \A u \in Thread \ {t} : call'[u] = call[u] /\ stack'[u] = stack[u]
  BY <1>1, <1>2, <1>5, CallEntered DEF Idle, Moved
<1>7. Low(t)'
  <2>1. ~(f.i > 0) /\ f.step \notin {"import", "protect"}
    BY <1>5
  <2> QED
    BY <1>1, <1>4, <1>5, <1>6, <2>1, MovedLow DEF AllLow
<1> QED
  BY <1>6, <1>7, OthersLow

(* MapSection maps a page of an image that lies below map_base.             *)
LEMMA MapSectionLow ==
  ASSUME WellTyped, AllLow, NEW t \in Thread, MapSection(t)
  PROVE  AllLow' /\ aborted' = aborted
<1>1. /\ Loading(t) /\ Top(t).step = "section" /\ MemTyped /\ StackTyped /\ Idle(t)
      /\ LoadAt(t, "section")
  BY DEF MapSection, LoadAt, WellTyped
<1>2. Top(t).i \in Nat /\ Top(t).base \in Nat /\ call[t].base \in Nat /\ 1 \in DOMAIN stack[t]
      /\ Top(t) = stack[t][1]
  <2>1. 1 \in DOMAIN stack[t] /\ Top(t) = stack[t][1]
    BY <1>1, TopModule
  <2> QED
    BY <1>1, <2>1, NatCallShape, StackShape
<1>3. PICK b \in Nat, i \in Nat :
        /\ i = Top(t).i /\ b = (IF i = 0 THEN call[t].base ELSE Top(t).base)
        /\ Asks(t, "fixed", b + i, 1, "RW")
        /\ stack' = [stack EXCEPT ![t][1].base = b, ![t][1].i = @ + 1]
  <2>1. PICK b \in Nat : b = IF Top(t).i = 0 THEN call[t].base ELSE Top(t).base
    BY <1>2
  <2>2. PICK i \in Nat : i = Top(t).i
    BY <1>2
  <2>3. /\ Asks(t, "fixed", b + i, 1, "RW")
        /\ stack' = [stack EXCEPT ![t][1].base = b, ![t][1].i = @ + 1]
    BY <2>1, <2>2 DEF MapSection, Asks
  <2> QED
    BY <2>1, <2>2, <2>3
<1>4. b + ImagePages <= map_base
  <2>1. CASE i = 0
    BY <1>1, <1>3, <2>1 DEF AllLow, Low
  <2>2. CASE i # 0
    <3>1. i > 0 /\ b = Top(t).base
      BY <1>3, <2>2
    <3>2. LowFrame(t, 1)
      BY <1>2 DEF AllLow, Low
    <3> QED
      BY <1>1, <1>2, <1>3, <3>1, <3>2 DEF LowFrame
  <2> QED
    BY <2>1, <2>2
<1>5. StackTyped'
  BY <1>1, <1>3, SectionMoves
<1>6. PICK f \in NatFrame : Moved(t, f) /\ f.step = "section" /\ f.base = b /\ f.i = i + 1
  BY <1>1, <1>3, SectionMoves
<1>7. /\ ~Idle(t)' /\ call'[t].op # "protect" /\ map_base' = map_base /\ aborted' = aborted
      /\ \A u \in Thread \ {t} : call'[u] = call[u] /\ stack'[u] = stack[u]
  <2>1. PICK c, op : c = b + i /\ op = "fixed"
    OBVIOUS
  <2>2. Asks(t, op, c, 1, "RW")
    BY <1>3, <2>1
  <2>3. /\ call'[t].op = op /\ map_base' = map_base /\ aborted' = aborted
        /\ \A u \in Thread \ {t} : call'[u] = call[u]
    BY <1>1, <2>2, CallEntered
  <2> QED
    BY <1>6, <2>1, <2>3 DEF Idle, Moved
<1>8. Low(t)'
  BY <1>1, <1>4, <1>5, <1>6, <1>7, MovedLow DEF AllLow
<1> QED
  BY <1>7, <1>8, OthersLow

(* The loader goes on without a call.                                       *)
LEMMA AdvanceLow ==
  ASSUME WellTyped, AllLow, NEW t \in Thread, Loading(t), NEW i \in Nat, i >= 1,
         NEW step \in {"import", "protect"}, Advance(t, step, i),
         Top(t).step \in {"import", "protect"} \/ (Top(t).step = "section" /\ Top(t).i > 0),
         map_base' = map_base, \A u \in Thread \ {t} : call'[u] = call[u],
         call'[t].op = "protect" => call'[t].base + call'[t].size <= map_base
  PROVE  AllLow'
<1>1. StackTyped
  BY DEF WellTyped
<1>2. step \in {"reserve", "section", "import", "protect"}
  OBVIOUS
<1>3. StackTyped'
  BY <1>1, <1>2, AdvanceMoves
<1>4. PICK f \in NatFrame : Moved(t, f) /\ f.step = step /\ f.base = Top(t).base
  BY <1>1, <1>2, AdvanceMoves
<1>5. LowFrame(t, 1) /\ Top(t) = stack[t][1]
  BY <1>1, TopModule DEF AllLow, Low
<1>6. f.base + ImagePages <= map_base
  BY <1>4, <1>5 DEF LowFrame
<1>7. Low(t)'
  BY <1>3, <1>4, <1>6, MovedLow DEF AllLow
<1>8. \A u \in Thread \ {t} : stack'[u] = stack[u]
  BY <1>4 DEF Moved
<1> QED
  BY <1>7, <1>8, OthersLow

(* With the sections mapped, so does the image.                             *)
LEMMA SectionsMappedLow ==
  ASSUME WellTyped, AllLow, NEW t \in Thread, SectionsMapped(t)
  PROVE  AllLow' /\ aborted' = aborted
<1>1. /\ Loading(t) /\ Top(t).step = "section" /\ map_base' = map_base /\ call' = call
      /\ aborted' = aborted
  BY DEF SectionsMapped, LoadAt, memVars
<1>2. Top(t).i > 0
  <2>1. Top(t).i = ImagePages /\ ImagePages \in 1..Pages - 1
    BY LoaderAssumption DEF SectionsMapped, ImagePages
  <2> QED
    BY <2>1, MemoryAssumption
<1>3. PICK i \in Nat, step \in {"import", "protect"} : i >= 1 /\ Advance(t, step, i)
  BY DEF SectionsMapped
<1>4. call'[t].op = "protect" => call'[t].base + call'[t].size <= map_base
  BY <1>1 DEF AllLow, Low
<1> QED
  BY <1>1, <1>2, <1>3, <1>4, AdvanceLow

(* It does when the imports are done ...                                    *)
LEMMA ImportsDoneLow ==
  ASSUME WellTyped, AllLow, NEW t \in Thread, ImportsDone(t)
  PROVE  AllLow' /\ aborted' = aborted
<1>1. /\ Loading(t) /\ Top(t).step = "import" /\ map_base' = map_base /\ call' = call
      /\ aborted' = aborted
  BY DEF ImportsDone, LoadAt, memVars
<1>3. PICK i \in Nat, step \in {"import", "protect"} : i >= 1 /\ Advance(t, step, i)
  BY DEF ImportsDone
<1>4. call'[t].op = "protect" => call'[t].base + call'[t].size <= map_base
  BY <1>1 DEF AllLow, Low
<1> QED
  BY <1>1, <1>3, <1>4, AdvanceLow

(* ... and ProtectSection asks for one of its pages.                        *)
LEMMA ProtectSectionLow ==
  ASSUME WellTyped, AllLow, NEW t \in Thread, ProtectSection(t)
  PROVE  AllLow' /\ aborted' = aborted
<1>1. /\ Loading(t) /\ Top(t).step = "protect" /\ MemTyped /\ StackTyped /\ Top(t).i <= ImagePages
  BY DEF ProtectSection, LoadAt, WellTyped
<1>2. PICK i \in Nat, b \in Nat : i = Top(t).i /\ b = Top(t).base /\ i >= 1
  <2>1. 1 \in DOMAIN stack[t] /\ Top(t) = stack[t][1]
    BY <1>1, TopModule
  <2> QED
    BY <1>1, <2>1, StackShape DEF FrameOK
<1>3. Asks(t, "protect", b + i - 1, 1, SectionProt[i])
  BY <1>2, CallAsks DEF ProtectSection
<1>4. /\ call'[t].base = b + i - 1 /\ call'[t].size = 1 /\ map_base' = map_base
      /\ aborted' = aborted /\ \A u \in Thread \ {t} : call'[u] = call[u]
  BY <1>1, <1>3, CallEntered
<1>5. b + ImagePages <= map_base
  BY <1>1, <1>2, TopModule DEF AllLow, Low, LowFrame
<1>6. call'[t].base + call'[t].size <= map_base
  <2>1. PICK n \in Nat, m \in Nat : n = ImagePages /\ m = map_base
    <3>1. ImagePages \in 1..Pages - 1 /\ map_base \in 0..2 * Pages - 1
      BY LoaderAssumption DEF ImagePages, WellTyped, MemTyped
    <3> QED
      BY <3>1
  <2>2. i <= n /\ b + n <= m
    BY <1>1, <1>2, <1>5, <2>1
  <2>3. (b + i - 1) + 1 <= m
    BY <2>2
  <2> QED
    BY <1>4, <2>1, <2>3
<1>7. PICK j \in Nat, step \in {"import", "protect"} : j >= 1 /\ Advance(t, step, j)
  <2>1. PICK j \in Nat : j = i + 1 /\ j >= 1
    BY <1>2
  <2> QED
    BY <1>2, <2>1 DEF ProtectSection
<1> QED
  BY <1>1, <1>4, <1>6, <1>7, AdvanceLow


(* A new activation has yet to reserve its range.                           *)
LEMMA PushedLow ==
  ASSUME WellTyped, StackTyped', NEW t \in Thread, Low(t), NEW m \in Module,
         Pushed(t, Frame(m)), call' = call, map_base' = map_base
  PROVE  Low(t)'
<1>1. PICK n \in Nat : n = Depth(t) /\ DOMAIN stack[t] = 1..n
  BY StackShape, ModuleCount DEF WellTyped
<1>2. /\ stack'[t][1] = Frame(m) /\ Depth(t)' = n + 1 /\ Loading(t)'
      /\ \A k \in 1..n : stack'[t][k + 1] = stack[t][k]
  BY <1>1 DEF Pushed
<1>3. stack'[t] \in Seq(NatFrame) /\ stack'[t] # <<>>
  BY <1>2 DEF StackTyped, Loading
<1>4. DOMAIN stack'[t] = 1..n + 1 /\ Top(t)' = Frame(m)
  <2>1. DOMAIN stack'[t] = 1..n + 1
    BY <1>2, <1>3 DEF Depth
  <2>2. Top(t)' = stack'[t][1]
    BY <1>3 DEF Top
  <2> QED
    BY <1>2, <2>1, <2>2
<1>5. Frame(m).step = "reserve"
  BY DEF Frame
<1>6. ImagePages' = ImagePages
  BY DEF ImagePages
<1>7. \A k \in 1..n + 1 : LowFrame(t, k)'
  <2> TAKE k \in 1..n + 1
  <2>1. CASE k = 1
    BY <1>2, <1>5, <2>1 DEF LowFrame
  <2>2. CASE k # 1
    <3>1. PICK j \in 1..n : k = j + 1
      <4>1. k - 1 \in 1..n /\ k = (k - 1) + 1
        BY <1>1, <2>2
      <4> QED
        BY <4>1
    <3>2. LowFrame(t, j) /\ stack'[t][k] = stack[t][j]
      BY <1>1, <1>2, <3>1 DEF Low
    <3> QED
      BY <1>6, <3>2 DEF LowFrame
  <2> QED
    BY <2>1, <2>2
<1>8. ~LoadAt(t, "section")'
  BY <1>4, <1>5 DEF LoadAt
<1>9. call'[t].op = "protect" => call'[t].base + call'[t].size <= map_base'
  BY DEF Low
<1> QED
  BY <1>4, <1>7, <1>8, <1>9 DEF Low

(* The activation below goes on with its imports.                           *)
LEMMA PoppedLow ==
  ASSUME WellTyped, StackTyped', Linked, NEW t \in Thread, Low(t), Popped(t),
         call' = call, map_base' = map_base
  PROVE  Low(t)'
<1>1. PICK n \in Nat : n = Depth(t) /\ n >= 1 /\ DOMAIN stack[t] = 1..n
  BY StackShape, ModuleCount DEF WellTyped, Popped
<1>2. /\ Depth(t)' = n - 1
      /\ \A k \in 2..n - 1 : stack'[t][k] = stack[t][k + 1]
      /\ n - 1 >= 1 => /\ stack'[t][1].step = stack[t][2].step
                       /\ stack'[t][1].base = stack[t][2].base
      /\ Loading(t)' <=> n - 1 >= 1
  BY <1>1 DEF Popped
<1>3. stack'[t] \in Seq(NatFrame)
  BY DEF StackTyped
<1>4. DOMAIN stack'[t] = 1..n - 1
  BY <1>2, <1>3 DEF Depth
<1>5. n - 1 >= 1 => stack[t][2].step = "import" /\ LowFrame(t, 2)
  <2> SUFFICES ASSUME n - 1 >= 1 PROVE stack[t][2].step = "import" /\ LowFrame(t, 2)
    OBVIOUS
  <2>1. 2 \in DOMAIN stack[t]
    BY <1>1
  <2>2. Waits(t, 2) /\ LowFrame(t, 2)
    BY <2>1 DEF Linked, Low
  <2>3. 2 > 1
    OBVIOUS
  <2>4. stack[t][2].step = "import"
    BY <2>2, <2>3 DEF Waits
  <2> QED
    BY <2>2, <2>4
<1>6. ImagePages' = ImagePages
  BY DEF ImagePages
<1>7. \A k \in 1..n - 1 : LowFrame(t, k)'
  <2> TAKE k \in 1..n - 1
  <2>0. n - 1 >= 1
    BY <1>1
  <2>1. CASE k = 1
    BY <1>2, <1>5, <1>6, <2>0, <2>1 DEF LowFrame
  <2>2. CASE k # 1
    <3>1. k \in 2..n - 1 /\ k + 1 \in 1..n
      BY <1>1, <2>2
    <3>2. LowFrame(t, k + 1) /\ stack'[t][k] = stack[t][k + 1]
      BY <1>1, <1>2, <3>1 DEF Low
    <3> QED
      BY <1>6, <3>2 DEF LowFrame
  <2> QED
    BY <2>1, <2>2
<1>8. ~LoadAt(t, "section")'
  <2> SUFFICES ASSUME Loading(t)' PROVE Top(t)'.step # "section"
    BY DEF LoadAt
  <2>1. stack'[t] # <<>> /\ n - 1 >= 1
    BY <1>2 DEF Loading
  <2>2. Top(t)' = stack'[t][1]
    BY <1>3, <2>1 DEF Top
  <2> QED
    BY <1>2, <1>5, <2>1, <2>2
<1>9. call'[t].op = "protect" => call'[t].base + call'[t].size <= map_base'
  BY DEF Low
<1> QED
  BY <1>4, <1>7, <1>8, <1>9 DEF Low

(* A thread whose loading is where it was.                                  *)
LEMMA SameLow ==
  ASSUME WellTyped, AllLow, NEW t \in Thread, call' = call, map_base' = map_base,
         \A u \in Thread \ {t} : stack'[u] = stack[u], Low(t)' \/ stack'[t] = stack[t]
  PROVE  AllLow'
<1>1. map_base \in Nat
  <2>1. map_base \in 0..2 * Pages - 1
    BY DEF WellTyped, MemTyped
  <2> QED
    BY <2>1
<1>2. Low(t)'
  <2> SUFFICES ASSUME stack'[t] = stack[t] PROVE Low(t)'
    OBVIOUS
  <2>1. Low(t) /\ map_base <= map_base' /\ map_base' \in Nat
    BY <1>1 DEF AllLow
  <2> QED
    BY <1>1, <2>1, LowStays
<1> QED
  BY <1>2, OthersLow

(* The next import is linked, or its own loading begins.                    *)
LEMMA ImportLow ==
  ASSUME WellTyped, AllLow, NEW t \in Thread, Import(t)
  PROVE  AllLow' /\ aborted' = aborted
<1>1. /\ Loading(t) /\ Top(t).step = "import" /\ map_base' = map_base /\ call' = call
      /\ aborted' = aborted /\ StackTyped /\ LinkTyped
  BY DEF Import, LoadAt, memVars, WellTyped
<1>2. PICK i \in Nat : i = Top(t).i /\ i >= 1
  <2>1. 1 \in DOMAIN stack[t] /\ Top(t) = stack[t][1]
    BY <1>1, TopModule
  <2> QED
    BY <1>1, <2>1, StackShape DEF FrameOK
<1>3. call'[t].op = "protect" => call'[t].base + call'[t].size <= map_base
  BY <1>1 DEF AllLow, Low
<1>4. PICK dep :
        /\ dep = graph.imports[Top(t).mod][i] /\ i <= Len(graph.imports[Top(t).mod])
        /\ \/ Advance(t, "import", i + 1)
           \/ /\ Len(stack[t]) < StackMax
              /\ stack' = [stack EXCEPT ![t] = <<Frame(dep)>> \o stack[t]]
           \/ stack' = stack
  BY <1>2 DEF Import
<1>5. CASE Advance(t, "import", i + 1)
  <2>1. PICK j \in Nat : j = i + 1 /\ j >= 1
    BY <1>2
  <2> QED
    BY <1>1, <1>3, <1>5, <2>1, AdvanceLow
<1>6. CASE Len(stack[t]) < StackMax /\ stack' = [stack EXCEPT ![t] = <<Frame(dep)>> \o stack[t]]
  <2>1. Depth(t) < StackMax
    BY <1>6 DEF Depth
  <2>2. dep \in Module
    <3>1. graph \in Graphs /\ Top(t).mod \in Module
      BY <1>1, TopModule DEF LinkTyped
    <3>2. i \in DOMAIN graph.imports[Top(t).mod]
      BY <1>2, <1>4, <3>1, ImportRange
    <3> QED
      BY <1>4, <3>1, <3>2, ImportRange
  <2>3. StackTyped' /\ Pushed(t, Frame(dep))
    BY <1>1, <1>6, <2>1, <2>2, StackPushes
  <2>4. Low(t)'
    BY <1>1, <2>2, <2>3, PushedLow DEF AllLow
  <2>5. \A u \in Thread \ {t} : stack'[u] = stack[u]
    BY <2>3 DEF Pushed
  <2> QED
    BY <1>1, <2>4, <2>5, SameLow
<1>7. CASE stack' = stack
  BY <1>1, <1>7, SameLow
<1> QED
  BY <1>1, <1>4, <1>5, <1>6, <1>7

(* A module is complete.                                                    *)
LEMMA CompleteLow ==
  ASSUME WellTyped, Linked, AllLow, NEW t \in Thread, Complete(t)
  PROVE  AllLow' /\ aborted' = aborted
<1>1. map_base' = map_base /\ call' = call /\ aborted' = aborted
  BY DEF Complete, memVars
<1>2. StackTyped' /\ Popped(t)
  BY CompleteShape DEF Completes
<1>3. Low(t)'
  BY <1>1, <1>2, PoppedLow DEF AllLow
<1>4. \A u \in Thread \ {t} : stack'[u] = stack[u]
  BY <1>2 DEF Popped
<1> QED
  BY <1>1, <1>3, <1>4, SameLow

(* A file is missing.                                                       *)
LEMMA UnloadableLow ==
  ASSUME WellTyped, AllLow, NEW t \in Thread, Unloadable(t)
  PROVE  AllLow' /\ aborted' = aborted
<1>1. map_base' = map_base /\ call' = call /\ aborted' = aborted /\ stack' = stack
  BY DEF Unloadable, memVars
<1> QED
  BY <1>1, SameLow

(* No step of the loader but a call of the memory map makes that assert.    *)
LEMMA LoadLow ==
  ASSUME WellTyped, Linked, AllLow, NEW t \in Thread, LoadStep(t)
  PROVE  AllLow' /\ aborted' = aborted
BY ReserveLow, UnloadableLow, MapSectionLow, SectionsMappedLow, ImportLow, ImportsDoneLow, ProtectSectionLow,
   CompleteLow DEF LoadStep

(* A load begins, or the module is there already.                           *)
LEMMA BegunLow ==
  ASSUME WellTyped, AllLow, NEW t \in Thread, NEW m, NEW new, new \in BOOLEAN, StackTyped',
         Begun(t, m, new), call' = call, map_base' = map_base
  PROVE  AllLow'
<1>1. stack'[t] \in Seq(NatFrame) /\ Depth(t)' = IF new THEN 1 ELSE 0
  BY DEF StackTyped, Begun
<1>2. CASE new
  <2>1. DOMAIN stack'[t] = 1..1 /\ stack'[t] # <<>> /\ stack'[t][1].step = "reserve"
    BY <1>1, <1>2 DEF Begun, Depth, Loading
  <2>2. Top(t)' = stack'[t][1]
    BY <1>1, <2>1 DEF Top
  <2>3. \A k \in DOMAIN stack'[t] : LowFrame(t, k)'
    BY <2>1 DEF LowFrame
  <2>4. call'[t].op = "protect" => call'[t].base + call'[t].size <= map_base'
    BY DEF AllLow, Low
  <2>5. Low(t)'
    BY <2>1, <2>2, <2>3, <2>4 DEF Low, LoadAt
  <2> QED
    BY <2>5, SameLow DEF Begun
<1>3. CASE ~new
  <2>1. ~Loading(t)' /\ DOMAIN stack'[t] = 1..0
    BY <1>1, <1>3 DEF Begun, Depth
  <2>2. \A k \in DOMAIN stack'[t] : FALSE
    BY <2>1
  <2>3. \A k \in DOMAIN stack'[t] : LowFrame(t, k)'
    BY <2>2
  <2>4. call'[t].op = "protect" => call'[t].base + call'[t].size <= map_base'
    BY DEF AllLow, Low
  <2>5. Low(t)'
    BY <2>1, <2>3, <2>4 DEF Low, LoadAt
  <2> QED
    BY <2>5, SameLow DEF Begun
<1> QED
  BY <1>2, <1>3


(* A thread that is not loading enters a call.                              *)
LEMMA CallLow ==
  ASSUME WellTyped, AllLow, NEW t \in Thread, ~Loading(t), stack' = stack,
         NEW op \in {"dynamic", "fixed", "unmap"}, NEW b, NEW n, NEW p, Asks(t, op, b, n, p)
  PROVE  AllLow' /\ aborted' = aborted
<1>1. /\ call'[t].op # "protect" /\ map_base' = map_base /\ aborted' = aborted
      /\ \A u \in Thread \ {t} : call'[u] = call[u]
  BY CallEntered DEF WellTyped
<1>2. stack[t] = <<>> /\ \A k \in DOMAIN stack[t] : FALSE
  <2>1. stack[t] = <<>>
    BY DEF Loading
  <2>2. \A k \in DOMAIN << >> : FALSE
    OBVIOUS
  <2> QED
    BY <2>1, <2>2
<1>3. Low(t)'
  <2>1. ~LoadAt(t, "section")'
    BY <1>2 DEF LoadAt, Loading
  <2>2. \A k \in DOMAIN stack'[t] : LowFrame(t, k)'
    BY <1>2
  <2> QED
    BY <1>1, <2>1, <2>2 DEF Low
<1> QED
  BY <1>1, <1>3, OthersLow

(* A step outside the loader and the memory map.                            *)
LEMMA StillLow ==
  ASSUME WellTyped, AllLow, UNCHANGED memVars, stack' = stack
  PROVE  AllLow' /\ aborted' = aborted
<1>1. call' = call /\ map_base' = map_base /\ aborted' = aborted
  BY DEF memVars
<1>2. Main \in Thread
  BY LoaderAssumption
<1> QED
  BY <1>1, <1>2, SameLow

(* The start of the process can end it only in a call.                      *)
LEMMA StartLow ==
  ASSUME Kept, AllLow, Start \/ CreateThread \/ Created
  PROVE  AllLow' /\ aborted' = aborted
<1>1. WellTyped /\ Alive /\ Main \in Thread
  BY LoaderAssumption DEF Kept, Started
<1>2. CASE LoadInit
  <2>1. WellTyped' /\ InitNext
    BY <1>1, <1>2, LoadInitNext
  <2>2. call' = call /\ map_base' = map_base /\ aborted' = aborted
    BY <1>2 DEF LoadInit, memVars
  <2>3. PICK new \in BOOLEAN : new <=> "init" \notin table
    OBVIOUS
  <2>4. Begun(Main, "init", new) /\ StackTyped'
    BY <2>1, <2>3 DEF InitNext, Begun, WellTyped
  <2> QED
    BY <1>1, <2>2, <2>4, BegunLow
<1>3. CASE MapParameters
  <2>1. ~Loading(Main)
    BY <1>1, <1>3, MapParametersTurns DEF Turns
  <2>2. Asks(Main, "dynamic", 0, 1, "RW") /\ stack' = stack
    BY <1>3, CallAsks DEF MapParameters
  <2> QED
    BY <1>1, <2>1, <2>2, CallLow
<1>4. CASE EraseLast \/ StartThread \/ DllEntry \/ CreateThread \/ Created
  <2>1. UNCHANGED memVars /\ stack' = stack
    BY <1>4 DEF EraseLast, StartThread, DllEntry, CreateThread, Created
  <2> QED
    BY <1>1, <2>1, StillLow
<1> QED
  BY <1>2, <1>3, <1>4 DEF Start

(* So can the program.                                                      *)
LEMMA ProgramLow ==
  ASSUME Kept, AllLow, NEW t \in Thread,
         Program(t) \/ Allocated(t) \/ SetupMap(t) \/ SetupDone(t)
  PROVE  AllLow' /\ aborted' = aborted
<1>1. WellTyped /\ Alive
  BY DEF Kept, Started
<1>2. CASE Allocate(t)
  <2>1. ~Loading(t) /\ stack' = stack
    BY <1>2 DEF Allocate, MayCall
  <2>2. PICK n \in Nat \ {0}, p \in Prot : Asks(t, "dynamic", 0, n, p)
    BY <1>2, AllocateAsks
  <2> QED
    BY <1>1, <2>1, <2>2, CallLow
<1>3. CASE Commit(t)
  <2>1. ~Loading(t) /\ stack' = stack
    BY <1>3 DEF Commit, MayCall
  <2>2. PICK r, k, p : Call(t, "fixed", r.base + k, 1, p)
    BY <1>3 DEF Commit
  <2>3. PICK b : b = r.base + k
    OBVIOUS
  <2>4. Asks(t, "fixed", b, 1, p)
    BY <2>2, <2>3, CallAsks
  <2> QED
    BY <1>1, <2>1, <2>4, CallLow
<1>8. CASE AllocateAt(t)
  <2>1. ~Loading(t) /\ stack' = stack
    BY <1>8 DEF AllocateAt, MayCall
  <2>2. PICK b \in Nat, n \in Nat \ {0}, p \in Prot : Asks(t, "fixed", b, n, p)
    BY <1>8, AllocateAtAsks
  <2> QED
    BY <1>1, <2>1, <2>2, CallLow
<1>4. CASE Release(t)
  <2>1. ~Loading(t) /\ stack' = stack
    BY <1>4 DEF Release, MayCall
  <2>2. PICK r : Call(t, "unmap", r.base, r.size, "N")
    BY <1>4 DEF Release
  <2>3. PICK b, n : b = r.base /\ n = r.size
    OBVIOUS
  <2>4. Asks(t, "unmap", b, n, "N")
    BY <2>2, <2>3, CallAsks
  <2> QED
    BY <1>1, <2>1, <2>4, CallLow
<1>5. CASE SetupMap(t)
  <2>1. ~Loading(t) /\ stack' = stack
    BY <1>1, <1>5 DEF SetupMap, Alive, LoadPhases, Module
  <2>2. PICK n, p : Asks(t, "dynamic", 0, n, p)
    BY <1>5 DEF SetupMap, Asks
  <2> QED
    BY <1>1, <2>1, <2>2, CallLow
<1>6. CASE LoadLibrary(t)
  <2>1. WellTyped' /\ \E m \in Module : Libs(t, m)
    BY <1>1, <1>6, LoadLibraryLibs
  <2>2. PICK m \in Module : Libs(t, m)
    BY <2>1
  <2>3. PICK new \in BOOLEAN : new <=> m \notin table
    OBVIOUS
  <2>4. Begun(t, m, new) /\ StackTyped'
    BY <2>1, <2>2, <2>3 DEF Libs, Begun, WellTyped
  <2>5. call' = call /\ map_base' = map_base /\ aborted' = aborted
    BY <1>6 DEF LoadLibrary, memVars
  <2> QED
    BY <1>1, <2>4, <2>5, BegunLow
<1>7. CASE LibraryEntry(t) \/ Allocated(t) \/ SetupDone(t)
  <2>1. UNCHANGED memVars /\ stack' = stack
    BY <1>7 DEF LibraryEntry, Allocated, SetupDone
  <2> QED
    BY <1>1, <2>1, StillLow
<1> QED
  BY <1>2, <1>3, <1>4, <1>5, <1>6, <1>7, <1>8 DEF Program

-----------------------------------------------------------------------------
\* The steps of the memory map.

(* A range inside the space passes check_memory_range.                      *)
LEMMA RangeInside ==
  ASSUME NEW b \in Nat, NEW n \in 1..Pages - 1, b + n < Pages,
         NEW c, c.base = b, c.size = n, c.whole
  PROVE  InRange(c)
<1>1. b + n \in 0..2 * Pages - 1 /\ b < Pages
  BY MemoryAssumption
<1> QED
  BY <1>1, NoWrap DEF InRange

(* Where a call of the memory map takes its thread.                         *)
LEMMA MemCalls ==
  ASSUME MemTyped, NEW t \in Thread, MemStep(t)
  PROVE  /\ \A u \in Thread \ {t} : call'[u] = call[u]
         /\ ~Idle(t)
         /\ call'[t] = call[t] \/ call'[t].op \in {"none", "dynamic", "fixed"}
<1>1. call \in [Thread -> NatCall]
  BY DEF MemTyped
<1>2. ~Idle(t)
  BY DEF MemStep, DynCheck, DynMap, DynRaise, FixedTest, FixedRaise, FixedMap, Unmap, Protect,
         At, Idle
<1>3. PICK c : c = call[t] /\ c = [op |-> c.op, base |-> c.base, size |-> c.size,
                                   prot |-> c.prot, whole |-> c.whole, step |-> c.step]
  BY <1>2, NatCallShape
<1>4. ASSUME NEW s, GoTo(t, s), call[t].op \in {"dynamic", "fixed"}
      PROVE  /\ \A u \in Thread \ {t} : call'[u] = call[u]
             /\ call'[t].op \in {"dynamic", "fixed"}
  <2>1. call' = [call EXCEPT ![t] = [c EXCEPT !.step = s]]
    BY <1>3, <1>4 DEF GoTo
  <2>2. [c EXCEPT !.step = s].op = c.op
    BY <1>3
  <2> QED
    BY <1>1, <1>3, <1>4, <2>1, <2>2
<1>5. ASSUME NEW b, Finish(t, b)
      PROVE  (\A u \in Thread \ {t} : call'[u] = call[u]) /\ call'[t].op = "none"
  BY <1>1, <1>5 DEF Finish, Returned
<1>6. CASE DynCheck(t) \/ FixedTest(t) \/ FixedRaise(t)
  <2>1. call[t].op \in {"dynamic", "fixed"}
    BY <1>6 DEF DynCheck, FixedTest, FixedRaise, At
  <2>2. call' = call \/ \E s : GoTo(t, s)
    BY <1>6 DEF DynCheck, FixedTest, FixedRaise, AssertFails
  <2> QED
    BY <1>2, <1>4, <2>1, <2>2
<1>7. CASE DynMap(t)
  <2>1. PICK d : d = [[c EXCEPT !.base = map_base] EXCEPT !.step = 3]
    OBVIOUS
  <2>2. call' = [call EXCEPT ![t].base = map_base, ![t].step = 3] /\ call[t].op = "dynamic"
    BY <1>7 DEF DynMap, At
  <2>3. call' = [call EXCEPT ![t] = d]
    BY <1>1, <1>3, <2>1, <2>2
  <2>4. d.op = c.op
    BY <1>3, <2>1
  <2> QED
    BY <1>1, <1>2, <1>3, <2>2, <2>3, <2>4
<1>8. CASE DynRaise(t) \/ FixedMap(t) \/ Unmap(t) \/ Protect(t)
  <2>1. call' = call \/ \E b : Finish(t, b)
    BY <1>8 DEF DynRaise, FixedMap, Unmap, Protect, AssertFails
  <2> QED
    BY <1>2, <1>5, <2>1
<1> QED
  BY <1>6, <1>7, <1>8 DEF MemStep

(* map_base moves upwards only.                                             *)
LEMMA BaseGrows ==
  ASSUME Good, NEW t \in Thread, MemStep(t)
  PROVE  map_base \in 0..Pages /\ map_base' \in Nat /\ map_base <= map_base'
<1>1. map_base \in 0..Pages /\ CallOK(t) /\ Pages \in Nat /\ Types
  BY MemoryAssumption DEF Good, Types, ThreadOK
<1>2. CASE DynRaise(t)
  <2>1. At(t, "dynamic", 3) /\ map_base' = Wrap(map_base + call[t].size)
    BY <1>2 DEF DynRaise
  <2>2. map_base + call[t].size <= Pages
    BY <1>1, <2>1 DEF CallOK
  <2>3. call[t].size \in 1..Pages - 1
    BY <1>1, <2>1, CallShape DEF At, Idle
  <2>4. PICK n \in 0..2 * Pages - 1 : n = map_base + call[t].size
    BY <1>1, <2>2, <2>3, MemoryAssumption
  <2>5. map_base' = n
    BY <2>1, <2>4, NoWrap
  <2> QED
    BY <1>1, <2>3, <2>4, <2>5
<1>3. CASE FixedRaise(t)
  <2>1. /\ call[t].op = "fixed" /\ call[t].step = 2
        /\ map_base' = Wrap(call[t].base + call[t].size)
    BY <1>3 DEF FixedRaise, At
  <2>2. call[t].base + call[t].size \in map_base..Pages
    BY <1>1, <2>1 DEF CallOK
  <2>3. PICK n \in 0..2 * Pages - 1 : n = call[t].base + call[t].size /\ map_base <= n
    BY <1>1, <2>2, MemoryAssumption
  <2>4. map_base' = n
    BY <2>1, <2>3, NoWrap
  <2> QED
    BY <1>1, <2>3, <2>4
<1>4. CASE ~DynRaise(t) /\ ~FixedRaise(t)
  <2>1. map_base' = map_base
    BY <1>4 DEF MemStep, DynCheck, DynMap, FixedTest, FixedMap, Unmap, Protect, AssertFails
  <2> QED
    BY <1>1, <2>1
<1> QED
  BY <1>2, <1>3, <1>4


(* An assertion on a range that is mapped fails only when the last page of  *)
(* the space is.                                                            *)
LEMMA MappedRange ==
  ASSUME Good, NEW t \in Thread, ~Idle(t), ~At(t, "dynamic", 3), NEW b \in Nat,
         NEW n \in 1..Pages - 1, NEW c, c.base = b, c.size = n, c.whole, ~InRange(c),
         \E r \in regions : r.base <= b /\ b + n <= r.base + r.size
  PROVE  map_base = Pages
<1>1. PICK r \in regions : r.base <= b /\ b + n <= r.base + r.size
  OBVIOUS
<1>2. r.base + r.size <= map_base
  BY BelowBaseIn
<1>3. map_base \in 0..Pages /\ Pages \in Nat /\ r.base \in Nat /\ r.size \in 1..Pages - 1
  BY RegionShape, MemoryAssumption DEF Good, Types
<1>4. ~(b + n < Pages)
  BY RangeInside
<1> QED
  BY <1>1, <1>2, <1>3, <1>4

(* The range that a call is given by the loader and the program is mapped,  *)
(* or free.                                                                 *)
LEMMA AbortExhausts ==
  ASSUME Good, WellTyped, NEW t \in Thread, Low(t), ~aborted, MemStep(t)
  PROVE  aborted' => oom' \/ map_base' = Pages \/ (~Idle(t)' /\ ~call'[t].whole)
<1>1. Types /\ CallOK(t)
  BY DEF Good, ThreadOK
<1>0. ~Idle(t)
  BY MemCalls DEF WellTyped
<1>7. ASSUME AssertFails PROVE map_base' = map_base /\ call'[t] = call[t] /\ ~Idle(t)'
  BY <1>0, <1>7 DEF AssertFails, Idle
<1>2. CASE DynCheck(t)
  BY <1>2, <1>7 DEF DynCheck
<1>3. CASE FixedTest(t)
  <2> SUFFICES ASSUME ~InRange(call[t]), AssertFails, call[t].whole PROVE map_base' = Pages
    BY <1>3, <1>7 DEF FixedTest
  <2>1. /\ map_base' = map_base /\ call[t].op = "fixed"
        /\ ~Idle(t) /\ ~At(t, "dynamic", 3)
    BY <1>3 DEF FixedTest, AssertFails, At, Idle
  <2>2. PICK b \in Nat, n \in 1..Pages - 1 : b = call[t].base /\ n = call[t].size
    BY <1>1, <2>1, CallShape DEF CallOK
  <2>3. Inside(t, b, n) \/ Free(b, n)
    BY <1>1, <2>1, <2>2 DEF CallOK, Fits
  <2>6. PICK c : c = call[t]
    OBVIOUS
  <2>4. CASE Inside(t, b, n)
    <3>1. \E r \in regions : r.base <= b /\ b + n <= r.base + r.size
      BY <2>4 DEF Inside
    <3>2. c.base = b /\ c.size = n /\ c.whole /\ ~InRange(c)
      BY <2>2, <2>6
    <3> QED
      BY <2>1, <2>2, <3>1, <3>2, MappedRange
  <2>5. CASE Free(b, n)
    <3>1. b + n < Pages
      BY <2>5 DEF Free
    <3>2. c.base = b /\ c.size = n /\ c.whole
      BY <2>2, <2>6
    <3>3. InRange(c)
      BY <3>1, <3>2, RangeInside
    <3> QED
      BY <2>6, <3>3
  <2> QED
    BY <2>3, <2>4, <2>5
<1>4. CASE Unmap(t)
  <2> SUFFICES ASSUME ~InRange(call[t]), AssertFails, call[t].whole PROVE map_base' = Pages
    BY <1>4, <1>7 DEF Unmap
  <2>1. /\ map_base' = map_base /\ call[t].op = "unmap"
        /\ ~Idle(t) /\ ~At(t, "dynamic", 3)
    BY <1>4 DEF Unmap, AssertFails, At, Idle
  <2>2. Region(call[t].base, call[t].size, t) \in regions
    BY <1>1, <2>1 DEF CallOK
  <2>3. PICK b \in Nat, n \in 1..Pages - 1 : b = call[t].base /\ n = call[t].size
    <3>1. call[t].base \in Nat
      BY <1>1, <2>2, RegionShape DEF Region
    <3> QED
      BY <1>1, <2>1, <3>1, CallShape
  <2>4. PICK r \in regions : r.base = b /\ r.size = n
    BY <2>2, <2>3 DEF Region
  <2>5. r.base <= b /\ b + n <= r.base + r.size
    BY <2>3, <2>4
  <2>6. PICK c : c = call[t] /\ c.base = b /\ c.size = n /\ c.whole /\ ~InRange(c)
    BY <2>3
  <2> QED
    BY <2>1, <2>3, <2>5, <2>6, MappedRange
<1>5. CASE Protect(t)
  <2> SUFFICES ASSUME ~InRange(call[t]), ~(map_base + call[t].size > Pages), call[t].whole
               PROVE  FALSE
    BY <1>5, <1>7 DEF Protect
  <2>1. call[t].op = "protect" /\ ~Idle(t)
    BY <1>5 DEF Protect, At, Idle
  <2>2. call[t].base + call[t].size <= map_base
    BY <2>1 DEF Low
  <2>3. PICK b \in Int, n \in 1..Pages - 1 : b = call[t].base /\ n = call[t].size
    BY <1>1, <2>1, CallShape
  <2>4. map_base \in 0..Pages /\ Pages \in Nat
    BY <1>1, MemoryAssumption DEF Types
  <2>5. PICK m \in Nat, s \in Nat : m = map_base /\ s = Pages
    BY <2>4
  <2>6. b + n <= m /\ m + n <= s
    BY <2>2, <2>3, <2>5
  <2>7. b + n < s
    BY <2>5, <2>6
  <2>8. b \in Nat
    BY <1>1, <2>1, <2>3, NatCallShape DEF WellTyped
  <2>9. PICK c : c = call[t] /\ c.base = b /\ c.size = n /\ c.whole
    BY <2>3
  <2>10. InRange(c)
    BY <2>5, <2>7, <2>8, <2>9, RangeInside
  <2> QED
    BY <2>9, <2>10
<1>6. CASE DynMap(t) \/ DynRaise(t) \/ FixedRaise(t) \/ FixedMap(t)
  BY <1>6 DEF DynMap, DynRaise, FixedRaise, FixedMap
<1> QED
  BY <1>2, <1>3, <1>4, <1>5, <1>6 DEF MemStep

(* When nobody is in a call, all that is mapped is below map_base.          *)
LEMMA ImageLow ==
  ASSUME Good', NEW t \in Thread, \A u \in Thread : Idle(u)',
         LoadAt(t, "section")', Top(t)'.i = 0
  PROVE  call'[t].base + ImagePages <= map_base'
<1>1. Types' /\ MapOK' /\ SecOK(t)'
  BY DEF Good, ThreadOK
<1>2. Image(t, call[t].base)'
  BY <1>1 DEF SecOK
<1>3. PICK r \in regions' : r.base = call'[t].base /\ r.size = ImagePages
  BY <1>2 DEF Image, Pinned, ImagePages
<1>4. r.by \in Thread
  BY <1>1 DEF Types, RegionRec
<1>5. ~Raising(r)'
  BY <1>4 DEF Raising, At, Idle
<1>6. r.base + r.size <= map_base'
  BY <1>1, <1>5 DEF MapOK
<1> QED
  BY <1>3, <1>6

(* A step of the memory map.                                                *)
LEMMA MemLow ==
  ASSUME Good, Good', WellTyped, AllLow, ~aborted,
         NEW t \in Thread, MemStep(t), UNCHANGED ldrVars
  PROVE  AllLow' /\ AbortMeansExhausted'
<1>1. map_base \in Nat /\ map_base' \in Nat /\ map_base <= map_base'
  <2>1. map_base \in 0..Pages
    BY BaseGrows
  <2> QED
    BY <2>1, BaseGrows
<1>2. stack' = stack
  BY DEF ldrVars
<1>3. /\ \A u \in Thread \ {t} : call'[u] = call[u]
      /\ ~Idle(t)
      /\ call'[t] = call[t] \/ call'[t].op \in {"none", "dynamic", "fixed"}
  BY MemCalls DEF WellTyped
<1>4. ASSUME NEW u \in Thread, call'[u] = call[u] PROVE Low(u)'
  <2>1. Low(u) /\ stack'[u] = stack[u]
    BY <1>2 DEF AllLow
  <2> QED
    BY <1>1, <1>4, <2>1, LowStays
<1>5. ASSUME call'[t] = call[t] PROVE AllLow'
  BY <1>3, <1>4, <1>5 DEF AllLow
<1>6. ASSUME call'[t].op \in {"none", "dynamic", "fixed"} PROVE AllLow'
  <2>1. LoadAt(t, "section")' /\ Top(t)'.i = 0 /\ Idle(t)' =>
          call'[t].base + ImagePages' <= map_base'
    <3> SUFFICES ASSUME LoadAt(t, "section")', Top(t)'.i = 0, Idle(t)'
                 PROVE  call'[t].base + ImagePages' <= map_base'
      OBVIOUS
    <3>1. \A u \in Thread \ {t} : Idle(u)
      BY <1>3, OthersIdle
    <3>2. \A u \in Thread : Idle(u)'
      BY <1>3, <3>1 DEF Idle
    <3> QED
      BY <3>2, ImageLow DEF ImagePages
  <2>2. \A k \in DOMAIN stack'[t] : LowFrame(t, k)'
    <3>1. PICK a \in Nat, b \in Nat, n \in Nat : a = map_base /\ b = map_base' /\ n = ImagePages
      <4>1. PICK n \in Nat : n = ImagePages
        BY PageCounts
      <4> QED
        BY <1>1, <4>1
    <3>2. \A x \in Nat : x + n <= a => x + n <= b
      BY <1>1, <3>1
    <3>3. \A k \in DOMAIN stack[t] : stack[t][k].base \in Nat
      BY StackShape DEF WellTyped
    <3>4. ImagePages' = ImagePages
      BY DEF ImagePages
    <3> QED
      BY <1>2, <3>1, <3>2, <3>3, <3>4 DEF AllLow, Low, LowFrame
  <2>3. call'[t].op # "protect"
    BY <1>6
  <2>4. Low(t)'
    <3>1. LoadAt(t, "section")' /\ Top(t)'.i = 0 /\ Idle(t)' =>
            call'[t].base + ImagePages <= map_base'
      BY <2>1 DEF ImagePages
    <3> QED
      BY <2>2, <2>3, <3>1 DEF Low, ImagePages
  <2> QED
    BY <1>3, <1>4, <2>4 DEF AllLow
<1>7. AllLow'
  BY <1>3, <1>5, <1>6
<1>8. AbortMeansExhausted'
  BY AbortExhausts DEF AllLow, AbortMeansExhausted
<1> QED
  BY <1>7, <1>8


(* Why the process ends, with what it takes to see that.                    *)
LEMMA LowStep ==
  ASSUME Inv, Inv', LinkInv, LinkInv', LowInv, [Next]_vars
  PROVE  LowInv'
<1>1. CASE clashed /\ Next
  BY <1>1, RacedStays DEF LowInv
<1>2. CASE UNCHANGED vars
  <2>1. CASE clashed
    BY <1>2, <2>1 DEF LowInv, vars, memVars
  <2>2. CASE ~clashed
    <3>1. AllLow /\ AbortMeansExhausted
      BY <2>2 DEF LowInv, AllLow
    <3>2. UNCHANGED memVars /\ stack' = stack
      BY <1>2 DEF vars, ldrVars
    <3>3. AllLow'
      BY <3>1, <3>2, StillLow DEF LinkInv
    <3>4. AbortMeansExhausted'
      BY <3>1, <3>2 DEF AbortMeansExhausted, memVars, Idle
    <3> QED
      BY <3>3, <3>4 DEF LowInv, AllLow
  <2> QED
    BY <2>1, <2>2
<1>3. CASE Next /\ ~clashed /\ ~clashed'
  <2>1. Good /\ Good' /\ Kept /\ WellTyped /\ AllLow /\ ~aborted
    BY <1>3 DEF Inv, LinkInv, Kept, LowInv, AllLow, Next, Live
  <2>2. AllLow' /\ AbortMeansExhausted'
    <3>1. CASE Start \/ CreateThread \/ Created
      BY <2>1, <3>1, StartLow DEF AbortMeansExhausted
    <3>2. ASSUME NEW t \in Thread, LoadStep(t) PROVE AllLow' /\ AbortMeansExhausted'
      BY <2>1, <3>2, LoadLow DEF AbortMeansExhausted, Kept
    <3>3. ASSUME NEW t \in Thread, Program(t) \/ Allocated(t) \/ SetupMap(t) \/ SetupDone(t)
          PROVE  AllLow' /\ AbortMeansExhausted'
      BY <2>1, <3>3, ProgramLow DEF AbortMeansExhausted
    <3>4. ASSUME NEW t \in Thread, MemStep(t) /\ UNCHANGED ldrVars
          PROVE  AllLow' /\ AbortMeansExhausted'
      BY <2>1, <3>4, MemLow
    <3> QED
      BY <1>3, <3>1, <3>2, <3>3, <3>4 DEF Next, Proceed
  <2> QED
    BY <2>2 DEF LowInv, AllLow
<1>4. CASE clashed'
  BY <1>4 DEF LowInv
<1> QED
  BY <1>1, <1>2, <1>3, <1>4

(* At the start nothing is loaded.                                          *)
LEMMA LowInit ==
  ASSUME Init
  PROVE  LowInv
<1>1. ~aborted /\ call = [t \in Thread |-> Returned(0)]
      /\ stack = [t \in Thread |-> IF t = Main THEN <<Frame("exe")>> ELSE <<>>]
  BY DEF Init, MemInit
<1>2. ASSUME NEW t \in Thread PROVE Low(t)
  <2>1. call[t].op # "protect"
    BY <1>1 DEF Returned
  <2>2. CASE t = Main
    <3>1. PICK f : f = Frame("exe") /\ f.step = "reserve"
      <4>1. Frame("exe").step = "reserve"
        BY DEF Frame
      <4> QED
        BY <4>1
    <3>2. stack[t] = <<f>> /\ DOMAIN <<f>> = {1}
      BY <1>1, <2>2, <3>1
    <3>3. Top(t) = f /\ \A k \in DOMAIN stack[t] : stack[t][k] = f
      BY <3>2 DEF Top
    <3> QED
      BY <2>1, <3>1, <3>3 DEF Low, LowFrame, LoadAt
  <2>3. CASE t # Main
    <3>1. stack[t] = <<>>
      BY <1>1, <2>3
    <3>2. \A k \in DOMAIN << >> : FALSE
      OBVIOUS
    <3>3. \A k \in DOMAIN stack[t] : LowFrame(t, k)
      BY <3>1, <3>2
    <3>4. ~LoadAt(t, "section")
      BY <3>1 DEF LoadAt, Loading
    <3> QED
      BY <2>1, <3>3, <3>4 DEF Low
  <2> QED
    BY <2>2, <2>3
<1> QED
  BY <1>1, <1>2 DEF LowInv, AbortMeansExhausted

(* The process ends only for want of memory, or because of what the files   *)
(* import or the program asks for: EndHasReason.                            *)
THEOREM ProcessEndsForAReason == Spec => []EndHasReason
<1>1. Init => Inv /\ LinkInv /\ LowInv
  BY GoodInit, LinkInit, LowInit DEF Inv
<1>2. Inv /\ Inv' /\ LinkInv /\ LinkInv' /\ LowInv /\ [Next]_vars => LowInv'
  BY LowStep
<1>3. LinkInv /\ LowInv => EndHasReason
  BY DEF LinkInv, LowInv, EndHasReason, AbortMeansExhausted
<1> QED
  BY <1>1, <1>2, <1>3, InvHolds, LinkInvHolds, PTL DEF Spec
=============================================================================
