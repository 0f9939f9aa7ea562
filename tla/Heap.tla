-------------------------------- MODULE Heap --------------------------------
(* What an allocator of executable memory promises: every piece handed out  *)
(* is at least as large as asked for and shares nothing with another one,   *)
(* until it is given back.  A request may be refused.                       *)
EXTENDS Integers

CONSTANTS Place,        \* the places a piece can lie in (chunks)
          Request       \* the sizes that are asked for

VARIABLE live           \* the pieces in use: <<place, first, size, asked>>

Disjoint(x, y) == x[1] # y[1] \/ x[2] + x[3] <= y[2] \/ y[2] + y[3] <= x[2]

Init == live = {}

Allocate == \E x \in live' \ live : /\ live' = live \cup {x}
                                   /\ x[1] \in Place /\ x[4] \in Request /\ x[3] >= x[4]
                                   /\ \A y \in live : Disjoint(x, y)

Release == \E x \in live : live' = live \ {x}

Next == Allocate \/ Release
Spec == Init /\ [][Next]_live
=============================================================================
