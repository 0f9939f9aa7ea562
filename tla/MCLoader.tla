------------------------------ MODULE MCLoader ------------------------------
EXTENDS Loader, TLC

(* Import graphs: a diamond of images without relocations; a library loaded *)
(* at run time with imports of its own, one of which has no entry point and *)
(* one that refuses; two that import each other; a missing file; an image   *)
(* over another, and a missing symbol.                                      *)
G(exe, a, b, c, dllmain, more) == more @@
  [imports |-> [exe |-> exe, init |-> <<"c">>, a |-> a, b |-> b, c |-> c],
   dllmain |-> dllmain \cup {"init"}, fixed |-> <<>>, absent |-> {}, unlinked |-> {},
   refuses |-> {}]

MCGraphs ==
  { G(<<"a", "b">>, <<"c">>, <<"c">>, <<>>, {"a", "b", "c"},
      [fixed |-> [exe |-> 0, c |-> 2]]),
    G(<<>>, <<"b">>, <<>>, <<>>, {"a", "b"}, [refuses |-> {"b"}]),
    G(<<"a">>, <<"b">>, <<"a">>, <<>>, {"a", "b", "c"}, <<>>),
    G(<<"a">>, <<>>, <<>>, <<>>, {"a"}, [absent |-> {"c"}]),
    G(<<"a">>, <<>>, <<>>, <<>>, {"a"}, [fixed |-> [a |-> 6], unlinked |-> {<<"init", "c">>}]) }

MCSizes == {1, 2, 2 * Pages - 4}
MCAsked == {[base |-> 4, size |-> 1], [base |-> 6, size |-> 2], [base |-> 2, size |-> 2 * Pages - 1]}
MCSectionProt == <<"R", "RW">>
MCMain == "main"
MCFirst == "first"
MCSecond == "second"
MCThread == {MCMain, MCFirst, MCSecond}
=============================================================================
