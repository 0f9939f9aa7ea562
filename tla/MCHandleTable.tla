--------------------------- MODULE MCHandleTable ---------------------------
(* Instance of HandleTable: two kdummies of different types and one other  *)
(* kernel object.                                                          *)
EXTENDS HandleTable, TLC

CONSTANTS d1, d2, k1, event, menu

MCDummyType == {event, menu}
MCTypeOf == (d1 :> event) @@ (d2 :> menu)
MCSymmetry == Permutations(Thread)
=============================================================================
