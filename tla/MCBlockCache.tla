---------------------------- MODULE MCBlockCache ----------------------------
(* A loop of three blocks.  "a" goes to "b", which it does not predict; "b" *)
(* goes to "c", the second of its predictions; "c" returns to "a".  A       *)
(* thread starts at "a" and looks that up while others compile "b" and "c". *)
EXTENDS BlockCache

MCAddr == {"a", "b", "c"}
MCPredicted == [a |-> <<>>, b |-> <<"a", "c">>, c |-> <<>>]
MCJumps == [a |-> {"b"}, b |-> {"c"}, c |-> {"a"}]
=============================================================================
