---------------------------- MODULE MCThreadLife ----------------------------
(* The instance of ThreadLife for the halfix build.                           *)
EXTENDS ThreadLife
=============================================================================
