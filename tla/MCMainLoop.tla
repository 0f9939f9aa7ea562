----------------------------- MODULE MCMainLoop -----------------------------
(* Instance of MainLoop for TLC. *)
EXTENDS MainLoop, TLC
=============================================================================
