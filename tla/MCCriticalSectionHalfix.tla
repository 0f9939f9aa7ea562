----------------------- MODULE MCCriticalSectionHalfix -----------------------
(* Two threads that enter and leave on the interpreter. *)
EXTENDS CriticalSectionHalfix
=============================================================================
