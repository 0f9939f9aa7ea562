-------------------------- MODULE MCCriticalSection --------------------------
(* Instance of CriticalSection: two waiters behind one owner, nested enters. *)
EXTENDS CriticalSection
=============================================================================
