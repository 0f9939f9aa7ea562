----------------------------- MODULE MCExecLock -----------------------------
(* Instance of ExecLock: enough threads for two to leave while two others  *)
(* compete.                                                                *)
EXTENDS ExecLock
=============================================================================
