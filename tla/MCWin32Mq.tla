----------------------------- MODULE MCWin32Mq -----------------------------
(* Instance of Win32Mq: a small heap, so that cells are recycled.          *)
EXTENDS Win32Mq
=============================================================================
