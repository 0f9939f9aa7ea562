-------------------------------- MODULE Fifo --------------------------------
(***************************************************************************)
(* What a thread's message queue promises (the win32_mq interface declared *)
(* in include/uwin/uwin.h): posted messages come out once each, in the     *)
(* order in which they were posted, and try_pop reports an empty queue     *)
(* only when it is empty.                                                  *)
(***************************************************************************)
EXTENDS Sequences

CONSTANTS Msg,      \* messages
          NoMsg     \* result of a try_pop that found nothing

VARIABLES q,        \* messages posted and not yet taken
          res       \* result of the owner's last pop or try_pop

Init == q = <<>> /\ res = NoMsg

Post(m) == q' = Append(q, m) /\ UNCHANGED res

Take == /\ q # <<>>
        /\ res' = Head(q)
        /\ q' = Tail(q)

FindEmpty == /\ q = <<>>
             /\ res' = NoMsg
             /\ UNCHANGED q

Next == (\E m \in Msg : Post(m)) \/ Take \/ FindEmpty

Spec == Init /\ [][Next]_<<q, res>>
=============================================================================
