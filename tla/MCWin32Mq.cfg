SPECIFICATION FairSpec
CONSTANTS
    Producer = {p1, p2}
    Owner = owner
    Node = {n1, n2, n3}
    Msg = {m1, m2}
    NULL = NULL
    NoMsg = NoMsg
INVARIANTS
  PopAssertion
  SemCountsMessages
PROPERTIES
  ImplementsFifo
  MessagesDelivered
