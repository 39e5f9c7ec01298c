\* One connection and one message.
CONSTANTS
  c1 = c1
  c2 = c2
  o1 = o1
  m1 = m1
  Client  <- OneClient
  Offer   <- None
  Message <- OneMessage
  NoOffer = NoOffer
  NoEvent = NoEvent
  OutCap  = 4
  MaxSets = 0
SPECIFICATION Spec
INVARIANTS
  MessagesComplete
\* Every connection may be over.
CHECK_DEADLOCK FALSE
