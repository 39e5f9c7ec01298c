\* One connection and one offer.
CONSTANTS
  c1 = c1
  c2 = c2
  o1 = o1
  m1 = m1
  Client  <- OneClient
  Offer   <- OneOffer
  Message <- None
  NoOffer = NoOffer
  NoEvent = NoEvent
  OutCap  = 4
  MaxSets = 0
SPECIFICATION Spec
INVARIANTS
  ToldOfTheEnd
\* Every connection may be over.
CHECK_DEADLOCK FALSE
