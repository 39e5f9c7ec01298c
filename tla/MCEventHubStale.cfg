\* Two connections that change the settings at once.
CONSTANTS
  c1 = c1
  c2 = c2
  o1 = o1
  m1 = m1
  Client  <- TwoClients
  Offer   <- None
  Message <- None
  NoOffer = NoOffer
  NoEvent = NoEvent
  OutCap  = 4
  MaxSets = 2
SPECIFICATION Spec
SYMMETRY Interchangeable
INVARIANTS
  StatusFresh
\* Every connection may be over.
CHECK_DEADLOCK FALSE
