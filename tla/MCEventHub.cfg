\* Two connections with an offer, a message and a settings change.
CONSTANTS
  c1 = c1
  c2 = c2
  o1 = o1
  m1 = m1
  Client  <- TwoClients
  Offer   <- OneOffer
  Message <- OneMessage
  NoOffer = NoOffer
  NoEvent = NoEvent
  OutCap  = 1
  MaxSets = 1
SPECIFICATION Spec
SYMMETRY Interchangeable
INVARIANTS
  NoPanic
  PromptsComplete
  MessagesReach
\* Every connection may be over.
CHECK_DEADLOCK FALSE
