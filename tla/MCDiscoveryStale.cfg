\* A client whose greeting or addPeer is overtaken by the pump.
CONSTANTS
  d1 = d1
  d2 = d2
  g1 = g1
  c1 = c1
  a1 = a1
  lan = lan
  loop = loop
  p1 = p1
  p2 = p2
  None = None
  Pump = Pump
  Loopback = loop
  Device    <- OneDevice
  Client    <- OneClient
  Asker     <- OneAsker
  Goroutine <- OneGoroutine
  Ip        <- TwoAddresses
  SeenAt    <- EitherWay
  Port      <- OnePort
  MaxPeers = 1
  PeerTTL  = 1
  EventCap = 1
SPECIFICATION Spec
INVARIANTS
  ClientsEndUpRight
