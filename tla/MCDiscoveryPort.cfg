\* A device that comes back on another port.
CONSTANTS
  d1 = d1
  d2 = d2
  g1 = g1
  c1 = c1
  a1 = a1
  lan = lan
  loop = loop
  p1 = p1
  p2 = p2
  None = None
  Pump = Pump
  Loopback = loop
  Device    <- OneDevice
  Client    <- NoOne
  Asker     <- NoOne
  Goroutine <- OneGoroutine
  Ip        <- TwoAddresses
  SeenAt    <- EitherWay
  Port      <- TwoPorts
  MaxPeers = 2
  PeerTTL  = 1
  EventCap = 3
SPECIFICATION Spec
INVARIANTS
  TuiAddressFresh
