\* Two devices for one place in the table, one goroutine, two addresses, one
\* client that connects again and asks.
CONSTANTS
  d1 = d1
  d2 = d2
  g1 = g1
  c1 = c1
  a1 = a1
  lan = lan
  loop = loop
  p1 = p1
  p2 = p2
  None = None
  Pump = Pump
  Loopback = loop
  Device    <- TwoDevices
  Client    <- OneClient
  Asker     <- NoOne
  Goroutine <- OneGoroutine
  Ip        <- TwoAddresses
  SeenAt    <- EitherWay
  Port      <- OnePort
  MaxPeers = 1
  PeerTTL  = 1
  EventCap = 1
SPECIFICATION FairSpec
INVARIANTS
  TypeOK
  ClientsSeeTable
PROPERTIES
  OnlySilenceEvicts
  KeepsRoutable
  GoneDevicesVanish
