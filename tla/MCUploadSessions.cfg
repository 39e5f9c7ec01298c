\* Two goroutines on two sessions of up to two files.
CONSTANTS
  s1 = s1
  s2 = s2
  f1 = f1
  f2 = f2
  h1 = h1
  h2 = h2
  NoSession = NoSession
  Session <- TwoSessions
  File    <- TwoFiles
  Handler <- TwoHandlers
  MaxSessions     = 1
  MaxSessionFiles = 2
  SessionTTL      = 0
  TransferCap     = 1
SPECIFICATION Spec
SYMMETRY Interchangeable
INVARIANTS
  SingleReceiver
  BusyMarkExact
  DoneMeansLanded
  CapsHold
PROPERTIES
  SessionsEndForAReason
  RowsEndOnce
