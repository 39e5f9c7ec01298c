\* Three sources for a table of two records; the clock passes a lockout and a
\* stale record.
CONSTANTS
  i1 = i1
  i2 = i2
  i3 = i3
  h1 = h1
  h2 = h2
  NoIp = NoIp
  Ip <- Ips
  Handler <- Handlers
  MaxFails   = 2
  Lockout    = 2
  Stale      = 3
  MaxEntries = 2
  LastTime   = 7
SPECIFICATION PinSpec
SYMMETRY Symmetry
INVARIANTS
  GuessesBounded
PROPERTIES
  LockoutsStand
  UncountedOnlyWhenFull
\* The clock stops at LastTime and a request waits for it.
CHECK_DEADLOCK FALSE
