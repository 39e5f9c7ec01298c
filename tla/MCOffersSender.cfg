\* The timers as they are, in ticks of five seconds: 60s, 55s, 30s.
CONSTANTS
  r1 = r1
  r2 = r2
  NoRequest = NoRequest
  Request <- TwoRequests
  AcceptCap   = 1
  MaxHeld     = 1
  EnqueueWait = 1
  ServerWait  = 12
  HoldFor     = 11
  SenderWait  = 6
  StartupLag  = 0
SPECIFICATION Spec
SYMMETRY Interchangeable
INVARIANTS
  AcceptsGoSomewhere
