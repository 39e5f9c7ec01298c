\* Two requests, one place on the table, one in the channel.
CONSTANTS
  r1 = r1
  r2 = r2
  NoRequest = NoRequest
  Request <- TwoRequests
  AcceptCap   = 1
  MaxHeld     = 1
  EnqueueWait = 1
  ServerWait  = 4
  HoldFor     = 2
  SenderWait  = 1
  StartupLag  = 1
SPECIFICATION FairSpec
INVARIANTS
  TypeOK
  AnsweredOnce
  OffersAnswerable
  AcceptedByUser
PROPERTIES
  OffersLeave
