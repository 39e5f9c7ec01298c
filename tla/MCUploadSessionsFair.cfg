\* Two sessions that take turns on a cap of one file; fair goroutines.
CONSTANTS
  s1 = s1
  s2 = s2
  f1 = f1
  f2 = f2
  h1 = h1
  h2 = h2
  NoSession = NoSession
  Session <- TwoSessions
  File    <- OneFile
  Handler <- TwoHandlers
  MaxSessions     = 2
  MaxSessionFiles = 1
  SessionTTL      = 0
  TransferCap     = 1
SPECIFICATION FairSpec
PROPERTIES
  ClaimsAreReleased
  DeliversFiles
