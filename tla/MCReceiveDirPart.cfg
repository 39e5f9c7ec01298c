\* Two uploads, of "a" and of "a.part", at the same time.
CONSTANTS
  u1 = u1
  u2 = u2
  u3 = u3
  Upload     <- TwoUploads
  None     = None
  Name       <- AllNames
  Requested  <- PartRequests
  Candidates <- PartCandidates
  Temp       <- AllTemps
SPECIFICATION Spec
SYMMETRY Interchangeable
INVARIANTS
  ReceivedStaysUnlessSameName
\* Every upload ends.
CHECK_DEADLOCK FALSE
