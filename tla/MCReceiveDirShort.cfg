\* A body that ends early without an error.
CONSTANTS
  u1 = u1
  u2 = u2
  u3 = u3
  Upload     <- TwoUploads
  None     = None
  Name       <- AllNames
  Requested  <- OneRequest
  Candidates <- OneCandidates
  Temp       <- AllTemps
SPECIFICATION Spec
SYMMETRY Interchangeable
INVARIANTS
  ReceivedIsWhole
\* Every upload ends.
CHECK_DEADLOCK FALSE
