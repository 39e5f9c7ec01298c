\* Three uploads whose names may collide with numbered and temporary names.
CONSTANTS
  u1 = u1
  u2 = u2
  u3 = u3
  Upload     <- ThreeUploads
  None     = None
  Name       <- AllNames
  Requested  <- AwkwardRequests
  Candidates <- AwkwardCandidates
  Temp       <- AllTemps
SPECIFICATION Spec
SYMMETRY Interchangeable
PROPERTIES
  EarlierFilesUntouched
INVARIANTS
  InterruptedStaysTemporary
  NoStrayTemporaries
\* Every upload ends.
CHECK_DEADLOCK FALSE
