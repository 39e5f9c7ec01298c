CONSTANTS
  d1 = d1
  d2 = d2
  x1 = x1
  x2 = x2
  g1 = g1
  g2 = g2
  NoDevice = NoDevice
  NoPath = NoPath
  NoRoot = NoRoot
  Device <- Devices
  Path   <- Paths
  Quick  <- Paths
  Entry  <- Entries
  Folder <- Folders
  Root   <- Roots
  Errands <- Work
  MaxSends = 2
  MaxInbox = 1
SPECIFICATION Spec
SYMMETRY Symmetry
INVARIANTS
  MarksAreListed
PROPERTIES
  ClosesOnlyWhenDone
  AnswersTheCard
  FilesGoToTheirDevice
\* The user may quit.
CHECK_DEADLOCK FALSE
