\* What the comments say and the code does not: each of them, checked alone, is
\* violated.
CONSTANTS
  e1 = e1
  e2 = e2
  t1 = t1
  NoProc = NoProc
  Dead = Dead
  NoIno = NoIno
  NoFile = NoFile
  Empty = Empty
  Torn = Torn
  NoSettings = NoSettings
  Proc   <- TwoEngines
  Engine <- TwoEngines
  Ino    <- Inodes
  MaxChanges = 1
  Cap = 1
  Retention = 2
  MaxMessages = 0
  LastTime = 1
  MaxStarts = 3
  Topics <- AllTopics
  Overlaps <- AllOverlap
SPECIFICATION Spec
SYMMETRY Symmetry
INVARIANTS
  SavesAreWhole
  OverridesStayOut
PROPERTIES
  LiveSocketStays
  ChangesStay
CHECK_DEADLOCK FALSE
