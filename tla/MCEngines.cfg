CONSTANTS
  e1 = e1
  e2 = e2
  t1 = t1
  NoProc = NoProc
  Dead = Dead
  NoIno = NoIno
  NoFile = NoFile
  Empty = Empty
  Torn = Torn
  NoSettings = NoSettings
  Proc   <- WithTerminal
  Engine <- TwoEngines
  Ino    <- MoreInodes
  MaxChanges = 1
  Cap = 2
  Retention = 1
  MaxMessages = 3
  LastTime = 2
  MaxStarts = 3
  Topics <- AllTopics
  Overlaps <- StartsOverlap
SPECIFICATION Spec
SYMMETRY Symmetry
INVARIANTS
  SettingsSafe
  UpIsReachable
  SavedIsKept
\* All programs may have ended.
CHECK_DEADLOCK FALSE
