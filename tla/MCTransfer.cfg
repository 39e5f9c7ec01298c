\* Two batches of two files to one receiver.
CONSTANTS
  b1 = b1
  b2 = b2
  p1 = p1
  f1 = f1
  f2 = f2
  NoBatch = NoBatch
  NoPeer  = NoPeer
  NoFile  = NoFile
  Peer  <- Peers
  Batch <- Batches
  File  <- Files
SPECIFICATION TransferSpec
SYMMETRY Symmetry
INVARIANTS
  DoneIsDelivered
  WrongAboutOne
  EveryFileReported
  SyncOkMeansAllDone
\* Every send may be over.
CHECK_DEADLOCK FALSE
