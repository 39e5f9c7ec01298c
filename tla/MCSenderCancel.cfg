SPECIFICATION Spec
CONSTANTS
  b1 = b1
  b2 = b2
  b3 = b3
  p1 = p1
  f1 = f1
  NoBatch = NoBatch
  NoPeer = NoPeer
  NoFile = NoFile
  Peer <- Peers
  Batch <- TwoBatches
  File <- OneFile
CHECK_DEADLOCK FALSE
PROPERTY CleanCancel
