\* Three sends of one file to one address.
CONSTANTS
  b1 = b1
  b2 = b2
  b3 = b3
  p1 = p1
  f1 = f1
  NoBatch = NoBatch
  NoPeer  = NoPeer
  NoFile  = NoFile
  Peer  <- Peers
  Batch <- Batches
  File  <- OneFile
SPECIFICATION FairSpec
INVARIANTS
  RegistryExact
PROPERTIES
  SupersededEnds
\* Every send may be over.
CHECK_DEADLOCK FALSE
