SPECIFICATION FairSpec
CONSTANTS
  Threads = {1, 2, 3}
  Files <- MCFiles
  OldSizes = {0, 8}
  BlockSize = 2
  W = 3
  Lifetime = 2
  NoFile = NoFile
  NoThread = NoThread
INVARIANTS StoredIsWhole
PROPERTIES Upload AckedIsStored
CHECK_DEADLOCK FALSE
