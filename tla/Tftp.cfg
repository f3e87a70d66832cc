SPECIFICATION FairSpec
CONSTANTS
  Threads = {1, 2}
  Files <- MCFiles
  BlockSize = 2
  W = 3
  Lifetime = 2
  Attempts = 5
  NoFile = NoFile
  NoThread = NoThread
INVARIANTS TypeOK CompleteIsTrue LockStep
PROPERTIES Transfer ThreadsEnd
CHECK_DEADLOCK FALSE
