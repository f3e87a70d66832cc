SPECIFICATION Spec
CONSTANTS
  b1 = b1
  b2 = b2
  w1 = w1
  w2 = w2
  Builds = {b1}
  NBlocks = 2
  Watchdogs = {w1, w2}
  TftpHost = FALSE
  KernelMatches = TRUE
  Checked = FALSE
  FirstFlash = {b1}
  Activity = {"install", "crash"}
INVARIANTS NeverStacked
CHECK_DEADLOCK FALSE
