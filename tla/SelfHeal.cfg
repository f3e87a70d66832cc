SPECIFICATION FairSpec
CONSTANTS
  b1 = b1
  b2 = b2
  w1 = w1
  w2 = w2
  Builds = {b1}
  NBlocks = 2
  Watchdogs = {w1}
  TftpHost = TRUE
  KernelMatches = TRUE
  Checked = TRUE
  FirstFlash = {b1}
  Activity = {"update", "restage", "crash", "power", "vanish", "copyfail", "fetchfail"}
 
PROPERTIES Respawns
CHECK_DEADLOCK FALSE
