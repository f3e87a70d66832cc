SPECIFICATION FairSpec
CONSTANTS
  b1 = b1
  b2 = b2
  w1 = w1
  w2 = w2
  Builds = {b1, b2}
  NBlocks = 2
  Watchdogs = {w1, w2}
  TftpHost = FALSE
  KernelMatches = TRUE
  Checked = FALSE
  FirstFlash = {b1, "blank", "foreign"}
  Activity = {"install", "uninstall", "fetchfail", "crash", "power"}
INVARIANTS PatchedSessions DoneMeansInstalled UninstallBlanks
PROPERTIES BootServes InstallEnds
CHECK_DEADLOCK FALSE
