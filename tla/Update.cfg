SPECIFICATION FairSpec
CONSTANTS
  b1 = b1
  b2 = b2
  w1 = w1
  w2 = w2
  Builds = {b1, b2}
  NBlocks = 2
  Watchdogs = {w1}
  TftpHost = FALSE
  KernelMatches = TRUE
  Checked = TRUE
  FirstFlash = {b1}
  Activity = {"update", "crash", "power", "fetchfail", "toolfail", "patchfail"}
INVARIANTS TypeOK OnlyApproved RunsWhatBoots AppliesVerified
PROPERTIES ApplyIsCompleted
CHECK_DEADLOCK FALSE
