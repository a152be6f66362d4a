SPECIFICATION FairSpec
CONSTANTS
  k1 = k1
  k2 = k2
  p1 = p1
  p2 = p2
  p3 = p3
  NoPid = NoPid
  Cmds <- OneTerminal
  Pids <- TwoPids
  Programs = {}
  Concurrent = {}
  CalmOnly = FALSE
  Modes = {"tcp"}
  Faults = {}
  MaxFailures = 1
  Installed = TRUE
PROPERTIES RestartsOnCrash
CHECK_DEADLOCK FALSE
