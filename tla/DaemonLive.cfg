SPECIFICATION FairSpec
CONSTANTS
  k1 = k1
  k2 = k2
  p1 = p1
  p2 = p2
  p3 = p3
  NoPid = NoPid
  Cmds <- TwoTerminals
  Pids <- TwoPids
  Programs = {"stop", "status", "install", "uninstall"}
  Concurrent = {"stop", "status", "install", "uninstall"}
  CalmOnly = FALSE
  Modes = {"tcp"}
  Faults = {"launchctl"}
  MaxFailures = 1
  Installed = TRUE
PROPERTIES StopIsObeyed StaleFileIsCleaned RestartsWhenAsked UninstallStops
