SPECIFICATION FairSpec
CONSTANTS
  k1 = k1
  k2 = k2
  p1 = p1
  p2 = p2
  p3 = p3
  NoPid = NoPid
  Cmds <- TwoTerminals
  Pids <- ThreePids
  Programs = {"start", "stop", "status"}
  Concurrent = {"start", "status"}
  CalmOnly = TRUE
  Modes = {"tcp", "unix"}
  Faults = {"load", "write", "listen"}
  MaxFailures = 2
  Installed = FALSE
INVARIANTS TypeOK OneInstance ServerIsRecorded ServerIsReachable
PROPERTIES RemovesOwnOrDead StoppedMeansGone StartSucceeds
