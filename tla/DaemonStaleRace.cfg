SPECIFICATION Spec
CONSTANTS
  k1 = k1
  k2 = k2
  p1 = p1
  p2 = p2
  p3 = p3
  NoPid = NoPid
  Cmds <- TwoTerminals
  Pids <- ThreePids
  Programs = {"start"}
  Concurrent = {"start"}
  CalmOnly = FALSE
  Modes = {"tcp"}
  Faults = {}
  MaxFailures = 1
  Installed = FALSE
INVARIANTS OneInstance
