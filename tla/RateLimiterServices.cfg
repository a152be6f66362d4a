SPECIFICATION FairSpec
CONSTANTS
  c1 = c1
  c2 = c2
  free = free
  Clients <- TwoClients
  Services <- Mixed
  Limit <- MixedLimits
  Window = 1
  MaxTime = 3
  NoClient = free
INVARIANTS TypeOK Owner WindowBound RingIsLogSuffix EvictedAreOld PushHasRoom
PROPERTIES ImplementsSlidingWindow CallReturns WindowReopens
