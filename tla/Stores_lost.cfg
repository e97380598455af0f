SPECIFICATION StoresSpec
CHECK_DEADLOCK FALSE
CONSTANTS
  None = None
  NoCall = NoCall
  Created = Created
  Gone = Gone
  Junk = Junk
  t1 = t1
  t2 = t2
  u1 = u1
  u2 = u2
  c1 = c1
  c2 = c2
  p1 = p1
  p2 = p2
  p3 = p3
  a = a
  Providers <- ThreeProviders
  FileProviders <- LastProviders
  HintProviders <- FirstProvider
  BatchItems <- OneItem
  BatchCalls <- TwoCallers
  Candidates <- ProbingOrder
  Supporting <- LastProviders
  NativeCalls <- TwoCallers
  Turns <- TwoTurns
  Updaters <- OneUpdater
  Ids <- ThreeIds
  Callers <- TwoCallers
  Sizes <- StoreSizes
  MaxEntries = 2
  MaxBytes = 3
  TTL = 2
  CleanupInterval = 2
  MaxDelay = 1
  MaxTime = 3
  Sources <- FileSources
  ListEntries <- FourEntries
  Inputs <- ThreeInputs
  NullItem = Junk
  Limits <- TwoLimits
  DefaultLimit = 1
  MaxLimit = 2
SYMMETRY CallSymmetry
INVARIANTS
  NoExchangeLost
