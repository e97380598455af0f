SPECIFICATION WritersSpec
CHECK_DEADLOCK FALSE
CONSTANTS
  None = None
  e1 = e1
  e2 = e2
  e3 = e3
  e4 = e4
  r1 = r1
  r2 = r2
  r3 = r3
  w1 = w1
  w2 = w2
  k1 = k1
  k2 = k2
  Entries <- FourEntries
  BufferSize = 2
  BatchFlushThreshold = 2
  MaxEntriesPerBatch = 1
  Requests <- ThreeRequests
  Keys <- TwoKeys
  Workers <- TwoWorkers
  QueueSize = 1
INVARIANTS
  EveryEntryAccountedFor
  CloseLosesNoWrite
  HitsAreFaithful
PROPERTIES
  ImplementsDelivery
  EntriesAreSettled
