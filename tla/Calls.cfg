SPECIFICATION MCCallsSpec
CHECK_DEADLOCK FALSE
CONSTANTS
  r1 = r1
  r2 = r2
  r3 = r3
  Requests <- ThreeRequests
  FailureThreshold = 2
  SuccessThreshold = 2
  Timeout = 1
  MaxAttempts = 2
  FailureCap = 3
  Providers = {"anthropic", "bedrock", "gemini", "openai"}
  MaxEvents <- MCMaxEvents
  MaxPending = 4
  Streams <- MCStreams
  Calls = {"c1", "c2"}
  Sessions = {"s"}
  MaxCalls = 1
  TTL = 0
  MaxClock = 1
  MaxResponses = 1
  Mtok = 10
  Ticks = 10
  Hour = 4
  Day = 6
  Limit = 2
  Retention = 4
  MaxChunk = 2
  MaxTick = 9
  Bills <- MCBills
  Rows <- MCRows
  Queries <- MCQueries
INVARIANTS
  ProbeSlotNeverLost
  ThresholdsDecide
  ContentArrivesWhole
  StreamIsSound
  ChunkingIsInvisible
  DoneMarkerOnce
  UsageCountedOnce
  TokensCountedOnce
  PagingMissesNothing
  RowsFallInTheirPeriod
PROPERTIES
  ClosesAfterRecovery
  SessionsEnd
