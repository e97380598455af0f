SPECIFICATION OperationSpec
CHECK_DEADLOCK FALSE
CONSTANTS
  Order <- MCOrder
  Models = {"a", "b"}
  Serves <- MCServes
  TypeOf <- MCTypeOf
  Checkers = {"p1"}
  Scenarios <- MCScenarios
  None = None
  Registered = {"p", "q"}
  Declared = {"p", "q"}
  Supported <- MCSupported
  Price <- MCPrice
  HealthWeights <- MCHealthWeights
  ConfigRows <- MCConfigRows
  Drafts <- MCDrafts
  UserPaths <- MCUserPaths
  DefaultEnabled = TRUE
  CounterBound = 3
  MaxRequests = 2
  MaxEntries = 3
INVARIANTS
  TablesAreCurrent
  RetiringIsSafe
  SnapshotFollowsStore
  RedirectsServe
  ClosedInOrder
PROPERTIES
  InventoryMovesForward
  SignalEndsProcess
