SPECIFICATION RequestsSpec
CHECK_DEADLOCK FALSE
CONSTANTS
  Order <- MCOrder
  TypeOf <- MCTypeOf
  NameRank <- MCNameRank
  SelectorRank <- MCSelectorRank
  Inventories <- MCInventories
  Models <- MCModels
  Bodies <- MCBodies
  Rewritten <- MCRewritten
  Serving = {"n", "n-2"}
  PassedThrough = {"t"}
  Hints <- MCHints
  Redirects <- MCRedirects
  Deniable <- MCDeniable
  ChangeBound = 2
  Casts <- MCCasts
  Answers <- MCAnswers
  MaxRounds = 3
  Wishes <- MCWishes
INVARIANTS
  RequestsReachTheirModel
  PeekedSelectorIsTheBodys
  ConversationIsKept
  ResultsFollowTheirCalls
  SettingsAreKept
