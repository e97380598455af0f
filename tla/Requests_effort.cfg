SPECIFICATION RequestsSpec
CHECK_DEADLOCK FALSE
CONSTANTS
  Order <- MCOrder
  TypeOf <- MCTypeOf
  NameRank <- MCNameRank
  SelectorRank <- MCSelectorRank
  Inventories <- MCInventories
  Models <- MCModels
  Bodies <- MCBodies
  Rewritten <- MCRewritten
  Serving = {"n", "n-2"}
  PassedThrough = {"t"}
  Hints <- MCHints
  Redirects <- MCRedirects
  Deniable <- MCDeniable
  ChangeBound = 0
  Casts <- StoredCasts
  Answers <- PlainAnswers
  MaxRounds = 3
  Wishes <- MCWishes
INVARIANTS
  UnsupportedEffortsAreDowngraded
