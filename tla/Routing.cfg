SPECIFICATION FairSpec
CONSTANTS
  r1 = r1
  r2 = r2
  Requests <- TwoRequests
  Targets <- TwoModels
  KeyCooldown = 2
  ModelCooldown = 3
  MaxCooldown = 3
  HerdWindow = 2
INVARIANTS
  StormsDoNotExtend
PROPERTIES
  ModelLockoutLasts
  LockoutsEnd
