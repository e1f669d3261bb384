\* Two recoveries of one vault, two phones' keys, two invocations at once.
CONSTANTS
  RecoveryIds = {r1, r2}
  Keys = {k1, k2}
  None = None
  Delay = 1
  Validity = 1
  MaxSpan = 3
  DeletionDelay = 1
  MaxClaimKeys = 1
  EnclaveTimes = {4}
  MaxClock = 3
  MaxInFlight = 2
  MaxAdoptions = 1
SPECIFICATION Spec
PROPERTY FollowsLifecycle
SYMMETRY Symmetry
CHECK_DEADLOCK FALSE
