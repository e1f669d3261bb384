\* One recovery of one vault, two phones' keys, two invocations at once.
CONSTANTS
  RecoveryIds = {r1}
  Keys = {k1, k2}
  None = None
  Delay = 1
  Validity = 1
  MaxSpan = 3
  DeletionDelay = 1
  MaxClaimKeys = 1
  EnclaveTimes = {0, 2, 4}
  MaxClock = 3
  MaxInFlight = 2
  MaxAdoptions = 2
SPECIFICATION Spec
INVARIANTS TypeOK OneEnd TrueCompletion ApiFloor StartOverApart
SYMMETRY KeySymmetry
CHECK_DEADLOCK FALSE
