\* As CancelReplaced.cfg: what MEMBER-API says of every cancel from the phone.
SPECIFICATION Spec
CONSTANTS
  Recoveries = {r1, r2}
  Noticers = {n1}
  None = None
  MaxTries = 2
  Retry = 1
  Timeout = 0
INVARIANTS CancelMailed
SYMMETRY RecoverySymmetry
CHECK_DEADLOCK FALSE
