\* Two recoveries, one requested in place of the other, one noticer and two tries;
\* each time as short as it may be.
SPECIFICATION Spec
CONSTANTS
  Recoveries = {r1, r2}
  Noticers = {n1}
  None = None
  MaxTries = 2
  Retry = 1
  Timeout = 0
INVARIANTS TypeOK OnlyNamed MailedOnce CurrentCancelMailed
SYMMETRY RecoverySymmetry
CHECK_DEADLOCK FALSE
