\* One recovery, two noticers at once, one try; an invocation lives
\* one tick and a claim may be taken over after two.
\* No symmetry, which liveness checking does not allow.
SPECIFICATION FairSpec
CONSTANTS
  Recoveries = {r1}
  Noticers = {n1, n2}
  None = None
  MaxTries = 1
  Retry = 2
  Timeout = 1
INVARIANTS OneNoticer OneCancel
PROPERTIES EveryMarkFollowed
CHECK_DEADLOCK FALSE
