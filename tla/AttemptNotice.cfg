\* One attempt and two invocations that notice it at once, two tries; an
\* invocation lives one tick and a claim may be taken over after two.
\* No symmetry, which liveness checking does not allow.
SPECIFICATION FairSpec
CONSTANTS
  Opens = {o1}
  Noticers = {n1, n2}
  None = None
  MaxTries = 2
  Retry = 2
  Timeout = 1
  Margin = 1
  KeepIds = 1
INVARIANTS OneNoticer MailedOnce
PROPERTIES ClaimedWorkedRecorded EveryAttemptNoticed
CHECK_DEADLOCK FALSE
