\* As OpenGate.cfg: what the open route says of every earlier attempt.
SPECIFICATION Spec
CONSTANTS
  Opens = {o1, o2}
  Noticers = {n1}
  None = None
  MaxTries = 1
  Retry = 1
  Timeout = 0
  Margin = 0
  KeepIds = 1
INVARIANTS NoticedBeforeNextOpen
SYMMETRY OpenSymmetry
CHECK_DEADLOCK FALSE
