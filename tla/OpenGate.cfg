\* Two opens, one noticer, each time as short as it may be.
SPECIFICATION Spec
CONSTANTS
  Opens = {o1, o2}
  Noticers = {n1}
  None = None
  MaxTries = 1
  Retry = 1
  Timeout = 0
  Margin = 0
  KeepIds = 1
INVARIANTS TypeOK ListedNoticedBeforeOpen
SYMMETRY OpenSymmetry
CHECK_DEADLOCK FALSE
