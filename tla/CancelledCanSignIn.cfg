\* One deletion request, whose confirmation's link may be used before the request was answered.
SPECIFICATION Spec
CONSTANTS
  MaxDeletions = 1
  MaxFailures = 1
  LinkWaits = FALSE
  Suspends = FALSE
INVARIANT CancelledCanSignIn
CHECK_DEADLOCK FALSE
