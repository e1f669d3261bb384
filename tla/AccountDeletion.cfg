\* Two deletion requests, one failed mail, one invocation that stops.
SPECIFICATION FairSpec
CONSTANTS
  MaxDeletions = 2
  MaxFailures = 1
  LinkWaits = TRUE
  Suspends = TRUE
INVARIANTS TypeOK ActiveCanSignIn
PROPERTIES DeletedAsAnnounced SealedVaultKept NextHolderKept DeletedInTheEnd
CHECK_DEADLOCK FALSE
