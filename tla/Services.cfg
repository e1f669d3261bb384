\* Each service in the instance MCServices gives it.
SPECIFICATION Spec
CONSTANTS
  One = {p0}
  Two = {p1, p2}
  Pair = {k1, k2}
  page = page
  o1 = o1
  o2 = o2
  v1 = v1
  v2 = v2
  v3 = v3
  r1 = r1
  r2 = r2
  k0 = k0
  SetupCodes = 2
  SetupVaults = 2
  TypedCeiling = 1
  SlotReleases = {1, 2}
  MaxRetries = 2
  AddressRequests = 2
  DeletionCodes = 2
  MaxAttempts = 2
  PinFailures = 2
  PinDaily = 0
  PinTries = 2
  PinRounds = 1
  PinWindows = {1, 2, 3}
  NoticeDays = {1, 2}
  NoticeStart = 3
  EndedGrace = 1
  UrgentDays = 1
  MarkerDays = 2
  NoticeEnd = 3
  HeaderWindow = 1
  HeaderTtl = 2
  HeaderStamp = 2
  StartOvers = 2
  SweepOwners = {o1, o2}
  SweepVaults = {v1, v2, v3}
  SweepOwnerOf <- OwnerOf
  SweepUnsealed = {v2}
  SweepLimit = 5
  StackCount = 2
  TemplateVersions = 2
  RunStops = 1
  ListSignUps = 2
  ListMarkers = 1
  TermVersions = {1, 2}
  TermPublications = 3
  TabLoads = 4
  TabCalls = 3
  TabPresses = 2
  TabFailures = 3
  NoticeFails = 2
  AuditLastDay = 4
  AuditFaults = 1
  SwitchTtl = 2
  SwitchTime = 3
  SwitchFails = 1
  SwitchWrites = 2
  NameRequests = 2
  NameFaults = 2
  ScaleReleases = {1, 2}
  ScaleMinimum <- NoMinimum
  ScaleCap = 1
  ScaleFresh = 1
  ScaleRefresh = 1
  ScaleIdle = 2
  ScaleCrashes = 1
  LinkLocators = {k1, k2}
  LinkSpan = 1
  LinkCap = 2
  LinkRecoveries = 2
  LinkTime = 2
  LogLast = 2
  LogSerials = 4
  LogEdits = 1
  LogStops = 2
  SessionAccounts = {o1, o2}
  SessionGuarded = {o2}
  SessionTokens = 2
  SessionTime = 1
  SessionFaults = 1
  SyncReleases = {r1, r2}
  SyncDocs <- Docs
  SyncPinned = {"own"}
  SyncRuns = 4
  MoveReleases = 3
  MoveRescue = 1
  MoveNotice = 1
  MoveWindow = 1
  MoveSerials = 2
  MoveTime = 3
  MoveEdits = 4
  MaxDay = 3
  Trial = 1
  Extra = 1
  KeyTarget = r1
  KeyAdmitted = {r2}
  KeyUnlisted = {r3}
  Window = 2
  Windows = {0, 1, 2}
  KeyDays = 4
  MaxDeploys = 2
  ReleaseRounds = 2
  ReleaseFaults = 1
  SnapChanges = 2
  SnapUnlocks = 2
  SnapLocks = 1
  SnapLosses = 1
  AppDelay = 1
  AppSpan = 1
  AppGrace = 1
  AppKeep = 3
  AppEnded = 1
  AppTime = 5
  AppRecoveries = 3
  LockInstances = {v1, v2}
  LockOld = {v2}
  LockRequests = 3
  SiteRequests = 1
  SiteFaults = 1
  AskCodes = 2
  AskTimers = {1, 2}
  PageKeys = 1
  PageOthers = 1
  PageFaults = 1
  PageTime = 1
  PressedCalls = 2
  MemberMishaps = 1
SYMMETRY Symmetry
INVARIANTS TypeOK GuessesBounded UsedOnce OneOfEach AnswerableOnce OnRecord NothingLeftBehind
  LimitsKept ListedByConsent StandingKept PagesTrue ReleasesMovable SealingKeySafe
PROPERTIES TimeGiven NothingTakenBack
CHECK_DEADLOCK FALSE
