SPECIFICATION Spec
CONSTANTS
  Parts = {"boot", "bell", "schedule", "hermes", "desk", "tray"}
  ann = ann
  bob = bob
  Booter = {p1, p2}
  Migration = {1, 2, 3, 4}
  Unguarded = {1, 3}
  BootFaults = 2
  Note = {n1, n2}
  BellFaults = 1
  Account = {ann, bob}
  Admin = {ann, bob}
  NumBriefs = 2
  Owner <- MCOwner
  Interval <- MCInterval
  InitCadence = "daily"
  DayLength = 3
  MonitorHour = 1
  Slack = 1
  ActiveGlobal = 1
  ActivePerUser = 1
  Horizon = 4
  MaxRequests = 1
  MaxFaults = 1
  j1 = j1
  j2 = j2
  HermesJob = {j1, j2}
  Runner <- MCRunner
  RuntimeCount <- MCRuntime
  PageSize = 3
  StreamTicks = 2
  LastMs = 0
  HermesFaults = 1
  Post = {"a", "r", "b"}
  ThreadOf <- MCThread
  Mentioning = {"a"}
  HiddenBy <- MCHidden
  NoPost = "-"
  MaxClicks = 2
  FeedFaults = 1
  TrayJob = {j1, j2}
  TrayFaults = 1
  MaxToggles = 2
INVARIANTS
  ServingIsMigrated
  CompletedDayCoversAll
  OutcomeIsLogged
PROPERTIES
  EveryoneBoots
  BadgeCatchesUp
  OwedIsServed
  DeepLinkEnds
  DrawerCatchesUp
  TrayCatchesUp
CHECK_DEADLOCK FALSE
