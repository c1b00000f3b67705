SPECIFICATION SafeSpec
CONSTANTS
  ann = ann
  bob = bob
  c1 = c1
  User = {ann, bob}
  Brief = {acme}
  Content = {c1}
  NoContent = NoContent
  NoBrief = NoBrief
  NoJob = NoJob
  MaxJobs = 3
  ActiveGlobal = 2
  ActivePerUser = 1
  MaxCrashes = 1
  InitRole <- MCRole
  InitOwner <- MCOwner
  InitContent <- MCContent
  ProviderModes <- OnOrOff
  Handlers <- QueueHandlers
INVARIANTS
  QueueLimits
  OneActivePerTarget
PROPERTIES
  ImplementsLifecycle
