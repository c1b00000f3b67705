SPECIFICATION SafeSpec
CONSTANTS
  ann = ann
  bob = bob
  c1 = c1
  User = {ann, bob}
  Brief = {acme}
  Content = {c1, c2}
  NoContent = NoContent
  NoBrief = NoBrief
  NoJob = NoJob
  MaxJobs = 2
  ActiveGlobal = 2
  ActivePerUser = 2
  MaxCrashes = 1
  InitRole <- MCRole
  InitOwner <- MCOwner
  InitContent <- MCContent
  ProviderModes <- AlwaysOn
  Handlers <- WorkHandlers
INVARIANTS
  SavedOnceWhenDone
PROPERTIES
  CandidatesAreSafe
