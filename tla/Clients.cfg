SPECIFICATION Spec
CONSTANTS
  Parts = {"canvas", "proposals", "provider", "chat", "account", "comments"}
  ann = ann
  bob = bob
  c1 = c1
  c2 = c2
  User = {ann, bob}
  Content = {c1, c2}
  NoBrief = NoBrief
  MaxRounds = 2
  Account = {ann, bob}
  FirstAdmin = ann
  Sid <- MCSid
  LastPassword = 2
  GlobalLimit = 1
  Retained = 2
  MaxTurns = 2
  CanvasBrief <- MCBrief
  Reviewer = {ann}
  CanvasWriter = {ann}
  CanvasAdmin = {ann}
  FirstCanvas <- MCFirst
  Response <- MCResponse
  NoRequest = NoRequest
  Capability = {"k"}
  MaxProposals = 4
  MaxContinuations <- MCContinuations
  ScoutContinuations = 2
  CheckIterations = 3
  Myself = ann
  Another = bob
  Moderator = {bob}
  Earlier <- MCEarlier
  MaxRows = 3
  MaxActs = 3
  CommentUpsets = 2
INVARIANTS
  NothingIsLost
  VersionsAreAccounted
  CallsAreBounded
  AnAdminRemains
  SessionsAreCurrent
  DiscussionIsHonest
PROPERTIES
  ChangesAreKept
  ProposedFromCurrent
  TurnsEnd
CHECK_DEADLOCK FALSE
