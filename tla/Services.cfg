SPECIFICATION Spec
CONSTANTS
  Parts = {"rows", "files", "notices", "journal", "share", "records",
           "validation", "correction", "backfill", "refresh", "radar"}
  ann = ann
  bob = bob
  all = all
  d1 = d1
  d2 = d2
  l1 = l1
  RowId = {"a", "u", "b", "c", "s", "g", "k", "l", "m", "j", "j2", "v", "r", "h", "i", "w", "p", "q", "o", "o2", "n", "e", "f", "t", "x", "y", "z", "z2", "d", "d2"}
  TableOf <- MCTableOf
  RowGroup <- MCRowGroup
  Keeper = "a"
  Doc = {e1, e2}
  Hash = {"h"}
  HashOf <- MCHashOf
  StoreFaults = 1
  Reader = {ann, bob}
  BriefOwner = ann
  CommentId = {k1, k2}
  InboxLimit = 2
  Edits = 1
  NoticeFaults = 1
  User = {ann, bob}
  Writer = {bob}
  Manager = {ann}
  Guest = {bob}
  Key = {all}
  NoKey = NoKey
  MaxEntries = 3
  MaxChanges = 1
  Link = {l1}
  Dialog = {d1,d2}
  Uses <- MCUses
  MailLimit = 1
  ShareFaults = 1
  TaskId = {t1, t2, t3}
  NoTask = NoTask
  MaxDepth = 3
  MaxTasks = 3
  Candidate = {c1}
  NoCandidate = NoCandidate
  MaxDecisions = 2
  CommandLines <- MCLines
  Accounts = 2
  FitCap = 5
  HighCap = 9
  Est <- MCEst
  Bill <- MCBill
  LostBill = {2}
  Overrun = 1
  Proposals <- MCProposals
  Syntheses <- MCSyntheses
  Graphs <- MCGraphs
  Corpora <- MCCorpora
  PrefixWords <- MCPrefix
  AttributionGap = 5
  StoredBrief <- MCStored
  Research <- MCResearch
  Finding <- MCFinding
  MaxCards = 3
  MaxBulky = 1
  p1 = p1
  p2 = p2
  RadarEntry = {"e1"}
  RadarSource = {"s1"}
  RadarCandidate = {"c1"}
  RadarTask = {"t1"}
  RadarDecision = {"n1", "n2"}
  Panel = {p1, p2}
  ReaderOf <- MCReaderOf
  MaxRecordChanges = 2
INVARIANTS
  ServicesTypeOK
  RowsHaveBytes
  CopiesAreWhole
  CommentsAreTold
  DeletedIsNotServed
  InternalHasNoLiveLink
  TaskForest
  CascadeIsComplete
  PassIsEarned
  PassCoversCorpus
  CardsRebuildTheResult
  MonitorBringsNews
PROPERTIES
  NothingDangles
  NothingIsPassedOver
CHECK_DEADLOCK FALSE
