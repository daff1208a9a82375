SPECIFICATION FairEngines
CONSTANTS
  BatchLength = 3
  MaxAttempts = 2
  MaxStagings = 2
  Size = 2
  MaxOpens = 3
  MaxDownloads = 3
  root = root
  folder = folder
  s1 = s1
  s2 = s2
  s3 = s3
  Root = root
  Folder = {folder}
  FileId = {s1, s2, s3}
  Shares <- EnginesShares
  PageSize = 2
  MaxPages = 3
  MaxAsks = 2
  MaxAuthRetries = 1
  MaxChanges = 1
  MaxScans = 2
  MaxLines = 1
  oneTask = oneTask
  m1 = m1
  m2 = m2
  MTask = {oneTask}
  MFile = {m1, m2}
  MOwner <- EnginesOwner
  MaxUpgrades = 2
INVARIANTS
  EnginesTypeOK
  NothingForgotten
  BlameIsReal
  ReadyBytes
  HonestPrefix
  PermanentNeedsALie
  OnlyGapsHide
  OneSchema
  NarrowRecovery
PROPERTIES
  BudgetShrinks
  TransferEnds
  DownloadEnds
  ScanEnds
\* An engine that has ended has nothing left to do.
CHECK_DEADLOCK FALSE
