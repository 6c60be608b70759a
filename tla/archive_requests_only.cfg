\* No background worker (interval_minutes = 0): archive and sync requests.
SPECIFICATION ArchiveSpec
CONSTANTS
  m1 = m1
  m2 = m2
  w1 = w1
  Folders = {"inbox", "archive"}
  Messages = {m1, m2}
  FlagStates = {"unread"}
  MaxUid = 2
  MaxValidity = 1
  MaxDay = 1
  None = None
  Workers = {}
  Http = "http"
  SyncFolders <- Inbox
  ExcludeFolders = {}
  RequestFolders <- RequestInbox
  DefaultDays = 1
  RequestDays = {0}
  MaxSyncDays = 2
  Unparseable = {}
  Bodyless = {}
  Unstorable = {}
  StoreFails = TRUE
  MaxCrashes = 1
  ArchiveFolder = "archive"
INVARIANTS
  NoGhost
SYMMETRY SameMessages
