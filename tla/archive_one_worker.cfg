\* Archive requests beside the only worker, without POST /sync, while the index works.
SPECIFICATION ArchiveSpec
CONSTANTS
  m1 = m1
  m2 = m2
  w1 = w1
  Folders = {"inbox", "archive"}
  Messages = {m1, m2}
  FlagStates = {"unread"}
  MaxUid = 2
  MaxValidity = 1
  MaxDay = 1
  None = None
  Workers = {w1}
  Http = "http"
  SyncFolders <- InboxArchive
  ExcludeFolders = {"archive"}
  RequestFolders <- RequestNone
  DefaultDays = 1
  RequestDays = {0}
  MaxSyncDays = 2
  Unparseable = {}
  Bodyless = {}
  Unstorable = {}
  StoreFails = FALSE
  MaxCrashes = 0
  ArchiveFolder = "archive"
INVARIANTS
  ArchiveTypeOK
  NoMailSkipped
  NoGhost
PROPERTIES
  RightMessageMoved
