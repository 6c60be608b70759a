\* One worker over two folders: the fetch of the second one fails.
SPECIFICATION Spec
CONSTANTS
  m1 = m1
  m2 = m2
  m3 = m3
  m4 = m4
  w1 = w1
  w2 = w2
  Folders = {"inbox", "work"}
  Messages = {m1, m2}
  FlagStates = {"unread"}
  MaxUid = 2
  MaxValidity = 1
  MaxDay = 1
  None = None
  Workers = {w1}
  Http = "http"
  SyncFolders <- InboxWork
  ExcludeFolders = {}
  RequestFolders <- RequestNone
  DefaultDays = 1
  RequestDays = {0}
  MaxSyncDays = 2
  Unparseable = {}
  Bodyless = {}
  Unstorable = {}
  StoreFails = FALSE
  MaxCrashes = 0
INVARIANTS
  InsertedAreClassified
