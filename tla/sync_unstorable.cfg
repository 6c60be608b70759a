\* One of two messages has a text that cannot be stored.
SPECIFICATION FairSpec
CONSTANTS
  m1 = m1
  m2 = m2
  m3 = m3
  m4 = m4
  w1 = w1
  w2 = w2
  Folders = {"inbox"}
  Messages = {m1, m2}
  FlagStates = {"unread"}
  MaxUid = 2
  MaxValidity = 1
  MaxDay = 1
  None = None
  Workers = {w1}
  Http = "http"
  SyncFolders <- Inbox
  ExcludeFolders = {}
  RequestFolders <- RequestNone
  DefaultDays = 1
  RequestDays = {0}
  MaxSyncDays = 2
  Unparseable = {}
  Bodyless = {}
  Unstorable = {m1}
  StoreFails = FALSE
  MaxCrashes = 0
PROPERTIES
  EventuallyIndexed
