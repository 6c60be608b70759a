\* Two workers whose fetches fail, holding results of different age, and a restart,
\* while other clients change the flags of a message.
SPECIFICATION FairSpec
CONSTANTS
  m1 = m1
  m2 = m2
  m3 = m3
  m4 = m4
  w1 = w1
  w2 = w2
  Folders = {"inbox"}
  Messages = {m1}
  FlagStates = {"unread", "read"}
  MaxUid = 1
  MaxValidity = 1
  MaxDay = 1
  None = None
  Workers = {w1, w2}
  Http = "http"
  SyncFolders <- Inbox
  ExcludeFolders = {}
  RequestFolders <- RequestNone
  DefaultDays = 1
  RequestDays = {0}
  MaxSyncDays = 2
  Unparseable = {}
  Bodyless = {}
  Unstorable = {}
  StoreFails = FALSE
  MaxCrashes = 1
PROPERTIES
  FlagsConverge
