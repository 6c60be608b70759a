\* A worker and POST /sync requests for the default window; failures, a restart;
\* a message that cannot be parsed.
SPECIFICATION Spec
CONSTANTS
  m1 = m1
  m2 = m2
  m3 = m3
  m4 = m4
  w1 = w1
  w2 = w2
  Folders = {"inbox"}
  Messages = {m1, m2}
  FlagStates = {"unread"}
  MaxUid = 2
  MaxValidity = 1
  MaxDay = 2
  None = None
  Workers = {w1}
  Http = "http"
  SyncFolders <- Inbox
  ExcludeFolders = {}
  RequestFolders <- RequestInbox
  DefaultDays = 1
  RequestDays = {0}
  MaxSyncDays = 2
  Unparseable = {m2}
  Bodyless = {}
  Unstorable = {}
  StoreFails = TRUE
  MaxCrashes = 1
INVARIANTS
  TypeOK
  NoMailSkipped
  AtMostOneHandover
