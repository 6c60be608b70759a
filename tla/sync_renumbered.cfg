\* One worker whose fetches fail, a mailbox the server renumbers, mail that grows
\* old, and among the mail a message that cannot be parsed and one without a body.
SPECIFICATION FairSpec
CONSTANTS
  m1 = m1
  m2 = m2
  m3 = m3
  m4 = m4
  w1 = w1
  w2 = w2
  Folders = {"inbox"}
  Messages = {m1, m2, m3, m4}
  FlagStates = {"unread"}
  MaxUid = 2
  MaxValidity = 2
  MaxDay = 1
  None = None
  Workers = {w1}
  Http = "http"
  SyncFolders <- Inbox
  ExcludeFolders = {}
  RequestFolders <- RequestNone
  DefaultDays = 1
  RequestDays = {0}
  MaxSyncDays = 2
  Unparseable = {m3}
  Bodyless = {m4}
  Unstorable = {}
  StoreFails = FALSE
  MaxCrashes = 0
INVARIANTS
  NoMailSkipped
  InsertedAreClassified
PROPERTIES
  EventuallyIndexed
