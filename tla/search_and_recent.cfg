\* Mails come, change, go and are read and unread; a limit that some do not fit.
SPECIFICATION ReadsSpec
CONSTANTS
  Ids = {"a", "b", "c"}
  Terms = {"x", "y"}
  Signs = {"-"}
  Undated = undated
  Contents <- MailContents
  MaxRowid = 3
  Mails <- FourMails
  Today = 3
  RequestDays = {0, 1, 5}
  RequestLimits = {0, 1, 3}
  SearchDays = 2
  DefaultDays = 2
  MaxSyncDays = 3
  DefaultLimit = 2
  MaxResults = 2
  Served <- OneReader
  TokenIds = {"", "reader"}
  Tokens = {"", "t1", "t2"}
  Scopes = {"*", "messages:read", "messages:archive"}
  Empty = ""
  NoBearer = "-"
  MaxEntries = 2
INVARIANTS
  ReadsTypeOK
  SearchFindsAll
  FindsReadableText
  RecentShowsUnread
  LetInAsConfigured
