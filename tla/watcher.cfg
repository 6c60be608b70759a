\* Two watchers, or the poll loop, or none; an interval longer than an IDLE may last, pauses
\* that reach their maximum.
SPECIFICATION Spec
CONSTANTS
  f1 = f1
  f2 = f2
  IdleFolders = {f1, f2}
  Poller = poller
  Intervals = {0, 2, 4}
  MinRefresh = 1
  MaxRefresh = 3
  InitialBackoff = 1
  MaxBackoff = 3
  MaxFailures = 3
  MaxAge = 5
CHECK_DEADLOCK FALSE
INVARIANTS
  TypeOK
  FetchedInTime
  PauseFollowsFailures
  OneSession
  StopIsHeeded
PROPERTIES
  KeepsFiring
  MailIsFetched
  Stops
