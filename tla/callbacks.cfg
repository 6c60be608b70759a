\* Hermes answers a batch of two in any portions, again and again, in time and late; calls
\* of the server fail; and once, anywhere, a database call or an audit line raises, the
\* process dies, or the server renumbers the mailbox.
SPECIFICATION Spec
CONSTANTS
  i1 = i1
  i2 = i2
  Ids = {i1, i2}
  Bodies = {"x"}
  None = None
  InArchive = {}
  MaxValidity = 2
  BatchSize = 2
  Ttl = 0
  Execute = TRUE
  AutonomousActions = {"add_tag", "archive"}
  AllowArchive = TRUE
  AllowLabel = TRUE
  ActionLists <- AllThree
  Searches = {{i1, i2}}
  MaxBatches = 1
  MaxTime = 1
  MaxFaults = 1
INVARIANTS
  TypeOK
  ActedOnce
  EffectsRecorded
  NoArchiveAfterFailedTag
  AcceptedAreTried
  ExecutedIsDone
  ActsOnlyAsDecided
SYMMETRY SameIds
PROPERTIES
  LedgerSpec
