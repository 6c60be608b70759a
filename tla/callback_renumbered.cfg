\* The server renumbers the mailbox after the batch was sent.
SPECIFICATION Spec
CONSTANTS
  i1 = i1
  i2 = i2
  Ids = {i1, i2}
  Bodies = {"x", "y"}
  None = None
  InArchive = {}
  MaxValidity = 2
  BatchSize = 2
  Ttl = 1
  Execute = TRUE
  AutonomousActions = {"add_tag", "archive"}
  AllowArchive = TRUE
  AllowLabel = TRUE
  ActionLists <- TagFirst
  Searches = {{i1, i2}}
  MaxBatches = 1
  MaxTime = 1
  MaxFaults = 1
INVARIANTS
  ActsOnWhatWasAsked
