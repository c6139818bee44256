SPECIFICATION OfflineSpec
CONSTANTS
  n1 = n1
  n2 = n2
  Decisions = {n1, n2}
  Operation <- MCOperation
  Runs = {1, 2}
  OwnDid = own
  OtherDid = other
  None = none
  HighLimit = 0
  TokenTtl = 0
  MaxTime = 1
  MaxEvents = 3
  MaxWork = 3
INVARIANTS
  RecordedOnce
  SettledAsRecorded
  AllowedWithinLimit
CHECK_DEADLOCK FALSE
PROPERTIES
  QueueAnswered
