CONSTANTS
  Slack = 5
  MaxSplit = 2
  InitialMap = 3
  MaxEvents = 4
  MaxCalls = 2
SPECIFICATION Spec
CHECK_DEADLOCK FALSE
INVARIANTS
  TypeOK
  SlackSuffices
  ReturnedMapIsCurrent
