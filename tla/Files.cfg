SPECIFICATION CommandsSpec
CONSTANTS
  Name = {"a", "b", "d", "s"}
  Content = {"empty", "old", "new"}
  Empty = "empty"
  MaxLinks = 2
  MaxPath = 5
  MaxFaults = 1
  MaxOthers = 1
  Now = 1000000000
  Zone <- Eastern
  Requests <- AllRequests
CHECK_DEADLOCK FALSE
INVARIANTS
  CompleteUnlessMissed
  NothingHalf
  PriorKept
  NotIntoItself
  OnlyNamed
  SuccessMeansDone
  RmHasCause
  DateKept
PROPERTY
  Terminates
