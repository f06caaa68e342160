SPECIFICATION Spec
CONSTANTS
  Name = {"a", "b", "d", "s"}
  Content = {"empty", "old", "new"}
  MaxLinks = 2
  MaxPath = 5
  MaxFaults = 0
  Requests <- DanglingLink
CHECK_DEADLOCK FALSE
INVARIANT
  CopyComplete
