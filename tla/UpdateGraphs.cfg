SPECIFICATION GraphSpec
CONSTANTS
  Atom = {"t", "u", "s"}
  Dir = {"src"}
  Src = "src"
  Newest = 12
  Nil = Nil
  Projects <- GraphProjects
  MaxInvocations = 2
  MaxEdits = 0
INVARIANTS
  CircularOnCycle
  AtMostOnce
  FreshOnSuccess
PROPERTIES
  OrderRespected
  Terminates
  ImplementsBuildOrder
