SPECIFICATION Spec
CONSTANTS
  Name = {"a", "d", "l", "s"}
  Content = {"data"}
  MaxLinks = 1
  MaxPath = 4
  BuildStart = 1
  MaxTime = 2
  MaxTroubles = 2
  MaxQuestions = 2
  Contested <- Shared
  Starts <- Builds
  Questions <- Asked
CHECK_DEADLOCK FALSE
INVARIANTS
  KnowsStable
  FailureHasCause
  NothingAhead
  VirtualIsNewest
  GlobIsExact
PROPERTY
  IsAnswered
