SPECIFICATION Spec
CONSTANTS
  Test = {"t1", "t2"}
  Name = {"a", "#"}
  Dot = "."
  Content = {"old", "new"}
  None = None
  Torn = Torn
  Home = Home
  Away = Away
  Suites <- AllSuites
  MaxInvocations = 2
  MaxEdits = 1
INVARIANTS
  MarkerEarned
  SuiteTested
  HomeAgain
PROPERTY
  PrintOnly
