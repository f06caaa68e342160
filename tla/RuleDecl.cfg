SPECIFICATION Spec
CONSTANTS
  Name = {"debug", "release", "x", "y", "m", "n"}
  Action = {"act"}
  DefaultTestAction = DefaultTestAction
  Nil = Nil
  Declarations <- AllDeclarations
  Requests <- AllRequests
  MaxDeclarations = 3
INVARIANTS
  ListsAccount
  SuiteOwnsTests
  EndlessOnRepeat
  ExpandedWhereBuilt
PROPERTY
  RulesStay
