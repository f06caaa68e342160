SPECIFICATION LuacSpec
CONSTANTS
  MaxTime = 8
  MaxInvocations = 3
  MaxEdits = 2
INVARIANT
  RunsCurrent
