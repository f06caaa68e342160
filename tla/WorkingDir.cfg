SPECIFICATION Spec
CONSTANTS
  Name = {"a", "d", "f", "l", "s"}
  Content = {"data"}
  MaxLinks = 4
  MaxPath = 4
  MaxChanges = 1
  Starts <- Anywhere
  Words <- Written
  Home <- HomeDirectory
  Replacements <- Swaps
CHECK_DEADLOCK FALSE
INVARIANTS
  SameDirectory
  SameFile
