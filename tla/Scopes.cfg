SPECIFICATION Spec
CONSTANTS
  Target = {"debug", "release"}
  Build = {"debug", "release"}
  Name = {F, G}
  Word = {"-W", "-g", "-O2"}
  Outer <- TwoOuter
  Right <- Sides
  MaxAssignments = 2
  F = F
  G = G
  Nil = Nil
  Die = Die
CHECK_DEADLOCK FALSE
INVARIANTS
  SavedFound
  OwnWordsOfOneBuild
PROPERTIES
  SelfReference
