SPECIFICATION Spec
CONSTANTS
  Atom = {"debug", "release", "prog", "obj", "hdr", "c"}
  Dir = {"src", "debug", "release"}
  Src = "src"
  Newest = 20
  Nil = Nil
  Projects <- SessionProjects
  MaxInvocations = 2
  MaxEdits = 1
INVARIANTS
  FreshOnSuccess
  QuietRebuild
