SPECIFICATION Spec
CONSTANTS
  Patterns <- AllPatterns
  Listings <- AllListings
  Beyond <- Tails
CHECK_DEADLOCK FALSE
INVARIANT
  ExactUnlessOver
PROPERTY
  Ends
