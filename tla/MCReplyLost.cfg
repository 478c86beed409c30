SPECIFICATION Spec
CONSTANTS
  MaxSaid = 2
  MaxRounds = 2
  MaxFailures = 2
  ErrCap = 4
  Notes = FALSE
INVARIANTS RepliesReachClient
CHECK_DEADLOCK FALSE
