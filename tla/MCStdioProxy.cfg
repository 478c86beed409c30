SPECIFICATION FairSpec
CONSTANTS
  MaxSaid = 2
  MaxRounds = 3
  MaxFailures = 2
  ErrCap = 4
  Notes = TRUE
INVARIANTS
  TypeOK NothingDropped InOrder TakeoverSound
PROPERTIES
  RoundsEnd RequestsArrive
CHECK_DEADLOCK FALSE
