SPECIFICATION FairSpec
CONSTANTS
  Letters <- MCLetters
  Chunks <- MCChunks
  Scripts <- MCScripts
  MinTimeout = 1
  MaxTimeout = 2
  WindowMax = 2
  ScheduleMax = 2
  AtMax = 2
  MaxStart = 1
  MaxChunks = 2
  MaxGen = 1
INVARIANTS
  TypeOK HitsRight TruthfulEnd NoLostWakeup
PROPERTIES
  ScriptEnds
CHECK_DEADLOCK FALSE
