SPECIFICATION FairSpec
CONSTANTS
  s1 = s1  s2 = s2  fg = fg
  Procs <- MCProcs
  Stdio <- MCStdio
  Nobody = Nobody
  Stranger = Stranger
  NoInfo = NoInfo
  Nil = Nil
  Base = 1
  MaxPort = 1
  Fallback = 1
  MaxTakeovers = 1
  MaxWaits = 0
  MaxPolls = 1
  MaxCrashes = 1
  Uninstalling = TRUE
  MaxFiles = 2
PROPERTIES
  Recovers
CHECK_DEADLOCK FALSE
