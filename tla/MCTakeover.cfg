SPECIFICATION Spec
CONSTANTS
  s1 = s1  s2 = s2  fg = fg
  Procs <- MCProcs
  Stdio <- MCStdio
  Nobody = Nobody
  Stranger = Stranger
  NoInfo = NoInfo
  Nil = Nil
  Base = 1
  MaxPort = 2
  Fallback = 1
  MaxTakeovers = 1
  MaxWaits = 1
  MaxPolls = 1
  MaxCrashes = 1
  Uninstalling = FALSE
  MaxFiles = 1
INVARIANTS
  TypeOK OneMaster MasterFound
SYMMETRY Symmetry
CHECK_DEADLOCK FALSE
