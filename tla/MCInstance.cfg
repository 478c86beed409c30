SPECIFICATION AllSpec
CONSTANTS
  m1 = m1  t1 = t1  pg = pg  tk = tk  bt = bt  p1 = p1  p2 = p2  b1 = b1
  Menus <- MCMenus
  Tools <- MCTools
  Page = pg
  Task = tk
  Boot = bt
  Nobody = Nobody
  Ports <- MCPorts
  NoPort = NoPort
  Bauds <- MCBauds
  DefaultBaud = b1
  Size <- MCSize
  Empty = Empty
  Torn = Torn
  Nothing = Nothing
  FirstFiles <- MCFirst
  MaxCalls = 2
  MaxRestarts = 1
  Starters = {"p", "q"}
  MaxVersion = 3
  MaxStarts = 3
  Upgraders = {"u", "v"}
  Docs = {"README"}
  MaxUninstalls = 2
  MaxEdits = 2
  MaxRuns = 3
  Sizes = {1, 2}
  MaxContent = 2
  MaxAdds = 4
  MaxFlushes = 2
INVARIANTS
  TypesOK SettingsAgree ConnectTruthful NobodyStuck StopsInTime UserFilesKept
  ProgramRecoverable LogsComplete
CHECK_DEADLOCK FALSE
