SPECIFICATION Spec
CONSTANTS
  p1 = p1  p2 = p2  b1 = b1  b2 = b2  usbA = usbA  plain = plain
  Ports <- MCPorts
  Bauds <- MCBauds
  Idents <- MCIdents
  NonUsb = plain
  Absent = Absent
  NoConfig = NoConfig
  NoPort = NoPort
  Layouts <- MCLayouts
  Scripting = FALSE
  Listening = FALSE
  MaxConn = 2
  MaxGen = 2
  MaxTries = 2
  DataCap = 2
  ErrCap = 0
INVARIANTS
  TypeOK ClosedChannelsSilent OneValidTask OffStaysOff
  StreamInOrder EndsAnnouncedOnce
PROPERTIES
  ReconnectKeepsSettings LinkSafe
SYMMETRY Symmetry
CHECK_DEADLOCK FALSE
