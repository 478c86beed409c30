SPECIFICATION Spec
CONSTANTS
  p1 = p1  p2 = p2  b1 = b1  b2 = b2  usbA = usbA  plain = plain
  Ports <- MCPort
  Bauds <- MCBaud
  Idents <- MCIdents
  NonUsb = plain
  Absent = Absent
  NoConfig = NoConfig
  NoPort = NoPort
  Layouts <- MCPlugs
  Scripting = FALSE
  Listening = TRUE
  MaxConn = 2
  MaxGen = 1
  MaxTries = 1
  DataCap = 0
  ErrCap = 0
INVARIANTS
  PageFollowsLink
CHECK_DEADLOCK FALSE
