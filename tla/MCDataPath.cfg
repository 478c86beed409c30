SPECIFICATION Spec
CONSTANTS
  p1 = p1  p2 = p2  r1 = r1  r2 = r2
  Pages <- MCPages
  Readers <- MCReaders
  Kinds = {}
  Looks = {FALSE}
  Sizes = {1}
  MaxBytes = 3
  MaxSaid = 0
  Greetings = 1
  SerialCap = 1
  TextCap = 1
  CmdCap = 1
  PageCap = 1
  BufCap = 2
  MaxRead = 1
INVARIANTS
  TypeOK PagesInStep ReadOnce
PROPERTIES
  NewestKept
CONSTRAINT OneSide
SYMMETRY Symmetry
CHECK_DEADLOCK FALSE
