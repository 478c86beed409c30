SPECIFICATION Spec
CONSTANTS
  p1 = p1  p2 = p2  r1 = r1  r2 = r2
  Pages <- MCPage
  Readers = {}
  Kinds = {"text", "brace"}
  Looks = {TRUE, FALSE}
  Sizes = {1}
  MaxBytes = 2
  MaxSaid = 1
  Greetings = 1
  SerialCap = 1
  TextCap = 1
  CmdCap = 1
  PageCap = 1
  BufCap = 2
  MaxRead = 1
INVARIANTS
  TextStaysText
CHECK_DEADLOCK FALSE
