CONSTANTS
  Timeout = 3
  MaxPackets = 3
  MaxOutput = 5
  PipeSize = 2
  MaxWidth = 2
  MaxNodes = 5
  MaxDepth = 2
  Shape <- MCShape
  Nesting <- MCNesting
SPECIFICATION Spec
INVARIANTS
  TypeOK
  NoSurvivor
  AnswerIsComplete
  JsonVerdict
PROPERTIES
  WithinDeadline
CHECK_DEADLOCK FALSE
