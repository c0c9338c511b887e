CONSTANTS
  Record <- MCRecord
  MaxRecords = 3
  MaxPacketBytes = 3
  MaxConversionBytes = 22
  MaxPcapBytes = 78
  ClockHz = 60
  Second = 1000
SPECIFICATION Spec
INVARIANTS
  TypeOK
  RoundTrip
  Verdict
  OutputBound
CHECK_DEADLOCK FALSE
