CONSTANTS
  Caller = {c1}
  Session = {s1, s2}
  NoCaller = NoCaller
  NoSession = NoSession
  StatusRead = StatusRead
  Elsewhere = Elsewhere
  MaxBytes = 2
SPECIFICATION FairSpec
INVARIANTS
  FailedStartNeverPublishes
PROPERTIES
  CaptureEnds
  CallsReturn
