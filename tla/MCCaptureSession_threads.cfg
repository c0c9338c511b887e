CONSTANTS
  Caller = {c1, c2}
  Session = {s1, s2}
  NoCaller = NoCaller
  NoSession = NoSession
  StatusRead = StatusRead
  Elsewhere = Elsewhere
  MaxBytes = 2
SPECIFICATION Spec
INVARIANTS
  TypeOK
  OwnershipAccounted
  QuietWhenFree
  SoleUsbUser
  PublishedIsClean
  StopReturnsSaved
PROPERTIES
  OutcomeStaysVisible
  KeepsContract
SYMMETRY Symmetry
