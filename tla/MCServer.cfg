CONSTANTS
  Caller = {c1}
  Client = c1
  Session = {s1}
  NoCaller = NoCaller
  NoSession = NoSession
  StatusRead = StatusRead
  Elsewhere = Elsewhere
  MaxBytes = 2
SPECIFICATION ServerSpec
INVARIANTS
  ServerTypeOK
  ReadyMeansIdle
  TerminalAnswerIsFinal
PROPERTIES
  CleanupAdviceFrees
