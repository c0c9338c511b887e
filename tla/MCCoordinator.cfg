CONSTANTS
  Process = {p1, p2}
  Thread = {t1, t2}
  Owner <- MCOwner
  NoOwner = NoOwner
  NoThread = NoThread
  NoFd = NoFd
SPECIFICATION FairSpec
INVARIANTS
  TypeOK
  ExclusiveUse
  UseHoldsKernelLock
  NoFdLeak
PROPERTIES
  ImplementsMutex
  CallsReturn
