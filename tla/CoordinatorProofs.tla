-------------------------- MODULE CoordinatorProofs --------------------------
(***************************************************************************)
(* Proofs about Coordinator for every set of processes, threads and owner  *)
(* strings: its type invariant, host-wide exclusive use of the hardware,   *)
(* the absence of descriptor leaks, and the refinement of HardwareMutex.   *)
(***************************************************************************)
EXTENDS Coordinator, TLAPS

\* A thread of p is between popping a descriptor and closing it.
Closing(p, t) ==
  \E r \in Thread : pc[p][r] \in {"unlocking", "closing"} /\ popped[p][r] = t

\* self._lock is held exactly by the thread inside claim() or release().
MutexInv ==
  \A p \in Process, t \in Thread : mutex[p] = t <=> pc[p][t] # "idle"

\* _owner and _file_fd are set together, and unset during a call.
FieldsInv ==
  \A p \in Process :
    /\ owner[p] = NoOwner <=> fileFd[p] = NoThread
    /\ mutex[p] # NoThread => owner[p] = NoOwner
    /\ \A t \in Thread : pc[p][t] \in {"opening", "locking"} => arg[p][t] \in Owner

\* The kernel lock is held through the stored or the popped descriptor.
KernelAt(p, t) ==
  /\ fileFd[p] = t => flock = <<p, t>>
  /\ flock = <<p, t>> => fileFd[p] = t \/ Closing(p, t)
  /\ <<p, t>> \in open <=> fileFd[p] = t \/ pc[p][t] = "locking" \/ Closing(p, t)

KernelInv == \A p \in Process, t \in Thread : KernelAt(p, t)

\* The operations in progress are those the processes' _owner name.
UsingInv ==
  \A p \in Process, o \in Owner : <<p, o>> \in using => owner[p] = o

IInv == TypeOK /\ MutexInv /\ FieldsInv /\ KernelInv /\ UsingInv

-----------------------------------------------------------------------------
(* One lemma per action: it preserves the inductive invariant.             *)

LEMMA ClaimEnterInv ==
  ASSUME NEW p \in Process, NEW t \in Thread, NEW o \in Owner, IInv, ClaimEnter(p, t, o)
  PROVE  IInv'
<1> USE OwnerAssumption, ThreadAssumption, FdAssumption DEF IInv, ClaimEnter, Goto
<1>1. TypeOK'
  BY DEF TypeOK, FieldsInv, Fd, Operation, Location
<1>2. MutexInv'
  BY DEF TypeOK, MutexInv
<1>3. FieldsInv'
  BY DEF TypeOK, MutexInv, FieldsInv
<1>4. KernelInv'
  <2> SUFFICES ASSUME NEW q \in Process, NEW s \in Thread
               PROVE  KernelAt(q, s)'
    BY DEF KernelInv
  <2>1. \A r \in Thread :
          /\ pc'[q][r] = IF q = p /\ r = t THEN "opening" ELSE pc[q][r]
          /\ popped'[q][r] = popped[q][r]
    BY DEF TypeOK
  <2>2. \A r \in Thread : KernelAt(q, r) /\ KernelAt(p, r)
    BY DEF KernelInv
  <2>3. CASE q # p
    <3>1. Closing(q, s)' <=> Closing(q, s)
      BY <2>1, <2>3 DEF Closing
    <3>2. fileFd'[q] = fileFd[q]
      BY <2>3 DEF TypeOK
    <3> QED
      BY <2>1, <2>2, <2>3, <3>1, <3>2 DEF KernelAt, TypeOK, Fd
  <2>4. CASE q = p
    BY <2>1, <2>2, <2>4 DEF KernelAt, TypeOK, MutexInv, FieldsInv, Closing, Fd
  <2>5. QED
    BY <2>3, <2>4
<1>5. UsingInv'
  BY DEF TypeOK, MutexInv, FieldsInv, UsingInv
<1>6. QED
  BY <1>1, <1>2, <1>3, <1>4, <1>5

LEMMA OpenLockFileInv ==
  ASSUME NEW p \in Process, NEW t \in Thread, IInv, OpenLockFile(p, t)
  PROVE  IInv'
<1> USE OwnerAssumption, ThreadAssumption, FdAssumption DEF IInv, OpenLockFile, Goto
<1>1. TypeOK'
  BY DEF TypeOK, FieldsInv, Fd, Operation, Location
<1>2. MutexInv'
  BY DEF TypeOK, MutexInv
<1>3. FieldsInv'
  BY DEF TypeOK, MutexInv, FieldsInv
<1>4. KernelInv'
  <2> SUFFICES ASSUME NEW q \in Process, NEW s \in Thread
               PROVE  KernelAt(q, s)'
    BY DEF KernelInv
  <2>1. \A r \in Thread :
          /\ pc'[q][r] = IF q = p /\ r = t THEN "locking" ELSE pc[q][r]
          /\ popped'[q][r] = popped[q][r]
    BY DEF TypeOK
  <2>2. \A r \in Thread : KernelAt(q, r) /\ KernelAt(p, r)
    BY DEF KernelInv
  <2>3. CASE q # p
    <3>1. Closing(q, s)' <=> Closing(q, s)
      BY <2>1, <2>3 DEF Closing
    <3>2. fileFd'[q] = fileFd[q]
      BY <2>3 DEF TypeOK
    <3> QED
      BY <2>1, <2>2, <2>3, <3>1, <3>2 DEF KernelAt, TypeOK, Fd
  <2>4. CASE q = p
    BY <2>1, <2>2, <2>4 DEF KernelAt, TypeOK, MutexInv, FieldsInv, Closing, Fd
  <2>5. QED
    BY <2>3, <2>4
<1>5. UsingInv'
  BY DEF TypeOK, MutexInv, FieldsInv, UsingInv
<1>6. QED
  BY <1>1, <1>2, <1>3, <1>4, <1>5

LEMMA OpenFailsInv ==
  ASSUME NEW p \in Process, NEW t \in Thread, IInv, OpenFails(p, t)
  PROVE  IInv'
<1> USE OwnerAssumption, ThreadAssumption, FdAssumption DEF IInv, OpenFails, Goto, Unlocked
<1>1. TypeOK'
  BY DEF TypeOK, FieldsInv, Fd, Operation, Location
<1>2. MutexInv'
  BY DEF TypeOK, MutexInv
<1>3. FieldsInv'
  BY DEF TypeOK, MutexInv, FieldsInv
<1>4. KernelInv'
  <2> SUFFICES ASSUME NEW q \in Process, NEW s \in Thread
               PROVE  KernelAt(q, s)'
    BY DEF KernelInv
  <2>1. \A r \in Thread :
          /\ pc'[q][r] = IF q = p /\ r = t THEN "idle" ELSE pc[q][r]
          /\ popped'[q][r] = popped[q][r]
    BY DEF TypeOK
  <2>2. \A r \in Thread : KernelAt(q, r) /\ KernelAt(p, r)
    BY DEF KernelInv
  <2>3. CASE q # p
    <3>1. Closing(q, s)' <=> Closing(q, s)
      BY <2>1, <2>3 DEF Closing
    <3>2. fileFd'[q] = fileFd[q]
      BY <2>3 DEF TypeOK
    <3> QED
      BY <2>1, <2>2, <2>3, <3>1, <3>2 DEF KernelAt, TypeOK, Fd
  <2>4. CASE q = p
    <3>1. \A r \in Thread : r # t => pc[p][r] = "idle"
      BY DEF TypeOK, MutexInv
    <3>2. fileFd[p] = NoThread
      BY DEF TypeOK, MutexInv, FieldsInv
    <3>3. ~Closing(q, s) /\ ~Closing(q, s)'
      BY <2>1, <2>4, <3>1 DEF Closing
    <3> QED
      BY <2>1, <2>2, <2>4, <3>2, <3>3 DEF KernelAt, TypeOK, Fd
  <2>5. QED
    BY <2>3, <2>4
<1>5. UsingInv'
  BY DEF TypeOK, MutexInv, FieldsInv, UsingInv
<1>6. QED
  BY <1>1, <1>2, <1>3, <1>4, <1>5

LEMMA FlockGrantedInv ==
  ASSUME NEW p \in Process, NEW t \in Thread, IInv, FlockGranted(p, t)
  PROVE  IInv'
<1> USE OwnerAssumption, ThreadAssumption, FdAssumption DEF IInv, FlockGranted, Goto, Unlocked
<1>1. TypeOK'
  BY DEF TypeOK, FieldsInv, Fd, Operation, Location
<1>2. MutexInv'
  BY DEF TypeOK, MutexInv
<1>3. FieldsInv'
  BY DEF TypeOK, MutexInv, FieldsInv
<1>4. KernelInv'
  <2> SUFFICES ASSUME NEW q \in Process, NEW s \in Thread
               PROVE  KernelAt(q, s)'
    BY DEF KernelInv
  <2>1. \A r \in Thread :
          /\ pc'[q][r] = IF q = p /\ r = t THEN "idle" ELSE pc[q][r]
          /\ popped'[q][r] = popped[q][r]
    BY DEF TypeOK
  <2>2. \A r \in Thread : KernelAt(q, r) /\ KernelAt(p, r)
    BY DEF KernelInv
  <2>3. CASE q # p
    <3>1. Closing(q, s)' <=> Closing(q, s)
      BY <2>1, <2>3 DEF Closing
    <3>2. fileFd'[q] = fileFd[q]
      BY <2>3 DEF TypeOK
    <3> QED
      BY <2>1, <2>2, <2>3, <3>1, <3>2 DEF KernelAt, TypeOK, Fd
  <2>4. CASE q = p
    BY <2>1, <2>2, <2>4 DEF KernelAt, TypeOK, MutexInv, FieldsInv, Closing, Fd
  <2>5. QED
    BY <2>3, <2>4
<1>5. UsingInv'
  <2>1. owner[p] = NoOwner /\ arg[p][t] \in Owner
    BY DEF TypeOK, MutexInv, FieldsInv
  <2>2. \A o \in Owner : <<p, o>> \notin using
    BY <2>1 DEF UsingInv
  <2>3. ASSUME NEW q \in Process, NEW o \in Owner, <<q, o>> \in using'
        PROVE  owner'[q] = o
    <3>1. CASE q = p
      BY <2>1, <2>2, <2>3, <3>1 DEF TypeOK
    <3>2. CASE q # p
      BY <2>3, <3>2 DEF TypeOK, UsingInv
    <3> QED
      BY <3>1, <3>2
  <2> QED
    BY <2>3 DEF UsingInv
<1>6. QED
  BY <1>1, <1>2, <1>3, <1>4, <1>5

LEMMA FlockRefusedInv ==
  ASSUME NEW p \in Process, NEW t \in Thread, IInv, FlockRefused(p, t)
  PROVE  IInv'
<1> USE OwnerAssumption, ThreadAssumption, FdAssumption DEF IInv, FlockRefused, Goto, Unlocked
<1>1. TypeOK'
  BY DEF TypeOK, FieldsInv, Fd, Operation, Location
<1>2. MutexInv'
  BY DEF TypeOK, MutexInv
<1>3. FieldsInv'
  BY DEF TypeOK, MutexInv, FieldsInv
<1>4. KernelInv'
  <2> SUFFICES ASSUME NEW q \in Process, NEW s \in Thread
               PROVE  KernelAt(q, s)'
    BY DEF KernelInv
  <2>1. \A r \in Thread :
          /\ pc'[q][r] = IF q = p /\ r = t THEN "idle" ELSE pc[q][r]
          /\ popped'[q][r] = popped[q][r]
    BY DEF TypeOK
  <2>2. \A r \in Thread : KernelAt(q, r) /\ KernelAt(p, r)
    BY DEF KernelInv
  <2>3. CASE q # p
    <3>1. Closing(q, s)' <=> Closing(q, s)
      BY <2>1, <2>3 DEF Closing
    <3>2. fileFd'[q] = fileFd[q]
      BY <2>3 DEF TypeOK
    <3> QED
      BY <2>1, <2>2, <2>3, <3>1, <3>2 DEF KernelAt, TypeOK, Fd
  <2>4. CASE q = p
    <3>1. \A r \in Thread : r # t => pc[p][r] = "idle"
      BY DEF TypeOK, MutexInv
    <3>2. fileFd[p] = NoThread
      BY DEF TypeOK, MutexInv, FieldsInv
    <3>3. ~Closing(q, s) /\ ~Closing(q, s)'
      BY <2>1, <2>4, <3>1 DEF Closing
    <3> QED
      BY <2>1, <2>2, <2>4, <3>2, <3>3 DEF KernelAt, TypeOK, Fd
  <2>5. QED
    BY <2>3, <2>4
<1>5. UsingInv'
  BY DEF TypeOK, MutexInv, FieldsInv, UsingInv
<1>6. QED
  BY <1>1, <1>2, <1>3, <1>4, <1>5

LEMMA ReleaseEnterInv ==
  ASSUME NEW p \in Process, NEW t \in Thread, NEW o \in Owner, IInv, ReleaseEnter(p, t, o)
  PROVE  IInv'
<1> USE OwnerAssumption, ThreadAssumption, FdAssumption DEF IInv, ReleaseEnter, Goto
<1>1. TypeOK'
  BY DEF TypeOK, FieldsInv, Fd, Operation, Location
<1>2. MutexInv'
  BY DEF TypeOK, MutexInv
<1>3. FieldsInv'
  BY DEF TypeOK, MutexInv, FieldsInv
<1>4. KernelInv'
  <2> SUFFICES ASSUME NEW q \in Process, NEW s \in Thread
               PROVE  KernelAt(q, s)'
    BY DEF KernelInv
  <2>1. \A r \in Thread :
          /\ pc'[q][r] = IF q = p /\ r = t THEN "unlocking" ELSE pc[q][r]
          /\ popped'[q][r] = IF q = p /\ r = t THEN fileFd[p] ELSE popped[q][r]
    BY DEF TypeOK
  <2>2. \A r \in Thread : KernelAt(q, r) /\ KernelAt(p, r)
    BY DEF KernelInv
  <2>3. CASE q # p
    <3>1. Closing(q, s)' <=> Closing(q, s)
      BY <2>1, <2>3 DEF Closing
    <3>2. fileFd'[q] = fileFd[q]
      BY <2>3 DEF TypeOK
    <3> QED
      BY <2>1, <2>2, <2>3, <3>1, <3>2 DEF KernelAt, TypeOK, Fd
  <2>4. CASE q = p
    <3>1. \A r \in Thread : pc[p][r] = "idle"
      BY DEF TypeOK, MutexInv
    <3>2. ~Closing(q, s)
      BY <2>4, <3>1 DEF Closing
    <3>3. Closing(q, s)' <=> s = fileFd[p]
      BY <2>1, <2>4, <3>1 DEF Closing
    <3>4. fileFd'[p] = NoThread
      BY DEF TypeOK
    <3> QED
      BY <2>1, <2>2, <2>4, <3>1, <3>2, <3>3, <3>4 DEF KernelAt, TypeOK, Fd
  <2>5. QED
    BY <2>3, <2>4
<1>5. UsingInv'
  BY DEF TypeOK, MutexInv, FieldsInv, UsingInv
<1>6. QED
  BY <1>1, <1>2, <1>3, <1>4, <1>5

LEMMA UnlockInv ==
  ASSUME NEW p \in Process, NEW t \in Thread, IInv, Unlock(p, t)
  PROVE  IInv'
<1> USE OwnerAssumption, ThreadAssumption, FdAssumption DEF IInv, Unlock, Goto, LetGo
<1>1. TypeOK'
  BY DEF TypeOK, FieldsInv, Fd, Operation, Location
<1>2. MutexInv'
  BY DEF TypeOK, MutexInv
<1>3. FieldsInv'
  BY DEF TypeOK, MutexInv, FieldsInv
<1>4. KernelInv'
  <2> SUFFICES ASSUME NEW q \in Process, NEW s \in Thread
               PROVE  KernelAt(q, s)'
    BY DEF KernelInv
  <2>1. \A r \in Thread :
          /\ pc'[q][r] = IF q = p /\ r = t THEN "closing" ELSE pc[q][r]
          /\ popped'[q][r] = popped[q][r]
    BY DEF TypeOK
  <2>2. \A r \in Thread : KernelAt(q, r) /\ KernelAt(p, r)
    BY DEF KernelInv
  <2>3. CASE q # p
    <3>1. Closing(q, s)' <=> Closing(q, s)
      BY <2>1, <2>3 DEF Closing
    <3>2. fileFd'[q] = fileFd[q]
      BY <2>3 DEF TypeOK
    <3>3. flock' = <<q, s>> <=> flock = <<q, s>>
      BY <2>3 DEF Fd
    <3>4. <<q, s>> \in open' <=> <<q, s>> \in open
      BY <2>3
    <3> QED
      BY <2>1, <2>2, <2>3, <3>1, <3>2, <3>3, <3>4 DEF KernelAt
  <2>4. CASE q = p
    <3>1. \A r \in Thread : r # t => pc[p][r] = "idle"
      BY DEF TypeOK, MutexInv
    <3>2. fileFd[p] = NoThread
      BY DEF TypeOK, MutexInv, FieldsInv
    <3>3. Closing(q, s) <=> s = popped[p][t]
      BY <2>4, <3>1 DEF Closing
    <3>4. Closing(q, s)' <=> s = popped[p][t]
      BY <2>1, <2>4, <3>1 DEF Closing
    <3>5. flock' = <<p, s>> => flock = <<p, s>>
      BY DEF Fd
    <3> QED
      BY <2>1, <2>2, <2>4, <3>1, <3>2, <3>3, <3>4, <3>5 DEF KernelAt, TypeOK, Fd
  <2>5. QED
    BY <2>3, <2>4
<1>5. UsingInv'
  BY DEF TypeOK, MutexInv, FieldsInv, UsingInv
<1>6. QED
  BY <1>1, <1>2, <1>3, <1>4, <1>5

LEMMA CloseFdInv ==
  ASSUME NEW p \in Process, NEW t \in Thread, IInv, CloseFd(p, t)
  PROVE  IInv'
<1> USE OwnerAssumption, ThreadAssumption, FdAssumption DEF IInv, CloseFd, Goto, LetGo, Unlocked
<1>1. TypeOK'
  BY DEF TypeOK, FieldsInv, Fd, Operation, Location
<1>2. MutexInv'
  BY DEF TypeOK, MutexInv
<1>3. FieldsInv'
  BY DEF TypeOK, MutexInv, FieldsInv
<1>4. KernelInv'
  <2> SUFFICES ASSUME NEW q \in Process, NEW s \in Thread
               PROVE  KernelAt(q, s)'
    BY DEF KernelInv
  <2>1. \A r \in Thread :
          /\ pc'[q][r] = IF q = p /\ r = t THEN "idle" ELSE pc[q][r]
          /\ popped'[q][r] = IF q = p /\ r = t THEN NoThread ELSE popped[q][r]
    BY DEF TypeOK
  <2>2. \A r \in Thread : KernelAt(q, r) /\ KernelAt(p, r)
    BY DEF KernelInv
  <2>3. CASE q # p
    <3>1. Closing(q, s)' <=> Closing(q, s)
      BY <2>1, <2>3 DEF Closing
    <3>2. fileFd'[q] = fileFd[q]
      BY <2>3 DEF TypeOK
    <3>a. <<q, s>> # NoFd /\ <<q, s>> # <<p, popped[p][t]>>
      BY <2>3
    <3>3. flock' = <<q, s>> <=> flock = <<q, s>>
      BY <3>a
    <3>4. <<q, s>> \in open' <=> <<q, s>> \in open
      BY <2>3
    <3> QED
      BY <2>1, <2>2, <2>3, <3>1, <3>2, <3>3, <3>4 DEF KernelAt
  <2>4. CASE q = p
    <3>1. \A r \in Thread : r # t => pc[p][r] = "idle"
      BY DEF TypeOK, MutexInv
    <3>2. fileFd[p] = NoThread
      BY DEF TypeOK, MutexInv, FieldsInv
    <3>3. Closing(q, s) <=> s = popped[p][t]
      BY <2>4, <3>1 DEF Closing
    <3>4. ~Closing(q, s)'
      BY <2>1, <2>4, <3>1 DEF Closing
    <3>5. flock' # <<p, s>>
      BY <2>2, <2>4, <3>2, <3>3 DEF KernelAt, Fd
    <3> QED
      BY <2>1, <2>2, <2>4, <3>1, <3>2, <3>3, <3>4, <3>5 DEF KernelAt, TypeOK, Fd
  <2>5. QED
    BY <2>3, <2>4
<1>5. UsingInv'
  BY DEF TypeOK, MutexInv, FieldsInv, UsingInv
<1>6. QED
  BY <1>1, <1>2, <1>3, <1>4, <1>5

LEMMA CrashInv ==
  ASSUME NEW p \in Process, IInv, Crash(p)
  PROVE  IInv'
<1> USE OwnerAssumption, ThreadAssumption, FdAssumption DEF IInv, Crash
<1>1. TypeOK'
  BY DEF TypeOK, Fd, Operation, Location
<1>2. MutexInv'
  BY DEF TypeOK, MutexInv
<1>3. FieldsInv'
  BY DEF TypeOK, FieldsInv
<1>4. KernelInv'
  <2> SUFFICES ASSUME NEW q \in Process, NEW s \in Thread
               PROVE  KernelAt(q, s)'
    BY DEF KernelInv
  <2>1. KernelAt(q, s)
    BY DEF KernelInv
  <2>2. CASE q # p
    <3>1. /\ fileFd'[q] = fileFd[q]
          /\ pc'[q] = pc[q]
          /\ popped'[q] = popped[q]
      BY <2>2 DEF TypeOK
    <3>2. flock' = <<q, s>> <=> flock = <<q, s>>
      <4>1. <<q, s>> # NoFd
        BY DEF Fd
      <4>2. \A r \in Thread : <<q, s>> # <<p, r>>
        BY <2>2
      <4>3. CASE \E r \in Thread : flock = <<p, r>>
        BY <4>1, <4>2, <4>3
      <4>4. CASE ~ \E r \in Thread : flock = <<p, r>>
        BY <4>4
      <4> QED
        BY <4>3, <4>4
    <3>3. <<q, s>> \in open' <=> <<q, s>> \in open
      BY <2>2
    <3> QED
      BY <2>1, <3>1, <3>2, <3>3 DEF KernelAt, Closing
  <2>3. CASE q = p
    <3>1. fileFd'[q] = NoThread /\ pc'[q][s] = "idle" /\ ~Closing(q, s)'
      BY <2>3 DEF TypeOK, Closing
    <3>2. flock' # <<q, s>>
      <4>1. <<q, s>> # NoFd
        BY DEF Fd
      <4>2. CASE flock = <<p, s>>
        BY <2>3, <4>1, <4>2
      <4>3. CASE flock # <<p, s>>
        BY <2>3, <4>1, <4>3
      <4> QED
        BY <4>2, <4>3
    <3>3. <<q, s>> \notin open'
      BY <2>3
    <3> QED
      BY <3>1, <3>2, <3>3 DEF KernelAt
  <2>4. QED
    BY <2>2, <2>3
<1>5. UsingInv'
  BY DEF TypeOK, UsingInv
<1>6. QED
  BY <1>1, <1>2, <1>3, <1>4, <1>5

-----------------------------------------------------------------------------
(* The inductive invariant holds, and gives the properties the runs check. *)

LEMMA InitIInv == Init => IInv
<1> SUFFICES ASSUME Init PROVE IInv
  OBVIOUS
<1> USE OwnerAssumption, ThreadAssumption, FdAssumption DEF Init
<1>1. TypeOK
  BY DEF TypeOK, Location
<1>2. MutexInv /\ FieldsInv /\ UsingInv
  BY DEF MutexInv, FieldsInv, UsingInv
<1>3. KernelInv
  BY DEF KernelInv, KernelAt, Closing
<1>4. QED
  BY <1>1, <1>2, <1>3 DEF IInv

LEMMA NextIInv == IInv /\ [Next]_vars => IInv'
<1> SUFFICES ASSUME IInv, [Next]_vars PROVE IInv'
  OBVIOUS
<1>1. ASSUME NEW p \in Process, NEW t \in Thread, NEW o \in Owner,
             ClaimEnter(p, t, o) \/ ReleaseEnter(p, t, o)
      PROVE  IInv'
  BY <1>1, ClaimEnterInv, ReleaseEnterInv
<1>2. ASSUME NEW p \in Process, NEW t \in Thread, Step(p, t)
      PROVE  IInv'
  BY <1>2, OpenLockFileInv, OpenFailsInv, FlockGrantedInv, FlockRefusedInv,
     UnlockInv, CloseFdInv DEF Step
<1>3. ASSUME NEW p \in Process, Crash(p)
      PROVE  IInv'
  BY <1>3, CrashInv
<1>4. CASE UNCHANGED vars
  BY <1>4 DEF vars, IInv, TypeOK, MutexInv, FieldsInv, KernelInv, KernelAt,
     Closing, UsingInv
<1>5. QED
  BY <1>1, <1>2, <1>3, <1>4 DEF Next

THEOREM Invariance == Spec => []IInv
<1>1. Init => IInv
  BY InitIInv
<1>2. IInv /\ [Next]_vars => IInv'
  BY NextIInv
<1>3. QED
  BY <1>1, <1>2, PTL DEF Spec

(* Every variable of the coordinators keeps its type.                      *)
THEOREM TypeCorrect == Spec => []TypeOK
<1>1. IInv => TypeOK
  BY DEF IInv
<1>2. QED
  BY <1>1, Invariance, PTL

(* An operation in progress holds its process's fields and the flock.      *)
LEMMA IInvUse == IInv => UseHoldsKernelLock
BY OwnerAssumption, ThreadAssumption
   DEF IInv, TypeOK, FieldsInv, KernelInv, KernelAt, UsingInv, UseHoldsKernelLock

THEOREM UseIsLocked == Spec => []UseHoldsKernelLock
BY IInvUse, Invariance, PTL

(* Two operations in progress hold the same descriptor, hence belong to    *)
(* one process, whose _owner names them both.                              *)
LEMMA IInvExclusive == IInv => ExclusiveUse
<1> SUFFICES ASSUME IInv, NEW u \in using, NEW v \in using
             PROVE  u = v
  BY DEF ExclusiveUse
<1>1. PICK p \in Process, o \in Owner : u = <<p, o>>
  BY DEF IInv, TypeOK, Operation
<1>2. PICK q \in Process, n \in Owner : v = <<q, n>>
  BY DEF IInv, TypeOK, Operation
<1>3. owner[p] = o /\ flock = <<p, fileFd[p]>>
  BY <1>1, IInvUse DEF UseHoldsKernelLock
<1>4. owner[q] = n /\ flock = <<q, fileFd[q]>>
  BY <1>2, IInvUse DEF UseHoldsKernelLock
<1>5. p = q /\ o = n
  BY <1>3, <1>4
<1>6. QED
  BY <1>1, <1>2, <1>5

(* At most one operation of one process of the host uses the hardware.     *)
THEOREM HostExclusion == Spec => []ExclusiveUse
BY IInvExclusive, Invariance, PTL

(* Outside claim() and release() only _file_fd's descriptor is open.       *)
LEMMA IInvNoLeak == IInv => NoFdLeak
<1> SUFFICES ASSUME IInv, NEW p \in Process, NEW t \in Thread, mutex[p] = NoThread
             PROVE  <<p, t>> \in open <=> fileFd[p] = t
  BY DEF NoFdLeak
<1>1. \A r \in Thread : pc[p][r] = "idle"
  BY ThreadAssumption DEF IInv, MutexInv
<1>2. pc[p][t] # "locking" /\ ~Closing(p, t)
  BY <1>1 DEF Closing
<1>3. QED
  BY <1>2 DEF IInv, KernelInv, KernelAt

THEOREM NoLeakedDescriptor == Spec => []NoFdLeak
BY IInvNoLeak, Invariance, PTL

-----------------------------------------------------------------------------
(* Refinement: only a granted claim, a release and a crash move the        *)
(* abstract holder.                                                        *)

LEMMA HolderUnchanged == using' = using => UNCHANGED Holder
BY DEF Holder

LEMMA NoOperationIsNone == NoOperation \notin Operation
BY DEF NoOperation, Operation

LEMMA HolderOfOne ==
  ASSUME NEW u \in Operation, using = {u}
  PROVE  Holder = u
BY DEF Holder

LEMMA HolderOfOnePrimed ==
  ASSUME NEW u \in Operation, using' = {u}
  PROVE  Holder' = u
BY DEF Holder

LEMMA StepRefines == IInv /\ [Next]_vars => [Mutex!Next]_Holder
<1> SUFFICES ASSUME IInv, [Next]_vars PROVE [Mutex!Next]_Holder
  OBVIOUS
<1>1. \A u, v \in using : u = v
  BY IInvExclusive DEF ExclusiveUse
<1>2. using \subseteq Operation
  BY DEF IInv, TypeOK
<1>3. ASSUME NEW p \in Process, NEW t \in Thread, FlockGranted(p, t)
      PROVE  Mutex!Next
  <2> DEFINE u == <<p, arg[p][t]>>
  <2>1. u \in Operation
    BY <1>3 DEF FlockGranted, IInv, FieldsInv, Operation
  <2>2. using = {}
    BY <1>2, <1>3, FdAssumption, IInvUse, ThreadAssumption
       DEF FlockGranted, UseHoldsKernelLock, Operation, IInv, TypeOK
  <2>3. Holder = NoOperation
    BY <2>2 DEF Holder
  <2>4. Holder' = u
    <3>1. using' = {u}
      BY <1>3, <2>2 DEF FlockGranted
    <3> QED
      BY <2>1, <3>1, HolderOfOnePrimed
  <2> QED
    BY <2>1, <2>3, <2>4 DEF Mutex!Next, Mutex!Acquire
<1>4. ASSUME NEW u \in using, using' = {}
      PROVE  Mutex!Next
  <2>1. using = {u} /\ u \in Operation
    BY <1>1, <1>2, <1>4
  <2>2. Holder = u
    BY <2>1, HolderOfOne
  <2>3. Holder' = NoOperation
    BY <1>4 DEF Holder
  <2> QED
    BY <2>1, <2>2, <2>3 DEF Mutex!Next, Mutex!Release
<1>5. ASSUME NEW p \in Process, NEW t \in Thread, NEW o \in Owner, ReleaseEnter(p, t, o)
      PROVE  Mutex!Next
  <2>1. <<p, o>> \in using /\ using' = {}
    BY <1>1, <1>5 DEF ReleaseEnter
  <2> QED
    BY <1>4, <2>1
<1>6. ASSUME NEW p \in Process, Crash(p)
      PROVE  Mutex!Next \/ UNCHANGED Holder
  <2>1. using' = using \/ (using' = {} /\ \E u \in using : TRUE)
    BY <1>1, <1>6 DEF Crash
  <2> QED
    BY <1>4, <2>1, HolderUnchanged
<1>7. ASSUME NEW p \in Process, NEW t \in Thread, NEW o \in Owner, ClaimEnter(p, t, o)
      PROVE  UNCHANGED Holder
  BY <1>7, HolderUnchanged DEF ClaimEnter
<1>8. ASSUME NEW p \in Process, NEW t \in Thread, Step(p, t), ~FlockGranted(p, t)
      PROVE  UNCHANGED Holder
  BY <1>8, HolderUnchanged DEF Step, OpenLockFile, OpenFails, FlockRefused, Unlock, CloseFd
<1>9. CASE UNCHANGED vars
  BY <1>9, HolderUnchanged DEF vars
<1>10. QED
  BY <1>3, <1>5, <1>6, <1>7, <1>8, <1>9 DEF Next

(* The coordinators of the host implement a mutex over its operations.     *)
THEOREM Refinement == Spec => ImplementsMutex
<1>1. Init => Mutex!Init
  BY DEF Init, Mutex!Init, Holder
<1>2. IInv /\ [Next]_vars => [Mutex!Next]_Holder
  BY StepRefines
<1>3. QED
  BY <1>1, <1>2, Invariance, PTL DEF Spec, ImplementsMutex, Mutex!Spec

=============================================================================
