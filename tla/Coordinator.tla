----------------------------- MODULE Coordinator -----------------------------
(***************************************************************************)
(* coordinator.py: HardwareCoordinator, one instance per process, shared   *)
(* by the threads of the process, and the kernel's flock on hardware.lock  *)
(* shared by the processes of the host.                                    *)
(*                                                                         *)
(* claim() and release() run under self._lock, so the steps below of one   *)
(* process never interleave with each other; they interleave with the      *)
(* steps of other processes and with crashes, which drop every descriptor. *)
(***************************************************************************)
CONSTANTS
  Process,   \* programs of the host that import cynthion_mcp
  Thread,    \* threads of a process that call the coordinator
  Owner,     \* the owner strings: "capture" and "status"
  NoOwner,   \* _owner is None
  NoThread,  \* _lock is free; _file_fd is None
  NoFd       \* no descriptor holds the flock

ASSUME OwnerAssumption == NoOwner \notin Owner
ASSUME ThreadAssumption == NoThread \notin Thread
ASSUME FdAssumption == NoFd \notin Process \X Thread

VARIABLES
  owner,   \* owner[p]: p's _owner
  fileFd,  \* fileFd[p]: the thread whose claim opened p's _file_fd
  mutex,   \* mutex[p]: the thread inside `with self._lock` of p
  pc,      \* pc[p][t]: where t is in claim() or release()
  arg,     \* arg[p][t]: the owner string of t's claim
  popped,  \* popped[p][t]: the descriptor release() took out of _file_fd
  open,    \* descriptors of hardware.lock that are open, as <<p, t>>
  flock,   \* the descriptor that holds LOCK_EX
  using    \* operations <<p, o>> between their claim and their release

vars == <<owner, fileFd, mutex, pc, arg, popped, open, flock, using>>

Fd == Process \X Thread
Operation == Process \X Owner
Location == {"idle", "opening", "locking", "unlocking", "closing"}

TypeOK ==
  /\ owner \in [Process -> Owner \cup {NoOwner}]
  /\ fileFd \in [Process -> Thread \cup {NoThread}]
  /\ mutex \in [Process -> Thread \cup {NoThread}]
  /\ pc \in [Process -> [Thread -> Location]]
  /\ arg \in [Process -> [Thread -> Owner \cup {NoOwner}]]
  /\ popped \in [Process -> [Thread -> Thread \cup {NoThread}]]
  /\ open \subseteq Fd
  /\ flock \in Fd \cup {NoFd}
  /\ using \subseteq Operation

Init ==
  /\ owner = [p \in Process |-> NoOwner]
  /\ fileFd = [p \in Process |-> NoThread]
  /\ mutex = [p \in Process |-> NoThread]
  /\ pc = [p \in Process |-> [t \in Thread |-> "idle"]]
  /\ arg = [p \in Process |-> [t \in Thread |-> NoOwner]]
  /\ popped = [p \in Process |-> [t \in Thread |-> NoThread]]
  /\ open = {}
  /\ flock = NoFd
  /\ using = {}

-----------------------------------------------------------------------------
(* claim(owner).  A claim that finds _owner set raises and changes nothing. *)

Goto(p, t, l) == pc' = [pc EXCEPT ![p][t] = l]

Unlocked(p) == mutex' = [mutex EXCEPT ![p] = NoThread]

ClaimEnter(p, t, o) ==
  /\ pc[p][t] = "idle"
  /\ mutex[p] = NoThread
  /\ owner[p] = NoOwner
  /\ mutex' = [mutex EXCEPT ![p] = t]
  /\ arg' = [arg EXCEPT ![p][t] = o]
  /\ Goto(p, t, "opening")
  /\ UNCHANGED <<owner, fileFd, popped, open, flock, using>>

OpenLockFile(p, t) ==
  /\ pc[p][t] = "opening"
  /\ open' = open \cup {<<p, t>>}
  /\ Goto(p, t, "locking")
  /\ UNCHANGED <<owner, fileFd, mutex, arg, popped, flock, using>>

\* The directory is unsafe, or a call on it or on the file fails.
OpenFails(p, t) ==
  /\ pc[p][t] = "opening"
  /\ Unlocked(p)
  /\ arg' = [arg EXCEPT ![p][t] = NoOwner]
  /\ Goto(p, t, "idle")
  /\ UNCHANGED <<owner, fileFd, popped, open, flock, using>>

\* Fault variant: LOCK_SH instead of LOCK_EX.
FlockGrantedShared(p, t) ==
  /\ pc[p][t] = "locking"
  /\ flock' = <<p, t>>
  /\ fileFd' = [fileFd EXCEPT ![p] = t]
  /\ owner' = [owner EXCEPT ![p] = arg[p][t]]
  /\ using' = using \cup {<<p, arg[p][t]>>}
  /\ arg' = [arg EXCEPT ![p][t] = NoOwner]
  /\ Unlocked(p)
  /\ Goto(p, t, "idle")
  /\ UNCHANGED <<popped, open>>

\* Fault variant: the two fields are assigned each other's value.
FlockGrantedSwapped(p, t) ==
  /\ pc[p][t] = "locking"
  /\ flock = NoFd
  /\ flock' = <<p, t>>
  /\ fileFd' = [fileFd EXCEPT ![p] = arg[p][t]]
  /\ owner' = [owner EXCEPT ![p] = t]
  /\ using' = using \cup {<<p, arg[p][t]>>}
  /\ arg' = [arg EXCEPT ![p][t] = NoOwner]
  /\ Unlocked(p)
  /\ Goto(p, t, "idle")
  /\ UNCHANGED <<popped, open>>

\* flock(LOCK_EX | LOCK_NB) succeeds; _file_fd and _owner are assigned.
FlockGranted(p, t) ==
  /\ pc[p][t] = "locking"
  /\ flock = NoFd
  /\ flock' = <<p, t>>
  /\ fileFd' = [fileFd EXCEPT ![p] = t]
  /\ owner' = [owner EXCEPT ![p] = arg[p][t]]
  /\ using' = using \cup {<<p, arg[p][t]>>}
  /\ arg' = [arg EXCEPT ![p][t] = NoOwner]
  /\ Unlocked(p)
  /\ Goto(p, t, "idle")
  /\ UNCHANGED <<popped, open>>

\* Fault variant: the descriptor of a refused lock stays open.
FlockRefusedLeaks(p, t) ==
  /\ pc[p][t] = "locking"
  /\ arg' = [arg EXCEPT ![p][t] = NoOwner]
  /\ Unlocked(p)
  /\ Goto(p, t, "idle")
  /\ UNCHANGED <<owner, fileFd, popped, open, flock, using>>

\* Fault variant: LOCK_NB is dropped, so a held lock is waited for.
FlockRefusedBlocks(p, t) == flock = NoFd /\ FlockRefusedLeaks(p, t)

\* The lock is held through another descriptor, or the call fails.
FlockRefused(p, t) ==
  /\ pc[p][t] = "locking"
  /\ open' = open \ {<<p, t>>}
  /\ arg' = [arg EXCEPT ![p][t] = NoOwner]
  /\ Unlocked(p)
  /\ Goto(p, t, "idle")
  /\ UNCHANGED <<owner, fileFd, popped, flock, using>>

-----------------------------------------------------------------------------
(* release(owner).  A capture may be released by another thread than the   *)
(* one that claimed it; a mismatched release raises and changes nothing.   *)

ReleaseEnter(p, t, o) ==
  /\ <<p, o>> \in using
  /\ pc[p][t] = "idle"
  /\ mutex[p] = NoThread
  /\ owner[p] = o
  /\ fileFd[p] # NoThread
  /\ mutex' = [mutex EXCEPT ![p] = t]
  /\ popped' = [popped EXCEPT ![p][t] = fileFd[p]]
  /\ fileFd' = [fileFd EXCEPT ![p] = NoThread]
  /\ owner' = [owner EXCEPT ![p] = NoOwner]
  /\ using' = using \ {<<p, o>>}
  /\ Goto(p, t, "unlocking")
  /\ UNCHANGED <<arg, open, flock>>

LetGo(p, fd) == flock' = IF flock = <<p, fd>> THEN NoFd ELSE flock

\* flock(LOCK_UN); when the call fails the lock lasts until close().
Unlock(p, t) ==
  /\ pc[p][t] = "unlocking"
  /\ LetGo(p, popped[p][t]) \/ UNCHANGED flock
  /\ Goto(p, t, "closing")
  /\ UNCHANGED <<owner, fileFd, mutex, arg, popped, open, using>>

CloseFd(p, t) ==
  /\ pc[p][t] = "closing"
  /\ open' = open \ {<<p, popped[p][t]>>}
  /\ LetGo(p, popped[p][t])
  /\ popped' = [popped EXCEPT ![p][t] = NoThread]
  /\ Unlocked(p)
  /\ Goto(p, t, "idle")
  /\ UNCHANGED <<owner, fileFd, arg, using>>

-----------------------------------------------------------------------------
\* The process dies and a new one takes its place: the kernel closes its
\* descriptors, which drops the flock.
Crash(p) ==
  /\ owner' = [owner EXCEPT ![p] = NoOwner]
  /\ fileFd' = [fileFd EXCEPT ![p] = NoThread]
  /\ mutex' = [mutex EXCEPT ![p] = NoThread]
  /\ pc' = [pc EXCEPT ![p] = [t \in Thread |-> "idle"]]
  /\ arg' = [arg EXCEPT ![p] = [t \in Thread |-> NoOwner]]
  /\ popped' = [popped EXCEPT ![p] = [t \in Thread |-> NoThread]]
  /\ open' = {fd \in open : fd[1] # p}
  /\ flock' = IF \E t \in Thread : flock = <<p, t>> THEN NoFd ELSE flock
  /\ using' = {u \in using : u[1] # p}

Step(p, t) ==
  \/ OpenLockFile(p, t)
  \/ OpenFails(p, t)
  \/ FlockGranted(p, t)
  \/ FlockRefused(p, t)
  \/ Unlock(p, t)
  \/ CloseFd(p, t)

Next ==
  \/ \E p \in Process, t \in Thread, o \in Owner :
       ClaimEnter(p, t, o) \/ ReleaseEnter(p, t, o)
  \/ \E p \in Process, t \in Thread : Step(p, t)
  \/ \E p \in Process : Crash(p)

\* A thread inside claim() or release() keeps running: neither waits for
\* anything but the processor once it holds self._lock.
Fairness == \A p \in Process, t \in Thread : WF_vars(Step(p, t))

Spec == Init /\ [][Next]_vars

FairSpec == Spec /\ Fairness

-----------------------------------------------------------------------------
(* One operation of one process uses the hardware at a time, over all the  *)
(* processes of the host and wherever they crash (coordinator.py:1,        *)
(* "process- and host-wide ownership").                                    *)
ExclusiveUse == \A u, v \in using : u = v

(* An operation in progress still has its process's _owner and _file_fd,   *)
(* and that descriptor is the one that holds the kernel lock: its release  *)
(* will not raise "hardware ownership mismatch" (coordinator.py:59), and   *)
(* nobody has taken the lock from under it.                                *)
UseHoldsKernelLock ==
  \A p \in Process, o \in Owner :
    <<p, o>> \in using =>
      /\ owner[p] = o
      /\ fileFd[p] # NoThread
      /\ flock = <<p, fileFd[p]>>

(* Outside claim() and release() the only open descriptor of the lock file *)
(* is the one _file_fd refers to: no error path leaves one behind, which   *)
(* would keep the hardware locked for as long as the process lives.        *)
NoFdLeak ==
  \A p \in Process, t \in Thread :
    mutex[p] = NoThread => (<<p, t>> \in open <=> fileFd[p] = t)

(* A thread that has entered claim() or release() leaves it, also while    *)
(* another process keeps the lock for good: the lock is tried, not awaited.*)
CallsReturn ==
  \A p \in Process, t \in Thread : pc[p][t] # "idle" ~> pc[p][t] = "idle"

-----------------------------------------------------------------------------
(* Refinement of HardwareMutex: the abstract holder is the operation in    *)
(* progress.                                                               *)
NoOperation == <<NoFd>>

Holder == IF using = {} THEN NoOperation ELSE CHOOSE u \in Operation : u \in using

Mutex == INSTANCE HardwareMutex WITH holder <- Holder

(* Every behaviour of the coordinators of the host is one of a mutex over  *)
(* the hardware operations: handed over only through a release.            *)
ImplementsMutex == Mutex!Spec

=============================================================================
