------------------------ MODULE CaptureSessionProofs ------------------------
(***************************************************************************)
(* Proofs about CaptureSession, for every set of callers and sessions: its *)
(* type invariant, and who owns and who touches the hardware.              *)
(*                                                                         *)
(* IInv is inductive.  Its parts tie the lock to the calls inside it, the  *)
(* drainer of a session and the stop calls on it to _active, and the       *)
(* states after the clean-up to a device that is closed.                   *)
(***************************************************************************)
EXTENDS CaptureSession, TLAPS

Setup == {"reserving", "opening", "spawning"}

\* Inside `with session._cleanup_lock'.
Cleaning == {"stop_joining", "stop_disabling", "stop_disposing",
             "stop_confirming", "stop_releasing", "stop_returning"}

Stopping == Cleaning \cup {"stop_locking"}

\* The session of a call in progress, and the holder of _lock.
CallerInv ==
  \A c \in Caller :
    /\ pc[c] \notin {"idle", "status"} => sess[c] \in Session
    /\ lock = c <=> pc[c] \in Setup

\* A session being set up is new, and becomes active once its device is open.
SetupInv ==
  \A c \in Caller :
    /\ pc[c] = "reserving" => dpc[sess[c]] = "unused"
    /\ pc[c] \in {"opening", "spawning"} => dpc[sess[c]] = "none"
    /\ pc[c] \in {"reserving", "opening"} =>
         dev[sess[c]] = "closed" /\ active = NoSession
    /\ pc[c] = "spawning" => active = sess[c]
    /\ pc[c] \in Setup => sess[c] \notin released \cup confirmed

\* What is known of a session by where its drainer is.
SessionInv ==
  \A s \in Session :
    /\ dpc[s] = "unused" => dev[s] = "closed" /\ s \notin released \cup confirmed
    /\ active = s => s \notin released /\ dpc[s] # "unused"
    /\ Alive(s) => active = s
    /\ Alive(s) /\ s \in confirmed => dpc[s] \in {"finishing", "releasing"}
    /\ dpc[s] = "releasing" => s \in confirmed
    /\ \/ dpc[s] \in {"finalizing", "confirming", "releasing"}
       \/ dpc[s] = "finishing" /\ s \in confirmed
       => dev[s] = "closed"
    /\ dpc[s] = "dead" /\ s \notin confirmed => active = s

\* What is known of a session that capture_stop is at.
StopInv ==
  \A c \in Caller :
    pc[c] \in Stopping =>
      LET s == sess[c] IN
      /\ dpc[s] # "unused"
      /\ ~Starting(s)
      /\ ~Alive(s) /\ s \notin confirmed => active = s
      /\ pc[c] \in Cleaning => cleanupLock[s] = c
      /\ pc[c] \in {"stop_disabling", "stop_disposing", "stop_confirming"} =>
           ~Alive(s) /\ s \notin confirmed
      /\ pc[c] = "stop_releasing" => ~Alive(s) /\ s \in confirmed /\ active = s
      /\ pc[c] \in {"stop_disabling", "stop_disposing"} => dev[s] # "closed"
      /\ pc[c] \in {"stop_confirming", "stop_releasing"} => dev[s] = "closed"

Core ==
  /\ CallerInv
  /\ SetupInv
  /\ SessionInv
  /\ StopInv
  /\ OwnershipAccounted
  /\ QuietWhenFree

IInv == TypeOK /\ Core

-----------------------------------------------------------------------------
(* Every step keeps the types.                                             *)

LEMMA StartTypes ==
  ASSUME NEW c \in Caller, TypeOK, CallerInv, StartStep(c)
  PROVE  TypeOK'
<1> USE BytesAssumption DEF TypeOK, callerVars, ownerVars, fileVars, errorVars, flagVars, Goto, Return,
        DrainerTo, DrainerLocation, CallerLocation, Error, Reply, Other
<1> USE DEF CallerInv
<1>1. CASE Reserve(c)
  BY <1>1 DEF Reserve
<1>2. CASE ReserveFails(c)
  BY <1>2 DEF ReserveFails, ReleaseCapture
<1>3. CASE OpenAnalyzer(c)
  BY <1>3 DEF OpenAnalyzer
<1>4. CASE OpenAnalyzerFails(c)
  BY <1>4 DEF OpenAnalyzerFails, ReleaseCapture, UnlinkPartial, UnlinkFails
<1>5. CASE StartThread(c)
  BY <1>5 DEF StartThread
<1>6. CASE StartThreadFails(c)
  BY <1>6 DEF StartThreadFails, ReleaseCapture, UnlinkPartial, UnlinkFails
<1>7. CASE StartThreadAndDisposeFail(c)
  BY <1>7 DEF StartThreadAndDisposeFail, UnlinkPartial, UnlinkFails, SetError
<1>8. CASE StartReturns(c)
  BY <1>8 DEF StartReturns
<1>9. CASE StartGivesUp(c)
  BY <1>9 DEF StartGivesUp
<1>10. CASE AssignStartError(c)
  BY <1>10 DEF AssignStartError
<1>11. CASE StopFailedStart(c)
  BY <1>11 DEF StopFailedStart
<1>12. CASE StartRaises(c)
  BY <1>12 DEF StartRaises
<1> QED
  BY <1>1, <1>2, <1>3, <1>4, <1>5, <1>6, <1>7, <1>8, <1>9, <1>10, <1>11, <1>12 DEF StartStep

LEMMA StopTypes ==
  ASSUME NEW c \in Caller, TypeOK, CallerInv, StopStep(c)
  PROVE  TypeOK'
<1> USE BytesAssumption DEF TypeOK, callerVars, ownerVars, fileVars, errorVars, flagVars, Goto, Return,
        DrainerTo, DrainerLocation, CallerLocation, Error, Reply, Other
<1> USE DEF CallerInv
<1>1. CASE StopLocks(c)
  BY <1>1 DEF StopLocks
<1>2. CASE StopTimesOut(c)
  BY <1>2 DEF StopTimesOut, StopEnds
<1>3. CASE StopJoins(c)
  BY <1>3 DEF StopJoins
<1>4. CASE StopDisables(c)
  BY <1>4 DEF StopDisables
<1>5. CASE StopDisposes(c)
  BY <1>5 DEF StopDisposes
<1>6. CASE StopCleanupFails(c)
  BY <1>6 DEF StopCleanupFails, StopEnds, SetError
<1>7. CASE StopConfirms(c)
  BY <1>7 DEF StopConfirms, UnlinkPartial, UnlinkFails, SetError
<1>8. CASE StopReleases(c)
  BY <1>8 DEF StopReleases, ReleaseOwnership, ReleaseCapture
<1>9. CASE StopReturns(c)
  BY <1>9 DEF StopReturns, StopEnds
<1> QED
  BY <1>1, <1>2, <1>3, <1>4, <1>5, <1>6, <1>7, <1>8, <1>9 DEF StopStep

LEMMA DrainTypes ==
  ASSUME NEW s \in Session, TypeOK, DrainStep(s)
  PROVE  TypeOK'
<1> USE BytesAssumption DEF TypeOK, callerVars, ownerVars, fileVars, errorVars, flagVars, Goto, Return,
        DrainerTo, DrainerLocation, CallerLocation, Error, Reply, Other
<1>1. CASE Enable(s)
  BY <1>1 DEF Enable
<1>2. CASE EnableFails(s)
  BY <1>2 DEF EnableFails, TestError
<1>3. CASE SeeStop(s)
  BY <1>3 DEF SeeStop
<1>4. CASE ReachDuration(s)
  BY <1>4 DEF ReachDuration, TestError
<1>5. CASE GoOn(s)
  BY <1>5 DEF GoOn
<1>6. CASE Read(s)
  BY <1>6 DEF Read, TestError
<1>7. CASE ReadNothing(s)
  BY <1>7 DEF ReadNothing
<1>8. CASE ReadFails(s)
  BY <1>8 DEF ReadFails, TestError
<1>9. CASE AssignLimit(s)
  BY <1>9 DEF AssignLimit, AssignError
<1>10. CASE Flush(s)
  BY <1>10 DEF Flush
<1>11. CASE FlushFails(s)
  BY <1>11 DEF FlushFails, TestError
<1>12. CASE AssignFault(s)
  BY <1>12 DEF AssignFault, AssignError
<1> QED
  BY <1>1, <1>2, <1>3, <1>4, <1>5, <1>6, <1>7, <1>8, <1>9, <1>10, <1>11, <1>12 DEF DrainStep

LEMMA EndTypes ==
  ASSUME NEW s \in Session, TypeOK, EndStep(s)
  PROVE  TypeOK'
<1> USE BytesAssumption DEF TypeOK, callerVars, ownerVars, fileVars, errorVars, flagVars, Goto, Return,
        DrainerTo, DrainerLocation, CallerLocation, Error, Reply, Other
<1>1. CASE Disable(s)
  BY <1>1 DEF Disable
<1>2. CASE DisableFails(s)
  BY <1>2 DEF DisableFails, TestError
<1>3. CASE Dispose(s)
  BY <1>3 DEF Dispose
<1>4. CASE DisposeFails(s)
  BY <1>4 DEF DisposeFails, TestError
<1>5. CASE AssignCleanupError(s)
  BY <1>5 DEF AssignCleanupError, AssignError
<1>6. CASE Publish(s)
  BY <1>6 DEF Publish
<1>7. CASE PublishFails(s)
  BY <1>7 DEF PublishFails, TestError
<1>8. CASE Discard(s)
  BY <1>8 DEF Discard, UnlinkPartial
<1>9. CASE DiscardFails(s)
  BY <1>9 DEF DiscardFails, TestError, UnlinkFails
<1>10. CASE Confirm(s)
  BY <1>10 DEF Confirm, AssignError
<1>11. CASE Finish(s)
  BY <1>11 DEF Finish
<1>12. CASE Release(s)
  BY <1>12 DEF Release, ReleaseOwnership, ReleaseCapture
<1>13. CASE Drop(s)
  BY <1>13 DEF Drop, SetError, UnlinkPartial, UnlinkFails
<1>14. CASE Exit(s)
  BY <1>14 DEF Exit
<1> QED
  BY <1>1, <1>2, <1>3, <1>4, <1>5, <1>6, <1>7, <1>8, <1>9, <1>10, <1>11, <1>12,
     <1>13, <1>14 DEF EndStep

LEMMA OtherTypes ==
  ASSUME TypeOK,
         \/ \E c \in Caller, s \in Session : StartClaims(c, s)
         \/ \E c \in Caller : StopRequest(c) \/ StatusBegins(c) \/ StatusEnds(c)
         \/ ElsewhereBegins
         \/ ElsewhereEnds
  PROVE  TypeOK'
<1> USE DEF TypeOK, callerVars, ownerVars, fileVars, errorVars, flagVars, Goto, Return,
        DrainerTo, DrainerLocation, CallerLocation, Error, Reply, Other
<1>1. CASE \E c \in Caller, s \in Session : StartClaims(c, s)
  BY <1>1 DEF StartClaims
<1>2. CASE \E c \in Caller : StopRequest(c)
  BY <1>2 DEF StopRequest
<1>3. CASE \E c \in Caller : StatusBegins(c) \/ StatusEnds(c)
  BY <1>3 DEF StatusBegins, StatusEnds
<1>4. CASE ElsewhereBegins \/ ElsewhereEnds
  BY <1>4 DEF ElsewhereBegins, ElsewhereEnds
<1> QED
  BY <1>1, <1>2, <1>3, <1>4

-----------------------------------------------------------------------------
(* The drainer of s works on its session, whose clean-up is not confirmed: *)
(* what most of its steps change, as far as Core is concerned.             *)
Working ==
  {"enabling", "checking", "reading", "limiting", "flushing", "faulting",
   "disabling", "disposing", "abandoning", "dropping", "finalizing",
   "confirming", "finishing", "exiting"}

Works(s) ==
  /\ dpc[s] \in Working
  /\ s \notin confirmed
  /\ \E l \in Working, d \in {"closed", "open", "streaming"} :
       /\ DrainerTo(s, l)
       /\ dev' = [dev EXCEPT ![s] = d]
       /\ l \in {"finalizing", "confirming"} => d = "closed"
  /\ UNCHANGED <<active, lock, holder, cleanupLock, released, confirmed, pc, sess>>

LEMMA WorksCore ==
  ASSUME NEW s \in Session, IInv, Works(s)
  PROVE  Core'
<1> USE CallerAssumption, SessionAssumption DEF IInv, Core, Works, DrainerTo, Working
<1>1. CallerInv'
  BY DEF CallerInv
<1>2. SetupInv'
  BY DEF TypeOK, CallerInv, SetupInv, SessionInv, Setup
<1>3. SessionInv'
  BY DEF TypeOK, SessionInv, Alive
<1>4. StopInv'
  BY DEF TypeOK, CallerInv, StopInv, SessionInv, Alive, Stopping, Cleaning, Starting
<1>5. OwnershipAccounted'
  BY DEF OwnershipAccounted, Starting
<1>6. QuietWhenFree'
  BY DEF TypeOK, QuietWhenFree, OwnershipAccounted, SessionInv, Alive
<1>7. QED
  BY <1>1, <1>2, <1>3, <1>4, <1>5, <1>6

-----------------------------------------------------------------------------
(* The other steps of a drainer.                                           *)

LEMMA ExitCore ==
  ASSUME NEW s \in Session, IInv, Exit(s)
  PROVE  Core'
<1> USE CallerAssumption, SessionAssumption DEF IInv, Core, Exit,
   callerVars, ownerVars, fileVars, errorVars, flagVars, Goto, Return,
   DrainerTo, Other
<1>1. CallerInv'
  BY DEF TypeOK, CallerInv, Setup
<1>2. SetupInv'
  BY DEF TypeOK, CallerInv, SetupInv, SessionInv, StopInv, Setup, Stopping,
     Cleaning, Alive
<1>3. SessionInv'
  BY DEF TypeOK, CallerInv, SetupInv, SessionInv, StopInv, Setup, Stopping,
     Cleaning, Alive
<1>4. StopInv'
  BY DEF TypeOK, CallerInv, SetupInv, SessionInv, StopInv, Setup, Stopping,
     Cleaning, Alive, Starting
<1>5. OwnershipAccounted'
  BY DEF TypeOK, CallerInv, SetupInv, SessionInv, StopInv, OwnershipAccounted,
     Setup, Stopping, Cleaning, Starting, Alive
<1>6. QuietWhenFree'
  BY DEF TypeOK, CallerInv, SetupInv, SessionInv, StopInv, OwnershipAccounted,
     QuietWhenFree, Setup, Stopping, Cleaning, Starting, Alive
<1>7. QED
  BY <1>1, <1>2, <1>3, <1>4, <1>5, <1>6

LEMMA ConfirmCore ==
  ASSUME NEW s \in Session, IInv, Confirm(s)
  PROVE  Core'
<1> USE CallerAssumption, SessionAssumption DEF IInv, Core, Confirm,
   callerVars, ownerVars, fileVars, errorVars, flagVars, Goto, Return,
   DrainerTo, Other
<1>1. CallerInv'
  BY DEF TypeOK, CallerInv, Setup
<1>2. SetupInv'
  BY DEF TypeOK, CallerInv, SetupInv, SessionInv, StopInv, Setup, Stopping,
     Cleaning, Alive
<1>3. SessionInv'
  BY DEF TypeOK, CallerInv, SetupInv, SessionInv, StopInv, Setup, Stopping,
     Cleaning, Alive
<1>4. StopInv'
  BY DEF TypeOK, CallerInv, SetupInv, SessionInv, StopInv, Setup, Stopping,
     Cleaning, Alive, Starting
<1>5. OwnershipAccounted'
  BY DEF TypeOK, CallerInv, SetupInv, SessionInv, StopInv, OwnershipAccounted,
     Setup, Stopping, Cleaning, Starting, Alive
<1>6. QuietWhenFree'
  BY DEF TypeOK, CallerInv, SetupInv, SessionInv, StopInv, OwnershipAccounted,
     QuietWhenFree, Setup, Stopping, Cleaning, Starting, Alive
<1>7. QED
  BY <1>1, <1>2, <1>3, <1>4, <1>5, <1>6

LEMMA FinishCore ==
  ASSUME NEW s \in Session, IInv, Finish(s),
         s \in confirmed
  PROVE  Core'
<1> USE CallerAssumption, SessionAssumption DEF IInv, Core, Finish, callerVars,
   ownerVars, fileVars, errorVars, flagVars, Goto, Return, DrainerTo, Other
<1>1. CallerInv'
  BY DEF TypeOK, CallerInv, Setup
<1>2. SetupInv'
  BY DEF TypeOK, CallerInv, SetupInv, SessionInv, StopInv, Setup, Stopping,
     Cleaning, Alive
<1>3. SessionInv'
  BY DEF TypeOK, CallerInv, SetupInv, SessionInv, StopInv, Setup, Stopping,
     Cleaning, Alive
<1>4. StopInv'
  BY DEF TypeOK, CallerInv, SetupInv, SessionInv, StopInv, Setup, Stopping,
     Cleaning, Alive, Starting
<1>5. OwnershipAccounted'
  BY DEF TypeOK, CallerInv, SetupInv, SessionInv, StopInv, OwnershipAccounted,
     Setup, Stopping, Cleaning, Starting, Alive
<1>6. QuietWhenFree'
  BY DEF TypeOK, CallerInv, SetupInv, SessionInv, StopInv, OwnershipAccounted,
     QuietWhenFree, Setup, Stopping, Cleaning, Starting, Alive
<1>7. QED
  BY <1>1, <1>2, <1>3, <1>4, <1>5, <1>6

LEMMA ReleaseCore ==
  ASSUME NEW s \in Session, IInv, Release(s)
  PROVE  Core'
<1> USE CallerAssumption, SessionAssumption DEF IInv, Core, Release,
   ReleaseOwnership, ReleaseCapture, callerVars, ownerVars, fileVars,
   errorVars, flagVars, Goto, Return, DrainerTo, Other
<1>1. CallerInv'
  BY DEF TypeOK, CallerInv, Setup
<1>2. SetupInv'
  BY DEF TypeOK, CallerInv, SetupInv, SessionInv, StopInv, Setup, Stopping,
     Cleaning, Alive
<1>3. SessionInv'
  BY DEF TypeOK, CallerInv, SetupInv, SessionInv, StopInv, Setup, Stopping,
     Cleaning, Alive
<1>4. StopInv'
  BY DEF TypeOK, CallerInv, SetupInv, SessionInv, StopInv, Setup, Stopping,
     Cleaning, Alive, Starting
<1>5. OwnershipAccounted'
  BY DEF TypeOK, CallerInv, SetupInv, SessionInv, StopInv, OwnershipAccounted,
     Setup, Stopping, Cleaning, Starting, Alive
<1>6. QuietWhenFree'
  BY DEF TypeOK, CallerInv, SetupInv, SessionInv, StopInv, OwnershipAccounted,
     QuietWhenFree, Setup, Stopping, Cleaning, Starting, Alive
<1>7. QED
  BY <1>1, <1>2, <1>3, <1>4, <1>5, <1>6

-----------------------------------------------------------------------------
(* start_capture.                                                          *)

LEMMA StartClaimsCore ==
  ASSUME NEW c \in Caller, NEW s \in Session, IInv, StartClaims(c, s)
  PROVE  Core'
<1> USE CallerAssumption, SessionAssumption DEF IInv, Core, StartClaims,
   callerVars, ownerVars, fileVars, errorVars, flagVars, Goto, Return,
   DrainerTo, Other
<1>1. CallerInv'
  BY DEF TypeOK, CallerInv, Setup
<1>2. SetupInv'
  BY DEF TypeOK, CallerInv, SetupInv, SessionInv, StopInv, Setup, Stopping,
     Cleaning, Alive
<1>3. SessionInv'
  BY DEF TypeOK, CallerInv, SetupInv, SessionInv, StopInv, Setup, Stopping,
     Cleaning, Alive
<1>4. StopInv'
  BY DEF TypeOK, CallerInv, SetupInv, SessionInv, StopInv, Setup, Stopping,
     Cleaning, Alive, Starting
<1>5. OwnershipAccounted'
  BY DEF TypeOK, CallerInv, SetupInv, SessionInv, StopInv, OwnershipAccounted,
     Setup, Stopping, Cleaning, Starting, Alive
<1>6. QuietWhenFree'
  BY DEF TypeOK, CallerInv, SetupInv, SessionInv, StopInv, OwnershipAccounted,
     QuietWhenFree, Setup, Stopping, Cleaning, Starting, Alive
<1>7. QED
  BY <1>1, <1>2, <1>3, <1>4, <1>5, <1>6

LEMMA ReserveCore ==
  ASSUME NEW c \in Caller, IInv, Reserve(c)
  PROVE  Core'
<1> USE CallerAssumption, SessionAssumption DEF IInv, Core, Reserve,
   callerVars, ownerVars, fileVars, errorVars, flagVars, Goto, Return,
   DrainerTo, Other
<1>1. CallerInv'
  BY DEF TypeOK, CallerInv, Setup
<1>2. SetupInv'
  BY DEF TypeOK, CallerInv, SetupInv, SessionInv, StopInv, Setup, Stopping,
     Cleaning, Alive
<1>3. SessionInv'
  BY DEF TypeOK, CallerInv, SetupInv, SessionInv, StopInv, Setup, Stopping,
     Cleaning, Alive
<1>4. StopInv'
  BY DEF TypeOK, CallerInv, SetupInv, SessionInv, StopInv, Setup, Stopping,
     Cleaning, Alive, Starting
<1>5. OwnershipAccounted'
  BY DEF TypeOK, CallerInv, SetupInv, SessionInv, StopInv, OwnershipAccounted,
     Setup, Stopping, Cleaning, Starting, Alive
<1>6. QuietWhenFree'
  BY DEF TypeOK, CallerInv, SetupInv, SessionInv, StopInv, OwnershipAccounted,
     QuietWhenFree, Setup, Stopping, Cleaning, Starting, Alive
<1>7. QED
  BY <1>1, <1>2, <1>3, <1>4, <1>5, <1>6

LEMMA ReserveFailsCore ==
  ASSUME NEW c \in Caller, IInv, ReserveFails(c)
  PROVE  Core'
<1> USE CallerAssumption, SessionAssumption DEF IInv, Core, ReserveFails,
   ReleaseCapture, callerVars, ownerVars, fileVars, errorVars, flagVars, Goto,
   Return, DrainerTo, Other
<1>1. CallerInv'
  BY DEF TypeOK, CallerInv, Setup
<1>2. SetupInv'
  BY DEF TypeOK, CallerInv, SetupInv, SessionInv, StopInv, Setup, Stopping,
     Cleaning, Alive
<1>3. SessionInv'
  BY DEF TypeOK, CallerInv, SetupInv, SessionInv, StopInv, Setup, Stopping,
     Cleaning, Alive
<1>4. StopInv'
  BY DEF TypeOK, CallerInv, SetupInv, SessionInv, StopInv, Setup, Stopping,
     Cleaning, Alive, Starting
<1>5. OwnershipAccounted'
  BY DEF TypeOK, CallerInv, SetupInv, SessionInv, StopInv, OwnershipAccounted,
     Setup, Stopping, Cleaning, Starting, Alive
<1>6. QuietWhenFree'
  BY DEF TypeOK, CallerInv, SetupInv, SessionInv, StopInv, OwnershipAccounted,
     QuietWhenFree, Setup, Stopping, Cleaning, Starting, Alive
<1>7. QED
  BY <1>1, <1>2, <1>3, <1>4, <1>5, <1>6

LEMMA OpenAnalyzerCore ==
  ASSUME NEW c \in Caller, IInv, OpenAnalyzer(c)
  PROVE  Core'
<1> USE CallerAssumption, SessionAssumption DEF IInv, Core, OpenAnalyzer,
   callerVars, ownerVars, fileVars, errorVars, flagVars, Goto, Return,
   DrainerTo, Other
<1>1. CallerInv'
  BY DEF TypeOK, CallerInv, Setup
<1>2. SetupInv'
  BY DEF TypeOK, CallerInv, SetupInv, SessionInv, StopInv, Setup, Stopping,
     Cleaning, Alive
<1>3. SessionInv'
  BY DEF TypeOK, CallerInv, SetupInv, SessionInv, StopInv, Setup, Stopping,
     Cleaning, Alive
<1>4. StopInv'
  BY DEF TypeOK, CallerInv, SetupInv, SessionInv, StopInv, Setup, Stopping,
     Cleaning, Alive, Starting
<1>5. OwnershipAccounted'
  BY DEF TypeOK, CallerInv, SetupInv, SessionInv, StopInv, OwnershipAccounted,
     Setup, Stopping, Cleaning, Starting, Alive
<1>6. QuietWhenFree'
  BY DEF TypeOK, CallerInv, SetupInv, SessionInv, StopInv, OwnershipAccounted,
     QuietWhenFree, Setup, Stopping, Cleaning, Starting, Alive
<1>7. QED
  BY <1>1, <1>2, <1>3, <1>4, <1>5, <1>6

LEMMA OpenAnalyzerFailsCore ==
  ASSUME NEW c \in Caller, IInv, OpenAnalyzerFails(c)
  PROVE  Core'
<1> USE CallerAssumption, SessionAssumption DEF IInv, Core, OpenAnalyzerFails,
   ReleaseCapture, callerVars, ownerVars, fileVars, errorVars, flagVars, Goto,
   Return, DrainerTo, Other
<1>1. CallerInv'
  BY DEF TypeOK, CallerInv, Setup
<1>2. SetupInv'
  BY DEF TypeOK, CallerInv, SetupInv, SessionInv, StopInv, Setup, Stopping,
     Cleaning, Alive
<1>3. SessionInv'
  BY DEF TypeOK, CallerInv, SetupInv, SessionInv, StopInv, Setup, Stopping,
     Cleaning, Alive
<1>4. StopInv'
  BY DEF TypeOK, CallerInv, SetupInv, SessionInv, StopInv, Setup, Stopping,
     Cleaning, Alive, Starting
<1>5. OwnershipAccounted'
  BY DEF TypeOK, CallerInv, SetupInv, SessionInv, StopInv, OwnershipAccounted,
     Setup, Stopping, Cleaning, Starting, Alive
<1>6. QuietWhenFree'
  BY DEF TypeOK, CallerInv, SetupInv, SessionInv, StopInv, OwnershipAccounted,
     QuietWhenFree, Setup, Stopping, Cleaning, Starting, Alive
<1>7. QED
  BY <1>1, <1>2, <1>3, <1>4, <1>5, <1>6

LEMMA StartThreadCore ==
  ASSUME NEW c \in Caller, IInv, StartThread(c)
  PROVE  Core'
<1> USE CallerAssumption, SessionAssumption DEF IInv, Core, StartThread,
   callerVars, ownerVars, fileVars, errorVars, flagVars, Goto, Return,
   DrainerTo, Other
<1>1. CallerInv'
  BY DEF TypeOK, CallerInv, Setup
<1>2. SetupInv'
  BY DEF TypeOK, CallerInv, SetupInv, SessionInv, StopInv, Setup, Stopping,
     Cleaning, Alive
<1>3. SessionInv'
  BY DEF TypeOK, CallerInv, SetupInv, SessionInv, StopInv, Setup, Stopping,
     Cleaning, Alive
<1>4. StopInv'
  BY DEF TypeOK, CallerInv, SetupInv, SessionInv, StopInv, Setup, Stopping,
     Cleaning, Alive, Starting
<1>5. OwnershipAccounted'
  BY DEF TypeOK, CallerInv, SetupInv, SessionInv, StopInv, OwnershipAccounted,
     Setup, Stopping, Cleaning, Starting, Alive
<1>6. QuietWhenFree'
  BY DEF TypeOK, CallerInv, SetupInv, SessionInv, StopInv, OwnershipAccounted,
     QuietWhenFree, Setup, Stopping, Cleaning, Starting, Alive
<1>7. QED
  BY <1>1, <1>2, <1>3, <1>4, <1>5, <1>6

LEMMA StartThreadFailsCore ==
  ASSUME NEW c \in Caller, IInv, StartThreadFails(c)
  PROVE  Core'
<1> USE CallerAssumption, SessionAssumption DEF IInv, Core, StartThreadFails,
   ReleaseCapture, callerVars, ownerVars, fileVars, errorVars, flagVars, Goto,
   Return, DrainerTo, Other
<1>1. CallerInv'
  BY DEF TypeOK, CallerInv, Setup
<1>2. SetupInv'
  BY DEF TypeOK, CallerInv, SetupInv, SessionInv, StopInv, Setup, Stopping,
     Cleaning, Alive
<1>3. SessionInv'
  BY DEF TypeOK, CallerInv, SetupInv, SessionInv, StopInv, Setup, Stopping,
     Cleaning, Alive
<1>4. StopInv'
  BY DEF TypeOK, CallerInv, SetupInv, SessionInv, StopInv, Setup, Stopping,
     Cleaning, Alive, Starting
<1>5. OwnershipAccounted'
  BY DEF TypeOK, CallerInv, SetupInv, SessionInv, StopInv, OwnershipAccounted,
     Setup, Stopping, Cleaning, Starting, Alive
<1>6. QuietWhenFree'
  BY DEF TypeOK, CallerInv, SetupInv, SessionInv, StopInv, OwnershipAccounted,
     QuietWhenFree, Setup, Stopping, Cleaning, Starting, Alive
<1>7. QED
  BY <1>1, <1>2, <1>3, <1>4, <1>5, <1>6

LEMMA StartThreadAndDisposeFailCore ==
  ASSUME NEW c \in Caller, IInv, StartThreadAndDisposeFail(c)
  PROVE  Core'
<1> USE CallerAssumption, SessionAssumption DEF IInv, Core,
   StartThreadAndDisposeFail, callerVars, ownerVars, fileVars, errorVars,
   flagVars, Goto, Return, DrainerTo, Other
<1>1. CallerInv'
  BY DEF TypeOK, CallerInv, Setup
<1>2. SetupInv'
  BY DEF TypeOK, CallerInv, SetupInv, SessionInv, StopInv, Setup, Stopping,
     Cleaning, Alive
<1>3. SessionInv'
  BY DEF TypeOK, CallerInv, SetupInv, SessionInv, StopInv, Setup, Stopping,
     Cleaning, Alive
<1>4. StopInv'
  BY DEF TypeOK, CallerInv, SetupInv, SessionInv, StopInv, Setup, Stopping,
     Cleaning, Alive, Starting
<1>5. OwnershipAccounted'
  BY DEF TypeOK, CallerInv, SetupInv, SessionInv, StopInv, OwnershipAccounted,
     Setup, Stopping, Cleaning, Starting, Alive
<1>6. QuietWhenFree'
  BY DEF TypeOK, CallerInv, SetupInv, SessionInv, StopInv, OwnershipAccounted,
     QuietWhenFree, Setup, Stopping, Cleaning, Starting, Alive
<1>7. QED
  BY <1>1, <1>2, <1>3, <1>4, <1>5, <1>6

(* Waiting for the drainer to start, outside of _lock. *)
Awaits(c) ==
  /\ pc[c] \in {"awaiting", "failing", "stopping", "joining"}
  /\ \E l \in {"failing", "stopping", "joining", "idle"} : Goto(c, l)
  /\ UNCHANGED <<active, lock, holder, cleanupLock, released, confirmed, dev, dpc,
                 sess>>

LEMMA AwaitsCore ==
  ASSUME NEW c \in Caller, IInv, Awaits(c)
  PROVE  Core'
<1> USE CallerAssumption, SessionAssumption DEF IInv, Core, Awaits, callerVars,
   ownerVars, fileVars, errorVars, flagVars, Goto, Return, DrainerTo, Other
<1>1. CallerInv'
  BY DEF TypeOK, CallerInv, Setup
<1>2. SetupInv'
  BY DEF TypeOK, CallerInv, SetupInv, SessionInv, StopInv, Setup, Stopping,
     Cleaning, Alive
<1>3. SessionInv'
  BY DEF TypeOK, CallerInv, SetupInv, SessionInv, StopInv, Setup, Stopping,
     Cleaning, Alive
<1>4. StopInv'
  BY DEF TypeOK, CallerInv, SetupInv, SessionInv, StopInv, Setup, Stopping,
     Cleaning, Alive, Starting
<1>5. OwnershipAccounted'
  BY DEF TypeOK, CallerInv, SetupInv, SessionInv, StopInv, OwnershipAccounted,
     Setup, Stopping, Cleaning, Starting, Alive
<1>6. QuietWhenFree'
  BY DEF TypeOK, CallerInv, SetupInv, SessionInv, StopInv, OwnershipAccounted,
     QuietWhenFree, Setup, Stopping, Cleaning, Starting, Alive
<1>7. QED
  BY <1>1, <1>2, <1>3, <1>4, <1>5, <1>6

-----------------------------------------------------------------------------
(* stop_capture.                                                           *)

LEMMA StopRequestCore ==
  ASSUME NEW c \in Caller, IInv, StopRequest(c)
  PROVE  Core'
<1> USE CallerAssumption, SessionAssumption DEF IInv, Core, StopRequest,
   callerVars, ownerVars, fileVars, errorVars, flagVars, Goto, Return,
   DrainerTo, Other
<1>1. CallerInv'
  BY DEF TypeOK, CallerInv, Setup
<1>2. SetupInv'
  BY DEF TypeOK, CallerInv, SetupInv, SessionInv, StopInv, Setup, Stopping,
     Cleaning, Alive
<1>3. SessionInv'
  BY DEF TypeOK, CallerInv, SetupInv, SessionInv, StopInv, Setup, Stopping,
     Cleaning, Alive
<1>4. StopInv'
  BY DEF TypeOK, CallerInv, SetupInv, SessionInv, StopInv, Setup, Stopping,
     Cleaning, Alive, Starting
<1>5. OwnershipAccounted'
  BY DEF TypeOK, CallerInv, SetupInv, SessionInv, StopInv, OwnershipAccounted,
     Setup, Stopping, Cleaning, Starting, Alive
<1>6. QuietWhenFree'
  BY DEF TypeOK, CallerInv, SetupInv, SessionInv, StopInv, OwnershipAccounted,
     QuietWhenFree, Setup, Stopping, Cleaning, Starting, Alive
<1>7. QED
  BY <1>1, <1>2, <1>3, <1>4, <1>5, <1>6

LEMMA StopLocksCore ==
  ASSUME NEW c \in Caller, IInv, StopLocks(c)
  PROVE  Core'
<1> USE CallerAssumption, SessionAssumption DEF IInv, Core, StopLocks,
   callerVars, ownerVars, fileVars, errorVars, flagVars, Goto, Return,
   DrainerTo, Other
<1>1. CallerInv'
  BY DEF TypeOK, CallerInv, Setup
<1>2. SetupInv'
  BY DEF TypeOK, CallerInv, SetupInv, SessionInv, StopInv, Setup, Stopping,
     Cleaning, Alive
<1>3. SessionInv'
  BY DEF TypeOK, CallerInv, SetupInv, SessionInv, StopInv, Setup, Stopping,
     Cleaning, Alive
<1>4. StopInv'
  BY DEF TypeOK, CallerInv, SetupInv, SessionInv, StopInv, Setup, Stopping,
     Cleaning, Alive, Starting
<1>5. OwnershipAccounted'
  BY DEF TypeOK, CallerInv, SetupInv, SessionInv, StopInv, OwnershipAccounted,
     Setup, Stopping, Cleaning, Starting, Alive
<1>6. QuietWhenFree'
  BY DEF TypeOK, CallerInv, SetupInv, SessionInv, StopInv, OwnershipAccounted,
     QuietWhenFree, Setup, Stopping, Cleaning, Starting, Alive
<1>7. QED
  BY <1>1, <1>2, <1>3, <1>4, <1>5, <1>6

LEMMA StopTimesOutCore ==
  ASSUME NEW c \in Caller, IInv, StopTimesOut(c)
  PROVE  Core'
<1> USE CallerAssumption, SessionAssumption DEF IInv, Core, StopTimesOut,
   StopEnds, callerVars, ownerVars, fileVars, errorVars, flagVars, Goto,
   Return, DrainerTo, Other
<1>1. CallerInv'
  BY DEF TypeOK, CallerInv, Setup
<1>2. SetupInv'
  BY DEF TypeOK, CallerInv, SetupInv, SessionInv, StopInv, Setup, Stopping,
     Cleaning, Alive
<1>3. SessionInv'
  BY DEF TypeOK, CallerInv, SetupInv, SessionInv, StopInv, Setup, Stopping,
     Cleaning, Alive
<1>4. StopInv'
  BY DEF TypeOK, CallerInv, SetupInv, SessionInv, StopInv, Setup, Stopping,
     Cleaning, Alive, Starting
<1>5. OwnershipAccounted'
  BY DEF TypeOK, CallerInv, SetupInv, SessionInv, StopInv, OwnershipAccounted,
     Setup, Stopping, Cleaning, Starting, Alive
<1>6. QuietWhenFree'
  BY DEF TypeOK, CallerInv, SetupInv, SessionInv, StopInv, OwnershipAccounted,
     QuietWhenFree, Setup, Stopping, Cleaning, Starting, Alive
<1>7. QED
  BY <1>1, <1>2, <1>3, <1>4, <1>5, <1>6

LEMMA StopJoinsCore ==
  ASSUME NEW c \in Caller, IInv, StopJoins(c)
  PROVE  Core'
<1> USE CallerAssumption, SessionAssumption DEF IInv, Core, StopJoins,
   callerVars, ownerVars, fileVars, errorVars, flagVars, Goto, Return,
   DrainerTo, Other
<1>1. CallerInv'
  BY DEF TypeOK, CallerInv, Setup
<1>2. SetupInv'
  BY DEF TypeOK, CallerInv, SetupInv, SessionInv, StopInv, Setup, Stopping,
     Cleaning, Alive
<1>3. SessionInv'
  BY DEF TypeOK, CallerInv, SetupInv, SessionInv, StopInv, Setup, Stopping,
     Cleaning, Alive
<1>4. StopInv'
  BY DEF TypeOK, CallerInv, SetupInv, SessionInv, StopInv, Setup, Stopping,
     Cleaning, Alive, Starting
<1>5. OwnershipAccounted'
  BY DEF TypeOK, CallerInv, SetupInv, SessionInv, StopInv, OwnershipAccounted,
     Setup, Stopping, Cleaning, Starting, Alive
<1>6. QuietWhenFree'
  BY DEF TypeOK, CallerInv, SetupInv, SessionInv, StopInv, OwnershipAccounted,
     QuietWhenFree, Setup, Stopping, Cleaning, Starting, Alive
<1>7. QED
  BY <1>1, <1>2, <1>3, <1>4, <1>5, <1>6

LEMMA StopDisablesCore ==
  ASSUME NEW c \in Caller, IInv, StopDisables(c)
  PROVE  Core'
<1> USE CallerAssumption, SessionAssumption DEF IInv, Core, StopDisables,
   callerVars, ownerVars, fileVars, errorVars, flagVars, Goto, Return,
   DrainerTo, Other
<1>1. CallerInv'
  BY DEF TypeOK, CallerInv, Setup
<1>2. SetupInv'
  BY DEF TypeOK, CallerInv, SetupInv, SessionInv, StopInv, Setup, Stopping,
     Cleaning, Alive
<1>3. SessionInv'
  BY DEF TypeOK, CallerInv, SetupInv, SessionInv, StopInv, Setup, Stopping,
     Cleaning, Alive
<1>4. StopInv'
  BY DEF TypeOK, CallerInv, SetupInv, SessionInv, StopInv, Setup, Stopping,
     Cleaning, Alive, Starting
<1>5. OwnershipAccounted'
  BY DEF TypeOK, CallerInv, SetupInv, SessionInv, StopInv, OwnershipAccounted,
     Setup, Stopping, Cleaning, Starting, Alive
<1>6. QuietWhenFree'
  BY DEF TypeOK, CallerInv, SetupInv, SessionInv, StopInv, OwnershipAccounted,
     QuietWhenFree, Setup, Stopping, Cleaning, Starting, Alive
<1>7. QED
  BY <1>1, <1>2, <1>3, <1>4, <1>5, <1>6

LEMMA StopDisposesCore ==
  ASSUME NEW c \in Caller, IInv, StopDisposes(c)
  PROVE  Core'
<1> USE CallerAssumption, SessionAssumption DEF IInv, Core, StopDisposes,
   callerVars, ownerVars, fileVars, errorVars, flagVars, Goto, Return,
   DrainerTo, Other
<1>1. CallerInv'
  BY DEF TypeOK, CallerInv, Setup
<1>2. SetupInv'
  BY DEF TypeOK, CallerInv, SetupInv, SessionInv, StopInv, Setup, Stopping,
     Cleaning, Alive
<1>3. SessionInv'
  BY DEF TypeOK, CallerInv, SetupInv, SessionInv, StopInv, Setup, Stopping,
     Cleaning, Alive
<1>4. StopInv'
  BY DEF TypeOK, CallerInv, SetupInv, SessionInv, StopInv, Setup, Stopping,
     Cleaning, Alive, Starting
<1>5. OwnershipAccounted'
  BY DEF TypeOK, CallerInv, SetupInv, SessionInv, StopInv, OwnershipAccounted,
     Setup, Stopping, Cleaning, Starting, Alive
<1>6. QuietWhenFree'
  BY DEF TypeOK, CallerInv, SetupInv, SessionInv, StopInv, OwnershipAccounted,
     QuietWhenFree, Setup, Stopping, Cleaning, Starting, Alive
<1>7. QED
  BY <1>1, <1>2, <1>3, <1>4, <1>5, <1>6

LEMMA StopCleanupFailsCore ==
  ASSUME NEW c \in Caller, IInv, StopCleanupFails(c)
  PROVE  Core'
<1> USE CallerAssumption, SessionAssumption DEF IInv, Core, StopCleanupFails,
   StopEnds, callerVars, ownerVars, fileVars, errorVars, flagVars, Goto,
   Return, DrainerTo, Other
<1>1. CallerInv'
  BY DEF TypeOK, CallerInv, Setup
<1>2. SetupInv'
  BY DEF TypeOK, CallerInv, SetupInv, SessionInv, StopInv, Setup, Stopping,
     Cleaning, Alive
<1>3. SessionInv'
  BY DEF TypeOK, CallerInv, SetupInv, SessionInv, StopInv, Setup, Stopping,
     Cleaning, Alive
<1>4. StopInv'
  BY DEF TypeOK, CallerInv, SetupInv, SessionInv, StopInv, Setup, Stopping,
     Cleaning, Alive, Starting
<1>5. OwnershipAccounted'
  BY DEF TypeOK, CallerInv, SetupInv, SessionInv, StopInv, OwnershipAccounted,
     Setup, Stopping, Cleaning, Starting, Alive
<1>6. QuietWhenFree'
  BY DEF TypeOK, CallerInv, SetupInv, SessionInv, StopInv, OwnershipAccounted,
     QuietWhenFree, Setup, Stopping, Cleaning, Starting, Alive
<1>7. QED
  BY <1>1, <1>2, <1>3, <1>4, <1>5, <1>6

LEMMA StopConfirmsCore ==
  ASSUME NEW c \in Caller, IInv, StopConfirms(c)
  PROVE  Core'
<1> USE CallerAssumption, SessionAssumption DEF IInv, Core, StopConfirms,
   callerVars, ownerVars, fileVars, errorVars, flagVars, Goto, Return,
   DrainerTo, Other
<1>1. CallerInv'
  BY DEF TypeOK, CallerInv, Setup
<1>2. SetupInv'
  BY DEF TypeOK, CallerInv, SetupInv, SessionInv, StopInv, Setup, Stopping,
     Cleaning, Alive, Starting
<1>3. SessionInv'
  BY DEF TypeOK, CallerInv, SetupInv, SessionInv, StopInv, Setup, Stopping,
     Cleaning, Alive
<1>4. StopInv'
  BY DEF TypeOK, CallerInv, SetupInv, SessionInv, StopInv, Setup, Stopping,
     Cleaning, Alive, Starting
<1>5. OwnershipAccounted'
  BY DEF TypeOK, CallerInv, SetupInv, SessionInv, StopInv, OwnershipAccounted,
     Setup, Stopping, Cleaning, Starting, Alive
<1>6. QuietWhenFree'
  BY DEF TypeOK, CallerInv, SetupInv, SessionInv, StopInv, OwnershipAccounted,
     QuietWhenFree, Setup, Stopping, Cleaning, Starting, Alive
<1>7. QED
  BY <1>1, <1>2, <1>3, <1>4, <1>5, <1>6

LEMMA StopReleasesCore ==
  ASSUME NEW c \in Caller, IInv, StopReleases(c)
  PROVE  Core'
<1> USE CallerAssumption, SessionAssumption DEF IInv, Core, StopReleases,
   ReleaseOwnership, ReleaseCapture, callerVars, ownerVars, fileVars,
   errorVars, flagVars, Goto, Return, DrainerTo, Other
<1>1. CallerInv'
  BY DEF TypeOK, CallerInv, Setup
<1>2. SetupInv'
  BY DEF TypeOK, CallerInv, SetupInv, SessionInv, StopInv, Setup, Stopping,
     Cleaning, Alive
<1>3. SessionInv'
  BY DEF TypeOK, CallerInv, SetupInv, SessionInv, StopInv, Setup, Stopping,
     Cleaning, Alive
<1>4. StopInv'
  BY DEF TypeOK, CallerInv, SetupInv, SessionInv, StopInv, Setup, Stopping,
     Cleaning, Alive, Starting
<1>5. OwnershipAccounted'
  BY DEF TypeOK, CallerInv, SetupInv, SessionInv, StopInv, OwnershipAccounted,
     Setup, Stopping, Cleaning, Starting, Alive
<1>6. QuietWhenFree'
  BY DEF TypeOK, CallerInv, SetupInv, SessionInv, StopInv, OwnershipAccounted,
     QuietWhenFree, Setup, Stopping, Cleaning, Starting, Alive
<1>7. QED
  BY <1>1, <1>2, <1>3, <1>4, <1>5, <1>6

LEMMA StopReturnsCore ==
  ASSUME NEW c \in Caller, IInv, StopReturns(c)
  PROVE  Core'
<1> USE CallerAssumption, SessionAssumption DEF IInv, Core, StopReturns,
   StopEnds, callerVars, ownerVars, fileVars, errorVars, flagVars, Goto,
   Return, DrainerTo, Other
<1>1. CallerInv'
  BY DEF TypeOK, CallerInv, Setup
<1>2. SetupInv'
  BY DEF TypeOK, CallerInv, SetupInv, SessionInv, StopInv, Setup, Stopping,
     Cleaning, Alive
<1>3. SessionInv'
  BY DEF TypeOK, CallerInv, SetupInv, SessionInv, StopInv, Setup, Stopping,
     Cleaning, Alive
<1>4. StopInv'
  BY DEF TypeOK, CallerInv, SetupInv, SessionInv, StopInv, Setup, Stopping,
     Cleaning, Alive, Starting
<1>5. OwnershipAccounted'
  BY DEF TypeOK, CallerInv, SetupInv, SessionInv, StopInv, OwnershipAccounted,
     Setup, Stopping, Cleaning, Starting, Alive
<1>6. QuietWhenFree'
  BY DEF TypeOK, CallerInv, SetupInv, SessionInv, StopInv, OwnershipAccounted,
     QuietWhenFree, Setup, Stopping, Cleaning, Starting, Alive
<1>7. QED
  BY <1>1, <1>2, <1>3, <1>4, <1>5, <1>6

-----------------------------------------------------------------------------
(* The other users of the hardware.                                        *)

LEMMA StatusBeginsCore ==
  ASSUME NEW c \in Caller, IInv, StatusBegins(c)
  PROVE  Core'
<1> USE CallerAssumption, SessionAssumption DEF IInv, Core, StatusBegins,
   callerVars, ownerVars, fileVars, errorVars, flagVars, Goto, Return,
   DrainerTo, Other
<1>1. CallerInv'
  BY DEF TypeOK, CallerInv, Setup
<1>2. SetupInv'
  BY DEF TypeOK, CallerInv, SetupInv, SessionInv, StopInv, Setup, Stopping,
     Cleaning, Alive
<1>3. SessionInv'
  BY DEF TypeOK, CallerInv, SetupInv, SessionInv, StopInv, Setup, Stopping,
     Cleaning, Alive
<1>4. StopInv'
  BY DEF TypeOK, CallerInv, SetupInv, SessionInv, StopInv, Setup, Stopping,
     Cleaning, Alive, Starting
<1>5. OwnershipAccounted'
  BY DEF TypeOK, CallerInv, SetupInv, SessionInv, StopInv, OwnershipAccounted,
     Setup, Stopping, Cleaning, Starting, Alive
<1>6. QuietWhenFree'
  BY DEF TypeOK, CallerInv, SetupInv, SessionInv, StopInv, OwnershipAccounted,
     QuietWhenFree, Setup, Stopping, Cleaning, Starting, Alive
<1>7. QED
  BY <1>1, <1>2, <1>3, <1>4, <1>5, <1>6

LEMMA StatusEndsCore ==
  ASSUME NEW c \in Caller, IInv, StatusEnds(c)
  PROVE  Core'
<1> USE CallerAssumption, SessionAssumption DEF IInv, Core, StatusEnds,
   callerVars, ownerVars, fileVars, errorVars, flagVars, Goto, Return,
   DrainerTo, Other
<1>1. CallerInv'
  BY DEF TypeOK, CallerInv, Setup
<1>2. SetupInv'
  BY DEF TypeOK, CallerInv, SetupInv, SessionInv, StopInv, Setup, Stopping,
     Cleaning, Alive
<1>3. SessionInv'
  BY DEF TypeOK, CallerInv, SetupInv, SessionInv, StopInv, Setup, Stopping,
     Cleaning, Alive
<1>4. StopInv'
  BY DEF TypeOK, CallerInv, SetupInv, SessionInv, StopInv, Setup, Stopping,
     Cleaning, Alive, Starting
<1>5. OwnershipAccounted'
  BY DEF TypeOK, CallerInv, SetupInv, SessionInv, StopInv, OwnershipAccounted,
     Setup, Stopping, Cleaning, Starting, Alive
<1>6. QuietWhenFree'
  BY DEF TypeOK, CallerInv, SetupInv, SessionInv, StopInv, OwnershipAccounted,
     QuietWhenFree, Setup, Stopping, Cleaning, Starting, Alive
<1>7. QED
  BY <1>1, <1>2, <1>3, <1>4, <1>5, <1>6

LEMMA ElsewhereCore ==
  ASSUME IInv, ElsewhereBegins \/ ElsewhereEnds
  PROVE  Core'
<1> USE CallerAssumption, SessionAssumption DEF IInv, Core, ElsewhereBegins,
   ElsewhereEnds, callerVars, ownerVars, fileVars, errorVars, flagVars, Goto,
   Return, DrainerTo, Other
<1>1. CallerInv'
  BY DEF TypeOK, CallerInv, Setup
<1>2. SetupInv'
  BY DEF TypeOK, CallerInv, SetupInv, SessionInv, StopInv, Setup, Stopping,
     Cleaning, Alive
<1>3. SessionInv'
  BY DEF TypeOK, CallerInv, SetupInv, SessionInv, StopInv, Setup, Stopping,
     Cleaning, Alive
<1>4. StopInv'
  BY DEF TypeOK, CallerInv, SetupInv, SessionInv, StopInv, Setup, Stopping,
     Cleaning, Alive, Starting
<1>5. OwnershipAccounted'
  BY DEF TypeOK, CallerInv, SetupInv, SessionInv, StopInv, OwnershipAccounted,
     Setup, Stopping, Cleaning, Starting, Alive
<1>6. QuietWhenFree'
  BY DEF TypeOK, CallerInv, SetupInv, SessionInv, StopInv, OwnershipAccounted,
     QuietWhenFree, Setup, Stopping, Cleaning, Starting, Alive
<1>7. QED
  BY <1>1, <1>2, <1>3, <1>4, <1>5, <1>6

-----------------------------------------------------------------------------
(* Every step keeps Core.                                                  *)

LEMMA DrainCore ==
  ASSUME NEW s \in Session, IInv, DrainStep(s)
  PROVE  Core'
<1>1. Works(s)
  <2> USE DEF IInv, TypeOK, Core, SessionInv, Alive, Works, Working, DrainerTo,
          callerVars, ownerVars, flagVars
  <2>0. dev = [dev EXCEPT ![s] = dev[s]]
    OBVIOUS
  <2>1. CASE Enable(s)
    BY <2>0, <2>1 DEF Enable
  <2>2. CASE EnableFails(s)
    BY <2>0, <2>2 DEF EnableFails
  <2>3. CASE SeeStop(s)
    BY <2>0, <2>3 DEF SeeStop
  <2>4. CASE ReachDuration(s)
    BY <2>0, <2>4 DEF ReachDuration
  <2>5. CASE GoOn(s)
    BY <2>0, <2>5 DEF GoOn
  <2>6. CASE Read(s)
    BY <2>0, <2>6 DEF Read
  <2>7. CASE ReadNothing(s)
    BY <2>0, <2>7 DEF ReadNothing
  <2>8. CASE ReadFails(s)
    BY <2>0, <2>8 DEF ReadFails
  <2>9. CASE AssignLimit(s)
    BY <2>0, <2>9 DEF AssignLimit
  <2>10. CASE Flush(s)
    BY <2>0, <2>10 DEF Flush
  <2>11. CASE FlushFails(s)
    BY <2>0, <2>11 DEF FlushFails
  <2>12. CASE AssignFault(s)
    BY <2>0, <2>12 DEF AssignFault
  <2> QED
    BY <2>1, <2>2, <2>3, <2>4, <2>5, <2>6, <2>7, <2>8, <2>9, <2>10, <2>11,
       <2>12 DEF DrainStep
<1> QED
  BY <1>1, WorksCore

LEMMA EndCore ==
  ASSUME NEW s \in Session, IInv, EndStep(s)
  PROVE  Core'
<1>1. CASE Exit(s)
  BY <1>1, ExitCore
<1>2. CASE Confirm(s)
  BY <1>2, ConfirmCore
<1>3. CASE Finish(s)
  <2>1. CASE s \in confirmed
    BY <1>3, <2>1, FinishCore
  <2>2. CASE s \notin confirmed
    <3>1. dev = [dev EXCEPT ![s] = dev[s]]
      BY DEF IInv, TypeOK
    <3>2. Works(s)
      BY <1>3, <2>2, <3>1
         DEF IInv, TypeOK, Works, Working, DrainerTo, callerVars, Finish
    <3> QED
      BY <3>2, WorksCore
  <2> QED
    BY <2>1, <2>2
<1>4. CASE Release(s)
  BY <1>4, ReleaseCore
<1>5. CASE ~(Exit(s) \/ Confirm(s) \/ Finish(s) \/ Release(s))
  <2> USE DEF IInv, TypeOK, Core, SessionInv, Alive, Works, Working, DrainerTo,
          callerVars, ownerVars, flagVars
  <2>0. dev = [dev EXCEPT ![s] = dev[s]]
    OBVIOUS
  <2>1. CASE Disable(s)
    <3>1. Works(s)
      BY <2>0, <2>1 DEF Disable
    <3> QED
      BY <3>1, WorksCore
  <2>2. CASE DisableFails(s)
    <3>1. Works(s)
      BY <2>0, <2>2 DEF DisableFails
    <3> QED
      BY <3>1, WorksCore
  <2>3. CASE Dispose(s)
    <3>1. Works(s)
      BY <2>0, <2>3 DEF Dispose
    <3> QED
      BY <3>1, WorksCore
  <2>4. CASE DisposeFails(s)
    <3>1. Works(s)
      BY <2>0, <2>4 DEF DisposeFails
    <3> QED
      BY <3>1, WorksCore
  <2>5. CASE Publish(s)
    <3>1. Works(s)
      BY <2>0, <2>5 DEF Publish
    <3> QED
      BY <3>1, WorksCore
  <2>6. CASE PublishFails(s)
    <3>1. Works(s)
      BY <2>0, <2>6 DEF PublishFails
    <3> QED
      BY <3>1, WorksCore
  <2>7. CASE Discard(s)
    <3>1. Works(s)
      BY <2>0, <2>7 DEF Discard
    <3> QED
      BY <3>1, WorksCore
  <2>8. CASE DiscardFails(s)
    <3>1. Works(s)
      BY <2>0, <2>8 DEF DiscardFails
    <3> QED
      BY <3>1, WorksCore
  <2>9. CASE AssignCleanupError(s)
    <3>1. Works(s)
      BY <2>0, <2>9 DEF AssignCleanupError
    <3> QED
      BY <3>1, WorksCore
  <2>10. CASE Drop(s)
    <3>1. Works(s)
      BY <2>0, <2>10 DEF Drop
    <3> QED
      BY <3>1, WorksCore
  <2> QED
    BY <1>5, <2>1, <2>2, <2>3, <2>4, <2>5, <2>6, <2>7, <2>8, <2>9,
       <2>10 DEF EndStep
<1> QED
  BY <1>1, <1>2, <1>3, <1>4, <1>5

LEMMA StartCore ==
  ASSUME NEW c \in Caller, IInv, StartStep(c)
  PROVE  Core'
<1>1. CASE Reserve(c)
  BY <1>1, ReserveCore
<1>2. CASE ReserveFails(c)
  BY <1>2, ReserveFailsCore
<1>3. CASE OpenAnalyzer(c)
  BY <1>3, OpenAnalyzerCore
<1>4. CASE OpenAnalyzerFails(c)
  BY <1>4, OpenAnalyzerFailsCore
<1>5. CASE StartThread(c)
  BY <1>5, StartThreadCore
<1>6. CASE StartThreadFails(c)
  BY <1>6, StartThreadFailsCore
<1>7. CASE StartThreadAndDisposeFail(c)
  BY <1>7, StartThreadAndDisposeFailCore
<1>8. CASE \/ StartReturns(c) \/ StartGivesUp(c) \/ AssignStartError(c)
           \/ StopFailedStart(c) \/ StartRaises(c)
  <2>1. Awaits(c)
    BY <1>8 DEF StartReturns, StartGivesUp, AssignStartError, StopFailedStart,
       StartRaises, Awaits, Goto, Return, ownerVars, flagVars
  <2> QED
    BY <2>1, AwaitsCore
<1> QED
  BY <1>1, <1>2, <1>3, <1>4, <1>5, <1>6, <1>7, <1>8 DEF StartStep

LEMMA StopCore ==
  ASSUME NEW c \in Caller, IInv, StopStep(c)
  PROVE  Core'
<1>1. CASE StopLocks(c)
  BY <1>1, StopLocksCore
<1>2. CASE StopTimesOut(c)
  BY <1>2, StopTimesOutCore
<1>3. CASE StopJoins(c)
  BY <1>3, StopJoinsCore
<1>4. CASE StopDisables(c)
  BY <1>4, StopDisablesCore
<1>5. CASE StopDisposes(c)
  BY <1>5, StopDisposesCore
<1>6. CASE StopCleanupFails(c)
  BY <1>6, StopCleanupFailsCore
<1>7. CASE StopConfirms(c)
  BY <1>7, StopConfirmsCore
<1>8. CASE StopReleases(c)
  BY <1>8, StopReleasesCore
<1>9. CASE StopReturns(c)
  BY <1>9, StopReturnsCore
<1> QED
  BY <1>1, <1>2, <1>3, <1>4, <1>5, <1>6, <1>7, <1>8, <1>9 DEF StopStep

-----------------------------------------------------------------------------
(* The inductive invariant, and the properties it gives.                   *)

LEMMA InitIInv == Init => IInv
<1> SUFFICES ASSUME Init PROVE IInv
  OBVIOUS
<1> USE CallerAssumption, SessionAssumption, BytesAssumption DEF Init
<1>1. TypeOK
  BY DEF TypeOK, DrainerLocation, CallerLocation, Reply
<1>2. CallerInv /\ SetupInv /\ StopInv
  BY DEF CallerInv, SetupInv, StopInv, Setup, Stopping, Cleaning
<1>3. SessionInv
  BY DEF SessionInv, Alive
<1>4. OwnershipAccounted /\ QuietWhenFree
  BY DEF OwnershipAccounted, QuietWhenFree, Starting
<1> QED
  BY <1>1, <1>2, <1>3, <1>4 DEF IInv, Core

LEMMA NextIInv == IInv /\ [Next]_vars => IInv'
<1> SUFFICES ASSUME IInv, [Next]_vars PROVE IInv'
  OBVIOUS
<1>0. TypeOK /\ CallerInv
  BY DEF IInv, Core
<1>1. CASE \E c \in Caller, s \in Session : StartClaims(c, s)
  BY <1>0, <1>1, OtherTypes, StartClaimsCore DEF IInv
<1>2. CASE \E c \in Caller : StopRequest(c) \/ StatusBegins(c) \/ StatusEnds(c)
  <2>1. TypeOK'
    BY <1>0, <1>2, OtherTypes
  <2>2. Core'
    BY <1>2, StopRequestCore, StatusBeginsCore, StatusEndsCore
  <2> QED
    BY <2>1, <2>2 DEF IInv
<1>3. CASE \E c \in Caller : StartStep(c)
  BY <1>0, <1>3, StartTypes, StartCore DEF IInv
<1>4. CASE \E c \in Caller : StopStep(c)
  BY <1>0, <1>4, StopTypes, StopCore DEF IInv
<1>5. CASE \E s \in Session : DrainStep(s)
  BY <1>0, <1>5, DrainTypes, DrainCore DEF IInv
<1>6. CASE \E s \in Session : EndStep(s)
  BY <1>0, <1>6, EndTypes, EndCore DEF IInv
<1>7. CASE ElsewhereBegins \/ ElsewhereEnds
  <2>1. TypeOK'
    BY <1>0, <1>7, OtherTypes
  <2>2. Core'
    BY <1>7, ElsewhereCore
  <2> QED
    BY <2>1, <2>2 DEF IInv
<1>8. CASE UNCHANGED vars
  BY <1>8 DEF IInv, Core, TypeOK, CallerInv, SetupInv, SessionInv, StopInv,
     OwnershipAccounted, QuietWhenFree, Starting, Alive, vars, callerVars,
     ownerVars, fileVars, errorVars, flagVars
<1> QED
  BY <1>1, <1>2, <1>3, <1>4, <1>5, <1>6, <1>7, <1>8 DEF Next

(* The inductive invariant holds in every reachable state.                 *)
THEOREM Invariance == Spec => []IInv
<1> QED
  BY InitIInv, NextIInv, PTL DEF Spec

(* Every variable of the capture module keeps its type, however many       *)
(* callers and sessions there are: the sessions' fields, the module state  *)
(* and the positions of the calls and drainers (capture.py:76-107).        *)
THEOREM TypeCorrect == Spec => []TypeOK
<1>1. IInv => TypeOK
  BY DEF IInv
<1> QED
  BY Invariance, <1>1, PTL

(* The claim on the hardware is held for a session exactly as long as it   *)
(* is set up or active: no path of start_capture, of the drainer or of     *)
(* capture_stop leaks it or lets go of it too early.                       *)
THEOREM OwnershipIsAccounted == Spec => []OwnershipAccounted
<1>1. IInv => OwnershipAccounted
  BY DEF IInv, Core
<1> QED
  BY Invariance, <1>1, PTL

(* Nobody else owns the hardware while a session's device is not disposed  *)
(* of, whatever clean-up failed and however often it was tried.            *)
THEOREM HardwareIsQuietWhenFree == Spec => []QuietWhenFree
<1>1. IInv => QuietWhenFree
  BY DEF IInv, Core
<1> QED
  BY Invariance, <1>1, PTL

(* capture_stop never touches the device next to the drainer or to another *)
(* stop, nor after it was disposed of.                                     *)
THEOREM StopIsSoleUser == Spec => []SoleUsbUser
<1>1. IInv => SoleUsbUser
  <2> SUFFICES ASSUME IInv,
                      NEW c \in Caller, pc[c] \in {"stop_disabling", "stop_disposing"}
               PROVE  /\ ~Alive(sess[c])
                      /\ dev[sess[c]] # "closed"
                      /\ holder = sess[c]
                      /\ \A d \in Caller \ {c} :
                           pc[d] \in {"stop_disabling", "stop_disposing"} =>
                             sess[d] # sess[c]
    BY DEF SoleUsbUser
  <2> USE DEF IInv, Core
  <2>1. sess[c] \in Session
    BY DEF CallerInv
  <2>2. /\ ~Alive(sess[c])
        /\ dev[sess[c]] # "closed"
        /\ cleanupLock[sess[c]] = c
    BY DEF StopInv, Stopping, Cleaning
  <2>3. holder = sess[c]
    BY <2>1, <2>2 DEF QuietWhenFree
  <2>4. ASSUME NEW d \in Caller \ {c},
               pc[d] \in {"stop_disabling", "stop_disposing"}
        PROVE  sess[d] # sess[c]
    BY <2>2, <2>4 DEF StopInv, Stopping, Cleaning
  <2> QED
    BY <2>2, <2>3, <2>4
<1> QED
  BY Invariance, <1>1, PTL

=============================================================================
