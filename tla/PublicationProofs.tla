-------------------------- MODULE PublicationProofs --------------------------
(***************************************************************************)
(* Proofs about CaptureSession, for every set of callers and sessions:     *)
(* which recordings get their final name, what a stop may report of them,  *)
(* and what capture_status shows of a capture that is over.                *)
(*                                                                         *)
(* Outcome is inductive next to IInv of CaptureSessionProofs.  Its parts   *)
(* follow the error that the drainer is about to write, the verdict        *)
(* `clean', the names on the disk, the flags that make a session terminal, *)
(* and the calls that rely on them.                                        *)
(*                                                                         *)
(* From both follows that CaptureSession implements CaptureContract: its   *)
(* initial states map to the contract's, and every step to one of the      *)
(* contract's actions or to a stutter.                                     *)
(***************************************************************************)
EXTENDS CaptureSessionProofs

Setting == {"unused", "none", "enabling", "checking", "reading"}
Before == Setting \cup {"limiting", "flushing", "faulting"}
Decided == {"confirming", "finishing", "releasing", "exiting", "dead"}
\* How a capture ends, with or without a drainer.
Ended == {"none", "releasing", "exiting", "dead"}
Started == {"awaiting", "failing", "stopping", "joining"}

\* The drainer writes the error e, unless there is one already.
Pending(s, e) == pend[s] = e \/ (pend[s] = "none" /\ err[s] # "none")

\* What the drainer is about to write: an error, unless there is one already.
PendInv ==
  \A s \in Session :
    /\ dpc[s] = "limiting" => Pending(s, "limit")
    /\ dpc[s] = "faulting" => Pending(s, "io")
    /\ dpc[s] = "abandoning" => Pending(s, "cleanup")
    /\ dpc[s] = "confirming" => pend[s] \in {"publish", "none"}
    /\ dpc[s] \notin {"limiting", "faulting", "abandoning", "confirming"} =>
         pend[s] = "none"

\* `clean' is a verdict on how the capture ended.
CleanInv ==
  \A s \in Session :
    /\ dpc[s] \in Setting => bytes[s] < MaxBytes
    /\ dpc[s] = "flushing" =>
         err[s] # "none" \/ (s \in stopped /\ bytes[s] < MaxBytes)
    /\ s \in clean =>
         /\ dpc[s] \notin Before
         /\ s \in stopped /\ bytes[s] < MaxBytes
         /\ err[s] \notin {"limit", "io"}
    /\ s \notin clean /\ dpc[s] \notin Before => err[s] # "none"
    /\ dpc[s] = "unused" => err[s] = "none"
    /\ err[s] = "cleanup" =>
         dpc[s] \in {"none", "dropping", "finishing"} \cup Ended

\* What has got its final name, and when it must have.
DiskInv ==
  \A s \in Session :
    /\ "bin" \in disk[s] =>
         /\ s \in clean
         /\ dpc[s] \in Decided
         /\ err[s] # "cleanup"
         /\ dpc[s] # "confirming" => s \in confirmed
    /\ dpc[s] \in Decided /\ err[s] = "none" /\ pend[s] = "none" =>
         disk[s] = {"bin"}

DoneInv ==
  \A s \in Session :
    /\ dpc[s] \in {"releasing", "exiting", "dead"} => s \in finished
    /\ s \in finished =>
         /\ dpc[s] \in Ended
         /\ dpc[s] = "none" => err[s] # "none" /\ (s \in confirmed \/ active = s)
    /\ \/ dpc[s] = "dropping"
       \/ dpc[s] \in {"finishing", "exiting", "dead"} /\ s \notin confirmed
       => err[s] # "none"
    /\ dpc[s] = "dead" /\ err[s] = "none" => active # s
    /\ s \in confirmed => dev[s] = "closed"
    /\ active = s /\ dpc[s] \in Ended =>
         Starting(s) \/ (s \in finished /\ last = s)

\* The outcome that a stop may report.
Saved(s) ==
  /\ dpc[s] = "dead"
  /\ disk[s] = {"bin"}
  /\ s \in finished \cap confirmed
  /\ active # s

\* What the calls rely on.
CallsInv ==
  \A c \in Caller :
    /\ pc[c] \in {"opening", "spawning"} =>
         err[sess[c]] = "none" /\ sess[c] \notin finished
    /\ pc[c] \in Started => dpc[sess[c]] \notin {"unused", "none"}
    /\ pc[c] \in Stopping /\ dpc[sess[c]] = "none" => err[sess[c]] # "none"
    /\ pc[c] = "stop_returning" => ~Alive(sess[c])
    /\ reply[c] = "stopped" => sess[c] \in Session /\ Saved(sess[c])

OneCaller == \A c, d \in Caller : c = d

\* A single caller does not stop a capture it is starting.
StartInv ==
  OneCaller =>
    /\ \A s \in Session :
         /\ dpc[s] = "unused" => s \notin stopped
         /\ err[s] = "start" => s \notin clean
    /\ \A c \in Caller :
         pc[c] \in {"opening", "spawning", "awaiting", "failing"} =>
           sess[c] \notin stopped

Outcome == PendInv /\ CleanInv /\ DiskInv /\ DoneInv /\ CallsInv /\ StartInv

-----------------------------------------------------------------------------
(* Every step keeps Outcome.                                               *)

(* The drainer of s, until it cleans up.                                   *)
LEMMA DrainOutcome ==
  ASSUME NEW s \in Session, IInv, Outcome, DrainStep(s)
  PROVE  Outcome'
<1> USE CallerAssumption, SessionAssumption, BytesAssumption
    DEF IInv, TypeOK, Core, Outcome, callerVars, ownerVars, fileVars, errorVars,
        flagVars, Goto, Return, DrainerTo
<1>1. CASE Enable(s)
  <2>1. PendInv' /\ StartInv'
    BY <1>1 DEF Enable, PendInv, Pending, StartInv
  <2>2. CleanInv'
    BY <1>1 DEF Enable, CleanInv, Setting, Before, Ended
  <2>3. DiskInv'
    BY <1>1 DEF Enable, DiskInv, Decided
  <2>4. DoneInv'
    BY <1>1 DEF Enable, DoneInv, SessionInv, Alive, Ended
  <2>5. CallsInv'
    BY <1>1 DEF Enable, CallsInv, Saved, Alive
  <2> QED
    BY <2>1, <2>2, <2>3, <2>4, <2>5
<1>2. CASE EnableFails(s)
  <2>1. PendInv' /\ StartInv'
    BY <1>2 DEF EnableFails, TestError, PendInv, Pending, StartInv
  <2>2. CleanInv'
    BY <1>2 DEF EnableFails, TestError, CleanInv, Setting, Before, Ended
  <2>3. DiskInv'
    BY <1>2 DEF EnableFails, TestError, DiskInv, CleanInv, Setting, Before, Ended
  <2>4. DoneInv'
    BY <1>2 DEF EnableFails, TestError, DoneInv, SessionInv, Alive, Ended
  <2>5. CallsInv'
    BY <1>2 DEF EnableFails, TestError, CallsInv, Saved, Alive
  <2> QED
    BY <2>1, <2>2, <2>3, <2>4, <2>5
<1>3. CASE SeeStop(s)
  <2>1. PendInv' /\ StartInv'
    BY <1>3 DEF SeeStop, PendInv, Pending, StartInv
  <2>2. CleanInv'
    BY <1>3 DEF SeeStop, CleanInv, Setting, Before, Ended
  <2>3. DiskInv'
    BY <1>3 DEF SeeStop, DiskInv, Decided
  <2>4. DoneInv'
    BY <1>3 DEF SeeStop, DoneInv, Starting, Ended
  <2>5. CallsInv'
    BY <1>3 DEF SeeStop, CallsInv, Saved, Alive
  <2> QED
    BY <2>1, <2>2, <2>3, <2>4, <2>5
<1>4. CASE ReachDuration(s)
  <2>1. PendInv' /\ StartInv'
    BY <1>4 DEF ReachDuration, TestError, PendInv, Pending, StartInv
  <2>2. CleanInv'
    BY <1>4 DEF ReachDuration, TestError, CleanInv, Setting, Before, Ended
  <2>3. DiskInv'
    BY <1>4 DEF ReachDuration, TestError, DiskInv, CleanInv
  <2>4. DoneInv'
    BY <1>4 DEF ReachDuration, TestError, DoneInv, Starting, Ended
  <2>5. CallsInv'
    BY <1>4 DEF ReachDuration, TestError, CallsInv, Saved, Alive
  <2> QED
    BY <2>1, <2>2, <2>3, <2>4, <2>5
<1>5. CASE GoOn(s)
  <2>1. PendInv' /\ StartInv'
    BY <1>5 DEF GoOn, PendInv, Pending, StartInv
  <2>2. CleanInv'
    BY <1>5 DEF GoOn, CleanInv, Setting, Before, Ended
  <2>3. DiskInv'
    BY <1>5 DEF GoOn, DiskInv, Decided
  <2>4. DoneInv'
    BY <1>5 DEF GoOn, DoneInv, Starting, Ended
  <2>5. CallsInv'
    BY <1>5 DEF GoOn, CallsInv, Saved, Alive
  <2> QED
    BY <2>1, <2>2, <2>3, <2>4, <2>5
<1>6. CASE Read(s)
  <2>1. PendInv' /\ StartInv'
    BY <1>6 DEF Read, TestError, PendInv, Pending, StartInv
  <2>2. CleanInv'
    BY <1>6 DEF Read, TestError, CleanInv, Setting, Before, Ended
  <2>3. DiskInv'
    BY <1>6 DEF Read, TestError, DiskInv, Decided
  <2>4. DoneInv'
    BY <1>6 DEF Read, TestError, DoneInv, Starting, Ended
  <2>5. CallsInv'
    BY <1>6 DEF Read, TestError, CallsInv, Saved, Started, CallerInv,
       Stopping, Cleaning, Alive
  <2> QED
    BY <2>1, <2>2, <2>3, <2>4, <2>5
<1>7. CASE ReadNothing(s)
  <2>1. PendInv' /\ StartInv'
    BY <1>7 DEF ReadNothing, PendInv, Pending, StartInv
  <2>2. CleanInv'
    BY <1>7 DEF ReadNothing, CleanInv, Setting, Before, Ended
  <2>3. DiskInv'
    BY <1>7 DEF ReadNothing, DiskInv, Decided
  <2>4. DoneInv'
    BY <1>7 DEF ReadNothing, DoneInv, Starting, Ended
  <2>5. CallsInv'
    BY <1>7 DEF ReadNothing, CallsInv, Saved, Alive
  <2> QED
    BY <2>1, <2>2, <2>3, <2>4, <2>5
<1>8. CASE ReadFails(s)
  <2>1. PendInv' /\ StartInv'
    BY <1>8 DEF ReadFails, TestError, PendInv, Pending, StartInv
  <2>2. CleanInv'
    BY <1>8 DEF ReadFails, TestError, CleanInv, Setting, Before, Ended
  <2>3. DiskInv'
    BY <1>8 DEF ReadFails, TestError, DiskInv, CleanInv, Setting, Before, Ended
  <2>4. DoneInv'
    BY <1>8 DEF ReadFails, TestError, DoneInv, Starting, Ended
  <2>5. CallsInv'
    BY <1>8 DEF ReadFails, TestError, CallsInv, Saved, Alive
  <2> QED
    BY <2>1, <2>2, <2>3, <2>4, <2>5
<1>9. CASE AssignLimit(s)
  <2>1. PendInv'
    BY <1>9 DEF AssignLimit, AssignError, PendInv, Pending
  <2>2. CleanInv'
    BY <1>9 DEF AssignLimit, AssignError, CleanInv, PendInv, Pending, Setting,
       Before, Ended
  <2>3. DiskInv'
    BY <1>9 DEF AssignLimit, AssignError, DiskInv, PendInv, Pending, CleanInv,
       Before, Ended
  <2>4. DoneInv'
    BY <1>9 DEF AssignLimit, AssignError, DoneInv, Starting, Ended
  <2>5. CallsInv'
    BY <1>9 DEF AssignLimit, AssignError, CallsInv, Saved, SetupInv, Alive
  <2>6. StartInv'
    BY <1>9 DEF AssignLimit, AssignError, StartInv, PendInv, Pending
  <2> QED
    BY <2>1, <2>2, <2>3, <2>4, <2>5, <2>6
<1>10. CASE Flush(s)
  <2>1. PendInv' /\ StartInv'
    BY <1>10 DEF Flush, PendInv, Pending, StartInv
  <2>2. CleanInv'
    BY <1>10 DEF Flush, CleanInv, Setting, Before, Ended
  <2>3. DiskInv'
    BY <1>10 DEF Flush, DiskInv, Decided
  <2>4. DoneInv'
    BY <1>10 DEF Flush, DoneInv, Starting, Ended
  <2>5. CallsInv'
    BY <1>10 DEF Flush, CallsInv, Saved, Alive
  <2> QED
    BY <2>1, <2>2, <2>3, <2>4, <2>5
<1>11. CASE FlushFails(s)
  <2>1. PendInv' /\ StartInv'
    BY <1>11 DEF FlushFails, TestError, PendInv, Pending, StartInv
  <2>2. CleanInv'
    BY <1>11 DEF FlushFails, TestError, CleanInv, Setting, Before, Ended
  <2>3. DiskInv'
    BY <1>11 DEF FlushFails, TestError, DiskInv, CleanInv, Before, Ended
  <2>4. DoneInv'
    BY <1>11 DEF FlushFails, TestError, DoneInv, Starting, Ended
  <2>5. CallsInv'
    BY <1>11 DEF FlushFails, TestError, CallsInv, Saved, Alive
  <2> QED
    BY <2>1, <2>2, <2>3, <2>4, <2>5
<1>12. CASE AssignFault(s)
  <2>1. PendInv'
    BY <1>12 DEF AssignFault, AssignError, PendInv, Pending
  <2>2. CleanInv'
    BY <1>12 DEF AssignFault, AssignError, CleanInv, PendInv, Pending,
       Setting, Before, Ended
  <2>3. DiskInv'
    BY <1>12 DEF AssignFault, AssignError, DiskInv, PendInv, Pending,
       CleanInv, Before, Ended
  <2>4. DoneInv'
    BY <1>12 DEF AssignFault, AssignError, DoneInv, Starting, Ended
  <2>5. CallsInv'
    BY <1>12 DEF AssignFault, AssignError, CallsInv, Saved, SetupInv, Alive
  <2>6. StartInv'
    BY <1>12 DEF AssignFault, AssignError, StartInv, PendInv, Pending
  <2> QED
    BY <2>1, <2>2, <2>3, <2>4, <2>5, <2>6
<1> QED
  BY <1>1, <1>2, <1>3, <1>4, <1>5, <1>6, <1>7, <1>8, <1>9, <1>10, <1>11, <1>12
     DEF DrainStep

(* The drainer of s cleans up, settles the file and gives the session up.  *)
LEMMA EndOutcome ==
  ASSUME NEW s \in Session, IInv, Outcome, EndStep(s)
  PROVE  Outcome'
<1> USE CallerAssumption, SessionAssumption, BytesAssumption
    DEF IInv, TypeOK, Core, Outcome, callerVars, ownerVars, fileVars, errorVars,
        flagVars, Goto, Return, DrainerTo
<1>1. CASE Disable(s)
  <2>1. PendInv' /\ StartInv'
    BY <1>1 DEF Disable, PendInv, Pending, StartInv
  <2>2. CleanInv'
    BY <1>1 DEF Disable, CleanInv, Setting, Before, Ended
  <2>3. DiskInv'
    BY <1>1 DEF Disable, DiskInv, Decided
  <2>4. DoneInv'
    BY <1>1 DEF Disable, DoneInv, SessionInv, Alive, Ended
  <2>5. CallsInv'
    BY <1>1 DEF Disable, CallsInv, Saved, Alive
  <2> QED
    BY <2>1, <2>2, <2>3, <2>4, <2>5
<1>2. CASE DisableFails(s)
  <2>1. PendInv' /\ StartInv'
    BY <1>2 DEF DisableFails, TestError, PendInv, Pending, StartInv
  <2>2. CleanInv'
    BY <1>2 DEF DisableFails, TestError, CleanInv, Setting, Before, Ended
  <2>3. DiskInv'
    BY <1>2 DEF DisableFails, TestError, DiskInv, Decided
  <2>4. DoneInv'
    BY <1>2 DEF DisableFails, TestError, DoneInv, SessionInv, Alive, Ended
  <2>5. CallsInv'
    BY <1>2 DEF DisableFails, TestError, CallsInv, Saved, Alive
  <2> QED
    BY <2>1, <2>2, <2>3, <2>4, <2>5
<1>3. CASE Dispose(s)
  <2>1. PendInv' /\ StartInv'
    BY <1>3 DEF Dispose, PendInv, Pending, StartInv
  <2>2. CleanInv'
    BY <1>3 DEF Dispose, CleanInv, Setting, Before, Ended
  <2>3. DiskInv'
    BY <1>3 DEF Dispose, DiskInv, Decided
  <2>4. DoneInv'
    BY <1>3 DEF Dispose, DoneInv, Starting, Ended
  <2>5. CallsInv'
    BY <1>3 DEF Dispose, CallsInv, Saved, Alive
  <2> QED
    BY <2>1, <2>2, <2>3, <2>4, <2>5
<1>4. CASE DisposeFails(s)
  <2>1. PendInv' /\ StartInv'
    BY <1>4 DEF DisposeFails, TestError, PendInv, Pending, StartInv
  <2>2. CleanInv'
    BY <1>4 DEF DisposeFails, TestError, CleanInv, Setting, Before, Ended
  <2>3. DiskInv'
    BY <1>4 DEF DisposeFails, TestError, DiskInv, Decided
  <2>4. DoneInv'
    BY <1>4 DEF DisposeFails, TestError, DoneInv, Starting, Ended
  <2>5. CallsInv'
    BY <1>4 DEF DisposeFails, TestError, CallsInv, Saved, Alive
  <2> QED
    BY <2>1, <2>2, <2>3, <2>4, <2>5
<1>5. CASE AssignCleanupError(s)
  <2>1. PendInv'
    BY <1>5 DEF AssignCleanupError, AssignError, PendInv, Pending
  <2>2. CleanInv'
    BY <1>5 DEF AssignCleanupError, AssignError, CleanInv, PendInv, Pending,
       Setting, Before, Ended
  <2>3. DiskInv'
    BY <1>5 DEF AssignCleanupError, AssignError, DiskInv, PendInv, Pending,
       Decided
  <2>4. DoneInv'
    BY <1>5 DEF AssignCleanupError, AssignError, DoneInv, PendInv, Pending,
       SessionInv, Alive, Ended, Starting
  <2>5. CallsInv'
    BY <1>5 DEF AssignCleanupError, AssignError, CallsInv, Saved, SetupInv, Alive
  <2>6. StartInv'
    BY <1>5 DEF AssignCleanupError, AssignError, StartInv, PendInv, Pending
  <2> QED
    BY <2>1, <2>2, <2>3, <2>4, <2>5, <2>6
<1>6. CASE Publish(s)
  <2>1. PendInv' /\ StartInv'
    BY <1>6 DEF Publish, PendInv, Pending, StartInv
  <2>2. CleanInv'
    BY <1>6 DEF Publish, CleanInv, Setting, Before, Ended
  <2>3. DiskInv'
    BY <1>6 DEF Publish, DiskInv, CleanInv, Decided, Ended
  <2>4. DoneInv'
    BY <1>6 DEF Publish, DoneInv, Starting, Ended
  <2>5. CallsInv'
    BY <1>6 DEF Publish, CallsInv, Saved, Alive
  <2> QED
    BY <2>1, <2>2, <2>3, <2>4, <2>5
<1>7. CASE PublishFails(s)
  <2>1. PendInv' /\ StartInv'
    BY <1>7 DEF PublishFails, TestError, PendInv, Pending, StartInv
  <2>2. CleanInv'
    BY <1>7 DEF PublishFails, TestError, CleanInv, Setting, Before, Ended
  <2>3. DiskInv'
    BY <1>7 DEF PublishFails, TestError, DiskInv, CleanInv, Decided, Ended
  <2>4. DoneInv'
    BY <1>7 DEF PublishFails, TestError, DoneInv, Starting, Ended
  <2>5. CallsInv'
    BY <1>7 DEF PublishFails, TestError, CallsInv, Saved, Alive
  <2> QED
    BY <2>1, <2>2, <2>3, <2>4, <2>5
<1>8. CASE Discard(s)
  <2>1. PendInv' /\ StartInv'
    BY <1>8 DEF Discard, UnlinkPartial, PendInv, Pending, StartInv
  <2>2. CleanInv'
    BY <1>8 DEF Discard, UnlinkPartial, CleanInv, Setting, Before, Ended
  <2>3. DiskInv'
    BY <1>8 DEF Discard, UnlinkPartial, DiskInv, CleanInv, Setting, Before, Ended
  <2>4. DoneInv'
    BY <1>8 DEF Discard, UnlinkPartial, DoneInv, Starting, Ended
  <2>5. CallsInv'
    BY <1>8 DEF Discard, UnlinkPartial, CallsInv, Saved, Alive
  <2> QED
    BY <2>1, <2>2, <2>3, <2>4, <2>5
<1>9. CASE DiscardFails(s)
  <2>1. PendInv' /\ DiskInv' /\ StartInv'
    BY <1>9 DEF DiscardFails, TestError, UnlinkFails, PendInv, Pending,
       DiskInv, StartInv
  <2>2. CleanInv'
    BY <1>9 DEF DiscardFails, TestError, UnlinkFails, CleanInv, Setting,
       Before, Ended
  <2>3. DoneInv'
    BY <1>9 DEF DiscardFails, TestError, UnlinkFails, DoneInv, Starting, Ended
  <2>4. CallsInv'
    BY <1>9 DEF DiscardFails, TestError, UnlinkFails, CallsInv, Saved, Alive
  <2> QED
    BY <2>1, <2>2, <2>3, <2>4
<1>10. CASE Confirm(s)
  <2>1. PendInv'
    BY <1>10 DEF Confirm, AssignError, PendInv, Pending
  <2>2. CleanInv'
    BY <1>10 DEF Confirm, AssignError, CleanInv, PendInv, Setting, Before,
       Ended
  <2>3. DiskInv'
    BY <1>10 DEF Confirm, AssignError, DiskInv, PendInv, Decided
  <2>4. DoneInv'
    BY <1>10 DEF Confirm, AssignError, DoneInv, SessionInv, Starting, Ended
  <2>5. CallsInv'
    BY <1>10 DEF Confirm, AssignError, CallsInv, Saved, SetupInv, Alive
  <2>6. StartInv'
    BY <1>10 DEF Confirm, AssignError, StartInv, PendInv
  <2> QED
    BY <2>1, <2>2, <2>3, <2>4, <2>5, <2>6
<1>11. CASE Finish(s)
  <2>1. PendInv' /\ StartInv'
    BY <1>11 DEF Finish, PendInv, Pending, StartInv
  <2>2. CleanInv'
    BY <1>11 DEF Finish, CleanInv, Setting, Before, Ended
  <2>3. DiskInv'
    BY <1>11 DEF Finish, DiskInv, Decided
  <2>4. DoneInv'
    BY <1>11 DEF Finish, DoneInv, SessionInv, Alive, Ended
  <2>5. CallsInv'
    BY <1>11 DEF Finish, CallsInv, Saved, SetupInv, Alive
  <2> QED
    BY <2>1, <2>2, <2>3, <2>4, <2>5
<1>12. CASE Release(s)
  <2>1. PendInv' /\ StartInv'
    BY <1>12 DEF Release, ReleaseOwnership, ReleaseCapture, PendInv, Pending,
       StartInv
  <2>2. CleanInv'
    BY <1>12 DEF Release, ReleaseOwnership, ReleaseCapture, CleanInv, Setting,
       Before, Ended
  <2>3. DiskInv'
    BY <1>12 DEF Release, ReleaseOwnership, ReleaseCapture, DiskInv, Decided,
       SessionInv, Alive
  <2>4. DoneInv'
    BY <1>12 DEF Release, ReleaseOwnership, ReleaseCapture, DoneInv,
       SessionInv, Alive, Ended
  <2>5. CallsInv'
    BY <1>12 DEF Release, ReleaseOwnership, ReleaseCapture, CallsInv, Saved,
       Alive
  <2> QED
    BY <2>1, <2>2, <2>3, <2>4, <2>5
<1>13. CASE Drop(s)
  <2>1. PendInv' /\ StartInv'
    BY <1>13 DEF Drop, SetError, UnlinkPartial, UnlinkFails, PendInv, Pending,
       StartInv
  <2>2. CleanInv'
    BY <1>13 DEF Drop, SetError, UnlinkPartial, UnlinkFails, CleanInv, Setting,
       Before, Ended
  <2>3. DiskInv'
    BY <1>13 DEF Drop, SetError, UnlinkPartial, UnlinkFails, DiskInv, DoneInv,
       Decided
  <2>4. DoneInv'
    BY <1>13 DEF Drop, SetError, UnlinkPartial, UnlinkFails, DoneInv, Starting,
       Ended
  <2>5. CallsInv'
    <3>1. \A r \in Session \ {s} :
            disk'[r] = disk[r] /\ err'[r] = err[r] /\ dpc'[r] = dpc[r]
      BY <1>13 DEF Drop, SetError, UnlinkPartial, UnlinkFails
    <3>2. dpc[s] = "dropping" /\ dpc'[s] = "finishing"
      BY <1>13 DEF Drop
    <3>3. UNCHANGED <<pc, sess, reply, active, finished, confirmed, lock>>
      BY <1>13 DEF Drop
    <3> QED
      BY <3>1, <3>2, <3>3 DEF CallsInv, Saved, SetupInv, CallerInv, Alive, Stopping,
         Cleaning, Started
  <2> QED
    BY <2>1, <2>2, <2>3, <2>4, <2>5
<1>14. CASE Exit(s)
  <2>1. PendInv' /\ StartInv'
    BY <1>14 DEF Exit, PendInv, Pending, StartInv
  <2>2. CleanInv'
    BY <1>14 DEF Exit, CleanInv, Setting, Before, Ended
  <2>3. DiskInv'
    BY <1>14 DEF Exit, DiskInv, Decided
  <2>4. DoneInv'
    BY <1>14 DEF Exit, DoneInv, SessionInv, Alive, Starting, Ended
  <2>5. CallsInv'
    BY <1>14 DEF Exit, CallsInv, Saved, SetupInv, Alive
  <2> QED
    BY <2>1, <2>2, <2>3, <2>4, <2>5
<1> QED
  BY <1>1, <1>2, <1>3, <1>4, <1>5, <1>6, <1>7, <1>8, <1>9, <1>10, <1>11, <1>12,
     <1>13, <1>14 DEF EndStep

(* A start_capture call of c that holds the claim.                         *)
LEMMA StartOutcome ==
  ASSUME NEW c \in Caller, IInv, Outcome, StartStep(c)
  PROVE  Outcome'
<1> USE CallerAssumption, SessionAssumption, BytesAssumption
    DEF IInv, TypeOK, Core, Outcome, callerVars, ownerVars, fileVars, errorVars,
        flagVars, Goto, Return, DrainerTo
<1>1. CASE Reserve(c)
  <2>1. PendInv'
    BY <1>1 DEF Reserve, PendInv, Pending, SetupInv
  <2>2. CleanInv'
    BY <1>1 DEF Reserve, CleanInv, Setting, Before, SetupInv
  <2>3. DiskInv'
    BY <1>1 DEF Reserve, DiskInv, Decided
  <2>4. DoneInv'
    BY <1>1 DEF Reserve, DoneInv, SetupInv, Ended
  <2>5. CallsInv'
    BY <1>1 DEF Reserve, CallsInv, CleanInv, DoneInv, Saved, Started,
       CallerInv, SetupInv, StopInv, Stopping, Cleaning, Alive, Ended
  <2>6. StartInv'
    BY <1>1 DEF Reserve, StartInv, SetupInv
  <2> QED
    BY <2>1, <2>2, <2>3, <2>4, <2>5, <2>6
<1>2. CASE ReserveFails(c)
  <2>1. PendInv' /\ CleanInv' /\ DiskInv' /\ StartInv'
    BY <1>2 DEF ReserveFails, ReleaseCapture, PendInv, Pending, CleanInv,
       DiskInv, StartInv
  <2>2. DoneInv'
    BY <1>2 DEF ReserveFails, ReleaseCapture, DoneInv, SetupInv
  <2>3. CallsInv'
    BY <1>2 DEF ReserveFails, ReleaseCapture, CallsInv, Saved, Started,
       SetupInv, Alive
  <2> QED
    BY <2>1, <2>2, <2>3
<1>3. CASE OpenAnalyzer(c)
  <2>1. PendInv' /\ CleanInv' /\ DiskInv' /\ StartInv'
    BY <1>3 DEF OpenAnalyzer, PendInv, Pending, CleanInv, DiskInv, StartInv
  <2>2. DoneInv'
    BY <1>3 DEF OpenAnalyzer, DoneInv, CallerInv, SetupInv, Setup, Starting
  <2>3. CallsInv'
    BY <1>3 DEF OpenAnalyzer, CallsInv, Saved, Started, Stopping, Cleaning,
       Alive
  <2> QED
    BY <2>1, <2>2, <2>3
<1>4. CASE OpenAnalyzerFails(c)
  <2>1. PendInv' /\ CleanInv' /\ DiskInv' /\ StartInv'
    BY <1>4 DEF OpenAnalyzerFails, UnlinkPartial, UnlinkFails, ReleaseCapture,
       PendInv, Pending, CleanInv, DiskInv, StartInv
  <2>2. DoneInv'
    BY <1>4 DEF OpenAnalyzerFails, UnlinkPartial, UnlinkFails, ReleaseCapture,
       DoneInv, SetupInv
  <2>3. CallsInv'
    BY <1>4 DEF OpenAnalyzerFails, UnlinkPartial, UnlinkFails, ReleaseCapture,
       CallsInv, Saved, Started, Stopping, Cleaning, Alive, Ended
  <2> QED
    BY <2>1, <2>2, <2>3
<1>5. CASE StartThread(c)
  <2>1. StartInv'
    BY <1>5 DEF StartThread, StartInv
  <2>2. PendInv'
    BY <1>5 DEF StartThread, PendInv, Pending, SetupInv
  <2>3. CleanInv'
    BY <1>5 DEF StartThread, CleanInv, CallsInv, Setting, Before, SetupInv
  <2>4. DiskInv'
    BY <1>5 DEF StartThread, DiskInv, Decided, SetupInv
  <2>5. DoneInv'
    BY <1>5 DEF StartThread, DoneInv, CallsInv, SetupInv, Ended
  <2>6. CallsInv'
    BY <1>5 DEF StartThread, CallsInv, Saved, CallerInv, SetupInv, Stopping,
       Cleaning, Alive
  <2> QED
    BY <2>1, <2>2, <2>3, <2>4, <2>5, <2>6
<1>6. CASE StartThreadFails(c)
  <2>1. PendInv' /\ CleanInv' /\ DiskInv' /\ StartInv'
    BY <1>6 DEF StartThreadFails, UnlinkPartial, UnlinkFails, ReleaseCapture,
       PendInv, Pending, CleanInv, DiskInv, StartInv
  <2>2. DoneInv'
    BY <1>6 DEF StartThreadFails, UnlinkPartial, UnlinkFails, ReleaseCapture,
       DoneInv, CallsInv, SetupInv
  <2>3. CallsInv'
    BY <1>6 DEF StartThreadFails, UnlinkPartial, UnlinkFails, ReleaseCapture,
       CallsInv, Saved, Started, Stopping, Cleaning, Alive
  <2> QED
    BY <2>1, <2>2, <2>3
<1>7. CASE StartThreadAndDisposeFail(c)
  <2>1. PendInv' /\ StartInv'
    BY <1>7 DEF StartThreadAndDisposeFail, SetError, UnlinkPartial,
       UnlinkFails, PendInv, Pending, StartInv
  <2>2. CleanInv'
    BY <1>7 DEF StartThreadAndDisposeFail, SetError, UnlinkPartial,
       UnlinkFails, CleanInv, SetupInv
  <2>3. DiskInv'
    BY <1>7 DEF StartThreadAndDisposeFail, SetError, UnlinkPartial,
       UnlinkFails, DiskInv, CleanInv, Setting, Before, SetupInv
  <2>4. DoneInv'
    BY <1>7 DEF StartThreadAndDisposeFail, SetError, UnlinkPartial,
       UnlinkFails, DoneInv, SetupInv, Ended
  <2>5. CallsInv'
    BY <1>7 DEF StartThreadAndDisposeFail, SetError, UnlinkPartial,
       UnlinkFails, CallsInv, Saved, Started, CallerInv, Setup, Alive
  <2> QED
    BY <2>1, <2>2, <2>3, <2>4, <2>5
<1>8. CASE StartReturns(c)
  <2>1. PendInv' /\ CleanInv' /\ DiskInv' /\ StartInv'
    BY <1>8 DEF StartReturns, PendInv, Pending, CleanInv, DiskInv, StartInv
  <2>2. DoneInv'
    BY <1>8 DEF StartReturns, DoneInv, Starting
  <2>3. CallsInv'
    BY <1>8 DEF StartReturns, CallsInv, Saved, Alive
  <2> QED
    BY <2>1, <2>2, <2>3
<1>9. CASE StartGivesUp(c)
  <2>1. PendInv' /\ CleanInv' /\ DiskInv' /\ StartInv'
    BY <1>9 DEF StartGivesUp, PendInv, Pending, CleanInv, DiskInv, StartInv
  <2>2. DoneInv'
    BY <1>9 DEF StartGivesUp, DoneInv, Starting
  <2>3. CallsInv'
    BY <1>9 DEF StartGivesUp, CallsInv, Saved, Started, Alive
  <2> QED
    BY <2>1, <2>2, <2>3
<1>10. CASE AssignStartError(c)
  <2>1. PendInv' /\ DiskInv'
    BY <1>10 DEF AssignStartError, PendInv, Pending, DiskInv
  <2>2. CleanInv'
    BY <1>10 DEF AssignStartError, CleanInv, CallsInv, Started
  <2>3. DoneInv'
    BY <1>10 DEF AssignStartError, DoneInv, Starting
  <2>4. CallsInv'
    BY <1>10 DEF AssignStartError, CallsInv, Saved, Started, SetupInv, Alive
  <2>5. StartInv'
    BY <1>10 DEF AssignStartError, StartInv, CleanInv
  <2> QED
    BY <2>1, <2>2, <2>3, <2>4, <2>5
<1>11. CASE StopFailedStart(c)
  <2>1. PendInv' /\ CleanInv' /\ DiskInv'
    BY <1>11 DEF StopFailedStart, PendInv, Pending, CleanInv, DiskInv
  <2>2. DoneInv'
    BY <1>11 DEF StopFailedStart, DoneInv, Starting
  <2>3. CallsInv'
    BY <1>11 DEF StopFailedStart, CallsInv, Saved, Started, Alive
  <2>4. StartInv'
    BY <1>11 DEF StopFailedStart, StartInv, CallsInv, OneCaller, Started
  <2> QED
    BY <2>1, <2>2, <2>3, <2>4
<1>12. CASE StartRaises(c)
  <2>1. PendInv' /\ CleanInv' /\ DiskInv' /\ StartInv'
    BY <1>12 DEF StartRaises, PendInv, Pending, CleanInv, DiskInv, StartInv
  <2>2. DoneInv'
    BY <1>12 DEF StartRaises, DoneInv, Starting
  <2>3. CallsInv'
    BY <1>12 DEF StartRaises, CallsInv, Saved, Started, Alive
  <2> QED
    BY <2>1, <2>2, <2>3
<1> QED
  BY <1>1, <1>2, <1>3, <1>4, <1>5, <1>6, <1>7, <1>8, <1>9, <1>10, <1>11, <1>12
     DEF StartStep

(* A stop_capture call of c.                                               *)
LEMMA StopOutcome ==
  ASSUME NEW c \in Caller, IInv, Outcome, StopStep(c)
  PROVE  Outcome'
<1> USE CallerAssumption, SessionAssumption, BytesAssumption
    DEF IInv, TypeOK, Core, Outcome, callerVars, ownerVars, fileVars, errorVars,
        flagVars, Goto, Return, DrainerTo
<1>1. CASE StopLocks(c)
  <2>1. PendInv' /\ CleanInv' /\ DiskInv' /\ StartInv'
    BY <1>1 DEF StopLocks, PendInv, Pending, CleanInv, DiskInv, StartInv
  <2>2. DoneInv'
    BY <1>1 DEF StopLocks, DoneInv, Starting
  <2>3. CallsInv'
    BY <1>1 DEF StopLocks, CallsInv, Saved, Started, Stopping, Alive
  <2> QED
    BY <2>1, <2>2, <2>3
<1>2. CASE StopTimesOut(c)
  <2>1. PendInv' /\ CleanInv' /\ DiskInv' /\ StartInv'
    BY <1>2 DEF StopTimesOut, StopEnds, PendInv, Pending, CleanInv, DiskInv,
       StartInv
  <2>2. DoneInv'
    BY <1>2 DEF StopTimesOut, StopEnds, DoneInv, CallerInv, SessionInv,
       StopInv, Stopping, Cleaning
  <2>3. CallsInv'
    BY <1>2 DEF StopTimesOut, StopEnds, CallsInv, Saved, Alive
  <2> QED
    BY <2>1, <2>2, <2>3
<1>3. CASE StopJoins(c)
  <2>1. PendInv' /\ CleanInv' /\ DiskInv' /\ StartInv'
    BY <1>3 DEF StopJoins, PendInv, Pending, CleanInv, DiskInv, StartInv
  <2>2. DoneInv'
    BY <1>3 DEF StopJoins, DoneInv, Starting
  <2>3. CallsInv'
    BY <1>3 DEF StopJoins, CallsInv, Saved, Started, Stopping, Cleaning, Alive
  <2> QED
    BY <2>1, <2>2, <2>3
<1>4. CASE StopDisables(c)
  <2>1. PendInv' /\ CleanInv' /\ DiskInv' /\ StartInv'
    BY <1>4 DEF StopDisables, PendInv, Pending, CleanInv, DiskInv, StartInv
  <2>2. DoneInv'
    BY <1>4 DEF StopDisables, DoneInv, StopInv, Stopping, Cleaning
  <2>3. CallsInv'
    BY <1>4 DEF StopDisables, CallsInv, Saved, Started, Stopping, Cleaning,
       Alive
  <2> QED
    BY <2>1, <2>2, <2>3
<1>5. CASE StopDisposes(c)
  <2>1. PendInv' /\ CleanInv' /\ DiskInv' /\ StartInv'
    BY <1>5 DEF StopDisposes, PendInv, Pending, CleanInv, DiskInv, StartInv
  <2>2. DoneInv'
    BY <1>5 DEF StopDisposes, DoneInv, StopInv, Stopping, Cleaning
  <2>3. CallsInv'
    BY <1>5 DEF StopDisposes, CallsInv, Saved, Started, Stopping, Cleaning,
       Alive
  <2> QED
    BY <2>1, <2>2, <2>3
<1>6. CASE StopCleanupFails(c)
  <2>1. PendInv' /\ StartInv'
    BY <1>6 DEF StopCleanupFails, SetError, StopEnds, PendInv, Pending,
       StartInv
  <2>2. CleanInv'
    BY <1>6 DEF StopCleanupFails, SetError, StopEnds, CleanInv, StopInv,
       Stopping, Cleaning, Alive, Ended
  <2>3. DiskInv'
    BY <1>6 DEF StopCleanupFails, SetError, StopEnds, DiskInv, Decided,
       SessionInv, StopInv, Stopping, Cleaning
  <2>4. DoneInv'
    BY <1>6 DEF StopCleanupFails, SetError, StopEnds, DoneInv, StopInv,
       Stopping, Cleaning
  <2>5. CallsInv'
    BY <1>6 DEF StopCleanupFails, SetError, StopEnds, CallsInv, Saved,
       Started, SetupInv, Stopping, Cleaning, Alive
  <2> QED
    BY <2>1, <2>2, <2>3, <2>4, <2>5
<1>7. CASE StopConfirms(c)
  <2>1. PendInv' /\ DiskInv' /\ StartInv'
    BY <1>7 DEF StopConfirms, SetError, UnlinkPartial, UnlinkFails, PendInv,
       Pending, DiskInv, StartInv
  <2>2. CleanInv'
    BY <1>7 DEF StopConfirms, SetError, UnlinkPartial, UnlinkFails, CleanInv,
       StopInv, Stopping, Cleaning
  <2>3. DoneInv'
    BY <1>7 DEF StopConfirms, SetError, UnlinkPartial, UnlinkFails, DoneInv,
       StopInv, Stopping, Cleaning
  <2>4. CallsInv'
    BY <1>7 DEF StopConfirms, SetError, UnlinkPartial, UnlinkFails, CallsInv,
       Saved, Started, CallerInv, SetupInv, Stopping, Cleaning, Alive
  <2> QED
    BY <2>1, <2>2, <2>3, <2>4
<1>8. CASE StopReleases(c)
  <2>1. PendInv' /\ CleanInv' /\ DiskInv' /\ StartInv'
    BY <1>8 DEF StopReleases, ReleaseOwnership, ReleaseCapture, PendInv,
       Pending, CleanInv, DiskInv, StartInv
  <2>2. DoneInv'
    BY <1>8 DEF StopReleases, ReleaseOwnership, ReleaseCapture, DoneInv,
       StopInv, Stopping, Cleaning
  <2>3. CallsInv'
    BY <1>8 DEF StopReleases, ReleaseOwnership, ReleaseCapture, CallsInv,
       Saved, Started, StopInv, Stopping, Cleaning, Alive
  <2> QED
    BY <2>1, <2>2, <2>3
<1>9. CASE StopReturns(c)
  <2>1. PendInv' /\ CleanInv' /\ DiskInv' /\ StartInv'
    BY <1>9 DEF StopReturns, StopEnds, PendInv, Pending, CleanInv, DiskInv,
       StartInv
  <2>2. DoneInv'
    BY <1>9 DEF StopReturns, StopEnds, DoneInv, Starting
  <2>3. CallsInv'
    BY <1>9 DEF StopReturns, StopEnds, CallsInv, PendInv, DiskInv, DoneInv,
       Saved, Decided, Started, CallerInv, StopInv, Stopping, Cleaning, Alive
  <2> QED
    BY <2>1, <2>2, <2>3
<1> QED
  BY <1>1, <1>2, <1>3, <1>4, <1>5, <1>6, <1>7, <1>8, <1>9 DEF StopStep

(* A call begins, somebody else uses the hardware, or nothing changes.     *)
LEMMA OtherOutcome ==
  ASSUME IInv, Outcome,
         \/ \E c \in Caller, s \in Session : StartClaims(c, s)
         \/ \E c \in Caller : StopRequest(c) \/ StatusBegins(c) \/ StatusEnds(c)
         \/ ElsewhereBegins \/ ElsewhereEnds
         \/ UNCHANGED vars
  PROVE  Outcome'
<1> USE CallerAssumption, SessionAssumption, BytesAssumption
    DEF IInv, TypeOK, Core, Outcome, callerVars, ownerVars, fileVars, errorVars,
        flagVars, Goto
<1> USE DEF PendInv, Pending, CleanInv, DiskInv, DoneInv, CallsInv, StartInv,
   OneCaller, Saved, Starting, Alive
<1>1. ASSUME NEW c \in Caller, NEW s \in Session, StartClaims(c, s)
      PROVE  Outcome'
  BY <1>1 DEF StartClaims, CallerInv, Setup, Started, Stopping, Cleaning,
     Setting, Before, Decided, Ended
<1>2. ASSUME NEW c \in Caller, StopRequest(c)
      PROVE  Outcome'
  BY <1>2 DEF StopRequest, CallerInv, SetupInv, SessionInv, Setup, Started,
     Stopping, Cleaning, Setting, Before, Decided, Ended
<1>3. ASSUME NEW c \in Caller, StatusBegins(c)
      PROVE  Outcome'
  BY <1>3 DEF StatusBegins, CallerInv, Started, Stopping, Cleaning, Setup
<1>4. ASSUME NEW c \in Caller, StatusEnds(c)
      PROVE  Outcome'
  BY <1>4 DEF StatusEnds, Started, Stopping, Cleaning
<1>5. CASE ElsewhereBegins
  BY <1>5 DEF ElsewhereBegins
<1>6. CASE ElsewhereEnds
  BY <1>6 DEF ElsewhereEnds
<1>7. CASE UNCHANGED vars
  BY <1>7 DEF vars
<1> QED
  BY <1>1, <1>2, <1>3, <1>4, <1>5, <1>6, <1>7

-----------------------------------------------------------------------------
(* The inductive invariant, and the properties it gives.                   *)

(* A new session's drainer has not run, and nothing is on the disk.         *)
LEMMA InitOutcome == Init => Outcome
BY SessionAssumption, BytesAssumption
   DEF Init, Outcome, PendInv, CleanInv, DiskInv, DoneInv, CallsInv, StartInv,
       Pending, Setting, Before, Decided, Started, Stopping, Cleaning, Ended,
       Starting, Alive

(* Every step of every actor keeps Outcome.                                *)
LEMMA NextOutcome == IInv /\ Outcome /\ [Next]_vars => Outcome'
<1> SUFFICES ASSUME IInv, Outcome, [Next]_vars
             PROVE  Outcome'
  OBVIOUS
<1>1. CASE \E c \in Caller : StartStep(c) \/ StopStep(c)
  BY <1>1, StartOutcome, StopOutcome
<1>2. CASE \E s \in Session : DrainStep(s) \/ EndStep(s)
  BY <1>2, DrainOutcome, EndOutcome
<1> QED
  BY <1>1, <1>2, OtherOutcome DEF Next

(* The invariant holds in every reachable state, next to IInv.             *)
THEOREM OutcomeInvariance == Spec => []Outcome
<1>1. Spec => [](IInv /\ Outcome)
  BY Invariance, InitOutcome, NextOutcome, PTL DEF Spec
<1> QED
  BY <1>1, PTL

(* A recording under its final name is of a capture that was asked to stop, *)
(* stayed below the limit and met no USB or write error, whichever of stop, *)
(* limit and error came first (capture.py:475, 523-557).                   *)
THEOREM OnlyCleanCapturesArePublished == Spec => []PublishedIsClean
<1>1. Outcome => PublishedIsClean
  BY DEF Outcome, CleanInv, DiskInv, PublishedIsClean
<1> QED
  BY OutcomeInvariance, <1>1, PTL

(* When capture_stop returns a session, its recording is saved, its device *)
(* is disposed of and the hardware is not owned for it any more, also when *)
(* several stops race with each other and with the drainer                 *)
(* (capture.py:600-646).                                                   *)
THEOREM StopIsTruthful == Spec => []StopReturnsSaved
<1>1. IInv /\ Outcome => StopReturnsSaved
  <2> SUFFICES ASSUME IInv, Outcome, NEW c \in Caller, reply[c] = "stopped"
               PROVE  LET s == sess[c] IN
                      /\ disk[s] = {"bin"}
                      /\ s \in finished \cap confirmed
                      /\ dev[s] = "closed"
                      /\ holder # s
    BY DEF StopReturnsSaved
  <2>1. sess[c] \in Session /\ Saved(sess[c])
    BY DEF Outcome, CallsInv
  <2>2. dev[sess[c]] = "closed"
    BY <2>1 DEF Outcome, DoneInv, Saved
  <2>3. ~Starting(sess[c])
    BY <2>1 DEF IInv, Core, CallerInv, SetupInv, Setup, Starting, Saved
  <2>4. holder # sess[c]
    BY <2>1, <2>3 DEF IInv, Core, OwnershipAccounted, Saved
  <2> QED
    BY <2>1, <2>2, <2>4 DEF Saved
<1> QED
  BY Invariance, OutcomeInvariance, <1>1, PTL

(* With one caller, as the server has it, a capture whose start was        *)
(* reported as failed is never published: the error is written before the  *)
(* stop flag that would make it look like a clean stop (capture.py:589-597). *)
THEOREM FailedStartIsNotPublished ==
  Spec => [](OneCaller => FailedStartNeverPublishes)
<1>1. Outcome => (OneCaller => FailedStartNeverPublishes)
  BY DEF Outcome, StartInv, DiskInv, FailedStartNeverPublishes
<1> QED
  BY OutcomeInvariance, <1>1, PTL

(* A session that is given up outside start_capture is the one that        *)
(* capture_status shows from then on, and it is terminal                   *)
(* (capture.py:543, 556, 583, 703-706).                                    *)
THEOREM OutcomeIsVisible == Spec => OutcomeStaysVisible
<1>1. ASSUME IInv, Outcome, [Next]_vars,
             NEW s \in Session, active = s, active' # s, lock = NoCaller
      PROVE  last = s /\ s \in finished
  <2> USE <1>1, CallerAssumption, SessionAssumption DEF IInv, TypeOK, Core,
     ownerVars
  <2>1. \/ \E r \in Session : Release(r)
        \/ \E c \in Caller : StopReleases(c)
    <3>1. ASSUME NEW c \in Caller, StartStep(c)
          PROVE  active' = s
      BY <3>1 DEF StartStep, Reserve, ReserveFails, OpenAnalyzer,
         OpenAnalyzerFails, StartThread, StartThreadFails,
         StartThreadAndDisposeFail, StartReturns, StartGivesUp,
         AssignStartError, StopFailedStart, StartRaises, CallerInv, Setup
    <3>2. ASSUME NEW c \in Caller, StopStep(c), ~StopReleases(c)
          PROVE  active' = s
      BY <3>2 DEF StopStep, StopLocks, StopTimesOut, StopJoins, StopDisables,
         StopDisposes, StopCleanupFails, StopConfirms, StopReturns
    <3>3. ASSUME NEW r \in Session, DrainStep(r)
          PROVE  active' = s
      BY <3>3 DEF DrainStep, Enable, EnableFails, SeeStop, ReachDuration, GoOn,
         Read, ReadNothing, ReadFails, AssignLimit, Flush, FlushFails, AssignFault
    <3>4. ASSUME NEW r \in Session, EndStep(r), ~Release(r)
          PROVE  active' = s
      BY <3>4 DEF EndStep, Disable, DisableFails, Dispose, DisposeFails,
         AssignCleanupError, Drop, Publish, PublishFails, Discard, DiscardFails,
         Confirm, Finish, Exit
    <3>5. ASSUME NEW c \in Caller, NEW r \in Session, StartClaims(c, r)
          PROVE  FALSE
      BY <3>5 DEF StartClaims
    <3>6. ASSUME NEW c \in Caller, StopRequest(c) \/ StatusBegins(c) \/ StatusEnds(c)
          PROVE  active' = s
      BY <3>6 DEF StopRequest, StatusBegins, StatusEnds
    <3>7. CASE ElsewhereBegins \/ ElsewhereEnds
      BY <3>7 DEF ElsewhereBegins, ElsewhereEnds
    <3> QED
      BY <3>1, <3>2, <3>3, <3>4, <3>5, <3>6, <3>7 DEF Next, vars
  <2>2. ~Starting(s)
    BY DEF Starting
  <2>3. ASSUME NEW r \in Session, Release(r)
        PROVE  r = s /\ dpc[s] = "releasing"
    BY <2>3 DEF Release, ReleaseOwnership
  <2>4. ASSUME NEW c \in Caller, StopReleases(c)
        PROVE  sess[c] = s /\ ~Alive(s) /\ dpc[s] # "unused"
    BY <2>4 DEF StopReleases, ReleaseOwnership, StopInv, Stopping, Cleaning,
       CallerInv
  <2>5. dpc[s] \in Ended
    BY <2>1, <2>3, <2>4 DEF Ended, Alive
  <2> QED
    BY <2>2, <2>5 DEF Outcome, DoneInv
<1>2. IInv /\ Outcome /\ [Next]_vars =>
        \A s \in Session :
          active = s /\ active' # s /\ lock = NoCaller => last = s /\ s \in finished
  BY <1>1
<1>3. IInv /\ Outcome /\ [Next]_vars =>
        [\A s \in Session :
          active = s /\ active' # s /\ lock = NoCaller => last = s /\ s \in finished]_vars
  BY <1>2
<1> QED
  BY Invariance, OutcomeInvariance, <1>3, PTL DEF Spec, OutcomeStaysVisible

-----------------------------------------------------------------------------
(* The refinement of the contract.                                         *)

\* The phases of all captures, which is the contract's variable `phase'.
Phases == [s \in Session |-> Phase(s)]

\* A step is about s: what Phase looks at is unchanged for the others.
StepOf(s) ==
  \A r \in Session \ {s} :
    UNCHANGED <<disk[r], dpc[r], r \in finished, holder = r>>

(* How the phases follow what Phase looks at.                              *)
LEMMA PhaseMoves ==
  ASSUME NEW s \in Session, NEW p, StepOf(s), Phase(s)' = p
  PROVE  Phases' = [Phases EXCEPT ![s] = p]
<1>1. \A r \in Session \ {s} : Phase(r)' = Phase(r)
  BY DEF StepOf, Phase, Settled
<1> QED
  BY <1>1 DEF Phases

LEMMA Stutters ==
  ASSUME NEW s \in Session, StepOf(s), Phase(s)' = Phase(s),
         UNCHANGED <<holder, stopped>>
  PROVE  UNCHANGED Contract!vars
<1>1. UNCHANGED Phases
  BY PhaseMoves DEF Phases
<1> QED
  BY <1>1 DEF Phases, Contract!vars

LEMMA PhaseSteady ==
  ASSUME NEW s \in Session, UNCHANGED <<disk, finished, dpc>>,
         holder' = s <=> holder = s
  PROVE  Phase(s)' = Phase(s)
BY DEF Phase, Settled

(* Phases during the set-up, while the drainer runs, and after.            *)
LEMMA SetupPhase ==
  ASSUME IInv, Outcome, NEW c \in Caller, pc[c] \in Setup
  PROVE  /\ sess[c] \in Session
         /\ holder = sess[c]
         /\ sess[c] \notin finished
         /\ "bin" \notin disk[sess[c]]
         /\ Phase(sess[c]) = "recording"
<1> USE DEF IInv, Core, TypeOK, Outcome, SetupInv, CallerInv, Setup
<1>1. sess[c] \in Session /\ holder = sess[c]
  BY DEF OwnershipAccounted, Starting
<1>2. sess[c] \notin finished
  BY <1>1 DEF CallsInv, DoneInv, Ended
<1>3. "bin" \notin disk[sess[c]]
  BY <1>1 DEF DiskInv, Decided
<1> QED
  BY <1>1, <1>2, <1>3 DEF Phase, Settled

LEMMA RecordingPhase ==
  ASSUME IInv, Outcome, NEW s \in Session, Alive(s)
  PROVE  /\ holder = s
         /\ dpc[s] \notin Decided =>
              s \notin finished /\ "bin" \notin disk[s] /\ Phase(s) = "recording"
<1> USE DEF IInv, Core, Outcome, Alive
<1>1. holder = s
  BY DEF SessionInv, OwnershipAccounted
<1>2. dpc[s] \notin Decided => s \notin finished /\ "bin" \notin disk[s]
  BY DEF DoneInv, DiskInv, Decided, Ended
<1> QED
  BY <1>1, <1>2 DEF Phase, Settled, Decided

LEMMA SettledPhase ==
  ASSUME NEW s \in Session, s \in finished
  PROVE  Phase(s) \in {"saved", "discarded"}
BY DEF Phase, Settled

-----------------------------------------------------------------------------
(* The steps of a start: a set-up that goes on or fails, and giving up.    *)
LEMMA StartKeepsContract ==
  ASSUME NEW c \in Caller, IInv, Outcome, StartStep(c)
  PROVE  [Contract!Next]_(Contract!vars)
<1> USE SessionAssumption DEF callerVars, ownerVars, fileVars, flagVars, Return,
        Goto, DrainerTo
<1>0. TypeOK /\ sess[c] \in Session
  BY DEF IInv, Core, CallerInv, Setup, StartStep, Reserve, ReserveFails,
     OpenAnalyzer, OpenAnalyzerFails, StartThread, StartThreadFails,
     StartThreadAndDisposeFail, StartReturns, StartGivesUp, AssignStartError,
     StopFailedStart, StartRaises
<1>1. PICK s \in Session : s = sess[c] /\ TypeOK
  BY <1>0
<1>2. CASE Reserve(c) \/ OpenAnalyzer(c) \/ StartThread(c)
  <2>1. /\ Phase(s) = "recording"
        /\ holder = s
        /\ s \notin finished
        /\ "bin" \notin disk[s]
    BY <1>1, <1>2, SetupPhase DEF Reserve, OpenAnalyzer, StartThread, Setup
  <2>2. StepOf(s) /\ UNCHANGED <<holder, stopped>>
    BY <1>1, <1>2 DEF Reserve, OpenAnalyzer, StartThread, StepOf, TypeOK
  <2>3. /\ dpc'[s] \in {"none", "enabling"}
        /\ UNCHANGED finished
        /\ "bin" \notin disk'[s]
    BY <1>1, <1>2, <2>1, SetupPhase DEF Reserve, OpenAnalyzer, StartThread,
       TypeOK, IInv, Core, SetupInv
  <2>4. Phase(s)' = "recording"
    BY <1>1, <2>1, <2>2, <2>3 DEF Phase, Settled
  <2> QED
    BY <1>1, <2>1, <2>2, <2>4, Stutters
<1>3. CASE ReserveFails(c) \/ OpenAnalyzerFails(c) \/ StartThreadFails(c)
  <2>1. /\ Phase(s) = "recording"
        /\ holder = s
        /\ s \notin finished
        /\ "bin" \notin disk[s]
    BY <1>1, <1>3, SetupPhase DEF ReserveFails, OpenAnalyzerFails,
       StartThreadFails, Setup
  <2>2. StepOf(s)
    BY <1>1, <1>3, <2>1 DEF ReserveFails, OpenAnalyzerFails, StartThreadFails,
       UnlinkPartial, UnlinkFails, ReleaseCapture, StepOf, TypeOK
  <2>3. /\ holder' = NoSession
        /\ UNCHANGED <<finished, dpc, stopped>>
        /\ "bin" \notin disk'[s]
    BY <1>1, <1>3, <2>1 DEF ReserveFails, OpenAnalyzerFails, StartThreadFails,
       UnlinkPartial, UnlinkFails, ReleaseCapture, TypeOK
  <2>4. dpc[s] \in {"unused", "none"}
    BY <1>1, <1>3 DEF ReserveFails, OpenAnalyzerFails, StartThreadFails, IInv,
       Core, SetupInv
  <2>5. \E p \in {"new", "discarded"} : Phases' = [Phases EXCEPT ![s] = p]
    <3>1. Phase(s)' \in {"new", "discarded"}
      BY <1>1, <2>1, <2>3, <2>4 DEF Phase, Settled
    <3> QED
      BY <1>1, <2>2, <3>1, PhaseMoves
  <2>6. Contract!Cancel(s)
    BY <1>1, <2>1, <2>3, <2>5 DEF Phases, Contract!Cancel
  <2> QED
    BY <1>1, <2>6 DEF Contract!Next
<1>4. CASE StartThreadAndDisposeFail(c)
  <2>1. Phase(s) = "recording" /\ holder = s /\ "bin" \notin disk[s]
    BY <1>1, <1>4, SetupPhase DEF StartThreadAndDisposeFail, Setup
  <2>2. StepOf(s) /\ UNCHANGED <<holder, stopped>>
    BY <1>1, <1>4 DEF StartThreadAndDisposeFail, UnlinkPartial, UnlinkFails,
       StepOf, TypeOK
  <2>3. Phase(s)' = "discarded"
    BY <1>1, <1>4, <2>1 DEF StartThreadAndDisposeFail, UnlinkPartial,
       UnlinkFails, Phase, Settled, TypeOK
  <2>4. Phases' = [Phases EXCEPT ![s] = "discarded"]
    BY <1>1, <2>2, <2>3, PhaseMoves
  <2>5. Contract!Discard(s)
    BY <1>1, <2>1, <2>2, <2>4 DEF Phases, Contract!Discard
  <2> QED
    BY <1>1, <2>5 DEF Contract!Next
<1>5. CASE StopFailedStart(c)
  <2>1. Phase(s) # "new"
    <3>1. dpc[s] \notin {"unused", "none"}
      BY <1>1, <1>5 DEF StopFailedStart, Outcome, CallsInv, Started
    <3>2. CASE Alive(s)
      BY <1>1, <3>2, RecordingPhase DEF Phase
    <3>3. CASE dpc[s] = "dead"
      BY <1>1, <3>3 DEF Phase, Settled
    <3> QED
      BY <1>1, <3>1, <3>2, <3>3 DEF Alive
  <2>2. StepOf(s) /\ UNCHANGED holder /\ stopped' = stopped \cup {s}
    BY <1>1, <1>5 DEF StopFailedStart, StepOf
  <2>3. Phases' = Phases
    BY <1>1, <1>5, <2>2, PhaseSteady DEF StopFailedStart, Phases
  <2>4. Contract!AskStop(s)
    BY <1>1, <2>1, <2>2, <2>3 DEF Phases, Contract!AskStop
  <2> QED
    BY <1>1, <2>4 DEF Contract!Next
<1>6. CASE \/ StartReturns(c)
           \/ StartGivesUp(c)
           \/ AssignStartError(c)
           \/ StartRaises(c)
  <2>1. UNCHANGED <<disk, finished, dpc, holder, stopped>>
    BY <1>1, <1>6 DEF StartReturns, StartGivesUp, AssignStartError,
       StartRaises
  <2> QED
    BY <1>1, <2>1, PhaseSteady, Stutters DEF StepOf
<1> QED
  BY <1>1, <1>2, <1>3, <1>4, <1>5, <1>6 DEF StartStep

(* The steps of a stop: only its release shows.                            *)
LEMMA StopKeepsContract ==
  ASSUME NEW c \in Caller, IInv, Outcome, StopStep(c)
  PROVE  [Contract!Next]_(Contract!vars)
<1> USE SessionAssumption DEF callerVars, ownerVars, fileVars, flagVars
<1>0. TypeOK /\ sess[c] \in Session
  BY DEF IInv, Core, CallerInv, StopStep, StopLocks, StopTimesOut, StopJoins,
     StopDisables, StopDisposes, StopCleanupFails, StopConfirms, StopReleases,
     StopReturns
<1>1. PICK s \in Session : s = sess[c] /\ TypeOK
  BY <1>0
<1>2. CASE StopLocks(c) \/ StopTimesOut(c) \/ StopJoins(c) \/ StopDisables(c)
           \/ StopDisposes(c) \/ StopCleanupFails(c) \/ StopReturns(c)
  <2>1. UNCHANGED <<disk, finished, dpc, holder, stopped>>
    BY <1>1, <1>2 DEF StopLocks, StopTimesOut, StopJoins, StopDisables,
       StopDisposes, StopCleanupFails, StopReturns
  <2> QED
    BY <1>1, <2>1, PhaseSteady, Stutters DEF StepOf
<1>3. CASE StopConfirms(c)
  <2>1. StepOf(s) /\ UNCHANGED <<dpc, finished, holder, stopped>>
    BY <1>1, <1>3 DEF StopConfirms, UnlinkPartial, UnlinkFails, StepOf, TypeOK
  <2>2. "bin" \in disk'[s] <=> "bin" \in disk[s]
    BY <1>1, <1>3 DEF StopConfirms, UnlinkPartial, UnlinkFails, TypeOK
  <2>3. Phase(s)' = Phase(s)
    BY <1>1, <2>1, <2>2 DEF Phase, Settled
  <2> QED
    BY <1>1, <2>1, <2>3, Stutters
<1>4. CASE StopReleases(c)
  <2>1. active = s /\ ~Alive(s) /\ dpc[s] # "unused" /\ ~Starting(s)
    BY <1>1, <1>4 DEF StopReleases, IInv, Core, StopInv, Stopping, Cleaning
  <2>2. holder = s /\ s \notin released
    BY <1>1, <2>1 DEF IInv, Core, SessionInv, OwnershipAccounted
  <2>3. s \in finished
    BY <1>1, <2>1 DEF Outcome, DoneInv, Ended, Alive
  <2>4. holder' = NoSession /\ UNCHANGED <<disk, finished, dpc, stopped>>
    BY <1>1, <1>4, <2>2 DEF StopReleases, ReleaseOwnership, ReleaseCapture
  <2>5. Phase(s)' = Phase(s)
    BY <1>1, <2>3, <2>4 DEF Phase, Settled
  <2>6. Phases' = Phases
    BY <1>1, <2>2, <2>4, <2>5, PhaseMoves DEF StepOf, Phases
  <2>7. Contract!Release(s)
    BY <1>1, <2>2, <2>3, <2>4, <2>6, SettledPhase DEF Phases, Contract!Release
  <2> QED
    BY <1>1, <2>7 DEF Contract!Next
<1> QED
  BY <1>1, <1>2, <1>3, <1>4 DEF StopStep

(* A capture that records shows nothing.                                   *)
LEMMA DrainKeepsContract ==
  ASSUME NEW s \in Session, IInv, Outcome, DrainStep(s)
  PROVE  UNCHANGED Contract!vars
<1> USE DEF ownerVars, fileVars, flagVars, callerVars, DrainerTo
<1> USE DEF DrainStep, Enable, EnableFails, SeeStop, ReachDuration, GoOn, Read,
        ReadNothing, ReadFails, AssignLimit, Flush, FlushFails, AssignFault
<1>1. Alive(s) /\ dpc[s] \notin Decided
  BY DEF Alive, Decided
<1>2. /\ TypeOK
      /\ s \notin finished
      /\ "bin" \notin disk[s]
      /\ Phase(s) = "recording"
      /\ holder = s
  BY <1>1, RecordingPhase DEF IInv
<1>3. UNCHANGED <<disk, finished, holder, stopped>>
  OBVIOUS
<1>4. StepOf(s)
  BY <1>2 DEF StepOf, TypeOK
<1>5. dpc'[s] \notin Decided \cup {"none"}
  BY <1>2 DEF Decided, TypeOK
<1>6. Phase(s)' = "recording"
  BY <1>2, <1>3, <1>5 DEF Phase, Settled, Decided
<1> QED
  BY <1>2, <1>3, <1>4, <1>6, Stutters

(* The outcome is settled in one step, then the hardware is given back.    *)
LEMMA EndKeepsContract ==
  ASSUME NEW s \in Session, IInv, Outcome, EndStep(s)
  PROVE  [Contract!Next]_(Contract!vars)
<1> USE SessionAssumption DEF ownerVars, fileVars, flagVars, callerVars, DrainerTo
<1> USE DEF Disable, DisableFails, Dispose, DisposeFails, AssignCleanupError,
     Drop, Publish, PublishFails, Discard, DiscardFails, Confirm, Finish, Release,
     Exit
<1>1. Alive(s) /\ TypeOK
  BY DEF Alive, EndStep, IInv
<1>2. holder = s
  BY <1>1, RecordingPhase
<1>3. CASE \/ Disable(s) \/ DisableFails(s) \/ Dispose(s) \/ DisposeFails(s)
           \/ AssignCleanupError(s)
  <2>1. dpc[s] \notin Decided /\ dpc'[s] \notin Decided \cup {"none"}
    BY <1>1, <1>3 DEF Decided, TypeOK
  <2>2. UNCHANGED <<disk, finished, holder, stopped>> /\ StepOf(s)
    BY <1>1, <1>3 DEF StepOf, TypeOK
  <2>3. Phase(s) = "recording" /\ s \notin finished /\ "bin" \notin disk[s]
    BY <1>1, <2>1, RecordingPhase
  <2>4. Phase(s)' = "recording"
    BY <1>2, <2>1, <2>2, <2>3 DEF Phase, Settled, Decided
  <2> QED
    BY <2>2, <2>3, <2>4, Stutters
<1>4. CASE \/ Drop(s)
           \/ Publish(s)
           \/ PublishFails(s)
           \/ Discard(s)
           \/ DiscardFails(s)
  <2>1. Phase(s) = "recording" /\ "bin" \notin disk[s]
    BY <1>1, <1>4, RecordingPhase DEF Decided
  <2>2. UNCHANGED <<holder, stopped>> /\ StepOf(s)
    BY <1>1, <1>4 DEF UnlinkPartial, UnlinkFails, StepOf, TypeOK
  <2>3. dpc'[s] \in {"confirming", "finishing"}
    BY <1>1, <1>4 DEF TypeOK
  <2>4. CASE "bin" \in disk'[s]
    <3>1. s \in stopped
      BY <1>1, <1>4, <2>1, <2>4 DEF UnlinkPartial, UnlinkFails, Outcome,
         CleanInv, TypeOK
    <3>2. Phase(s)' = "saved"
      BY <2>4 DEF Phase
    <3>3. Phases' = [Phases EXCEPT ![s] = "saved"]
      BY <2>2, <3>2, PhaseMoves
    <3>4. Contract!Save(s)
      BY <1>2, <2>1, <2>2, <3>1, <3>3 DEF Phases, Contract!Save
    <3> QED
      BY <3>4 DEF Contract!Next
  <2>5. CASE "bin" \notin disk'[s]
    <3>1. Phase(s)' = "discarded"
      BY <2>3, <2>5 DEF Phase, Settled
    <3>2. Phases' = [Phases EXCEPT ![s] = "discarded"]
      BY <2>2, <3>1, PhaseMoves
    <3>3. Contract!Discard(s)
      BY <1>2, <2>1, <2>2, <3>2 DEF Phases, Contract!Discard
    <3> QED
      BY <3>3 DEF Contract!Next
  <2> QED
    BY <2>4, <2>5
<1>5. CASE Confirm(s) \/ Finish(s) \/ Exit(s)
  <2>1. UNCHANGED <<disk, holder, stopped>> /\ StepOf(s)
    BY <1>1, <1>5 DEF StepOf, TypeOK
  <2>2. Phase(s)' = Phase(s)
    BY <1>1, <1>5 DEF Phase, Settled, TypeOK
  <2> QED
    BY <2>1, <2>2, Stutters
<1>6. CASE Release(s)
  <2>1. s \notin released /\ s \in finished
    BY <1>1, <1>6 DEF IInv, Core, SessionInv, Outcome, DoneInv
  <2>2. holder' = NoSession /\ UNCHANGED <<disk, finished, stopped>>
    BY <1>2, <1>6, <2>1 DEF ReleaseOwnership, ReleaseCapture
  <2>3. StepOf(s)
    BY <1>1, <1>2, <1>6, <2>2 DEF StepOf, TypeOK
  <2>4. Phase(s)' = Phase(s)
    BY <2>1, <2>2 DEF Phase, Settled
  <2>5. Phases' = Phases
    BY <2>3, <2>4, PhaseMoves DEF Phases
  <2>6. Contract!Release(s)
    BY <1>2, <2>1, <2>2, <2>5, SettledPhase DEF Phases, Contract!Release
  <2> QED
    BY <2>6 DEF Contract!Next
<1> QED
  BY <1>3, <1>4, <1>5, <1>6 DEF EndStep

(* A call begins, somebody else uses the hardware, or nothing changes.     *)
LEMMA OthersKeepContract ==
  ASSUME IInv, Outcome,
         \/ \E c \in Caller, s \in Session : StartClaims(c, s)
         \/ \E c \in Caller : StopRequest(c) \/ StatusBegins(c) \/ StatusEnds(c)
         \/ ElsewhereBegins \/ ElsewhereEnds
         \/ UNCHANGED vars
  PROVE  [Contract!Next]_(Contract!vars)
<1> USE SessionAssumption DEF callerVars, ownerVars, fileVars, flagVars
<1>1. ASSUME NEW c \in Caller, NEW s \in Session, StartClaims(c, s)
      PROVE  Contract!Begin(s)
  <2>1. /\ holder = NoSession
        /\ holder' = s
        /\ UNCHANGED <<disk, finished, dpc, stopped>>
        /\ dpc[s] = "unused"
    BY <1>1 DEF StartClaims
  <2>2. "bin" \notin disk[s] /\ s \notin finished
    BY <2>1 DEF Outcome, DiskInv, DoneInv, Decided, Ended
  <2>3. Phase(s) = "new" /\ Phase(s)' = "recording"
    BY <2>1, <2>2 DEF Phase, Settled
  <2>4. Phases' = [Phases EXCEPT ![s] = "recording"]
    BY <2>1, <2>3, PhaseMoves DEF StepOf
  <2> QED
    BY <2>1, <2>3, <2>4 DEF Phases, Contract!Begin
<1>2. ASSUME NEW c \in Caller, StopRequest(c)
      PROVE  active \in Session /\ Contract!AskStop(active)
  <2>1. active \in Session
    BY <1>2 DEF StopRequest, IInv, TypeOK
  <2>2. /\ UNCHANGED <<disk, finished, dpc, holder>>
        /\ stopped' = stopped \cup {active}
    BY <1>2 DEF StopRequest
  <2>3. Phase(active) # "new"
    BY <2>1 DEF Phase, IInv, Core, OwnershipAccounted
  <2>4. Phases' = Phases
    BY <2>2, PhaseSteady DEF Phases
  <2> QED
    BY <2>1, <2>2, <2>3, <2>4 DEF Phases, Contract!AskStop
<1>3. ASSUME NEW c \in Caller, StatusBegins(c) \/ StatusEnds(c)
      PROVE  \/ Contract!Take(StatusRead) \/ Contract!Give(StatusRead)
             \/ UNCHANGED Contract!vars
  <2>1. UNCHANGED <<disk, finished, dpc, stopped>>
    BY <1>3 DEF StatusBegins, StatusEnds
  <2>2. \A s \in Session : holder' = s <=> holder = s
    BY <1>3 DEF StatusBegins, StatusEnds, Other
  <2>3. Phases' = Phases
    BY <2>1, <2>2, PhaseSteady DEF Phases
  <2> QED
    BY <1>3, <2>1, <2>3 DEF StatusBegins, StatusEnds, Phases, Contract!Take,
       Contract!Give, Contract!vars
<1>4. CASE ElsewhereBegins \/ ElsewhereEnds
  <2>1. UNCHANGED <<disk, finished, dpc, stopped>>
    BY <1>4 DEF ElsewhereBegins, ElsewhereEnds
  <2>2. \A s \in Session : holder' = s <=> holder = s
    BY <1>4 DEF ElsewhereBegins, ElsewhereEnds, Other
  <2>3. Phases' = Phases
    BY <2>1, <2>2, PhaseSteady DEF Phases
  <2>4. Contract!Take(Elsewhere) \/ Contract!Give(Elsewhere)
    BY <1>4, <2>1, <2>3 DEF ElsewhereBegins, ElsewhereEnds, Phases,
       Contract!Take, Contract!Give
  <2> QED
    BY <2>4 DEF Other, Contract!Next
<1>5. CASE UNCHANGED vars
  <2>1. Phases' = Phases
    BY <1>5, PhaseSteady DEF vars, Phases
  <2> QED
    BY <1>5, <2>1 DEF vars, Phases, Contract!vars
<1> QED
  BY <1>1, <1>2, <1>3, <1>4, <1>5 DEF Other, Contract!Next

-----------------------------------------------------------------------------
LEMMA InitKeepsContract == Init => Contract!Init
BY SessionAssumption DEF Init, Contract!Init, Phase, Settled

LEMMA NextKeepsContract ==
  IInv /\ Outcome /\ [Next]_vars => [Contract!Next]_(Contract!vars)
<1> SUFFICES ASSUME IInv, Outcome, [Next]_vars
             PROVE  [Contract!Next]_(Contract!vars)
  OBVIOUS
<1>1. CASE \E c \in Caller : StartStep(c) \/ StopStep(c)
  BY <1>1, StartKeepsContract, StopKeepsContract
<1>2. CASE \E s \in Session : DrainStep(s) \/ EndStep(s)
  BY <1>2, DrainKeepsContract, EndKeepsContract
<1> QED
  BY <1>1, <1>2, OthersKeepContract DEF Next

(* However many callers and sessions there are, a capture holds the        *)
(* hardware from before it starts until its outcome is settled, the        *)
(* outcome is settled once, and a recording is saved only after a stop was *)
(* asked for: start_capture, the drainer and stop_capture together keep    *)
(* the contract (capture.py:341-348, 434-646).                             *)
THEOREM ContractIsKept == Spec => KeepsContract
<1>1. Spec => Contract!Init /\ [][Contract!Next]_(Contract!vars)
  BY Invariance, OutcomeInvariance, InitKeepsContract, NextKeepsContract, PTL
     DEF Spec
<1> QED
  BY <1>1 DEF KeepsContract, Contract!Spec

=============================================================================
