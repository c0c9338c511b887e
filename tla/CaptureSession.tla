--------------------------- MODULE CaptureSession ---------------------------
(***************************************************************************)
(* capture.py in one process: the sessions, the module state _active,      *)
(* _last_session and _lock, the callers of start_capture and stop_capture, *)
(* and the drainer thread of every session; hardware.py's status read      *)
(* competes for the same hardware, and so do other programs.               *)
(*                                                                         *)
(* HARDWARE_COORDINATOR is one variable here, `holder': Coordinator.tla    *)
(* models it step by step and shows that it behaves so.  The code's owner  *)
(* string "capture" is refined to the session the claim was made for, so   *)
(* that releasing another session's claim can be told.                     *)
(***************************************************************************)
EXTENDS Naturals

CONSTANTS
  Caller,      \* threads that call the module's functions
  Session,     \* capture sessions, one for each capture id
  NoCaller,    \* the lock is free
  NoSession,   \* None for a session; the hardware is free
  StatusRead,  \* holder: Hardware.get_status of this process
  Elsewhere,   \* holder: another program
  MaxBytes     \* MAX_CAPTURE_BYTES

Other == {StatusRead, Elsewhere}

ASSUME CallerAssumption == NoCaller \notin Caller
ASSUME SessionAssumption ==
  /\ NoSession \notin Session \cup Other
  /\ Session \cap Other = {}
ASSUME BytesAssumption == MaxBytes \in Nat \ {0}

VARIABLES
  active,       \* _active
  last,         \* _last_session
  lock,         \* the caller that holds _lock across steps (start_capture)
  holder,       \* who owns the hardware
  cleanupLock,  \* cleanupLock[s]: the caller that holds s._cleanup_lock
  dev,          \* dev[s]: "closed" (_dev is None), "open" or "streaming"
  disk,         \* disk[s]: which of s's "partial" and "bin" exist
  bytes,        \* bytes[s]: bytes_written
  err,          \* err[s]: the class of error_code, or "none"
  pend,         \* pend[s]: what the drainer is about to write to err[s]
  ready,        \* sessions whose _ready is set
  stopped,      \* sessions whose _stop_flag is set
  finished,     \* sessions with a finished_at
  confirmed,    \* sessions with cleanup_confirmed
  released,     \* sessions with _ownership_released
  clean,        \* sessions whose drainer has found `clean' true
  dpc,          \* dpc[s]: where the drainer thread of s is
  pc,           \* pc[c]: where the call of c is
  sess,         \* sess[c]: the session that call is about
  reply         \* reply[c]: how the last call of c ended

callerVars == <<lock, cleanupLock, pc, sess, reply>>
ownerVars == <<active, last, holder, released>>
fileVars == <<disk, bytes>>
errorVars == <<err, pend>>
flagVars == <<ready, stopped, finished, confirmed, clean>>

vars == <<callerVars, ownerVars, dev, fileVars, errorVars, flagVars, dpc>>

\* "limit": duration_limit and byte_limit; "io": usb_claim_failed,
\* usb_io_failed and capture_failed; "start": capture_start_failed;
\* "publish": artifact_publish_failed; "cleanup": cleanup_failed.
Error == {"limit", "io", "start", "publish", "cleanup"}

\* "unused": the id is not drawn yet; "none": _thread is None.
DrainerLocation ==
  {"unused", "none", "enabling", "checking", "reading", "limiting", "flushing",
   "faulting", "disabling", "disposing", "abandoning", "dropping",
   "finalizing", "confirming", "finishing", "releasing", "exiting", "dead"}

CallerLocation ==
  {"idle", "reserving", "opening", "spawning", "awaiting", "failing",
   "stopping", "giving_up", "joining", "stop_locking", "stop_joining",
   "stop_disabling", "stop_disposing", "stop_confirming", "stop_releasing",
   "stop_returning", "status"}

Reply ==
  {"none", "started", "start_failed", "stopped", "stop_failed",
   "cleanup_failed", "stop_timeout"}

TypeOK ==
  /\ active \in Session \cup {NoSession}
  /\ last \in Session \cup {NoSession}
  /\ lock \in Caller \cup {NoCaller}
  /\ holder \in Session \cup Other \cup {NoSession}
  /\ cleanupLock \in [Session -> Caller \cup {NoCaller}]
  /\ dev \in [Session -> {"closed", "open", "streaming"}]
  /\ disk \in [Session -> SUBSET {"partial", "bin"}]
  /\ bytes \in [Session -> 0 .. MaxBytes]
  /\ err \in [Session -> Error \cup {"none"}]
  /\ pend \in [Session -> Error \cup {"none"}]
  /\ ready \subseteq Session
  /\ stopped \subseteq Session
  /\ finished \subseteq Session
  /\ confirmed \subseteq Session
  /\ released \subseteq Session
  /\ clean \subseteq Session
  /\ dpc \in [Session -> DrainerLocation]
  /\ pc \in [Caller -> CallerLocation]
  /\ sess \in [Caller -> Session \cup {NoSession}]
  /\ reply \in [Caller -> Reply]

Init ==
  /\ active = NoSession
  /\ last = NoSession
  /\ lock = NoCaller
  /\ holder = NoSession
  /\ cleanupLock = [s \in Session |-> NoCaller]
  /\ dev = [s \in Session |-> "closed"]
  /\ disk = [s \in Session |-> {}]
  /\ bytes = [s \in Session |-> 0]
  /\ err = [s \in Session |-> "none"]
  /\ pend = [s \in Session |-> "none"]
  /\ ready = {}
  /\ stopped = {}
  /\ finished = {}
  /\ confirmed = {}
  /\ released = {}
  /\ clean = {}
  /\ dpc = [s \in Session |-> "unused"]
  /\ pc = [c \in Caller |-> "idle"]
  /\ sess = [c \in Caller |-> NoSession]
  /\ reply = [c \in Caller |-> "none"]

-----------------------------------------------------------------------------
(* Helpers.                                                                *)

Goto(c, l) == pc' = [pc EXCEPT ![c] = l]

Return(c, r) ==
  /\ Goto(c, "idle")
  /\ reply' = [reply EXCEPT ![c] = r]

DrainerTo(s, l) == dpc' = [dpc EXCEPT ![s] = l]

\* is_alive() of the drainer thread of s.
Alive(s) == dpc[s] \notin {"unused", "none", "dead"}

\* HARDWARE_COORDINATOR.release("capture"): it cannot tell one capture's
\* claim from another's, and leaves a claim of any other owner alone.
ReleaseCapture == holder' = IF holder \in Session THEN NoSession ELSE holder

\* _unlink_partial, which may fail and leave the file.
UnlinkPartial(s) == disk' = [disk EXCEPT ![s] = @ \ {"partial"}]
UnlinkFails == UNCHANGED disk

\* _set_session_error where no other thread can write the error: the first
\* error stays.
SetError(s, e) == err' = [err EXCEPT ![s] = IF @ = "none" THEN e ELSE @]

\* _set_session_error in the drainer: the test of `error is None' and the
\* assignment are two steps, and a caller's error may come between them.
TestError(s, e) ==
  /\ pend' = [pend EXCEPT ![s] = IF err[s] = "none" THEN e ELSE "none"]
  /\ UNCHANGED err

AssignError(s) ==
  /\ err' = [err EXCEPT ![s] = IF pend[s] = "none" THEN @ ELSE pend[s]]
  /\ pend' = [pend EXCEPT ![s] = "none"]

\* _release_session_ownership, all of it under _lock.
ReleaseOwnership(s) ==
  /\ lock = NoCaller
  /\ active' = IF active = s THEN NoSession ELSE active
  /\ IF s \in released THEN UNCHANGED holder ELSE ReleaseCapture
  /\ released' = released \cup {s}
  /\ UNCHANGED last

-----------------------------------------------------------------------------
(* start_capture.  A start refused because a capture is active, or because *)
(* the hardware is owned, raises and changes nothing.                      *)

StartClaims(c, s) ==
  /\ pc[c] = "idle"
  /\ lock = NoCaller
  /\ active = NoSession
  /\ holder = NoSession
  /\ dpc[s] = "unused"
  /\ lock' = c
  /\ holder' = s
  /\ sess' = [sess EXCEPT ![c] = s]
  /\ reply' = [reply EXCEPT ![c] = "none"]
  /\ Goto(c, "reserving")
  /\ UNCHANGED <<cleanupLock, active, last, released, dev, fileVars, errorVars,
                 flagVars, dpc>>

Reserve(c) ==
  LET s == sess[c] IN
  /\ pc[c] = "reserving"
  /\ disk' = [disk EXCEPT ![s] = {"partial"}]
  /\ DrainerTo(s, "none")
  /\ Goto(c, "opening")
  /\ UNCHANGED <<lock, cleanupLock, sess, reply, ownerVars, dev, bytes,
                 errorVars, flagVars>>

\* The storage quota is full, or the reservation fails otherwise.
ReserveFails(c) ==
  /\ pc[c] = "reserving"
  /\ lock' = NoCaller
  /\ active' = NoSession
  /\ ReleaseCapture
  /\ Return(c, "start_failed")
  /\ UNCHANGED <<cleanupLock, sess, last, released, dev, fileVars, errorVars,
                 flagVars, dpc>>

OpenAnalyzer(c) ==
  LET s == sess[c] IN
  /\ pc[c] = "opening"
  /\ dev' = [dev EXCEPT ![s] = "open"]
  /\ active' = s
  /\ Goto(c, "spawning")
  /\ UNCHANGED <<lock, cleanupLock, sess, reply, last, holder, released,
                 fileVars, errorVars, flagVars, dpc>>

\* Fault variant: this path forgets HARDWARE_COORDINATOR.release.
OpenAnalyzerFailsLeaking(c) ==
  /\ pc[c] = "opening"
  /\ UnlinkPartial(sess[c]) \/ UnlinkFails
  /\ lock' = NoCaller
  /\ active' = NoSession
  /\ Return(c, "start_failed")
  /\ UNCHANGED <<cleanupLock, sess, last, holder, released, dev, bytes,
                 errorVars, flagVars, dpc>>

\* Packetry runs, or there is not exactly one analyzer.
OpenAnalyzerFails(c) ==
  /\ pc[c] = "opening"
  /\ UnlinkPartial(sess[c]) \/ UnlinkFails
  /\ lock' = NoCaller
  /\ active' = NoSession
  /\ ReleaseCapture
  /\ Return(c, "start_failed")
  /\ UNCHANGED <<cleanupLock, sess, last, released, dev, bytes, errorVars,
                 flagVars, dpc>>

StartThread(c) ==
  LET s == sess[c] IN
  /\ pc[c] = "spawning"
  /\ DrainerTo(s, "enabling")
  /\ lock' = NoCaller
  /\ Goto(c, "awaiting")
  /\ UNCHANGED <<cleanupLock, sess, reply, ownerVars, dev, fileVars, errorVars,
                 flagVars>>

\* The thread cannot be started and the device is disposed of.
StartThreadFails(c) ==
  LET s == sess[c] IN
  /\ pc[c] = "spawning"
  /\ UnlinkPartial(s) \/ UnlinkFails
  /\ dev' = [dev EXCEPT ![s] = "closed"]
  /\ active' = NoSession
  /\ ReleaseCapture
  /\ lock' = NoCaller
  /\ Return(c, "start_failed")
  /\ UNCHANGED <<cleanupLock, sess, last, released, bytes, errorVars, flagVars,
                 dpc>>

\* Fault variant: the claim is released although the device is not disposed.
StartThreadAndDisposeFailReleasing(c) ==
  /\ pc[c] = "spawning"
  /\ UnlinkPartial(sess[c]) \/ UnlinkFails
  /\ active' = NoSession
  /\ ReleaseCapture
  /\ lock' = NoCaller
  /\ Return(c, "start_failed")
  /\ UNCHANGED <<cleanupLock, sess, last, released, dev, bytes, errorVars,
                 flagVars, dpc>>

\* The thread cannot be started, nor the device disposed of: the session
\* stays active and keeps the hardware, for capture_stop to try again.
StartThreadAndDisposeFail(c) ==
  LET s == sess[c] IN
  /\ pc[c] = "spawning"
  /\ UnlinkPartial(s) \/ UnlinkFails
  /\ SetError(s, "cleanup")
  /\ finished' = finished \cup {s}
  /\ last' = s
  /\ lock' = NoCaller
  /\ Return(c, "start_failed")
  /\ UNCHANGED <<cleanupLock, sess, active, holder, released, dev, bytes, pend,
                 ready, stopped, confirmed, clean, dpc>>

StartReturns(c) ==
  LET s == sess[c] IN
  /\ pc[c] = "awaiting"
  /\ s \in ready /\ err[s] = "none" /\ Alive(s)
  /\ Return(c, "started")
  /\ UNCHANGED <<lock, cleanupLock, sess, ownerVars, dev, fileVars, errorVars,
                 flagVars, dpc>>

\* Fault variant: the stop flag is set before the error.
StartGivesUpStopFirst(c) ==
  LET s == sess[c] IN
  /\ pc[c] = "awaiting"
  /\ s \notin ready \/ err[s] # "none" \/ ~Alive(s)
  /\ stopped' = stopped \cup {s}
  /\ Goto(c, IF err[s] = "none" THEN "failing" ELSE "stopping")
  /\ UNCHANGED <<lock, cleanupLock, sess, reply, ownerVars, dev, fileVars,
                 errorVars, ready, finished, confirmed, clean, dpc>>

\* _ready is not set in time, or the session has already failed or ended.
\* _set_session_error tests the error here and assigns it in the next step.
StartGivesUp(c) ==
  LET s == sess[c] IN
  /\ pc[c] = "awaiting"
  /\ s \notin ready \/ err[s] # "none" \/ ~Alive(s)
  /\ Goto(c, IF err[s] = "none" THEN "failing" ELSE "stopping")
  /\ UNCHANGED <<lock, cleanupLock, sess, reply, ownerVars, dev, fileVars,
                 errorVars, flagVars, dpc>>

AssignStartError(c) ==
  /\ pc[c] = "failing"
  /\ err' = [err EXCEPT ![sess[c]] = "start"]
  /\ Goto(c, "stopping")
  /\ UNCHANGED <<lock, cleanupLock, sess, reply, ownerVars, dev, fileVars, pend,
                 flagVars, dpc>>

StopFailedStart(c) ==
  /\ pc[c] = "stopping"
  /\ stopped' = stopped \cup {sess[c]}
  /\ Goto(c, "joining")
  /\ UNCHANGED <<lock, cleanupLock, sess, reply, ownerVars, dev, fileVars,
                 errorVars, ready, finished, confirmed, clean, dpc>>

\* The drainer has ended, or the join has timed out.
StartRaises(c) ==
  /\ pc[c] = "joining"
  /\ Return(c, "start_failed")
  /\ UNCHANGED <<lock, cleanupLock, sess, ownerVars, dev, fileVars, errorVars,
                 flagVars, dpc>>

-----------------------------------------------------------------------------
(* The drainer thread of session s.                                        *)

Enable(s) ==
  /\ dpc[s] = "enabling"
  /\ dev' = [dev EXCEPT ![s] = "streaming"]
  /\ ready' = ready \cup {s}
  /\ DrainerTo(s, "checking")
  /\ UNCHANGED <<callerVars, ownerVars, fileVars, errorVars, stopped, finished,
                 confirmed, clean>>

\* The request may have reached the analyzer all the same.
EnableFails(s) ==
  /\ dpc[s] = "enabling"
  /\ \E d \in {"open", "streaming"} : dev' = [dev EXCEPT ![s] = d]
  /\ TestError(s, "io")
  /\ DrainerTo(s, "faulting")
  /\ UNCHANGED <<callerVars, ownerVars, fileVars, flagVars>>

SeeStop(s) ==
  /\ dpc[s] = "checking"
  /\ s \in stopped
  /\ DrainerTo(s, "flushing")
  /\ UNCHANGED <<callerVars, ownerVars, dev, fileVars, errorVars, flagVars>>

\* Fault variant: the duration is looked at only once traffic was seen.
ReachDurationAfterTraffic(s) ==
  /\ dpc[s] = "checking"
  /\ s \notin stopped
  /\ bytes[s] > 0
  /\ TestError(s, "limit")
  /\ DrainerTo(s, "limiting")
  /\ UNCHANGED <<callerVars, ownerVars, dev, fileVars, flagVars>>

\* MAX_CAPTURE_SECONDS have passed (or no byte remains).
ReachDuration(s) ==
  /\ dpc[s] = "checking"
  /\ s \notin stopped
  /\ TestError(s, "limit")
  /\ DrainerTo(s, "limiting")
  /\ UNCHANGED <<callerVars, ownerVars, dev, fileVars, flagVars>>

GoOn(s) ==
  /\ dpc[s] = "checking"
  /\ s \notin stopped
  /\ DrainerTo(s, "reading")
  /\ UNCHANGED <<callerVars, ownerVars, dev, fileVars, errorVars, flagVars>>

\* Fault variant: chunks are not cut at the bytes that remain.
ReadUncut(s) ==
  /\ dpc[s] = "reading"
  /\ \E n \in 1 .. MaxBytes : bytes' = [bytes EXCEPT ![s] = @ + n]
  /\ IF bytes'[s] >= MaxBytes
     THEN TestError(s, "limit") /\ DrainerTo(s, "limiting")
     ELSE UNCHANGED errorVars /\ DrainerTo(s, "checking")
  /\ UNCHANGED <<callerVars, ownerVars, dev, disk, flagVars>>

\* A chunk is read and written; the one that fills the capture ends it.
Read(s) ==
  /\ dpc[s] = "reading"
  /\ \E n \in 1 .. MaxBytes - bytes[s] : bytes' = [bytes EXCEPT ![s] = @ + n]
  /\ IF bytes'[s] = MaxBytes
     THEN TestError(s, "limit") /\ DrainerTo(s, "limiting")
     ELSE UNCHANGED errorVars /\ DrainerTo(s, "checking")
  /\ UNCHANGED <<callerVars, ownerVars, dev, disk, flagVars>>

\* The read times out, or returns no byte.
ReadNothing(s) ==
  /\ dpc[s] = "reading"
  /\ DrainerTo(s, "checking")
  /\ UNCHANGED <<callerVars, ownerVars, dev, fileVars, errorVars, flagVars>>

\* The read or the write raises.
ReadFails(s) ==
  /\ dpc[s] = "reading"
  /\ TestError(s, "io")
  /\ DrainerTo(s, "faulting")
  /\ UNCHANGED <<callerVars, ownerVars, dev, fileVars, flagVars>>

AssignLimit(s) ==
  /\ dpc[s] = "limiting"
  /\ AssignError(s)
  /\ DrainerTo(s, "flushing")
  /\ UNCHANGED <<callerVars, ownerVars, dev, fileVars, flagVars>>

\* Fault variant: `clean' looks at the stop flag only.
FlushTrustingStop(s) ==
  /\ dpc[s] = "flushing"
  /\ clean' = IF s \in stopped THEN clean \cup {s} ELSE clean
  /\ DrainerTo(s, "disabling")
  /\ UNCHANGED <<callerVars, ownerVars, dev, fileVars, errorVars, ready, stopped,
                 finished, confirmed>>

\* The file is flushed and closed; `clean' is assigned.
Flush(s) ==
  /\ dpc[s] = "flushing"
  /\ clean' = IF err[s] = "none" /\ s \in stopped THEN clean \cup {s} ELSE clean
  /\ DrainerTo(s, "disabling")
  /\ UNCHANGED <<callerVars, ownerVars, dev, fileVars, errorVars, ready, stopped,
                 finished, confirmed>>

FlushFails(s) ==
  /\ dpc[s] = "flushing"
  /\ TestError(s, "io")
  /\ DrainerTo(s, "faulting")
  /\ UNCHANGED <<callerVars, ownerVars, dev, fileVars, flagVars>>

AssignFault(s) ==
  /\ dpc[s] = "faulting"
  /\ AssignError(s)
  /\ ready' = ready \cup {s}
  /\ DrainerTo(s, "disabling")
  /\ UNCHANGED <<callerVars, ownerVars, dev, fileVars, stopped, finished,
                 confirmed, clean>>

\* _cleanup_device: the analyzer is disabled, then disposed of.
Disable(s) ==
  /\ dpc[s] = "disabling"
  /\ dev' = [dev EXCEPT ![s] = "open"]
  /\ DrainerTo(s, "disposing")
  /\ UNCHANGED <<callerVars, ownerVars, fileVars, errorVars, flagVars>>

DisableFails(s) ==
  /\ dpc[s] = "disabling"
  /\ \E d \in {"open", dev[s]} : dev' = [dev EXCEPT ![s] = d]
  /\ TestError(s, "cleanup")
  /\ DrainerTo(s, "abandoning")
  /\ UNCHANGED <<callerVars, ownerVars, fileVars, flagVars>>

Dispose(s) ==
  /\ dpc[s] = "disposing"
  /\ dev' = [dev EXCEPT ![s] = "closed"]
  /\ DrainerTo(s, "finalizing")
  /\ UNCHANGED <<callerVars, ownerVars, fileVars, errorVars, flagVars>>

DisposeFails(s) ==
  /\ dpc[s] = "disposing"
  /\ TestError(s, "cleanup")
  /\ DrainerTo(s, "abandoning")
  /\ UNCHANGED <<callerVars, ownerVars, dev, fileVars, flagVars>>

\* Fault variant: finished_at is assigned before the error is.
AssignCleanupErrorLate(s) ==
  /\ dpc[s] = "abandoning"
  /\ \/ /\ s \notin finished
        /\ finished' = finished \cup {s}
        /\ UNCHANGED <<errorVars, dpc>>
     \/ /\ s \in finished
        /\ AssignError(s)
        /\ DrainerTo(s, "dropping")
        /\ UNCHANGED finished
  /\ UNCHANGED <<callerVars, ownerVars, dev, fileVars, ready, stopped, confirmed,
                 clean>>

\* _cleanup_device returns False.
AssignCleanupError(s) ==
  /\ dpc[s] = "abandoning"
  /\ AssignError(s)
  /\ DrainerTo(s, "dropping")
  /\ UNCHANGED <<callerVars, ownerVars, dev, fileVars, flagVars>>

\* The device could not be cleaned up: the recording is dropped.
Drop(s) ==
  /\ dpc[s] = "dropping"
  /\ \/ UnlinkPartial(s) /\ UNCHANGED err
     \/ UnlinkFails /\ SetError(s, "cleanup")
  /\ DrainerTo(s, "finishing")
  /\ UNCHANGED <<callerVars, ownerVars, dev, bytes, pend, flagVars>>

\* _finalize_file(session, True): link the partial file to the final name,
\* unlink the partial name, sync the directory.
Publish(s) ==
  /\ dpc[s] = "finalizing"
  /\ s \in clean
  /\ disk' = [disk EXCEPT ![s] = {"bin"}]
  /\ DrainerTo(s, "confirming")
  /\ UNCHANGED <<callerVars, ownerVars, dev, bytes, errorVars, flagVars>>

\* A step of it raises, and so may the unlink that follows.
PublishFails(s) ==
  /\ dpc[s] = "finalizing"
  /\ s \in clean
  /\ \E names \in SUBSET {"partial", "bin"} : disk' = [disk EXCEPT ![s] = names]
  /\ TestError(s, "publish")
  /\ DrainerTo(s, "confirming")
  /\ UNCHANGED <<callerVars, ownerVars, dev, bytes, flagVars>>

\* _finalize_file(session, False).
Discard(s) ==
  /\ dpc[s] = "finalizing"
  /\ s \notin clean
  /\ UnlinkPartial(s)
  /\ DrainerTo(s, "confirming")
  /\ UNCHANGED <<callerVars, ownerVars, dev, bytes, errorVars, flagVars>>

DiscardFails(s) ==
  /\ dpc[s] = "finalizing"
  /\ s \notin clean
  /\ UnlinkFails
  /\ TestError(s, "publish")
  /\ DrainerTo(s, "confirming")
  /\ UNCHANGED <<callerVars, ownerVars, dev, bytes, flagVars>>

Confirm(s) ==
  /\ dpc[s] = "confirming"
  /\ AssignError(s)
  /\ confirmed' = confirmed \cup {s}
  /\ DrainerTo(s, "finishing")
  /\ UNCHANGED <<callerVars, ownerVars, dev, fileVars, ready, stopped, finished,
                 clean>>

\* Fault variant: _last_session is not assigned.
FinishUnseen(s) ==
  /\ dpc[s] = "finishing"
  /\ finished' = finished \cup {s}
  /\ DrainerTo(s, IF s \in confirmed THEN "releasing" ELSE "exiting")
  /\ UNCHANGED <<callerVars, ownerVars, dev, fileVars, errorVars, ready, stopped,
                 confirmed, clean>>

\* finished_at, then _last_session, at which nobody looks before the session
\* has ceased to be the active one.  A session whose device could not be
\* cleaned up stays active and keeps the hardware.
Finish(s) ==
  /\ dpc[s] = "finishing"
  /\ finished' = finished \cup {s}
  /\ last' = s
  /\ DrainerTo(s, IF s \in confirmed THEN "releasing" ELSE "exiting")
  /\ UNCHANGED <<callerVars, active, holder, released, dev, fileVars, errorVars,
                 ready, stopped, confirmed, clean>>

\* The last thing the drainer does: nothing happens between this and the end
\* of the thread that could not as well happen before.
Release(s) ==
  /\ dpc[s] = "releasing"
  /\ ReleaseOwnership(s)
  /\ DrainerTo(s, "dead")
  /\ UNCHANGED <<callerVars, dev, fileVars, errorVars, flagVars>>

\* The thread of a session that stays active ends.
Exit(s) ==
  /\ dpc[s] = "exiting"
  /\ DrainerTo(s, "dead")
  /\ UNCHANGED <<callerVars, ownerVars, dev, fileVars, errorVars, flagVars>>

-----------------------------------------------------------------------------
(* stop_capture.  Without an active capture it raises and changes nothing. *)

StopRequest(c) ==
  /\ pc[c] = "idle"
  /\ lock = NoCaller
  /\ active # NoSession
  /\ stopped' = stopped \cup {active}
  /\ sess' = [sess EXCEPT ![c] = active]
  /\ reply' = [reply EXCEPT ![c] = "none"]
  /\ Goto(c, "stop_locking")
  /\ UNCHANGED <<lock, cleanupLock, ownerVars, dev, fileVars, errorVars, ready,
                 finished, confirmed, clean, dpc>>

\* Fault variant: _cleanup_lock is not taken.
StopLocksNothing(c) ==
  /\ pc[c] = "stop_locking"
  /\ Goto(c, "stop_joining")
  /\ UNCHANGED <<lock, cleanupLock, sess, reply, ownerVars, dev, fileVars,
                 errorVars, flagVars, dpc>>

StopLocks(c) ==
  LET s == sess[c] IN
  /\ pc[c] = "stop_locking"
  /\ cleanupLock[s] = NoCaller
  /\ cleanupLock' = [cleanupLock EXCEPT ![s] = c]
  /\ Goto(c, "stop_joining")
  /\ UNCHANGED <<lock, sess, reply, ownerVars, dev, fileVars, errorVars,
                 flagVars, dpc>>

\* Leaving `with session._cleanup_lock' with a result.
StopEnds(c, r) ==
  /\ cleanupLock' = [cleanupLock EXCEPT ![sess[c]] = NoCaller]
  /\ Return(c, r)
  /\ UNCHANGED <<lock, sess>>

StopTimesOut(c) ==
  /\ pc[c] = "stop_joining"
  /\ Alive(sess[c])
  /\ StopEnds(c, "stop_timeout")
  /\ UNCHANGED <<ownerVars, dev, fileVars, errorVars, flagVars, dpc>>

\* The drainer has ended, or there is none.
StopJoins(c) ==
  LET s == sess[c] IN
  /\ pc[c] = "stop_joining"
  /\ ~Alive(s)
  /\ Goto(c, CASE s \in confirmed -> "stop_returning"
               [] s \notin confirmed /\ dev[s] = "closed" -> "stop_confirming"
               [] OTHER -> "stop_disabling")
  /\ UNCHANGED <<lock, cleanupLock, sess, reply, ownerVars, dev, fileVars,
                 errorVars, flagVars, dpc>>

StopDisables(c) ==
  /\ pc[c] = "stop_disabling"
  /\ dev' = [dev EXCEPT ![sess[c]] = "open"]
  /\ Goto(c, "stop_disposing")
  /\ UNCHANGED <<lock, cleanupLock, sess, reply, ownerVars, fileVars, errorVars,
                 flagVars, dpc>>

StopDisposes(c) ==
  /\ pc[c] = "stop_disposing"
  /\ dev' = [dev EXCEPT ![sess[c]] = "closed"]
  /\ Goto(c, "stop_confirming")
  /\ UNCHANGED <<lock, cleanupLock, sess, reply, ownerVars, fileVars, errorVars,
                 flagVars, dpc>>

\* Fault variant: the exception leaves _cleanup_lock taken.
StopCleanupFailsLocked(c) ==
  LET s == sess[c] IN
  /\ pc[c] \in {"stop_disabling", "stop_disposing"}
  /\ SetError(s, "cleanup")
  /\ Return(c, "cleanup_failed")
  /\ UNCHANGED <<lock, cleanupLock, sess, ownerVars, dev, fileVars, pend,
                 flagVars, dpc>>

\* Disabling or disposing fails again.
StopCleanupFails(c) ==
  LET s == sess[c] IN
  /\ \/ /\ pc[c] = "stop_disabling"
        /\ \E d \in {"open", dev[s]} : dev' = [dev EXCEPT ![s] = d]
     \/ /\ pc[c] = "stop_disposing"
        /\ UNCHANGED dev
  /\ SetError(s, "cleanup")
  /\ StopEnds(c, "cleanup_failed")
  /\ UNCHANGED <<ownerVars, fileVars, pend, flagVars, dpc>>

\* Fault variant: the repeated clean-up publishes what the drainer dropped.
StopConfirmsPublishing(c) ==
  LET s == sess[c] IN
  /\ pc[c] = "stop_confirming"
  /\ confirmed' = confirmed \cup {s}
  /\ disk' = [disk EXCEPT ![s] = IF @ = {"partial"} THEN {"bin"} ELSE @]
  /\ Goto(c, "stop_releasing")
  /\ UNCHANGED <<lock, cleanupLock, sess, reply, ownerVars, dev, bytes,
                 errorVars, ready, stopped, finished, clean, dpc>>

StopConfirms(c) ==
  LET s == sess[c] IN
  /\ pc[c] = "stop_confirming"
  /\ confirmed' = confirmed \cup {s}
  /\ \/ UnlinkPartial(s) /\ UNCHANGED err
     \/ UnlinkFails /\ SetError(s, "publish")
  /\ Goto(c, "stop_releasing")
  /\ UNCHANGED <<lock, cleanupLock, sess, reply, ownerVars, dev, bytes, pend,
                 ready, stopped, finished, clean, dpc>>

\* Fault variant: the repeated clean-up keeps the ownership.
StopReleasesNothing(c) ==
  /\ pc[c] = "stop_releasing"
  /\ Goto(c, "stop_returning")
  /\ UNCHANGED <<lock, cleanupLock, sess, reply, ownerVars, dev, fileVars,
                 errorVars, flagVars, dpc>>

StopReleases(c) ==
  /\ pc[c] = "stop_releasing"
  /\ ReleaseOwnership(sess[c])
  /\ Goto(c, "stop_returning")
  /\ UNCHANGED <<lock, cleanupLock, sess, reply, dev, fileVars, errorVars,
                 flagVars, dpc>>

\* Fault variant: the error of the session is not looked at.
StopReturnsBlindly(c) ==
  /\ pc[c] = "stop_returning"
  /\ StopEnds(c, "stopped")
  /\ UNCHANGED <<ownerVars, dev, fileVars, errorVars, flagVars, dpc>>

\* An error of the session, also an old one, is raised.
StopReturns(c) ==
  /\ pc[c] = "stop_returning"
  /\ StopEnds(c, CASE err[sess[c]] = "none" -> "stopped"
                   [] err[sess[c]] = "cleanup" -> "cleanup_failed"
                   [] OTHER -> "stop_failed")
  /\ UNCHANGED <<ownerVars, dev, fileVars, errorVars, flagVars, dpc>>

-----------------------------------------------------------------------------
(* The other users of the hardware.                                        *)

StatusBegins(c) ==
  /\ pc[c] = "idle"
  /\ holder = NoSession
  /\ holder' = StatusRead
  /\ Goto(c, "status")
  /\ reply' = [reply EXCEPT ![c] = "none"]
  /\ sess' = [sess EXCEPT ![c] = NoSession]
  /\ UNCHANGED <<lock, cleanupLock, active, last, released, dev, fileVars,
                 errorVars, flagVars, dpc>>

StatusEnds(c) ==
  /\ pc[c] = "status"
  /\ holder' = IF holder = StatusRead THEN NoSession ELSE holder
  /\ Goto(c, "idle")
  /\ UNCHANGED <<lock, cleanupLock, sess, reply, active, last, released, dev,
                 fileVars, errorVars, flagVars, dpc>>

ElsewhereBegins ==
  /\ holder = NoSession
  /\ holder' = Elsewhere
  /\ UNCHANGED <<callerVars, active, last, released, dev, fileVars, errorVars,
                 flagVars, dpc>>

ElsewhereEnds ==
  /\ holder = Elsewhere
  /\ holder' = NoSession
  /\ UNCHANGED <<callerVars, active, last, released, dev, fileVars, errorVars,
                 flagVars, dpc>>

-----------------------------------------------------------------------------
StartStep(c) ==
  \/ Reserve(c) \/ ReserveFails(c)
  \/ OpenAnalyzer(c) \/ OpenAnalyzerFails(c)
  \/ StartThread(c) \/ StartThreadFails(c) \/ StartThreadAndDisposeFail(c)
  \/ StartReturns(c) \/ StartGivesUp(c)
  \/ AssignStartError(c) \/ StopFailedStart(c) \/ StartRaises(c)

StopStep(c) ==
  \/ StopLocks(c) \/ StopTimesOut(c) \/ StopJoins(c)
  \/ StopDisables(c) \/ StopDisposes(c) \/ StopCleanupFails(c)
  \/ StopConfirms(c) \/ StopReleases(c) \/ StopReturns(c)

DrainStep(s) ==
  \/ Enable(s) \/ EnableFails(s)
  \/ SeeStop(s) \/ ReachDuration(s) \/ GoOn(s)
  \/ Read(s) \/ ReadNothing(s) \/ ReadFails(s)
  \/ AssignLimit(s) \/ Flush(s) \/ FlushFails(s) \/ AssignFault(s)

EndStep(s) ==
  \/ Disable(s) \/ DisableFails(s) \/ Dispose(s) \/ DisposeFails(s)
  \/ AssignCleanupError(s) \/ Drop(s)
  \/ Publish(s) \/ PublishFails(s) \/ Discard(s) \/ DiscardFails(s)
  \/ Confirm(s) \/ Finish(s) \/ Release(s) \/ Exit(s)

Next ==
  \/ \E c \in Caller, s \in Session : StartClaims(c, s)
  \/ \E c \in Caller : StopRequest(c) \/ StatusBegins(c) \/ StatusEnds(c)
  \/ \E c \in Caller : StartStep(c) \/ StopStep(c)
  \/ \E s \in Session : DrainStep(s) \/ EndStep(s)
  \/ ElsewhereBegins
  \/ ElsewhereEnds

Spec == Init /\ [][Next]_vars

\* A call in progress and a drainer keep running (every USB call, join and
\* wait of theirs has a timeout), and the clock that ends a capture runs:
\* the loop cannot go round forever without the duration limit being seen.
Fairness ==
  /\ \A c \in Caller : WF_vars(StartStep(c) \/ StopStep(c) \/ StatusEnds(c))
  /\ \A s \in Session : WF_vars(DrainStep(s) \/ EndStep(s))
  /\ \A s \in Session : SF_vars(ReachDuration(s))

FairSpec == Spec /\ Fairness

\* The client keeps calling capture_stop, and the clean-up of a stop call
\* does not fail forever.
Retrying ==
  \A c \in Caller :
    SF_vars(StopRequest(c)) /\ SF_vars(StopDisables(c)) /\ SF_vars(StopDisposes(c))

RetrySpec == FairSpec /\ Retrying

-----------------------------------------------------------------------------
(* Properties.                                                             *)

\* A start_capture call is setting the session up under _lock.
Starting(s) == \E c \in Caller : lock = c /\ sess[c] = s

(* The hardware is owned for a session exactly as long as that session is  *)
(* being set up or is the active one: no failure path of start_capture, of *)
(* the drainer or of capture_stop leaks the claim, or lets go of it while  *)
(* the session is still the one capture_stop would act on                  *)
(* (capture.py:341-348, 569-586).                                          *)
OwnershipAccounted ==
  \A s \in Session : holder = s <=> (active = s \/ Starting(s))

(* Whenever a session has not disposed of its device, maybe still          *)
(* streaming, the hardware is owned for it: nobody is let in while the     *)
(* analyzer could not be cleaned up (capture.py:545, 584, 627).            *)
QuietWhenFree == \A s \in Session : dev[s] # "closed" => holder = s

(* capture_stop touches the device only after the drainer has ended, one   *)
(* call at a time, and while the session owns the hardware: the join that  *)
(* times out, a second stop and the drainer's own clean-up never make two  *)
(* threads use, or one use after the other has disposed of, the device     *)
(* (capture.py:617-627).                                                   *)
SoleUsbUser ==
  \A c \in Caller :
    pc[c] \in {"stop_disabling", "stop_disposing"} =>
      /\ ~Alive(sess[c])
      /\ dev[sess[c]] # "closed"
      /\ holder = sess[c]
      /\ \A d \in Caller \ {c} :
           pc[d] \in {"stop_disabling", "stop_disposing"} => sess[d] # sess[c]

(* A recording that gets its final name is of a capture that was asked to  *)
(* stop, that did not reach a limit, and that met no USB or write error,   *)
(* whatever the order in which stop, limit and errors came ("limit-ended   *)
(* data is not published", capture.py:475).                                *)
PublishedIsClean ==
  \A s \in Session :
    "bin" \in disk[s] =>
      /\ s \in stopped
      /\ bytes[s] < MaxBytes
      /\ err[s] \notin {"limit", "io", "cleanup"}

(* A capture whose start was reported as failed never publishes, although  *)
(* giving up on it sets the same stop flag that a clean stop sets          *)
(* (capture.py:589-597; tests/test_adversarial_hardening.py:215).          *)
FailedStartNeverPublishes ==
  \A s \in Session : err[s] = "start" => "bin" \notin disk[s]

(* When capture_stop returns a session, its recording is under its final   *)
(* name and complete, its status says terminal and cleaned up, its device  *)
(* is disposed of and the hardware is no longer owned for it.              *)
StopReturnsSaved ==
  \A c \in Caller :
    reply[c] = "stopped" =>
      LET s == sess[c] IN
      /\ disk[s] = {"bin"}
      /\ s \in finished \cap confirmed
      /\ dev[s] = "closed"
      /\ holder # s

(* When the active session is given up, whether by its drainer or by a     *)
(* repeated stop, the session that capture_status shows from then on is    *)
(* that one, with its outcome: the client cannot miss why a capture ended  *)
(* (capture.py:543, 556, 583, 703-706).  Under _lock, where nobody can     *)
(* look, start_capture may drop a session it has not started.              *)
OutcomeStaysVisible ==
  [][\A s \in Session :
       active = s /\ active' # s /\ lock = NoCaller => last = s /\ s \in finished]_vars

(* A drainer thread ends, also when no client ever stops the capture: it   *)
(* is not a daemon thread, and would keep the process alive.  Its session  *)
(* is terminal then.                                                       *)
CaptureEnds ==
  \A s \in Session : Alive(s) ~> dpc[s] = "dead" /\ s \in finished

(* Every call returns, whatever the device, the drainer and the other      *)
(* callers do.                                                             *)
CallsReturn == \A c \in Caller : pc[c] # "idle" ~> pc[c] = "idle"

(* A client that keeps calling capture_stop gets the hardware back once    *)
(* the device can be cleaned up: retained ownership is never stuck         *)
(* (capture.py:417, 631).                                                  *)
HardwareComesBack ==
  \A s \in Session : holder = s ~> holder # s

(* The advice of an unfinished clean-up, "Retry capture_stop; do not start *)
(* another capture." (capture.py:417, 580, 631), can be followed: the      *)
(* session that the failed stop was about is still the active one.         *)
RetryAdviceHolds ==
  \A c \in Caller : reply[c] = "cleanup_failed" => active = sess[c]

(* "Capture artifact could not be published." (capture.py:538) is true:    *)
(* the recording of such a session is not available under its final name   *)
(* as its only one, which is what list_captures and the readers require.   *)
UnpublishedIsAbsent ==
  \A s \in Session : err[s] = "publish" => disk[s] # {"bin"}

-----------------------------------------------------------------------------
(* Refinement of CaptureContract.                                          *)

Settled(s) ==
  \/ s \in finished
  \/ dpc[s] \in {"confirming", "finishing", "releasing", "exiting", "dead"}
  \/ dpc[s] = "none" /\ holder # s

Phase(s) ==
  CASE "bin" \in disk[s] -> "saved"
    [] "bin" \notin disk[s] /\ Settled(s) -> "discarded"
    [] OTHER -> IF holder = s THEN "recording" ELSE "new"

Contract == INSTANCE CaptureContract
  WITH phase <- [s \in Session |-> Phase(s)], stopAsked <- stopped

(* Every behaviour of the module keeps the contract: the hardware is held  *)
(* from before the capture until after its outcome is settled, and the     *)
(* outcome is settled once, as saved only after a stop was asked for.      *)
KeepsContract == Contract!Spec

=============================================================================
