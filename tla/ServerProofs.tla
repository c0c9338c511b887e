---------------------------- MODULE ServerProofs -----------------------------
(***************************************************************************)
(* The tools are a use of the capture module, so that what                 *)
(* CaptureSessionProofs proves of its sessions holds under the server; an  *)
(* answer of capture_preflight that says ready is true; and what a tool    *)
(* says of a capture that is over stays true.                              *)
(***************************************************************************)
EXTENDS Server, PublicationProofs

LEMMA ToolStepCaptures == ToolStep => [Next]_vars
<1> USE DEF ServerNext, Answer, Go
<1>1. ASSUME PickSession \/ ReadTerminal \/ ReadConfirmed \/ ReadError
             \/ FindPacketry \/ FindNoPacketry \/ Convert
      PROVE  UNCHANGED vars
  BY <1>1 DEF PickSession, ReadTerminal, ReadConfirmed, ReadError, EndReading,
              FindPacketry, FindNoPacketry, Convert
<1>2. Client \in Caller
  BY ClientAssumption
<1>3. ASSUME ReadBoard PROVE [Next]_vars
  BY <1>2, <1>3 DEF ReadBoard, Next
<1>4. ASSUME BoardRead PROVE [Next]_vars
  BY <1>2, <1>4 DEF BoardRead, Next
<1>5. ASSUME BeginStart PROVE [Next]_vars
  BY <1>2, <1>5 DEF BeginStart, Next
<1>6. ASSUME RunStart \/ RunStop PROVE [Next]_vars
  BY <1>2, <1>6 DEF RunStart, RunStop, Next
<1>7. ASSUME BeginStop PROVE [Next]_vars
  BY <1>2, <1>7 DEF BeginStop, Next
<1> QED
  BY <1>1, <1>3, <1>4, <1>5, <1>6, <1>7 DEF ToolStep

LEMMA ServerCaptures == [ServerNext]_allVars => [Next]_vars
<1>1. ASSUME NEW t \in Tool, Call(t) PROVE UNCHANGED vars
  BY <1>1 DEF Call
<1>2. ASSUME NEW s \in Session, Drainer(s) PROVE Next
  BY <1>2 DEF Drainer, Next
<1>3. ASSUME ElsewhereStep PROVE Next
  BY <1>3 DEF ElsewhereStep, Next
<1>4. ASSUME UNCHANGED allVars PROVE UNCHANGED vars
  BY <1>4 DEF allVars
<1> QED
  BY <1>1, <1>2, <1>3, <1>4, ToolStepCaptures DEF ServerNext

(* Every behaviour of the server is one of the capture module: the tools   *)
(* start and stop captures, and read the board, only as CaptureSession     *)
(* has it, whatever the client calls (server.py:121-212).                  *)
THEOREM ServerImplementsCaptureSession == ServerSpec => Spec
<1>1. ServerInit => Init
  BY DEF ServerInit
<1> QED
  BY <1>1, ServerCaptures, PTL DEF ServerSpec, Spec

-----------------------------------------------------------------------------
\* Reading the board is inside the claim, and after "ready" nobody claims
\* until the client calls again.
BoardInv ==
  /\ at = "reading" => holder = StatusRead
  /\ at = "answered" /\ answer = "ready" => holder \notin Session \cup {StatusRead}

\* What a step of anybody but the client does to the claim.
Settles ==
  \/ holder' = holder
  \/ holder \in Session /\ holder' = NoSession
  \/ holder = NoSession /\ holder' = Elsewhere
  \/ holder = Elsewhere /\ holder' = NoSession

LEMMA DrainerSettles ==
  ASSUME NEW s \in Session, DrainStep(s) \/ EndStep(s)
  PROVE  Settles
<1>1. ASSUME DrainStep(s) PROVE holder' = holder
  BY <1>1 DEF DrainStep, Enable, EnableFails, SeeStop, ReachDuration, GoOn, Read,
     ReadNothing, ReadFails, AssignLimit, Flush, FlushFails, AssignFault, ownerVars
<1>2. ASSUME Release(s) PROVE Settles
  BY <1>2 DEF Release, ReleaseOwnership, ReleaseCapture, Settles
<1>3. ASSUME EndStep(s), ~Release(s) PROVE holder' = holder
  BY <1>3 DEF EndStep, Disable, DisableFails, Dispose, DisposeFails,
     AssignCleanupError, Drop, Publish, PublishFails, Discard, DiscardFails,
     Confirm, Finish, Exit, ownerVars
<1> QED
  BY <1>1, <1>2, <1>3 DEF Settles

LEMMA SettlesBoard ==
  ASSUME BoardInv, Settles, UNCHANGED <<at, answer>>
  PROVE  BoardInv'
BY SessionAssumption, OtherAssumption DEF BoardInv, Settles, Other

LEMMA ToolStepBoard == IInv /\ BoardInv /\ ToolStep => BoardInv'
<1> SUFFICES ASSUME IInv, BoardInv, ToolStep PROVE BoardInv'
  OBVIOUS
<1> USE DEF BoardInv, Answer, Go
<1>1. CASE PickSession \/ ReadTerminal \/ ReadConfirmed \/ ReadError
  BY <1>1 DEF PickSession, ReadTerminal, ReadConfirmed, ReadError, EndReading
<1>2. CASE FindPacketry \/ FindNoPacketry \/ Convert
  BY <1>2 DEF FindPacketry, FindNoPacketry, Convert
<1>3. CASE ReadBoard
  BY <1>3 DEF ReadBoard, StatusBegins
<1>4. CASE BoardRead
  BY <1>4, SessionAssumption DEF BoardRead, StatusEnds, Other
<1>5. CASE BeginStart \/ BeginStop
  BY <1>5 DEF BeginStart, BeginStop
\* The answers of a start and of a stop are never preflight's.
<1>6. pc[Client] \notin {"idle", "status"} => err[sess[Client]] # "ready"
  BY ClientAssumption DEF IInv, Core, CallerInv, TypeOK, Error
<1>7. CASE RunStart
  <2>1. "ready" \notin StartCodes
    BY <1>6 DEF StartCodes
  <2> QED
    BY <1>7, <2>1 DEF RunStart
<1>8. CASE RunStop
  <2>1. pc[Client] \notin {"idle", "status"}
    BY <1>8 DEF RunStop, StopStep, StopLocks, StopTimesOut, StopJoins, StopDisables,
       StopDisposes, StopCleanupFails, StopConfirms, StopReleases, StopReturns
  <2>2. StopAnswer # "ready"
    BY <1>6, <2>1 DEF StopAnswer
  <2>3. \/ at' = "running" \/ at' = "converting" \/ answer' = StopAnswer
    BY <1>8 DEF RunStop
  <2>4. at' \in {"running", "converting", "answered"}
    BY <1>8 DEF RunStop
  <2> QED
    BY <2>2, <2>3, <2>4
<1> QED
  BY <1>1, <1>2, <1>3, <1>4, <1>5, <1>7, <1>8 DEF ToolStep

LEMMA BoardInvariant == IInv /\ BoardInv /\ [ServerNext]_allVars => BoardInv'
<1> SUFFICES ASSUME IInv, BoardInv, [ServerNext]_allVars PROVE BoardInv'
  OBVIOUS
<1>1. CASE \E t \in Tool : Call(t)
  <2>1. PICK t \in Tool : Call(t)
    BY <1>1
  <2>2. at' # "reading"
    BY <2>1 DEF Call, Tool
  <2>3. answer' # "ready"
    BY <2>1 DEF Call
  <2> QED
    BY <2>2, <2>3 DEF BoardInv
<1>2. CASE ToolStep
  BY <1>2, ToolStepBoard
<1>3. CASE \E s \in Session : Drainer(s)
  BY <1>3, DrainerSettles, SettlesBoard DEF Drainer, Background, toolVars
<1>4. CASE ElsewhereStep
  <2>1. Settles
    BY <1>4 DEF ElsewhereStep, ElsewhereBegins, ElsewhereEnds, Settles
  <2> QED
    BY <1>4, <2>1, SettlesBoard DEF ElsewhereStep, Background, toolVars
<1>5. CASE UNCHANGED allVars
  BY <1>5 DEF allVars, toolVars, vars, ownerVars, BoardInv
<1> QED
  BY <1>1, <1>2, <1>3, <1>4, <1>5 DEF ServerNext

(* When preflight says that the Cynthion is ready, no session is active,   *)
(* however preflight, drainers and other programs interleave and whatever  *)
(* clean-up has failed before (server.py:133-171).                         *)
THEOREM ReadyIsTrue == ServerSpec => []ReadyMeansIdle
<1>1. ServerInit => BoardInv
  BY DEF ServerInit, BoardInv
<1>2. IInv /\ BoardInv => ReadyMeansIdle
  <2> SUFFICES ASSUME IInv, BoardInv, at = "answered", answer = "ready"
               PROVE  /\ active = NoSession
                      /\ holder \notin Session \cup {StatusRead}
                      /\ \A s \in Session : dev[s] = "closed"
    BY DEF ReadyMeansIdle
  <2>1. holder \notin Session \cup {StatusRead}
    BY DEF BoardInv
  <2>2. active = NoSession
    BY <2>1 DEF IInv, Core, TypeOK, OwnershipAccounted
  <2>3. \A s \in Session : dev[s] = "closed"
    BY <2>1 DEF IInv, Core, QuietWhenFree
  <2> QED
    BY <2>1, <2>2, <2>3
<1>3. ServerSpec => []IInv
  BY ServerImplementsCaptureSession, Invariance, PTL
<1> QED
  BY <1>1, <1>2, <1>3, BoardInvariant, PTL DEF ServerSpec

-----------------------------------------------------------------------------
\* Where a tool has read all of the session.
Told == {"packetry", "board", "reading", "answered"}

\* What has been read of a session that is over.
SeenInv ==
  /\ seen \in [of : Session \cup {NoSession}, terminal : BOOLEAN,
               confirmed : BOOLEAN, err : Error \cup {"none"}]
  /\ at \in {"session", "starting", "stopping", "running", "converting"} =>
       seen.of = NoSession
  /\ at \in {"board", "reading"} /\ tool = "get_status" => seen.of = NoSession
  /\ at = "packetry" => tool = "capture_preflight"
  /\ seen.of # NoSession /\ seen.terminal =>
       /\ at \in {"confirmed", "error"} \cup Told => seen.of \in finished
       /\ at \in {"error"} \cup Told => (seen.confirmed <=> seen.of \in confirmed)
       /\ at \in Told => seen.err = err[seen.of]

\* Nothing of a session that is over changes, but by a call of the client.
Over(s) ==
  s \in finished =>
    s \in finished' /\ err'[s] = err[s] /\ (s \in confirmed' <=> s \in confirmed)

(* A drainer changes nothing of a session that is over: it only releases   *)
(* its ownership, or ends.                                                 *)
LEMMA DrainerKeepsOver ==
  ASSUME IInv, Outcome, NEW s \in Session, NEW r \in Session,
         DrainStep(r) \/ EndStep(r)
  PROVE  Over(s)
<1> USE DEF IInv, TypeOK, Outcome, DoneInv, Ended, Over, flagVars, errorVars,
    callerVars, ownerVars
<1>1. CASE s # r
  <2>1. CASE DrainStep(r)
    BY <1>1, <2>1 DEF DrainStep, Enable, EnableFails, SeeStop, ReachDuration,
       GoOn, Read, ReadNothing, ReadFails, AssignLimit, Flush, FlushFails,
       AssignFault, TestError, AssignError
  <2>2. CASE EndStep(r)
    BY <1>1, <2>2 DEF EndStep, Disable, DisableFails, Dispose, DisposeFails,
       AssignCleanupError, Drop, Publish, PublishFails, Discard, DiscardFails,
       Confirm, Finish, Release, Exit, TestError, AssignError, SetError
  <2> QED
    BY <2>1, <2>2
<1>2. CASE s = r /\ (Release(s) \/ Exit(s))
  BY <1>2 DEF Release, Exit
<1>3. CASE s = r /\ ~Release(s) /\ ~Exit(s)
  BY <1>3 DEF DrainStep, Enable, EnableFails, SeeStop, ReachDuration,
     GoOn, Read, ReadNothing, ReadFails, AssignLimit, Flush, FlushFails,
     AssignFault, EndStep, Disable, DisableFails, Dispose, DisposeFails,
     AssignCleanupError, Drop, Publish, PublishFails, Discard, DiscardFails,
     Confirm, Finish
<1> QED
  BY <1>1, <1>2, <1>3

(* What was read of such a session stays true when only drainers run.      *)
LEMMA OverKeepsSeen ==
  ASSUME SeenInv, \A s \in Session : Over(s), UNCHANGED <<at, tool, seen>>
  PROVE  SeenInv'
BY DEF SeenInv, Over

(* The reads themselves, in the order of session_status.                   *)
LEMMA ToolStepSeen ==
  ASSUME IInv, SeenInv, ToolStep
  PROVE  SeenInv'
<1> USE DEF SeenInv, Told, Answer, Go
<1>0. TypeOK
  BY DEF IInv
<1>1. CASE PickSession
  <2>1. CASE seen' = seen
    BY <1>1, <2>1 DEF PickSession
  <2>2. ASSUME NEW s \in Session \cup {NoSession},
               seen' = [seen EXCEPT !.of = s], at' = "terminal"
        PROVE  SeenInv'
    BY <2>2
  <2> QED
    BY <1>0, <1>1, <2>1, <2>2 DEF PickSession, TypeOK
<1>2. CASE ReadTerminal
  <2>1. PICK b \in BOOLEAN : seen' = [seen EXCEPT !.terminal = b]
    BY <1>2 DEF ReadTerminal
  <2>2. /\ seen'.of = seen.of
        /\ seen'.terminal = (seen.of = NoSession \/ seen.of \in finished)
    BY <1>2 DEF ReadTerminal
  <2> QED
    BY <1>2, <2>1, <2>2 DEF ReadTerminal, vars, flagVars
<1>3. CASE ReadConfirmed
  <2>1. PICK b \in BOOLEAN : seen' = [seen EXCEPT !.confirmed = b]
    <3>1. seen' = [seen EXCEPT !.confirmed = seen.of \in confirmed]
      BY <1>3 DEF ReadConfirmed
    <3>2. (seen.of \in confirmed) \in BOOLEAN
      OBVIOUS
    <3> WITNESS (seen.of \in confirmed) \in BOOLEAN
    <3> QED
      BY <3>1
  <2>2. /\ seen'.of = seen.of /\ seen'.terminal = seen.terminal
        /\ seen'.confirmed = (seen.of \in confirmed)
    BY <1>3 DEF ReadConfirmed
  <2> QED
    BY <1>3, <2>1, <2>2 DEF ReadConfirmed, vars, flagVars
<1>4. CASE ReadError
  BY <1>0, <1>4 DEF ReadError, EndReading, SeenError, vars, flagVars, errorVars,
     TypeOK
<1>5. CASE FindPacketry \/ FindNoPacketry \/ Convert
  BY <1>5 DEF FindPacketry, FindNoPacketry, Convert, vars, flagVars, errorVars
<1>6. CASE ReadBoard \/ BoardRead
  BY <1>6 DEF ReadBoard, BoardRead, StatusBegins, StatusEnds, vars, flagVars,
     errorVars
<1>7. CASE BeginStart \/ BeginStop \/ RunStart \/ RunStop
  BY <1>7 DEF BeginStart, BeginStop, RunStart, RunStop
<1> QED
  BY <1>1, <1>2, <1>3, <1>4, <1>5, <1>6, <1>7 DEF ToolStep

(* Every step of the server keeps SeenInv: the client's calls start anew.  *)
LEMMA SeenInvariant == IInv /\ Outcome /\ SeenInv /\ [ServerNext]_allVars => SeenInv'
<1> SUFFICES ASSUME IInv, Outcome, SeenInv, [ServerNext]_allVars PROVE SeenInv'
  OBVIOUS
<1>1. CASE \E t \in Tool : Call(t)
  <2>1. at' # "packetry"
    BY <1>1 DEF Call, Tool, Told
  <2>2. seen' = NothingSeen
    BY <1>1 DEF Call
  <2> QED
    BY <2>1, <2>2 DEF SeenInv, NothingSeen
<1>2. CASE ToolStep
  BY <1>2, ToolStepSeen
<1>3. CASE \E s \in Session : Drainer(s)
  BY <1>3, DrainerKeepsOver, OverKeepsSeen DEF Drainer, Background, toolVars
<1>4. CASE ElsewhereStep
  <2>1. \A s \in Session : Over(s)
    BY <1>4 DEF ElsewhereStep, ElsewhereBegins, ElsewhereEnds, Over, flagVars,
       errorVars
  <2> QED
    BY <1>4, <2>1, OverKeepsSeen DEF ElsewhereStep, Background, toolVars
<1>5. CASE UNCHANGED allVars
  BY <1>5 DEF allVars, toolVars, vars, flagVars, errorVars, SeenInv
<1> QED
  BY <1>1, <1>2, <1>3, <1>4, <1>5 DEF ServerNext

(* An answer that calls a session terminal was put together from fields    *)
(* that were read one by one while the drainer ran, and is still true of   *)
(* the session as long as the client does nothing: its error and its       *)
(* confirmation are the session's own, an answer without an error stands   *)
(* for a recording that is saved, and one without confirmation for a       *)
(* session that is left to capture_stop, with the hardware and without a   *)
(* recording, be its drainer over or about to end (capture.py:542-556,     *)
(* 687-706).                                                               *)
THEOREM TerminalAnswersAreFinal == ServerSpec => []TerminalAnswerIsFinal
<1>1. ServerInit => SeenInv
  BY DEF ServerInit, NothingSeen, SeenInv
<1>2. IInv /\ Outcome /\ SeenInv => TerminalAnswerIsFinal
  <2> SUFFICES ASSUME IInv, Outcome, SeenInv,
                      NEW s \in Session, s = seen.of, at = "answered", seen.terminal
               PROVE  /\ seen.err = err[s]
                      /\ seen.err = "none" => disk[s] = {"bin"}
                      /\ seen.confirmed <=> s \in confirmed
                      /\ ~seen.confirmed =>
                           active = s /\ holder = s /\ "bin" \notin disk[s]
    BY DEF SeenInv, TerminalAnswerIsFinal
  <2>1. s \in finished /\ seen.err = err[s] /\ (seen.confirmed <=> s \in confirmed)
    BY SessionAssumption DEF SeenInv, Told
  <2>2. err[s] = "none" => disk[s] = {"bin"}
    BY <2>1 DEF Outcome, DoneInv, DiskInv, PendInv, Ended, Decided
  <2>3. ASSUME s \notin confirmed
        PROVE  active = s /\ holder = s /\ "bin" \notin disk[s]
    <3>1. s \in Session /\ dpc[s] \in Ended
      BY <2>1 DEF Outcome, DoneInv, IInv, TypeOK
    <3>2. active = s /\ s \notin released
      BY <2>1, <2>3, <3>1 DEF Outcome, DoneInv, Ended, IInv, Core, SessionInv, Alive
    <3>3. holder = s
      BY <3>1, <3>2, SessionAssumption DEF IInv, Core, OwnershipAccounted
    <3>4. "bin" \notin disk[s]
      BY <2>3, <3>1 DEF Outcome, DiskInv, Ended, Decided
    <3> QED
      BY <3>2, <3>3, <3>4
  <2> QED
    BY <2>1, <2>2, <2>3
<1>3. ServerSpec => [](IInv /\ Outcome)
  BY ServerImplementsCaptureSession, Invariance, OutcomeInvariance, PTL
<1> QED
  BY <1>1, <1>2, <1>3, SeenInvariant, PTL DEF ServerSpec

-----------------------------------------------------------------------------
\* Where a tool is, what it answers, and where its call of capture.py is.
Location ==
  {"answered", "session", "terminal", "confirmed", "error", "packetry",
   "board", "reading", "starting", "stopping", "running", "converting"}

ToolInv ==
  /\ tool \in Tool \cup {"none"}
  /\ at \in Location
  /\ answer \in Code
  /\ obedient \in BOOLEAN
  /\ pc[Client] = "idle" <=> at \notin {"running", "reading"}

(* The steps of a tool that leave capture.py alone.                        *)
LEMMA OwnStepTool ==
  ASSUME ToolInv, pc' = pc, obedient' = obedient, at \notin {"running", "reading"},
         at' \in Location \ {"running", "reading"},
         tool' \in Tool \cup {"none"}, answer' \in Code
  PROVE  ToolInv'
BY DEF ToolInv

LEMMA ToolStepTool == IInv /\ ToolInv /\ ToolStep => ToolInv'
<1> SUFFICES ASSUME IInv, ToolInv, ToolStep PROVE ToolInv'
  OBVIOUS
<1> USE DEF Answer, Go
<1>0. Client \in Caller /\ pc \in [Caller -> CallerLocation]
  BY ClientAssumption DEF IInv, Core, TypeOK
<1>1. CASE PickSession \/ ReadTerminal \/ ReadConfirmed
  BY <1>1, OwnStepTool DEF PickSession, ReadTerminal, ReadConfirmed, vars, callerVars,
     ToolInv, Location, Code
<1>2. CASE ReadError
  BY <1>2, OwnStepTool DEF ReadError, EndReading, vars, callerVars, ToolInv,
     Location, Code
<1>3. CASE FindPacketry \/ FindNoPacketry \/ Convert
  BY <1>3, OwnStepTool DEF FindPacketry, FindNoPacketry, Convert, vars, callerVars,
     ToolInv, Location, Code
<1>4. CASE ReadBoard
  BY <1>0, <1>4 DEF ReadBoard, StatusBegins, Goto, vars, callerVars, ToolInv,
     Location, Code
<1>5. CASE BoardRead
  BY <1>0, <1>5 DEF BoardRead, StatusEnds, Goto, ToolInv, Location, Code
<1>6. CASE BeginStart
  BY <1>0, <1>6 DEF BeginStart, StartClaims, Goto, vars, callerVars, ToolInv,
     Location, Code
<1>7. CASE BeginStop
  BY <1>0, <1>7 DEF BeginStop, StopRequest, Goto, vars, callerVars, ToolInv,
     Location, Code
\* The error of a session is a code, too.
<1>8. pc[Client] \notin {"idle", "status"} => err[sess[Client]] \in Code
  BY <1>0 DEF IInv, Core, CallerInv, TypeOK, Code
<1>9. CASE RunStart
  <2>1. StartCodes \subseteq Code
    BY <1>8 DEF StartCodes, Code
  <2> QED
    BY <1>9, <2>1 DEF RunStart, ToolInv, Location
<1>10. CASE RunStop
  <2>1. pc[Client] \notin {"idle", "status"}
    BY <1>10 DEF RunStop, StopStep, StopLocks, StopTimesOut, StopJoins, StopDisables,
       StopDisposes, StopCleanupFails, StopConfirms, StopReleases, StopReturns
  <2>2. StopAnswer \in Code
    BY <1>8, <2>1 DEF StopAnswer, Code, Error
  <2> HIDE DEF Answer, Go
  <2>3. \/ Go("running") /\ pc'[Client] # "idle"
        \/ Go("converting") /\ pc'[Client] = "idle"
        \/ Answer(StopAnswer) /\ pc'[Client] = "idle"
    BY <1>10 DEF RunStop
  <2> QED
    BY <2>2, <2>3 DEF ToolInv, Location, Go, Answer
<1> QED
  BY <1>1, <1>2, <1>3, <1>4, <1>5, <1>6, <1>7, <1>9, <1>10 DEF ToolStep

LEMMA ToolInvariant == IInv /\ ToolInv /\ [ServerNext]_allVars => ToolInv'
<1> SUFFICES ASSUME IInv, ToolInv, [ServerNext]_allVars PROVE ToolInv'
  OBVIOUS
<1>1. ASSUME NEW t \in Tool, Call(t) PROVE ToolInv'
  <2>1. at' \in {"session", "board", "starting", "stopping"}
    BY <1>1 DEF Call, Tool
  <2> QED
    BY <1>1, <2>1 DEF Call, vars, callerVars, ToolInv, Location, Code
<1>2. CASE ToolStep
  BY <1>2, ToolStepTool
<1>3. ASSUME NEW s \in Session, Drainer(s) PROVE ToolInv'
  <2>1. pc' = pc
    BY <1>3 DEF Drainer, DrainStep, Enable, EnableFails, SeeStop, ReachDuration,
       GoOn, Read, ReadNothing, ReadFails, AssignLimit, Flush, FlushFails,
       AssignFault, EndStep, Disable, DisableFails, Dispose, DisposeFails,
       AssignCleanupError, Drop, Publish, PublishFails, Discard, DiscardFails,
       Confirm, Finish, Release, Exit, callerVars
  <2> QED
    BY <1>3, <2>1 DEF Drainer, Background, toolVars, ToolInv
<1>4. CASE ElsewhereStep
  BY <1>4 DEF ElsewhereStep, ElsewhereBegins, ElsewhereEnds, Background, toolVars,
     callerVars, ToolInv
<1>5. CASE UNCHANGED allVars
  BY <1>5 DEF allVars, toolVars, vars, callerVars, ToolInv
<1> QED
  BY <1>1, <1>2, <1>3, <1>4, <1>5 DEF ServerNext

(* A tool is in start_capture, stop_capture or get_status exactly while it *)
(* runs or reads the board, and never is a call of these left behind by an *)
(* answer; every answer has a code (server.py:32-81, 107-212).             *)
THEOREM ServerTypeCorrect == ServerSpec => []ServerTypeOK
<1>1. ServerInit => ToolInv /\ SeenInv
  BY ClientAssumption DEF ServerInit, Init, NothingSeen, SeenInv, ToolInv, Location, Code
<1>2. IInv /\ ToolInv /\ SeenInv => ServerTypeOK
  BY DEF IInv, Core, ToolInv, SeenInv, Location, ServerTypeOK
<1>3. ServerSpec => [](IInv /\ Outcome)
  BY ServerImplementsCaptureSession, Invariance, OutcomeInvariance, PTL
<1> QED
  BY <1>1, <1>2, <1>3, SeenInvariant, ToolInvariant, PTL DEF ServerSpec

=============================================================================
