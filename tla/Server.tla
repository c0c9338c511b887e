------------------------------- MODULE Server --------------------------------
(***************************************************************************)
(* server.py on top of CaptureSession: the MCP tools of the `capture'      *)
(* capability, one call at a time (they are not coroutines, and stdio has  *)
(* one client), the answers they give, and a client that may or may not do *)
(* what the next_action of an answer tells it to.                          *)
(*                                                                         *)
(* An answer is its error code, the codes with the same advice merged.     *)
(* session_status holds _lock while it reads; here it does not, which only *)
(* lets the drainer's release, that writes nothing it reads, happen early. *)
(***************************************************************************)
EXTENDS CaptureSession

CONSTANT Client  \* the thread that runs the tools

ASSUME ClientAssumption == Caller = {Client}
ASSUME OtherAssumption == StatusRead # Elsewhere

VARIABLES
  tool,     \* the tool that runs, or that the answer says to call again
  at,       \* where it is, "answered" when it is done
  seen,     \* the session's fields, as session_status or _status read them
  answer,   \* the code of the last answer
  obedient  \* whether the client only calls the tools it is told to

toolVars == <<tool, at, seen, answer>>
allVars == <<vars, toolVars, obedient>>

Tool ==
  {"get_status", "capture_preflight", "capture_start", "capture_wait",
   "capture_stop", "capture_stop_and_convert", "capture_status"}

Code ==
  Error \cup
  {"none", "status", "ready", "started", "stopped", "converted",
   "capture_active", "no_active_capture", "hardware_busy", "packetry_busy",
   "hardware_missing", "storage_quota", "internal_error", "invalid_capture",
   "capture_not_found", "stop_timeout"}

\* session_status without a session: {"terminal": True, "error": None}.
NothingSeen == [of |-> NoSession, terminal |-> TRUE, confirmed |-> FALSE, err |-> "none"]

\* Every operator's own state has a type, and a tool is where its call of
\* capture.py is (the type invariant of CaptureSession included).
ServerTypeOK ==
  /\ TypeOK
  /\ tool \in Tool \cup {"none"}
  /\ at \in {"answered", "session", "terminal", "confirmed", "error", "packetry",
             "board", "reading", "starting", "stopping", "running", "converting"}
  /\ seen \in [of : Session \cup {NoSession}, terminal : BOOLEAN,
               confirmed : BOOLEAN, err : Error \cup {"none"}]
  /\ answer \in Code
  /\ obedient \in BOOLEAN
  /\ pc[Client] = "idle" <=> at \notin {"running", "reading"}

-----------------------------------------------------------------------------
(* The advice of the answers.                                              *)

Capturing == {"capture_status", "capture_wait", "capture_stop_and_convert"}

\* The next_action of a session that is over: without an error there is none.
SessionAdvice(e) ==
  CASE e \in {"none", "limit", "publish"} -> {"capture_preflight", "capture_start"}
    [] e \in {"io", "start"} -> {"capture_preflight"}
    [] e = "cleanup" -> {"capture_stop"}

\* The next tool to call.  A client that is told to wait for the operation
\* that keeps the hardware busy may look what that is.
Advice ==
  CASE answer \in Error \cup {"none"} -> SessionAdvice(answer)
    [] answer = "status" -> IF seen.terminal THEN SessionAdvice(seen.err) ELSE Capturing
    [] answer \in {"stopped", "converted"} -> SessionAdvice("none")
    [] answer = "capture_active" -> Capturing
    [] answer = "started" -> Capturing \ {"capture_status"}
    [] answer \in {"ready", "no_active_capture", "invalid_capture"} -> {"capture_start"}
    [] answer \in {"packetry_busy", "hardware_missing", "internal_error"} ->
         {"capture_preflight"}
    [] answer = "hardware_busy" -> {tool, "capture_status"}
    [] answer \in {"storage_quota", "capture_not_found"} -> {tool}
    [] answer = "stop_timeout" -> {"capture_stop"}

-----------------------------------------------------------------------------
Go(l) == at' = l /\ UNCHANGED <<tool, seen, answer, obedient>>

\* The tool is remembered if the advice is to retry it.
Answer(code) ==
  /\ at' = "answered"
  /\ answer' = code
  /\ tool' = IF code \in {"hardware_busy", "storage_quota", "capture_not_found"}
             THEN tool ELSE "none"
  /\ UNCHANGED <<seen, obedient>>

ServerInit ==
  /\ Init
  /\ tool = "none" /\ at = "answered" /\ seen = NothingSeen /\ answer = "none"
  /\ obedient \in BOOLEAN

Call(t) ==
  /\ at = "answered"
  /\ obedient => t \in Advice
  /\ tool' = t
  /\ at' = CASE t \in {"capture_preflight", "capture_wait", "capture_status"} -> "session"
             [] t = "get_status" -> "board"
             [] t = "capture_start" -> "starting"
             [] t \in {"capture_stop", "capture_stop_and_convert"} -> "stopping"
  /\ seen' = NothingSeen
  /\ answer' = "none"
  /\ UNCHANGED <<vars, obedient>>

\* session_status, or wait_for_capture: of the rounds of its loop the last
\* one, which saw traffic or the end or ran into the deadline.
PickSession ==
  /\ at = "session"
  /\ IF tool = "capture_wait" /\ active = NoSession
     THEN Answer("no_active_capture")
     ELSE /\ seen' = [seen EXCEPT !.of = IF active = NoSession THEN last ELSE active]
          /\ at' = "terminal"
          /\ UNCHANGED <<tool, answer, obedient>>
  /\ UNCHANGED vars

ReadTerminal ==
  /\ at = "terminal"
  /\ seen' = [seen EXCEPT !.terminal = seen.of = NoSession \/ seen.of \in finished]
  /\ at' = "confirmed"
  /\ UNCHANGED <<vars, tool, answer, obedient>>

ReadConfirmed ==
  /\ at = "confirmed"
  /\ seen' = [seen EXCEPT !.confirmed = seen.of \in confirmed]
  /\ at' = "error"
  /\ UNCHANGED <<vars, tool, answer, obedient>>

SeenError == IF seen.of = NoSession THEN "none" ELSE err[seen.of]

\* Preflight goes on if the session is over.
EndReading ==
  /\ CASE tool # "capture_preflight" -> at' = "answered" /\ answer' = "status"
       [] tool = "capture_preflight" /\ seen'.terminal -> at' = "packetry" /\ UNCHANGED answer
       [] OTHER -> at' = "answered" /\ answer' = "capture_active"
  /\ tool' = IF at' = "answered" THEN "none" ELSE tool
  /\ UNCHANGED <<vars, obedient>>

ReadError ==
  /\ at = "error"
  /\ seen' = [seen EXCEPT !.err = SeenError]
  /\ EndReading

\* packetry_running: true also when pgrep fails or takes too long.
FindPacketry == at = "packetry" /\ Answer("packetry_busy") /\ UNCHANGED vars
FindNoPacketry == at = "packetry" /\ Go("board") /\ UNCHANGED vars

\* Fault variant: the descriptors are read without the coordinator.
ReadBoardUnclaimed ==
  /\ at = "board"
  /\ IF tool = "get_status" THEN Go("session") ELSE Answer("ready")
  /\ UNCHANGED vars

ReadBoard ==
  /\ at = "board"
  /\ \/ holder # NoSession /\ Answer("hardware_busy") /\ UNCHANGED vars
     \/ StatusBegins(Client) /\ Go("reading")

\* Fault variant: an exception leaves the claim behind.
BoardReadLeaking ==
  /\ at = "reading"
  /\ \/ StatusEnds(Client) /\ tool = "get_status" /\ Go("session")
     \/ StatusEnds(Client) /\ tool = "capture_preflight" /\ Answer("ready")
     \/ Answer("internal_error") /\ UNCHANGED vars

\* No board, the wrong bitstream, or more than one board.
BoardRead ==
  /\ at = "reading"
  /\ StatusEnds(Client)
  /\ \/ tool = "get_status" /\ Go("session")
     \/ tool = "capture_preflight" /\ Answer("ready")
     \/ tool = "capture_preflight" /\ Answer("hardware_missing")
     \/ Answer("internal_error")

BeginStart ==
  /\ at = "starting"
  /\ \/ active # NoSession /\ Answer("capture_active") /\ UNCHANGED vars
     \/ active = NoSession /\ holder # NoSession /\ Answer("hardware_busy") /\ UNCHANGED vars
     \/ \E s \in Session : StartClaims(Client, s) /\ Go("running")

StartCodes ==
  CASE pc[Client] = "reserving" -> {"storage_quota", "internal_error"}
    [] pc[Client] = "opening" -> {"packetry_busy", "hardware_missing"}
    [] pc[Client] = "spawning" -> {"internal_error"}
    [] pc[Client] = "awaiting" -> {"started"}
    [] pc[Client] = "joining" -> {err[sess[Client]]}
    [] OTHER -> {}

RunStart ==
  /\ at = "running"
  /\ StartStep(Client)
  /\ IF pc'[Client] = "idle" THEN \E code \in StartCodes : Answer(code)
                             ELSE Go("running")

\* Fault variant: a session that is over cannot be stopped.
BeginStopUnfinished ==
  /\ at = "stopping"
  /\ \/ active = NoSession /\ Answer("no_active_capture") /\ UNCHANGED vars
     \/ active \in finished /\ Answer("no_active_capture") /\ UNCHANGED vars
     \/ active \notin finished /\ StopRequest(Client) /\ Go("running")

BeginStop ==
  /\ at = "stopping"
  /\ \/ active = NoSession /\ Answer("no_active_capture") /\ UNCHANGED vars
     \/ StopRequest(Client) /\ Go("running")

StopAnswer ==
  CASE reply'[Client] = "stop_timeout" -> "stop_timeout"
    [] reply'[Client] = "cleanup_failed" -> "cleanup"
    [] reply'[Client] = "stop_failed" -> err[sess[Client]]
    [] OTHER -> "stopped"

RunStop ==
  /\ at = "running"
  /\ StopStep(Client)
  /\ CASE pc'[Client] # "idle" -> Go("running")
       [] pc'[Client] = "idle" /\ StopAnswer = "stopped"
            /\ tool = "capture_stop_and_convert" -> Go("converting")
       [] OTHER -> Answer(StopAnswer)

\* ensure_pcap and the digests (Storage.tla and Decoder.tla).  The recording
\* is not found when the operator has moved it away by then.
Convert ==
  /\ at = "converting"
  /\ \E code \in {"converted", "invalid_capture", "capture_not_found",
                 "storage_quota", "internal_error"} : Answer(code)
  /\ UNCHANGED vars

ToolStep ==
  \/ PickSession \/ ReadTerminal \/ ReadConfirmed \/ ReadError
  \/ FindPacketry \/ FindNoPacketry \/ ReadBoard \/ BoardRead
  \/ BeginStart \/ RunStart \/ BeginStop \/ RunStop \/ Convert

Background == UNCHANGED <<toolVars, obedient>>
Drainer(s) == (DrainStep(s) \/ EndStep(s)) /\ Background
ElsewhereStep == (ElsewhereBegins \/ ElsewhereEnds) /\ Background

ServerNext ==
  \/ \E t \in Tool : Call(t)
  \/ ToolStep
  \/ \E s \in Session : Drainer(s)
  \/ ElsewhereStep

\* The tool that runs and the drainers go on; the client keeps calling, and
\* neither avoids looking at the status nor stopping a capture when it is
\* told to again and again; Packetry is closed, as the answers ask; the
\* duration limit is seen; the clean-up of a stop does not fail forever.
ServerFairness ==
  /\ WF_allVars(ToolStep \/ \E t \in Tool : Call(t))
  /\ SF_allVars(Call("capture_status"))
  /\ SF_allVars(Call("capture_stop") \/ Call("capture_stop_and_convert"))
  /\ SF_allVars(FindNoPacketry)
  /\ \A s \in Session : WF_allVars(Drainer(s))
  /\ \A s \in Session : SF_allVars(ReachDuration(s) /\ Background)
  /\ SF_allVars(StopDisables(Client) /\ Go("running"))
  /\ SF_allVars(StopDisposes(Client) /\ Go("running"))

ServerSpec == ServerInit /\ [][ServerNext]_allVars /\ ServerFairness

-----------------------------------------------------------------------------
(* Properties.                                                             *)

(* "Cynthion is ready for a headless capture." is true when preflight says *)
(* so: no session is active, being cleaned up or waiting for a repeated    *)
(* stop, no drainer touches an analyzer any more, and this process does    *)
(* not own the hardware.  Preflight looks at the session before the board, *)
(* and the session it saw as terminal may keep the hardware                *)
(* (server.py:133-171).                                                    *)
ReadyMeansIdle ==
  at = "answered" /\ answer = "ready" =>
    /\ active = NoSession
    /\ holder \notin Session \cup {StatusRead}
    /\ \A s \in Session : dev[s] = "closed"

(* What an answer says of a session that is terminal does not change any   *)
(* more, although its fields are read one after the other while the        *)
(* drainer writes them, and still runs for a moment after finished_at: the *)
(* error is the session's, and a missing one means that the recording is   *)
(* saved; a clean-up that is not confirmed is left to capture_stop: the    *)
(* session stays the active one, with the hardware, and nothing is         *)
(* published of it (capture.py:542-556, 687-706).                          *)
TerminalAnswerIsFinal ==
  LET s == seen.of IN
  at = "answered" /\ s # NoSession /\ seen.terminal =>
    /\ seen.err = err[s]
    /\ seen.err = "none" => disk[s] = {"bin"}
    /\ seen.confirmed <=> s \in confirmed
    /\ ~seen.confirmed => active = s /\ holder = s /\ "bin" \notin disk[s]

(* A client that does what it is told, and looks at the capture's status   *)
(* when the hardware is busy, gets the hardware back after an unfinished   *)
(* clean-up: capture_status shows the advice "Retry capture_stop" also     *)
(* when the call that met the failure did not (capture.py:417, 580;        *)
(* server.py:36-40).                                                       *)
CleanupAdviceFrees ==
  \A s \in Session :
    obedient /\ err[s] = "cleanup" /\ holder = s ~> holder # s

(* A client that is told of a USB error "Close Packetry, reconnect Cynthion*)
(* CONTROL, and run capture_preflight." (capture.py:519), and does what    *)
(* this and the answers after it say, gets the hardware back.              *)
UsbAdviceFrees ==
  \A s \in Session :
    obedient /\ at = "answered" /\ seen.of = s /\ seen.err = "io" /\ holder = s
      ~> holder # s

=============================================================================
