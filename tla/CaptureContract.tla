--------------------------- MODULE CaptureContract ---------------------------
(***************************************************************************)
(* What capture.py promises to its client: a capture holds the hardware    *)
(* from before it starts until after its outcome is settled, the outcome   *)
(* is settled once, and a recording is saved only when somebody asked the  *)
(* capture to stop.  CaptureSession.tla implements this specification.     *)
(***************************************************************************)
CONSTANTS
  Session,      \* captures
  Other,        \* users of the hardware that are no capture
  NoSession     \* holder when nobody uses the hardware

VARIABLES
  holder,       \* who holds the hardware
  phase,        \* phase[s]: "new", "recording", "saved" or "discarded"
  stopAsked     \* captures that were asked to stop

vars == <<holder, phase, stopAsked>>

Init ==
  /\ holder = NoSession
  /\ phase = [s \in Session |-> "new"]
  /\ stopAsked = {}

Begin(s) ==
  /\ holder = NoSession
  /\ phase[s] = "new"
  /\ holder' = s
  /\ phase' = [phase EXCEPT ![s] = "recording"]
  /\ UNCHANGED stopAsked

AskStop(s) ==
  /\ phase[s] # "new"
  /\ stopAsked' = stopAsked \cup {s}
  /\ UNCHANGED <<holder, phase>>

Save(s) ==
  /\ holder = s
  /\ phase[s] = "recording"
  /\ s \in stopAsked
  /\ phase' = [phase EXCEPT ![s] = "saved"]
  /\ UNCHANGED <<holder, stopAsked>>

Discard(s) ==
  /\ holder = s
  /\ phase[s] = "recording"
  /\ phase' = [phase EXCEPT ![s] = "discarded"]
  /\ UNCHANGED <<holder, stopAsked>>

Release(s) ==
  /\ holder = s
  /\ phase[s] \in {"saved", "discarded"}
  /\ holder' = NoSession
  /\ UNCHANGED <<phase, stopAsked>>

\* The capture cannot be set up: nothing was recorded under its name, which
\* is still new when it was not reserved.
Cancel(s) ==
  /\ holder = s
  /\ phase[s] = "recording"
  /\ \E p \in {"new", "discarded"} : phase' = [phase EXCEPT ![s] = p]
  /\ holder' = NoSession
  /\ UNCHANGED stopAsked

Take(u) == holder = NoSession /\ holder' = u /\ UNCHANGED <<phase, stopAsked>>

Give(u) == holder = u /\ holder' = NoSession /\ UNCHANGED <<phase, stopAsked>>

Next ==
  \/ \E s \in Session :
       Begin(s) \/ AskStop(s) \/ Save(s) \/ Discard(s) \/ Release(s) \/ Cancel(s)
  \/ \E u \in Other : Take(u) \/ Give(u)

Spec == Init /\ [][Next]_vars

=============================================================================
