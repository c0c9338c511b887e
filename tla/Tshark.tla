------------------------------- MODULE Tshark --------------------------------
(***************************************************************************)
(* tshark.py's run_tshark_with_truncation: one tshark, started as the      *)
(* leader of a process group of its own, reads a pcap and writes JSON into *)
(* a pipe; the caller reads it under a deadline and a size limit, ends the *)
(* whole group when something is wrong, and judges the JSON.  The opening  *)
(* and hashing of the executable comes before and is left out.             *)
(*                                                                         *)
(* Time is counted in the grace period of _terminate_group; what the       *)
(* program writes is measured in the smallest JSON of a packet.            *)
(***************************************************************************)
EXTENDS Integers, Sequences, SequencesExt, Recursions

CONSTANTS
  Timeout,     \* MAX_TSHARK_SECONDS, in grace periods
  MaxPackets,  \* MAX_TSHARK_PACKETS
  MaxOutput,   \* MAX_TSHARK_OUTPUT_BYTES
  PipeSize,    \* what the pipe holds
  MaxWidth,    \* the largest JSON of a packet (a bound)
  MaxNodes,    \* MAX_JSON_NODES
  MaxDepth,    \* MAX_JSON_DEPTH
  Shape,       \* the JSON values of a packet and in it, see Value
  Nesting      \* how deep they may nest: what json.loads returns is finite

ASSUME BoundAssumption ==
  {Timeout, MaxPackets, MaxOutput, PipeSize, MaxWidth, MaxNodes, MaxDepth} \subseteq Nat \ {0}

\* The leader is tshark; it may have a child, which inherits the pipe.
Member == {"leader", "child"}

VARIABLES
  now,        \* time.monotonic(), since the start of the call
  at,         \* "reading", "waiting", "erring", "terminating", "validating", "returned"
  wake,       \* the deadline of the reads or of _terminate_group's wait
  error,      \* "none", "timeout", "limit", "failed" or "invalid"
  output,     \* len(output)
  pipe,       \* what is in the pipe
  alive,      \* the living members of the process group
  writers,    \* the members that have the pipe open
  written,    \* what the leader has written
  exit,       \* its exit code, 0 or 1
  limit,      \* the caller's limit
  available,  \* the packets of the pcap
  width,      \* the size of the JSON of one packet
  doc         \* the JSON that came out, <<>> before

request == <<limit, available, width>>
group == <<alive, writers, exit>>
vars == <<now, at, wake, error, output, pipe, group, written, request, doc>>

Least(a, b) == IF a < b THEN a ELSE b

\* Fault variant: the packet that would tell is not asked for.
ProbeLimitOnly == limit
ProbeLimit == Least(limit + 1, MaxPackets)

\* `-c': the packets that tshark prints.
Printed == Least(ProbeLimit, available)

TypeOK ==
  /\ now \in 0 .. Timeout + 1 /\ wake \in 0 .. Timeout + 1
  /\ at \in {"reading", "waiting", "erring", "terminating", "validating", "returned"}
  /\ error \in {"none", "timeout", "limit", "failed", "invalid"}
  /\ output \in 0 .. MaxOutput /\ pipe \in 0 .. PipeSize
  /\ writers \subseteq alive /\ alive \subseteq Member
  /\ written = output + pipe \/ at # "reading"
  /\ exit \in {0, 1}
  /\ Len(doc) <= Printed

Init ==
  /\ now = 0 /\ at = "reading" /\ wake = Timeout /\ error = "none"
  /\ output = 0 /\ pipe = 0 /\ written = 0 /\ exit = 1
  /\ alive \in {{"leader"}, Member} /\ writers = alive
  /\ limit \in 1 .. MaxPackets
  /\ available \in 0 .. MaxPackets + 1
  /\ width \in 1 .. MaxWidth
  /\ doc = <<>>

-----------------------------------------------------------------------------
(* The process group.  Only a tshark that has printed everything exits     *)
(* with 0; a process may also close the pipe and live on.                  *)

Write ==
  /\ at = "reading" /\ "leader" \in writers
  /\ written < width * Printed /\ pipe < PipeSize
  /\ pipe' = pipe + 1
  /\ written' = written + 1
  /\ UNCHANGED <<now, at, wake, error, output, group, request, doc>>

Exit(m) ==
  /\ m \in alive
  /\ alive' = alive \ {m}
  /\ writers' = writers \ {m}
  /\ IF m = "leader" /\ written = width * Printed THEN exit' \in {0, 1} ELSE UNCHANGED exit
  /\ UNCHANGED <<now, at, wake, error, output, pipe, written, request, doc>>

Close(m) ==
  /\ m \in writers
  /\ writers' = writers \ {m}
  /\ UNCHANGED <<now, at, wake, error, output, pipe, alive, written, exit, request, doc>>

-----------------------------------------------------------------------------
(* _read_tshark_output and _terminate_group.  A wait that is over is       *)
(* noticed before time goes on.                                            *)

Tick ==
  /\ at \in {"reading", "waiting", "terminating"}
  /\ now < wake
  /\ now' = now + 1
  /\ UNCHANGED <<at, wake, error, output, pipe, group, written, request, doc>>

Fail(e) == error' = e /\ at' = "erring"

\* Fault variant: every read waits for the whole timeout.
ReadChunkAnew ==
  /\ at = "reading" /\ now < wake
  /\ \E n \in 1 .. pipe :
       /\ pipe' = pipe - n
       /\ IF output + n > MaxOutput
          THEN Fail("limit") /\ UNCHANGED output
          ELSE output' = output + n /\ UNCHANGED <<at, error>>
  /\ wake' = now + Timeout
  /\ UNCHANGED <<now, group, written, request, doc>>

\* Fault variant: the limit is tested when it is exceeded already.
ReadChunkLate ==
  /\ at = "reading" /\ now < wake
  /\ \E n \in 1 .. pipe :
       /\ pipe' = pipe - n
       /\ IF output > MaxOutput
          THEN Fail("limit") /\ UNCHANGED output
          ELSE output' = output + n /\ UNCHANGED <<at, error>>
  /\ UNCHANGED <<now, wake, group, written, request, doc>>

ReadChunk ==
  /\ at = "reading" /\ now < wake
  /\ \E n \in 1 .. pipe :
       /\ pipe' = pipe - n
       /\ IF output + n > MaxOutput
          THEN Fail("limit") /\ UNCHANGED output
          ELSE output' = output + n /\ UNCHANGED <<at, error>>
  /\ UNCHANGED <<now, wake, group, written, request, doc>>

ReadEof ==
  /\ at = "reading" /\ now < wake
  /\ pipe = 0 /\ writers = {}
  /\ at' = "waiting"
  /\ UNCHANGED <<now, wake, error, output, pipe, group, written, request, doc>>

ReadTimesOut ==
  /\ at = "reading" /\ now >= wake
  /\ Fail("timeout")
  /\ UNCHANGED <<now, wake, output, pipe, group, written, request, doc>>

WaitEnds ==
  /\ at = "waiting" /\ "leader" \notin alive
  /\ IF exit = 0 THEN at' = "validating" /\ UNCHANGED error
                 ELSE at' = "returned" /\ error' = "failed"
  /\ UNCHANGED <<now, wake, output, pipe, group, written, request, doc>>

WaitTimesOut ==
  /\ at = "waiting" /\ "leader" \in alive /\ now >= wake
  /\ Fail("timeout")
  /\ UNCHANGED <<now, wake, output, pipe, group, written, request, doc>>

\* SIGTERM ends those that do not ignore it.
Terminate ==
  /\ at = "erring"
  /\ alive' \in SUBSET alive
  /\ writers' = writers \cap alive'
  /\ wake' = now + 1
  /\ at' = "terminating"
  /\ UNCHANGED <<now, error, output, pipe, exit, written, request, doc>>

\* Fault variant: only the leader is killed.
KillLeader ==
  /\ at = "terminating"
  /\ "leader" \notin alive \/ now >= wake
  /\ alive' = alive \ {"leader"}
  /\ writers' = writers \ {"leader"}
  /\ at' = "returned"
  /\ UNCHANGED <<now, wake, error, output, pipe, exit, written, request, doc>>

\* SIGKILL to the group, also when the leader has gone.
Kill ==
  /\ at = "terminating"
  /\ "leader" \notin alive \/ now >= wake
  /\ alive' = {}
  /\ writers' = {}
  /\ at' = "returned"
  /\ UNCHANGED <<now, wake, error, output, pipe, exit, written, request, doc>>

-----------------------------------------------------------------------------
(* _validate_json_value.  A value is a container of its items, a leaf if   *)
(* it has none; `ok' is false for what its type forbids (a string or key   *)
(* that is too long, an infinite number, too many items).                  *)

Value(ok, items) == [ok |-> ok, items |-> items]

ASSUME ShapeAssumption ==
  /\ Nesting \in [Shape -> Nat]
  /\ \A v \in Shape :
       /\ v.ok \in BOOLEAN /\ v.items \in Seq(Shape)
       /\ \A i \in DOMAIN v.items : Nesting[v.items[i]] < Nesting[v]

\* The array of a whole answer is a value, too.
Json == Shape \cup {Value(TRUE, records) : records \in SeqOf(Shape, MaxPackets)}

\* Fault variant: the budget is handed down by value.
ValidateCopying[v \in Json] ==
  [depth \in Nat |-> [budget \in Int |->
    IF budget < 1 \/ depth > MaxDepth \/ ~v.ok THEN -1
    ELSE IF \A i \in DOMAIN v.items :
              ValidateCopying[v.items[i]][depth + 1][budget - 1] >= 0
         THEN budget - 1
         ELSE -1]]

\* What is left of the budget, or -1 when it raises.
Validate[v \in Json] ==
  [depth \in Nat |-> [budget \in Int |->
    IF budget < 1 \/ depth > MaxDepth \/ ~v.ok THEN -1
    ELSE LET left[n \in 0 .. Len(v.items)] ==
               IF n = 0 THEN budget - 1
               ELSE IF left[n - 1] < 0 THEN -1
               ELSE Validate[v.items[n]][depth + 1][left[n - 1]]
         IN  left[Len(v.items)]]]

AcceptedCopying(records) == ValidateCopying[Value(TRUE, records)][0][MaxNodes] >= 0
Accepted(records) == Validate[Value(TRUE, records)][0][MaxNodes] >= 0

\* json.loads and _validate_tshark_records.
ValidateRecords ==
  /\ at = "validating"
  /\ doc' \in [1 .. Printed -> Shape]
  /\ error' = IF Accepted(doc') THEN "none" ELSE "invalid"
  /\ at' = "returned"
  /\ UNCHANGED <<now, wake, output, pipe, group, written, request>>

\* What the caller gets.
Returned == SubSeq(doc, 1, Least(limit, Len(doc)))
Truncated == Len(doc) > limit \/ (limit = MaxPackets /\ Len(doc) = limit)

Next ==
  \/ Write \/ (\E m \in Member : Exit(m) \/ Close(m))
  \/ Tick \/ ReadChunk \/ ReadEof \/ ReadTimesOut \/ WaitEnds \/ WaitTimesOut
  \/ Terminate \/ Kill \/ ValidateRecords

\* Time passes, and the caller is scheduled.
Spec ==
  /\ Init /\ [][Next]_vars
  /\ WF_vars(Tick)
  /\ WF_vars(ReadChunk \/ ReadEof \/ ReadTimesOut \/ WaitEnds \/ WaitTimesOut
             \/ Terminate \/ Kill \/ ValidateRecords)

-----------------------------------------------------------------------------
(* Properties.                                                             *)

(* A tshark that took too long or wrote too much leaves no process behind, *)
(* whoever of its group has ended before, ignores SIGTERM or keeps the     *)
(* pipe open (tshark.py:122-139, 179-180).                                 *)
NoSurvivor == at = "returned" /\ error \in {"timeout", "limit"} => alive = {}

(* Whatever the group does, the call returns, and the timeout is one for   *)
(* all the reads and the wait together, with one grace period on top       *)
(* (tshark.py:144-180).                                                    *)
InTime == now <= Timeout + (IF error \in {"timeout", "limit"} THEN 1 ELSE 0)
WithinDeadline == <>(at = "returned" /\ InTime)

(* An answer is what tshark printed, all of it, never the part that was    *)
(* read before a failure; it has every packet of the capture unless it is  *)
(* marked as truncated, and is marked only if the limit was reached        *)
(* (tshark.py:270-276).                                                    *)
AnswerIsComplete ==
  at = "returned" /\ error = "none" =>
    /\ output = width * Printed
    /\ Len(Returned) = Least(limit, available)
    /\ ~Truncated => available <= limit
    /\ Truncated => available > limit \/ (limit = MaxPackets /\ available = limit)

Nodes[v \in Json] ==
  1 + SumTo([i \in DOMAIN v.items |-> Nodes[v.items[i]]], Len(v.items))
Levels[v \in Json] ==
  1 + MaxTo([i \in DOMAIN v.items |-> Levels[v.items[i]]], Len(v.items))
WellFormed[v \in Json] == v.ok /\ \A i \in DOMAIN v.items : WellFormed[v.items[i]]

(* The JSON is accepted exactly if the whole document, over all its        *)
(* branches, keeps to the limits: the budget is shared by the branches     *)
(* and the depth is not (tshark.py:188-217).                               *)
JsonVerdict ==
  LET v == Value(TRUE, doc) IN
  at = "returned" /\ error \in {"none", "invalid"} =>
    (error = "none" <=> WellFormed[v] /\ Nodes[v] <= MaxNodes /\ Levels[v] <= MaxDepth + 1)

=============================================================================
