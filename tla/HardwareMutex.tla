---------------------------- MODULE HardwareMutex ----------------------------
(***************************************************************************)
(* What the hardware coordinator promises to every program on the host: at *)
(* any moment at most one operation (a capture or a status read, of one    *)
(* process) uses the Cynthion, and it is handed over only by its user      *)
(* letting go.  Coordinator.tla implements this specification.             *)
(***************************************************************************)
CONSTANTS
  Operation,    \* the operations that may use the hardware
  NoOperation   \* holder when nobody does

VARIABLE holder

TypeOK == holder \in Operation \cup {NoOperation}

Init == holder = NoOperation

Acquire(u) ==
  /\ holder = NoOperation
  /\ holder' = u

Release(u) ==
  /\ holder = u
  /\ holder' = NoOperation

Next == \E u \in Operation : Acquire(u) \/ Release(u)

Spec == Init /\ [][Next]_holder

=============================================================================
