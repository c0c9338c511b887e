---------------------------- MODULE MCCoordinator ----------------------------
(* Two programs of two threads each, and the two owner strings of the code. *)
EXTENDS Coordinator

MCOwner == {"capture", "status"}

=============================================================================
