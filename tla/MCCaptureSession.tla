-------------------------- MODULE MCCaptureSession --------------------------
(* One process: callers and sessions are model values, and a capture is    *)
(* full after MaxBytes bytes.                                              *)
EXTENDS CaptureSession, TLC

Symmetry == Permutations(Session) \cup Permutations(Caller)

=============================================================================
