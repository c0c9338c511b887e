------------------------------ MODULE MCStorage ------------------------------
(* Sizes in units of MAX_CAPTURE_BYTES, so that a pcap file may be twice   *)
(* as large; the quota is reached by a few files.                          *)
EXTENDS Storage, TLC

Symmetry == Permutations(Task) \cup Permutations(Id)

=============================================================================
