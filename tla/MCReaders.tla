------------------------------ MODULE MCReaders ------------------------------
(* One reader: readers do nothing to each other.  A pcap file may be twice *)
(* as large as a capture, which is the unit.                               *)
EXTENDS Readers
=============================================================================
