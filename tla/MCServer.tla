------------------------------ MODULE MCServer -------------------------------
(* One client, and a capture of at most MaxBytes bytes.                    *)
EXTENDS Server

=============================================================================
