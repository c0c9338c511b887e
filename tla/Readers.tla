------------------------------- MODULE Readers --------------------------------
(***************************************************************************)
(* The readers of recordings on top of Storage: open_capture_fd, which     *)
(* read_capture_bytes, capture_file_sha256 and the converter call.  Only   *)
(* the converter holds the storage lock then, so that recordings are       *)
(* published, archived and reserved anew between a reader's system calls.  *)
(*                                                                         *)
(* A file is told by its inode, which is what a task stands for.  A call   *)
(* that finds nothing available raises and changes nothing.                *)
(***************************************************************************)
EXTENDS Storage

CONSTANT Reader  \* threads, of any process, that open recordings

VARIABLES
  wanted,    \* wanted[r]: the id whose final name r has looked at, or NoId
  expected,  \* expected[r]: the file it had that name then
  opened     \* opened[r]: the file that r reads from, or NoTask

readerVars == <<wanted, expected, opened>>
allVars == <<vars, readerVars>>

ReaderInit ==
  /\ Init
  /\ wanted = [r \in Reader |-> NoId]
  /\ expected = [r \in Reader |-> NoTask]
  /\ opened = [r \in Reader |-> NoTask]

\* _entry_regular of the final name.
LookUp(r, id) ==
  /\ wanted[r] = NoId /\ opened[r] = NoTask
  /\ Available(id)
  /\ wanted' = [wanted EXCEPT ![r] = id]
  /\ expected' = [expected EXCEPT ![r] = bin[id]]
  /\ UNCHANGED <<vars, opened>>

OpenEnds(r) ==
  /\ wanted' = [wanted EXCEPT ![r] = NoId]
  /\ expected' = [expected EXCEPT ![r] = NoTask]
  /\ UNCHANGED vars

\* The name is opened, and it is still the same file.
Open(r) ==
  /\ wanted[r] # NoId
  /\ bin[wanted[r]] = expected[r]
  /\ opened' = [opened EXCEPT ![r] = bin[wanted[r]]]
  /\ OpenEnds(r)

\* The name is gone, is another file's by now, or cannot be opened.
OpenFails(r) ==
  /\ wanted[r] # NoId
  /\ OpenEnds(r)
  /\ UNCHANGED opened

Close(r) ==
  /\ opened[r] # NoTask
  /\ opened' = [opened EXCEPT ![r] = NoTask]
  /\ UNCHANGED <<vars, wanted, expected>>

ReaderStep(r) ==
  \/ \E id \in Id : LookUp(r, id)
  \/ Open(r) \/ OpenFails(r) \/ Close(r)

ReaderNext ==
  \/ Next /\ UNCHANGED readerVars
  \/ \E r \in Reader : ReaderStep(r)

ReaderSpec == ReaderInit /\ [][ReaderNext]_allVars

\* Nobody has to read.
FairReaderSpec == ReaderSpec /\ Fairness

-----------------------------------------------------------------------------
(* What a reader has open is a complete recording that got its final name  *)
(* and lost its partial one: not the half of a publication that crashed or *)
(* failed between the link and the unlink, nor one that is in between,     *)
(* although the name may be archived and drawn again after the reader has  *)
(* looked at it (capture.py:192, 201-210).                                 *)
OpenedIsPublished ==
  \A r \in Reader :
    opened[r] # NoTask =>
      opened[r] \in whole /\ \A id \in Id : partial[id] # opened[r]

=============================================================================
