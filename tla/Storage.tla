------------------------------- MODULE Storage -------------------------------
(***************************************************************************)
(* The capture directory, shared by the processes of the host: the         *)
(* reservation, publication and discarding of recordings (capture.py), and *)
(* the conversion of published ones (tshark.py, decoder.py).               *)
(*                                                                         *)
(* `.storage.lock' serialises accounting, publication and conversion; the  *)
(* writes of a recording and the discarding of a partial file do not take  *)
(* it.  A task or converter may crash at any step: the kernel then drops   *)
(* its flock, and its files stay.                                          *)
(***************************************************************************)
EXTENDS Integers, FiniteSets

CONSTANTS
  Id,          \* capture ids; one may be drawn again after its partial is gone
  Task,        \* recordings, each a file of its own (an inode)
  Converter,   \* processes that convert
  NoTask,      \* no file under that name
  NoId,        \* no id reserved, no conversion
  NoOne,       \* the storage lock is free
  CaptureMax,  \* MAX_CAPTURE_BYTES
  PcapMax,     \* MAX_PCAP_BYTES
  StoredMax,   \* MAX_STORED_BYTES
  RecordMax    \* MAX_STORED_CAPTURES

ASSUME FileAssumption == NoTask \notin Task /\ NoId \notin Id
ASSUME FinitenessAssumption == IsFiniteSet(Id) /\ IsFiniteSet(Converter)
ASSUME LockAssumption == NoOne \notin Task \cup Converter /\ Task \cap Converter = {}
ASSUME SizeAssumption ==
  /\ {CaptureMax, PcapMax, StoredMax, RecordMax} \subseteq Nat \ {0}
  /\ PcapMax <= StoredMax

VARIABLES
  lock,     \* who holds the flock on .storage.lock
  partial,  \* partial[id]: the file named <id>.partial
  bin,      \* bin[id]: the file named <id>.bin; a hard link of a partial
  pcap,     \* pcap[id]: the size of <id>.pcap, 0 when there is none
  temp,     \* temp[k]: the size of k's temporary file, 0 when there is none
  size,     \* size[t]: the bytes of t's file
  whole,    \* tasks whose file is complete: flushed after a clean stop
  tpc,      \* tpc[t]: where task t is
  tid,      \* tid[t]: the capture id t has reserved
  kpc,      \* kpc[k]: where converter k is
  job       \* job[k]: the id k converts

fileVars == <<partial, bin, pcap, temp, size, whole>>
taskVars == <<tpc, tid>>
converterVars == <<kpc, job>>
vars == <<lock, fileVars, taskVars, converterVars>>

TaskLocation ==
  {"idle", "creating", "recording", "discarding", "dropped", "finalizing",
   "linking", "unlinking", "syncing", "tidying", "published", "refused",
   "failed", "crashed"}

TypeOK ==
  /\ lock \in Task \cup Converter \cup {NoOne}
  /\ partial \in [Id -> Task \cup {NoTask}]
  /\ bin \in [Id -> Task \cup {NoTask}]
  /\ pcap \in [Id -> 0 .. PcapMax]
  /\ temp \in [Converter -> 0 .. PcapMax]
  /\ size \in [Task -> 0 .. CaptureMax]
  /\ whole \subseteq Task
  /\ tpc \in [Task -> TaskLocation]
  /\ tid \in [Task -> Id \cup {NoId}]
  /\ kpc \in [Converter -> {"idle", "opening", "converting", "crashed"}]
  /\ job \in [Converter -> Id \cup {NoId}]

Init ==
  /\ lock = NoOne
  /\ partial = [id \in Id |-> NoTask]
  /\ bin = [id \in Id |-> NoTask]
  /\ pcap = [id \in Id |-> 0]
  /\ temp = [k \in Converter |-> 0]
  /\ size = [t \in Task |-> 0]
  /\ whole = {}
  /\ tpc = [t \in Task |-> "idle"]
  /\ tid = [t \in Task |-> NoId]
  /\ kpc = [k \in Converter |-> "idle"]
  /\ job = [k \in Converter |-> NoId]

-----------------------------------------------------------------------------
(* _stored_usage: a name that ends in ".partial", the converter's temporary *)
(* name included, counts for a full capture at least.                       *)

\* The sum of the sizes f[x]: how many bytes <<x, i>> there are.
Bytes(f) == UNION {{x} \X (1 .. f[x]) : x \in DOMAIN f}
Total(f) == Cardinality(Bytes(f))

Larger(m, n) == IF m > n THEN m ELSE n

PartialBytes ==
  [id \in Id |-> IF partial[id] = NoTask THEN 0
                                        ELSE Larger(CaptureMax, size[partial[id]])]
BinBytes == [id \in Id |-> IF bin[id] = NoTask THEN 0 ELSE size[bin[id]]]
TempBytes ==
  [k \in Converter |-> IF temp[k] = 0 THEN 0 ELSE Larger(CaptureMax, temp[k])]

UsedBytes == Total(PartialBytes) + Total(BinBytes) + Total(pcap) + Total(TempBytes)

\* All the files of one capture id are one record.
Records ==
  {id \in Id : partial[id] # NoTask \/ bin[id] # NoTask \/ pcap[id] > 0}
    \cup {job[k] : k \in {k \in Converter : temp[k] > 0}}

\* require_storage_capacity, for a file that replaces `old' bytes.
Capacity(entries, extra, old) ==
  /\ Cardinality(Records) + entries <= RecordMax
  /\ UsedBytes - old + extra <= StoredMax

\* Fault variant: the number of names is not looked at.
AvailableByName(id) == bin[id] # NoTask

\* _entry_regular of <id>.bin: it exists, and st_nlink is 1.
Available(id) == bin[id] # NoTask /\ partial[id] # bin[id]

TaskTo(t, l) == tpc' = [tpc EXCEPT ![t] = l]

\* Fault variant: whatever file has the name is removed.
UnlinkOwnPartialByName(t) ==
  partial' = [id \in Id |-> IF id = tid[t] THEN NoTask ELSE partial[id]]

\* _unlink_partial: only the file that t reserved is removed.
UnlinkOwnPartial(t) ==
  partial' = [id \in Id |-> IF id = tid[t] /\ partial[id] = t THEN NoTask
                                                             ELSE partial[id]]

-----------------------------------------------------------------------------
(* _reserve_partial.                                                       *)

\* Fault variant: the bytes the recording may come to are not counted.
ReserveLocksByCount(t) ==
  /\ tpc[t] = "idle"
  /\ lock = NoOne
  /\ Capacity(1, 0, 0)
  /\ lock' = t
  /\ TaskTo(t, "creating")
  /\ UNCHANGED <<fileVars, tid, converterVars>>

\* Fault variant: the number of records is not checked.
ReserveLocksAnyCount(t) ==
  /\ tpc[t] = "idle"
  /\ lock = NoOne
  /\ Capacity(0, CaptureMax, 0)
  /\ lock' = t
  /\ TaskTo(t, "creating")
  /\ UNCHANGED <<fileVars, tid, converterVars>>

ReserveLocks(t) ==
  /\ tpc[t] = "idle"
  /\ lock = NoOne
  /\ Capacity(1, CaptureMax, 0)
  /\ lock' = t
  /\ TaskTo(t, "creating")
  /\ UNCHANGED <<fileVars, tid, converterVars>>

\* The quota is full; the lock is taken and let go in between.
ReserveRefused(t) ==
  /\ tpc[t] = "idle"
  /\ lock = NoOne
  /\ ~Capacity(1, CaptureMax, 0)
  /\ TaskTo(t, "refused")
  /\ UNCHANGED <<lock, fileVars, tid, converterVars>>

\* O_CREAT | O_EXCL on the partial name: an id whose recording is published
\* may be drawn again.
Create(t, id) ==
  /\ tpc[t] = "creating"
  /\ partial[id] = NoTask
  /\ partial' = [partial EXCEPT ![id] = t]
  /\ tid' = [tid EXCEPT ![t] = id]
  /\ lock' = NoOne
  /\ TaskTo(t, "recording")
  /\ UNCHANGED <<bin, pcap, temp, size, whole, converterVars>>

\* Every attempt met an existing name, or a call fails.
CreateFails(t) ==
  /\ tpc[t] = "creating"
  /\ lock' = NoOne
  /\ TaskTo(t, "refused")
  /\ UNCHANGED <<fileVars, tid, converterVars>>

-----------------------------------------------------------------------------
(* The drainer's writes, and _finalize_file.                               *)

\* Fault variant: the read is not cut to what is left of the capture.
WriteUnbounded(t) ==
  /\ tpc[t] = "recording"
  /\ size' = [size EXCEPT ![t] = @ + 1]
  /\ UNCHANGED <<lock, partial, bin, pcap, temp, whole, taskVars, converterVars>>

Write(t) ==
  /\ tpc[t] = "recording"
  /\ size[t] < CaptureMax
  /\ size' = [size EXCEPT ![t] = @ + 1]
  /\ UNCHANGED <<lock, partial, bin, pcap, temp, whole, taskVars, converterVars>>

StopClean(t) ==
  /\ tpc[t] = "recording"
  /\ whole' = whole \cup {t}
  /\ TaskTo(t, "finalizing")
  /\ UNCHANGED <<lock, partial, bin, pcap, temp, size, tid, converterVars>>

StopUnclean(t) ==
  /\ tpc[t] = "recording"
  /\ TaskTo(t, "discarding")
  /\ UNCHANGED <<lock, fileVars, tid, converterVars>>

\* Without the lock.  A repeated capture_stop discards once more what the
\* drainer has discarded, or has failed to.
DiscardPartial(t) ==
  /\ tpc[t] \in {"discarding", "dropped"}
  /\ UnlinkOwnPartial(t) \/ UNCHANGED partial
  /\ TaskTo(t, "dropped")
  /\ UNCHANGED <<lock, bin, pcap, temp, size, whole, tid, converterVars>>

PublishLocks(t) ==
  /\ tpc[t] = "finalizing"
  /\ lock = NoOne
  /\ lock' = t
  /\ TaskTo(t, "linking")
  /\ UNCHANGED <<fileVars, tid, converterVars>>

\* The partial name still refers to the reserved file, and the final name
\* does not exist: os.link never replaces it.
Link(t) ==
  /\ tpc[t] = "linking"
  /\ partial[tid[t]] = t
  /\ bin[tid[t]] = NoTask
  /\ bin' = [bin EXCEPT ![tid[t]] = t]
  /\ TaskTo(t, "unlinking")
  /\ UNCHANGED <<lock, partial, pcap, temp, size, whole, tid, converterVars>>

Unlink(t) ==
  /\ tpc[t] = "unlinking"
  /\ partial' = [partial EXCEPT ![tid[t]] = NoTask]
  /\ TaskTo(t, "syncing")
  /\ UNCHANGED <<lock, bin, pcap, temp, size, whole, tid, converterVars>>

Sync(t) ==
  /\ tpc[t] = "syncing"
  /\ lock' = NoOne
  /\ TaskTo(t, "published")
  /\ UNCHANGED <<fileVars, tid, converterVars>>

\* A step of the publication fails, also because the final name exists.
PublishFails(t) ==
  /\ tpc[t] \in {"linking", "unlinking", "syncing"}
  /\ TaskTo(t, "tidying")
  /\ UNCHANGED <<lock, fileVars, tid, converterVars>>

\* Fault variant: the publication is tried again with the lock kept.
TidyRetrying(t) ==
  /\ tpc[t] = "tidying"
  /\ TaskTo(t, "linking")
  /\ UNCHANGED <<lock, fileVars, tid, converterVars>>

\* Fault variant: the final name is taken back as well.
TidyFinalName(t) ==
  /\ tpc[t] = "tidying"
  /\ UnlinkOwnPartial(t) \/ UNCHANGED partial
  /\ bin' = [bin EXCEPT ![tid[t]] = NoTask]
  /\ lock' = NoOne
  /\ TaskTo(t, "failed")
  /\ UNCHANGED <<pcap, temp, size, whole, tid, converterVars>>

Tidy(t) ==
  /\ tpc[t] = "tidying"
  /\ UnlinkOwnPartial(t) \/ UNCHANGED partial
  /\ lock' = NoOne
  /\ TaskTo(t, "failed")
  /\ UNCHANGED <<bin, pcap, temp, size, whole, tid, converterVars>>

-----------------------------------------------------------------------------
(* ensure_pcap, with cynthion_bin_to_pcap's handling of its files.         *)

\* Fault variant: the quota is left to the reservation.
ConvertLocksUnchecked(k, id) ==
  /\ kpc[k] = "idle"
  /\ lock = NoOne
  /\ lock' = k
  /\ kpc' = [kpc EXCEPT ![k] = "opening"]
  /\ job' = [job EXCEPT ![k] = id]
  /\ UNCHANGED <<fileVars, taskVars>>

\* A refusal takes the lock and lets it go, and changes nothing.
ConvertLocks(k, id) ==
  /\ kpc[k] = "idle"
  /\ lock = NoOne
  /\ Capacity(0, PcapMax, pcap[id])
  /\ lock' = k
  /\ kpc' = [kpc EXCEPT ![k] = "opening"]
  /\ job' = [job EXCEPT ![k] = id]
  /\ UNCHANGED <<fileVars, taskVars>>

\* The temporary file starts with the header of a pcap file.
ConvertOpens(k) ==
  /\ kpc[k] = "opening"
  /\ Available(job[k])
  /\ temp' = [temp EXCEPT ![k] = 1]
  /\ kpc' = [kpc EXCEPT ![k] = "converting"]
  /\ UNCHANGED <<lock, partial, bin, pcap, size, whole, taskVars, job>>

ConvertWrites(k) ==
  /\ kpc[k] = "converting"
  /\ temp[k] < PcapMax
  /\ temp' = [temp EXCEPT ![k] = @ + 1]
  /\ UNCHANGED <<lock, partial, bin, pcap, size, whole, taskVars, converterVars>>

ConvertEnds(k) ==
  /\ temp' = [temp EXCEPT ![k] = 0]
  /\ lock' = NoOne
  /\ kpc' = [kpc EXCEPT ![k] = "idle"]
  /\ job' = [job EXCEPT ![k] = NoId]
  /\ UNCHANGED <<partial, bin, size, whole, taskVars>>

\* The capture is not available, is malformed, or converts to too much.
ConvertFails(k) ==
  /\ kpc[k] \in {"opening", "converting"}
  /\ ConvertEnds(k)
  /\ UNCHANGED pcap

ConvertReplaces(k) ==
  /\ kpc[k] = "converting"
  /\ pcap' = [pcap EXCEPT ![job[k]] = temp[k]]
  /\ ConvertEnds(k)

-----------------------------------------------------------------------------
(* Crashes, and the operator, who moves published files away.              *)

Dropped(user) == lock' = IF lock = user THEN NoOne ELSE lock

CrashTask(t) ==
  /\ tpc[t] \in TaskLocation \ {"idle", "published", "refused", "failed", "crashed"}
  /\ Dropped(t)
  /\ TaskTo(t, "crashed")
  /\ UNCHANGED <<fileVars, tid, converterVars>>

CrashConverter(k) ==
  /\ kpc[k] \in {"opening", "converting"}
  /\ Dropped(k)
  /\ kpc' = [kpc EXCEPT ![k] = "crashed"]
  /\ UNCHANGED <<fileVars, taskVars, job>>

\* The operator removes what a crashed converter has left, and it is started
\* again.  (Bound: a converter leaves one orphan at a time.)
RestartConverter(k) ==
  /\ kpc[k] = "crashed"
  /\ temp' = [temp EXCEPT ![k] = 0]
  /\ kpc' = [kpc EXCEPT ![k] = "idle"]
  /\ job' = [job EXCEPT ![k] = NoId]
  /\ UNCHANGED <<lock, partial, bin, pcap, size, whole, taskVars>>

Archive(id) ==
  /\ bin[id] # NoTask \/ pcap[id] > 0
  /\ bin' = [bin EXCEPT ![id] = NoTask]
  /\ pcap' = [pcap EXCEPT ![id] = 0]
  /\ UNCHANGED <<lock, partial, temp, size, whole, taskVars, converterVars>>

-----------------------------------------------------------------------------
Reserving(t) == ReserveLocks(t) \/ ReserveRefused(t) \/ CreateFails(t)

Recording(t) == Write(t) \/ StopClean(t) \/ StopUnclean(t) \/ DiscardPartial(t)

Publishing(t) ==
  Link(t) \/ Unlink(t) \/ Sync(t) \/ PublishFails(t) \/ Tidy(t)

Converting(k) ==
  ConvertOpens(k) \/ ConvertWrites(k) \/ ConvertFails(k) \/ ConvertReplaces(k)

Next ==
  \/ \E t \in Task :
       Reserving(t) \/ Recording(t) \/ PublishLocks(t) \/ Publishing(t) \/ CrashTask(t)
  \/ \E t \in Task, id \in Id : Create(t, id)
  \/ \E k \in Converter : Converting(k) \/ CrashConverter(k) \/ RestartConverter(k)
  \/ \E k \in Converter, id \in Id : ConvertLocks(k, id)
  \/ \E id \in Id : Archive(id)

Spec == Init /\ [][Next]_vars

\* Whoever holds the storage lock goes on, and the kernel does not pass a
\* waiting publication by forever.
Fairness ==
  /\ \A t \in Task :
       /\ WF_vars(Publishing(t))
       /\ WF_vars(CreateFails(t) \/ \E id \in Id : Create(t, id))
       /\ SF_vars(PublishLocks(t))
  /\ \A k \in Converter : WF_vars(Converting(k))

-----------------------------------------------------------------------------
(* No more records exist than the quota allows, although a conversion adds *)
(* files without asking for an entry and ids may be drawn again            *)
(* (capture.py:283; README.md:34-36).                                      *)
RecordQuota == Cardinality(Records) <= RecordMax

\* What the files take up: a file with two names is stored once.
Named == {t \in Task : \E id \in Id : t \in {partial[id], bin[id]}}
StoredBytes == Total([t \in Named |-> size[t]]) + Total(pcap) + Total(temp)

(* The bytes stored keep within the quota whenever no conversion is        *)
(* running or was cut short by a crash: what a recording or a conversion   *)
(* writes after the quota was checked was counted then, and the unlocked   *)
(* writes and discards never make the account too low (capture.py:246).    *)
ByteQuota == (\A k \in Converter : temp[k] = 0) => StoredBytes <= StoredMax

(* A conversion writes next to the file it will replace, which the account *)
(* has already taken off: the excess is at most that old file, also after  *)
(* crashes.                                                                *)
BoundedExcess == StoredBytes <= StoredMax + PcapMax

(* What has a final name keeps it until the operator takes it away: a      *)
(* recording whose id is drawn again does not replace it, and a            *)
(* publication that fails, maybe because of it, does not clean it up with  *)
(* its own files (capture.py:393-402;                                      *)
(* tests/test_adversarial_hardening.py:113).                               *)
NeverOverwritten ==
  [][\A id \in Id : bin[id] # NoTask /\ bin'[id] # bin[id] => Archive(id)]_vars

(* The partial file of a task is removed by that task alone: a repeated    *)
(* discard, which takes no lock, does not hit the file of a task that has  *)
(* drawn the same id since (capture.py:325).                               *)
OwnPartialOnly ==
  [][\A t \in Task, id \in Id :
       partial[id] = t /\ partial'[id] # t =>
         DiscardPartial(t) \/ Unlink(t) \/ Tidy(t)]_vars

(* A cleanly stopped recording gets past its publication, whatever the     *)
(* other processes convert or reserve, and wherever they crash.            *)
PublicationEnds ==
  \A t \in Task :
    tpc[t] = "finalizing" ~> tpc[t] \in {"published", "failed", "crashed"}

=============================================================================
