# Verification of cynthion-mcp

TLA+ modules, TLC configurations and TLAPS proofs for `src/cynthion_mcp`: an MCP
server that records USB traffic with a Cynthion analyzer. Paths below are
relative to the repository; line numbers are those of this commit.

    tlc -workers 2 -config MCCoordinator.cfg MCCoordinator      # a run
    tlapm CoordinatorProofs.tla                                 # a proof

## 1. Inventory

| Component | Source | State it keeps | Operations |
|---|---|---|---|
| Hardware coordinator | `coordinator.py` | `_owner`, `_file_fd`, `_lock` of each process; the kernel's flock on `hardware.lock` | `claim`, `release`, `operation`, `assert_idle` (no caller) |
| Capture session lifecycle | `capture.py` | `_active`, `_last_session`, `_lock`; per session the device, the two events, the flags, the counters, the error, `_cleanup_lock`, the drainer thread | `start_capture`, the drainer, `stop_capture`, `session_status`, `wait_for_capture` |
| Capture storage | `capture.py` | the files of the capture directory, the flock on `.storage.lock` | `_reserve_partial`, `_finalize_file`, `_unlink_partial`, `require_storage_capacity`, `open_capture_fd`, `list_captures` |
| Conversion, files | `tshark.py` `ensure_pcap`, `decoder.py` | temporary file, `<id>.pcap` | convert under the storage lock, replace or remove |
| Conversion, record parser | `decoder.py` | position, accumulated ticks, counters of one call | parse records, pad, truncate, time |
| Status read | `hardware.py` | none beyond its claim | `get_status` |
| MCP tools | `server.py` | none | preflight, start, wait, status, stop and convert, error mapping |
| tshark helpers | `tshark.py` | one child process group, deadline, output | run, bound, terminate, validate JSON |
| Packetry probe | `capture.py` | none | `packetry_running` |
| Emulator stub | `emulator.py` | none | every function raises |

**How they interact.** A tool call of the server runs in the calling thread:
the server registers plain functions, which its framework runs on the event
loop, one at a time. `start_capture` takes `_lock`, claims the hardware from the
coordinator, reserves a partial file under the storage lock, opens the analyzer
and starts a *drainer* thread, for which it then waits without the lock. The
drainer enables the analyzer, moves USB data to the partial file until a stop, a
limit or an error ends it, cleans the device up, publishes or discards the file,
and gives the hardware back. It talks to the callers through two events
(`_ready`, `_stop_flag`), unlocked fields of the session, and `_active` /
`_last_session`. `stop_capture` sets the stop flag, joins the drainer and, when
the drainer could not clean up, cleans up itself. Several processes (server,
another server, scripts) share the hardware lock and the capture directory.

**What is hard.** The drainer and up to two locks of a session against callers;
the error and the stop flag, which say together how a capture ended, written in
separate steps by different threads; every clean-up step failing on its own, with
ownership kept until a repeated stop succeeds; the join and the wait for the
start timing out next to a late answer; publication in three file operations with
crashes between them; a byte quota that is checked before the bytes are written;
capture ids that may be drawn twice; a hardware lock that must outlive neither its
user nor its descriptor. `PROJECT.json` lists these hazards at their lines.

**What makes each component correct.**

- *Coordinator*: one user of the hardware on the host, which owns the lock it
  will release; no path leaks a descriptor; no call waits for another process.
- *Session lifecycle*: the hardware is owned exactly while a session is set up or
  active, and while a device is not disposed of; one thread uses the device at a
  time; only a cleanly stopped capture is published, and a stop that returns has
  published it; the outcome stays visible; captures and calls end; retained
  ownership can be given back.
- *Storage*: count and byte quotas; a final name keeps its file until the operator
  takes it away; what a reader opens is a complete recording whose publication is
  finished; a partial file is removed by its task only; nobody keeps the storage lock.
- *Conversion*: no more output than the limit; the result is what the
  recording says, with every padding byte and tick accounted for, and exactly the
  recordings with a flaw are refused.
- *Tools*: "ready" means ready; what is said of a terminal session stays true; advice
  (`next_action`) that leads somewhere.
- *tshark helpers*: the group is ended when a limit is exceeded, the call returns
  within its deadline, and an answer is complete or marked as truncated.

## 2. Modules

    HardwareMutex      what the coordinator promises: a mutex over operations
      ^ implemented by
    Coordinator        coordinator.py, processes x threads, with crashes
      CoordinatorProofs, MCCoordinator
    CaptureContract    what a capture promises: held, recorded, settled, released
      ^ implemented by
    CaptureSession     capture.py in one process: callers, drainers, clean-up
      CaptureSessionProofs, PublicationProofs, MCCaptureSession
      ^ extended by
    Server             server.py: the capture tools and their client
      ServerProofs, MCServer
    Storage            the directory, several processes, with crashes
      MCStorage
      ^ extended by
    Readers            capture.py: recordings opened by name, without a lock
      StorageProofs, MCReaders
    Decoder            decoder.py: the loop over the records of a capture file
      DecoderProofs, MCDecoder
    Tshark             tshark.py: one call of tshark
      TsharkProofs, MCTshark
    Recursions         sums and maxima, for Decoder and Tshark
      RecursionProofs    lemmas about induction and recursion

`CaptureSession` has the hardware as one variable, `holder`: that
`HardwareCoordinator` behaves like one is what `Coordinator` shows. It has two files
for each session, `disk[s]`: that sharing the directory with other processes does
not disturb them is what `Storage` shows (`OwnPartialOnly`, `NeverOverwritten`).
`Storage` lets a conversion succeed or fail and grow to `PcapMax`: which files are
converted, and that they do not grow beyond it, is what `Decoder` shows.

Operators whose comment starts with "Fault variant" are wrong versions of the
definition that follows them. Nothing refers to them: each property was seen to
fail when the variant takes the place of the definition (the `mutants` of
`PROJECT.json`).

### Coordinator

State: `_owner`, `_file_fd` and `_lock` of each process, where each thread is inside
`claim` or `release`, the descriptors of `hardware.lock` that are open and the
one that holds the flock. `using` is a history variable: the operations between
the claim that succeeded and the release that was called.

One action per system call, because processes interleave between them although
the threads of one process cannot (so `FlockGranted` has the assignments that follow the
call: a crash between them leaves what a crash after them leaves, nothing): `ClaimEnter`, `OpenLockFile` / `OpenFails`,
`FlockGranted` / `FlockRefused`, `ReleaseEnter`, `Unlock`, `CloseFd`, and
`Crash`, after which the kernel has closed what the process had open. A
descriptor is named after the thread that opened it, since a thread has one
`claim` in progress at most. A claim or release that raises before it changes
anything is no action. `LOCK_UN` may fail, in which case closing the
descriptor drops the lock.

### CaptureSession

| Code | Actions |
|---|---|
| `start_capture` under `_lock` (435-586) | `StartClaims`, `Reserve(Fails)`, `OpenAnalyzer(Fails)`, `StartThread`, `StartThreadFails`, `StartThreadAndDisposeFail` |
| its wait for `_ready` (588-602) | `StartReturns`, `StartGivesUp`, `AssignStartError`, `StopFailedStart`, `StartRaises` |
| drainer, loop (460-507) | `Enable(Fails)`, `SeeStop`, `ReachDuration`, `GoOn`, `Read`, `ReadNothing`, `ReadFails`, `AssignLimit`, `Flush(Fails)`, `AssignFault` |
| drainer, `finally` (508-562) | `Disable(Fails)`, `Dispose(Fails)`, `AssignCleanupError`, `Drop`, `Publish`, `PublishFails`, `Discard(Fails)`, `Confirm`, `Finish`, `Release`, `Exit` |
| `stop_capture` (605-655) | `StopRequest`, `StopLocks`, `StopTimesOut`, `StopJoins`, `StopDisables`, `StopDisposes`, `StopCleanupFails`, `StopConfirms`, `StopReleases`, `StopReturns` |
| `get_status` and other programs | `StatusBegins`, `StatusEnds`, `ElsewhereBegins`, `ElsewhereEnds` |

Modelling decisions:

- `start_capture` holds `_lock` over several steps, so the lock is a variable. The
  critical sections of the drainer and of a stop are one step each, enabled
  when the lock is free.
- Error codes are classes (`"limit"`, `"io"`, `"start"`, `"publish"`, `"cleanup"`):
  the code tells no more apart. `_set_session_error` tests and then assigns
  without a lock; it is two steps of the drainer and of a start that gives up,
  which can overlap. In a stop it is one step: the drainer has ended by then.
- The code claims the hardware as `"capture"`. `holder` is refined to the session
  the claim was made for, so that a release of somebody else's claim can be seen.
  `_active` and `holder` are what a wrong release would set apart
  (`OwnershipAccounted`).
- At its end the drainer writes the error, removes the file, assigns `finished_at` and
  `_last_session`, and ends. These are steps of their own wherever somebody looks in
  between, so a session can be terminal with its drainer still running. Two pairs are
  one step. `Finish` joins `finished_at` and `_last_session`: the second is read only
  when there is no active session, and the session stays the active one until the next
  step at least. `Release` joins the end of the ownership and the end of the thread:
  nothing is in between, and a stop that finds the thread alive just joins it.
- `HARDWARE_COORDINATOR.release` raises when the owner is another (coordinator.py:60),
  which `OwnershipAccounted` excludes here: a session that releases holds the claim. That
  closing the descriptor fails is not modelled; a failing `LOCK_UN` is, in `Coordinator`.
- `session_status` and `wait_for_capture` change nothing; what they read is in the
  model, and properties are stated about it.
- `dev[s]` is `"streaming"` while the analyzer may be capturing. Enabling and
  disabling that fail may still have had their effect.
- A crash of the process ends all of this; what then remains, a partial file and
  nothing of the lock, is the subject of `Storage` and `Coordinator`.

`CaptureContract` is what a client may rely on, in three variables: who holds the
hardware, the phase of each capture (`new`, `recording`, `saved`, `discarded`), and
whether a stop was asked for. A capture is recorded and its outcome settled while it
holds the hardware, it is settled once, and it is saved only after a stop was
requested. The refinement mapping computes the phase from the files and from
where the drainer is.

### Storage

A task is one recording with its own inode; `partial[id]`, `bin[id]` say which inode
has a name, so hard links, stale names and ids drawn twice are all visible.
Accounting, publication (`Link`, `Unlink`, `Sync`) and conversion hold the
flock; `Write`, `DiscardPartial` do not. Tasks and converters crash at any step:
the lock is dropped and the files stay. The operator (`Archive`,
`RestartConverter`) is the only one to remove published files and a crashed
converter's temporary file; partial files of crashed recordings stay for good.

Accounted bytes and stored bytes are different things: the account
(`UsedBytes`) counts a name that ends in `.partial` as a full capture at least, and
a file with two names twice, as `_stored_usage` does. `StoredBytes` is what the
disk holds, and the quota properties are about that. Checks that guard against a
directory changed by somebody else (symbolic links, file modes, the inode of the
directory) are not modelled, since nothing in the model does that. The code tells its
own file by device and inode number; the model never gives an inode to a second
task, while a file system may give the number of a removed file out again. For
that to matter, the capture id would have to be drawn again as well, within the same
second, between two discards of one session, or between a reader's look at a name and
its open.

`Readers` adds threads that open recordings by name, of any process, without the lock:

| Code | Actions |
|---|---|
| `_entry_regular` in `open_capture_fd` (190-201) | `LookUp`, when `Available` |
| open, comparison with what was looked at (202-211) | `Open`, `OpenFails` |
| end of the reader (`read_capture_bytes` and others) | `Close` |

`OpenedIsPublished` is about the file that is open, not about the name: a reader may
have a recording open that the operator has archived since. It says that the publication
of that file is finished, so that both the check of the number of links and the comparison
of the inodes are needed: a crash between link and unlink leaves two names for good, and
between the look and the open the name can come to stand for a publication that is
half done.

### Decoder

The state is that of one call of `cynthion_bin_to_pcap`: `pos`,
`cumulative_ticks`, the counters and the speed, what was written, and `off`, where
the stream really is. The input is a sequence of records, encoded as the analyzer
does and cut at any byte; the actions see only the bytes.

| Code | Actions |
|---|---|
| size limit, global header (69-85) | `Open` |
| event record (87-98) | `ReadEvent`, `AbnormalStop` |
| packet record (99-117) | `ReadPacket`, `BadLength`, `BadPid`, `OutputLimit` |
| `_read_exact` (43-47) | `Truncated` |
| end of the loop (118-127) | `Finish` |

Payload bytes are the PID followed by 255s, which a decoder that lost its place would
take for events. Names of events and the layout of the pcap's packet header are left
out; its two time fields are in.

### Server

`Server` extends `CaptureSession` by the tools: which tool runs, where it is, the
fields of the session it has read, and the code of its answer. Every step of a tool
that touches the capture module is a step of `CaptureSession` (`StartClaims`,
`StartStep`, `StopRequest`, `StopStep`, `StatusBegins`, `StatusEnds`), so nothing is
modelled twice, and `ServerProofs` proves that this is so.

| Code | Actions |
|---|---|
| `capture_preflight` (133-171) | `PickSession`, `ReadTerminal`, `ReadConfirmed`, `ReadError`, `FindPacketry` / `FindNoPacketry`, `ReadBoard`, `BoardRead` |
| `get_status` (123-128) | `ReadBoard`, `BoardRead`, then the reads of the session |
| `capture_status`, `capture_wait` | `PickSession` and the reads |
| `capture_start` | `BeginStart`, `RunStart` |
| `capture_stop`, `capture_stop_and_convert` | `BeginStop`, `RunStop`, `Convert` |

Modelling decisions:

- `_status` builds its dictionary field by field while the drainer writes: each
  field an answer's meaning depends on is a step, in the order of the code. In
  `session_status` this happens under `_lock`, which the model leaves out: of the
  drainer's steps only its release takes the lock, and it writes none of the fields.
- The loop of `wait_for_capture` is its last round, which alone reaches the client;
  that it may be the first is one of the cases.
- Answers are error codes; codes with the same advice are merged (a wrong bitstream
  with a missing board, the two USB errors and `capture_failed`). A recording that is
  archived between a stop and its conversion is one of the answers of `Convert`.
- A client is either free to call anything, or `obedient`: it calls only what the
  last answer's `next_action` names. Two readings are in the obedient client's favour:
  told to wait for the operation that keeps the hardware busy, it may also look at
  `capture_status`; a status without an error lets it start again.
- `list_captures`, `read_capture` and `convert_to_pcap` touch no session.

### Tshark

One call of `run_tshark_with_truncation`: the caller, the pipe, the process group (the
leader and a child that has inherited the pipe) and a clock. What tshark's processes do
is external and free: they write, close the pipe, end, ignore SIGTERM, in any order.

| Code | Actions |
|---|---|
| `_read_tshark_output` (142-185) | `ReadChunk`, `ReadEof`, `ReadTimesOut`, `WaitEnds`, `WaitTimesOut` |
| `_terminate_group` (122-139) | `Terminate`, `Kill` |
| `_validate_json_value`, `_validate_tshark_records` | `Validate`, `ValidateRecords` |
| probe limit, truncation (270-276) | `ProbeLimit`, `Returned`, `Truncated` |

Time is counted in grace periods of `_terminate_group`. A wait that is over is noticed
before time goes on: the model is about which waits there are, not about scheduling
delays. SIGKILL takes effect at once, so that the wait after it (tshark.py:136-139) is
empty. A leader that exits with 0 has printed JSON that parses, with no more records than
it was asked for: the refusals of other output (tshark.py:220, 256-258) are checks of
another program. Output is counted in units of a small packet's JSON. A JSON value is a tree whose nodes may be
of a kind that is refused.

## 3. Runs

| Run | Instance | Distinct states | What it shows |
|---|---|---|---|
| `coordinator` | 2 processes x 2 threads, owners `capture`, `status` | 481 | safety, refinement of `HardwareMutex`, calls return |
| `capture_server` | 1 caller, 2 sessions, 2 bytes | 250 k | a capture as the shipped server runs it: failed starts, and liveness |
| `capture_threads` | 2 callers, 2 sessions, 2 bytes, symmetric | 2.1 M | every other safety property, with overlapping calls; these behaviours include those of `capture_server` |
| `capture_retry` | 1 caller, 2 sessions, 1 byte | 96 k | a client that repeats `capture_stop` gets the hardware back |
| `capture_advice`, `capture_unpublished` | as `capture_server` | | the two findings of section 6 (TLC stops at the violation) |
| `storage` | 3 ids, 3 tasks, 1 converter, quota of 4 units and 2 records | 0.9 M | quotas, final names that keep their files, partial files that are one's own, with crashes |
| `readers` | 2 ids, 2 tasks, 1 converter, 1 reader | 354 k | what is opened is published; publications end |
| `server` | 1 client, 1 session, 2 bytes | 47 k | answers that are true when given and later, and advice after a failed clean-up |
| `server_advice` | as `server` | | the third finding of section 6 |
| `decoder` | 0 to 3 of 11 records, cut at every byte | 86 k | exactly the sound recordings are converted, to what they say |
| `tshark` | timeout of 3 grace periods, 3 packets, output of 5 units | 124 k | deadline, reaping, truncation, JSON limits |

`decoder` and `tshark` are single calls that end, so their runs do not check for
deadlock. The others do: in `capture_*`, a status read can always be begun or ended; in
`server`, the client can always call; in `storage` and `readers`, a converter can always start or be
restarted; in `coordinator`, a process can always crash.

**Bounds, and why they are enough.**

- Two processes of two threads give each pair of actors the coordinator can have:
  two threads of a process (serialised by `_lock`), and two processes.
- Two sessions: whatever a late step of one can do to the next (a release, a
  stop, the outcome shown) takes two; a third would find the module in the state
  the second found it in. A session is used once, as in the code, where it is
  an object of one capture.
- Two callers: every lock of the module then has a holder and a waiter, and a
  stop overlaps a start or another stop.
- `MaxBytes` 2: a capture with no data, with some, and full; a read that ends exactly
  at the limit is among them. 1 in `capture_retry`, which is not about bytes.
- `storage`: sizes are in units of a full capture, a pcap file may be twice as
  long, so that the quotas are reached with a few files. Three ids against a record
  quota of two: the count quota can be exceeded. Three tasks: one is crashed,
  one published and one still records, in any order. One converter: the
  storage lock admits one conversion at a time. A converter leaves one orphaned
  temporary file at most (a bound of `RestartConverter`, which has the operator
  remove it before the converter runs again).
- `readers`: with two tasks a publication waits for every other holder of the lock, and the
  name that a reader has looked at is archived, drawn again and left half published. Two
  ids, so that the other task may as well use another name. One reader: readers do nothing
  to each other.

- `server`: one client, because the tools run one at a time, and one session, because
  every property is about a session and what the client is told of it until it has
  given the hardware back. Two sessions under one caller are `capture_server`'s.
- `decoder`: each kind of record, valid and not, with a third record after any two: a
  position that is wrong after a record shows in the next, and sums over two records
  differ from the last one's. Odd, even, empty and too long payloads; ticks that pass
  a second (of 60 ticks, so that the division has a remainder); conversion and pcap
  limits that three packets reach.
- `tshark`: the pipe is smaller than the output, the output limit smaller than what
  three large packets take, the pcap shorter and longer than the limits; JSON up to
  the level below the depth limit and one beyond, with more nodes than the budget.

**Symmetry** is used in the safety runs only. The sets concerned occur in no
CHOOSE and no ordering.

**Fairness, and what in the code justifies it.**

- `Coordinator`: weak fairness of the steps inside `claim` and `release`: neither
  awaits anything (`LOCK_NB`).
- `CaptureSession`: weak fairness of a call and of a drainer in progress: their USB
  transfers, their join and their wait have timeouts, so each step ends. Strong
  fairness of `ReachDuration`: time passes, and a loop that keeps testing the
  clock sees the duration exceeded. Not assumed: that anybody calls
  `capture_stop`, that the device answers, or that clean-up succeeds.
- `capture_retry` adds an assumption on the *client* and the *device*, named
  `Retrying`: it keeps calling `capture_stop` and disabling and disposing do not
  fail forever. Without it retained ownership stays, on purpose.
- `Storage`: whoever holds the storage lock goes on or crashes (each operation is
  bounded), and the kernel does not pass a waiter by forever. flock(2) promises no
  order; strong fairness is the weakest assumption under which a wait without a
  timeout ends at all.

- `Server`: weak fairness of the running tool, of the drainers and of a client that
  goes on calling. The client is not assumed to know what to do: strong fairness says
  that it does not avoid `capture_status` and `capture_stop` *when it is told to call
  them* again and again. Packetry is closed in the end, as its answer asks, and the
  clean-up of a stop does not fail forever. With all this granted, the advice after a
  USB error still leads nowhere (`server_advice`).
- `Tshark`: time passes, and the caller is scheduled. Nothing is assumed of tshark.

**One caller or two.** `FailedStartNeverPublishes` is checked with one caller only.
With two it does not hold: while a start waits, unlocked, for `_ready`, another
thread's stop can end the capture cleanly just as the wait times out, and the
capture is published although its start is then reported as failed. The shipped
server never has two calls in the module, so this is a limit of the module's use
as a library and not listed as a finding.

## 4. Proofs

Eight modules prove, for every value of the constants that satisfies the named
assumptions (the model values differ from the members of the sets; `MaxBytes`, the
sizes of `Storage` and the bounds of `Tshark` are positive; there are finitely many
capture ids, which are a second's time stamp and six hexadecimal digits, and finitely
many converters; the server has one client; a packet's length fits its two bytes and is
not taken for an event, the clock and a second have at least one tick; JSON values are
finite trees, those in a value having a smaller `Nesting`):

| Theorem | States |
|---|---|
| `CoordinatorProofs!TypeCorrect`, `HostExclusion`, `UseIsLocked`, `NoLeakedDescriptor` | `TypeOK`, `ExclusiveUse`, `UseHoldsKernelLock`, `NoFdLeak` |
| `CoordinatorProofs!Refinement` | `Spec => ImplementsMutex` |
| `CaptureSessionProofs!TypeCorrect`, `OwnershipIsAccounted`, `HardwareIsQuietWhenFree`, `StopIsSoleUser` | `TypeOK`, `OwnershipAccounted`, `QuietWhenFree`, `SoleUsbUser` |
| `PublicationProofs!OnlyCleanCapturesArePublished`, `StopIsTruthful`, `FailedStartIsNotPublished` | `PublishedIsClean`, `StopReturnsSaved`, and `FailedStartNeverPublishes` for one caller |
| `PublicationProofs!OutcomeIsVisible` | `OutcomeStaysVisible` |
| `PublicationProofs!ContractIsKept` | `Spec => KeepsContract` |
| `StorageProofs!TypeCorrect`, `RecordsAreBounded`, `PartialsAreOwn`, `PublishedIsKept` | `TypeOK`, `RecordQuota`, `OwnPartialOnly`, `NeverOverwritten` |
| `StorageProofs!OpenedArePublished` | `ReaderSpec => []OpenedIsPublished` |
| `StorageProofs!BytesAreBounded`, `ExcessIsBounded` | `ByteQuota`, `BoundedExcess` |
| `ServerProofs!ServerImplementsCaptureSession`, `ServerTypeCorrect`, `ReadyIsTrue`, `TerminalAnswersAreFinal` | `ServerSpec => Spec`; `ServerTypeOK`; `ReadyMeansIdle`; `TerminalAnswerIsFinal` |
| `DecoderProofs!LoopKnowsItsPlace`, `OutputIsBounded` | the position and the counted output are the real ones; `OutputBound` |
| `DecoderProofs!TypeCorrect`, `ConversionIsExact`, `VerdictIsRight` | `TypeOK`, `RoundTrip`, `Verdict`, from `DecoderInvariant` |
| `TsharkProofs!TypeCorrect`, `NobodySurvives`, `AnswersAreComplete`, `JsonIsJudged`, `ReturnsInTime` | `TypeOK`, `NoSurvivor`, `AnswerIsComplete`, `JsonVerdict`; whenever the call has returned, it was in time |

**Coordinator.** `ExclusiveUse` is not inductive: it says nothing of the fields or
of the kernel. `IInv` adds who is inside the mutex (`MutexInv`), that `_owner` and
`_file_fd` are set together and how the descriptors open outside the mutex
relate to them (`FieldsInv`), what each location of a thread implies about its
descriptor and the flock (`KernelInv`), and that an operation in progress owns
fields and flock (`UsingInv`). Exclusion follows because the flock is one value. The
refinement maps each step to an acquisition, a release or a stutter; a crash is a
release when the crashed process was the user.

**CaptureSession.** `IInv` joins the calls to the locks they hold (`CallerInv`), the
session being set up to being new (`SetupInv`), a drainer's place to `_active` and to
the device (`SessionInv`), and a stop's place to its session's drainer, device and
ownership (`StopInv`), with `OwnershipAccounted` and `QuietWhenFree` themselves. The
proof has a lemma for each action that touches these; the drainer's and the starting
caller's other steps satisfy one of two frames (`Works`, `Awaits`), each proved
once. `SoleUsbUser` follows: two stops in the clean-up of one session would both
hold its `_cleanup_lock`.

**PublicationProofs** adds `Outcome` to `IInv`: what a drainer that has tested the error
is about to write (`PendInv`), what `clean` means and when it is false (`CleanInv`),
which files a session has by the place of its drainer (`DiskInv`), how a drainer ends
(`DoneInv`), and what the calls know of their session (`CallsInv`). `PublishedIsClean` is
not inductive because of the steps between the test of the error and its assignment:
the proof needs that whoever is between the two has found no error or leaves one.
`FailedStartNeverPublishes` needs that a starting caller is the only one who could have
asked for a stop (`StartInv`), so it is proved under the hypothesis of one caller.
`OutcomeStaysVisible` follows from `DoneInv`: only a drainer's release and a repeated
stop give a session up, and both come after it was made the last one.

**The contract.** The contract's phase is a function of a session's files, of its
drainer's place and of who holds the hardware. A step is about one session
(`StepOf`), so the phases of all change in one place at most (`PhaseMoves`); a step
that leaves that phase and the holder alone is a stutter (`Stutters`). What remains
is to find, action by action, the phase before and after (`SetupPhase`,
`RecordingPhase`, `SettledPhase`, from `IInv` and `Outcome`) and the action of the
contract.

**StorageProofs.** `LockInv` says who holds the lock in which critical section and that
a converter's temporary file belongs to the id it converts; `NameInv` that only
complete files come to the link, that a task has its partial name until the
second half of its publication, and that all names of its file are of one id; `QuotaInv` that a task which has passed the check of
the quota still finds room for its record. No other step adds a record meanwhile:
a creation needs the lock, and a conversion adds files to a record that exists.

For `OpenedIsPublished`, a file is `Published` when it is complete and has no partial name.
A file that is available is, because the name that was checked is the only partial one it
could have (`AvailableIsPublished`), and it stays so, because a partial name is given to a
new file only, which is not complete (`StaysPublished`). `ReaderInv` says that what a reader
has looked at, and what it has open, is published; the comparison makes the two the same.

The byte quotas are about sums over files. A sum is stated as the number of bytes there
are, the cardinality of the set of pairs of a file and a position in it (`Total`), so
that the theorems about finite sets apply: what a function's total becomes when one of
its values changes (`TotalUpdate`) is the one fact about sums that the steps need.
`ByteQuota` is not inductive, as what is stored may grow without the lock. `ByteInv` is
about what is kept for the names instead (`Kept`): a recording under a partial name is
given a full capture from the start, so that a write leaves `Kept` as it is. `ByteInv`
bounds it by the quota, lets the temporary files exceed that by one conversion, and says
that a task past its check of the quota still finds room for a full capture, and a
converter for the output it was granted. `StoredIsKept` then gives the theorems, and
`UsedIsKept` the steps that check the quota: what is stored is at most what is kept, which
is at most what `UsedBytes` counts. Both are sums over the files that have a name, so that
one with two names, between the halves of its publication, is stored once and counted
twice; `NameInv` says that what a task writes or unlinks is its own partial file, so that
these steps leave `Kept` as it is or lower it.

**Server.** A step of a tool is a step of `CaptureSession` or leaves its variables alone,
so `IInv` holds in the server. `BoardInv` adds that the process owns no session's
hardware between the reading of the board and the next call: a drainer's steps
can only give hardware back (`Settles`). `SeenInv` follows the reads of `_status` one
by one: what was read of a session that is over stays true, because a drainer that is
past `finished_at` changes nothing of what was read (`Over`) and a stop or a start begins a
new answer. That an unconfirmed session keeps the hardware and has no recording is from
`DoneInv` and `DiskInv`, also while its drainer is about to end.

`ToolInv` types what a tool keeps and ties it to the client's place in `capture.py`: the
client is inside that module exactly while its tool is running a call there or reading the
board (`running`, `reading`), so a step of the module cannot come between the other steps
of a tool.

**Decoder.** `Accounts` (the position, the output counted and the output written agree,
and are within the limit) is inductive for any bytes at all, valid or not. `DecoderInv`
adds that there is an `n` such that the decoder is at the start of record `n + 1` of the
recording, the first `n` are sound, and exactly those were converted (`Progress`), and
that what was refused is not convertible (`Settled`). Most of the proof is about the
format: `Layout` says where in the stream each record is and that its bytes are there,
`EventBytes` and `PacketBytes` what they are, and `NextRecord` to `PayloadRead` what the
decoder, which sees only bytes, therefore finds. A file that ends with a whole record
holds all of the next one (`WholeBeyond`), so that a record that cannot be read, or is
not sound, refutes every way of converting the file. The sums over the records
(`SumTo`, `FlattenSeq`) are functions defined by recursion; that they have the values
their definitions say is an induction, which `Induction` provides without an operator as
its parameter (`RecursionProofs`): a set that has 0 and, with each number, the next, has all numbers, because
`<` is well-founded. `Recursion` shows that a function with given steps exists, and
`Same` that there is one only.

**Tshark.** `ClockInv` says that there is one deadline for the reads and the wait and what
the grace period adds, `ErrorInv` that a call that was given up returns only through
`Kill`, and `OutputInv` that a leader which exits with 0 has printed everything and that
the caller has read all of it by then. The answer's length follows from the probe for one
packet more (`PrintedType`).

`JsonIsJudged` is about what `Validate` computes, for JSON of any shape. `JsonInduction`
is the induction over the values in a value, and `JsonRecursion` says that a function with
given steps over them exists, so that `Nodes`, `Levels` and `WellFormed` are what their
definitions say. `Validate` hands a budget from one item to the next: `ItemsLeave` follows
it through them, by the sums of the nodes so far, and `ValidateLeaves` concludes that what
is left at the end is the budget less the nodes of the whole value, or -1 if the value is
not well formed, too large or too deep. That closed form also shows that `Validate`, a
recursion through a recursion, has a value at all.

**Only model-checked**: the liveness properties `CallsReturn`, `CaptureEnds`,
`HardwareComesBack`, `PublicationEnds`, `CleanupAdviceFrees` and `WithinDeadline`, as
fairness and ENABLED are beyond the prover (that a call of tshark is in time when it
returns is proved), and the properties of the three runs that expect a violation.

## 5. Not modelled, and why

- *MCP tools*: `list_captures`, `read_capture` and `convert_to_pcap` as tools (what they
  read and write is in `Storage`); the checks of arguments; the capability switch,
  which only removes tools.
- *tshark helpers*: the opening and hashing of the executable, the required fields of
  a record, and `summarise_packet`, a computation on one packet. An exception in the
  read loop other than the ones the code names, or a tshark that exits with an error
  while its child lives on, leaves the group alone; the code promises nothing there.
- *Packetry probe*: how it asks; its answer is a choice (`FindPacketry`, and one of the
  causes of `OpenAnalyzerFails`).
- *Emulator stub*: no state.
- `assert_idle`: reads, raises, has no caller.
- Directory safety checks (`_dirfd`, `_ensure_capture_dir`, modes,
  symbolic links): about an environment that changes the directory itself.
- `_remove_legacy_metadata` (`<id>.pcap.json` files of an older version): nothing in
  the code writes such files any more.
- Wording and layout of the answers.

## 6. Findings

- `capture_advice` (capture.py:645): a repeated `capture_stop` that cleans up and
  releases the hardware raises the stored error of the first attempt, whose
  `next_action` says "Retry capture_stop; do not start another capture."
  (capture.py:580). There is nothing left to stop.
- `capture_unpublished` (capture.py:534): when a step after `os.link` fails, the
  session reports "Capture artifact could not be published." (capture.py:538)
  although the recording is complete and available under its final name.
- `server_advice` (capture.py:519): after a USB error whose clean-up failed as well, the
  client is told "Close Packetry, reconnect Cynthion CONTROL, and run
  capture_preflight."; preflight answers `hardware_busy`, "Wait for the active operation
  to finish, then retry." (server.py:39), for good, because the session keeps the
  hardware for a repeated `capture_stop` that no answer names. `CleanupAdviceFrees`
  shows that the advice works when the failed clean-up is the session's first error.

Two observations that no run states. The docstring of `CaptureFormatError` calls its
`offset` "the last safe boundary" (decoder.py:26); for a bad PID and a missing payload or
padding byte it is a position inside the record (`pos + 4`, `pos + 4 + size`,
decoder.py:102-106). And a device that is unplugged after a failed clean-up keeps a handle
on which disabling fails every time, so that "reconnect" cannot help that session: the
fairness of `capture_retry` and `server` (clean-up does not fail forever) excludes it.

## 7. Plan

1. Done: coordinator, session lifecycle, storage, record parser, capture tools, tshark
   call; the proofs of section 4.
2. Proofs next: every safety property that a run checks is proved. What may be added are
   variants for the steps behind the liveness properties, as state functions that every
   step of a scheduled actor lowers.
3. Larger instances: `Server` with two sessions, when a safety run alone is worth it.
