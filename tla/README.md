# Beam Bench in TLA+

Beam Bench is a desktop program, with a command line and an HTTP API, that
plans work for laser cutters and drives the machine that does it. These modules
model the parts of it where a mistake is expensive and a test hardly reaches:

- the stream of a job to a GRBL controller;
- the service whose threads start, tick, pause, cancel and emergency-stop that job
  while test fires, status requests, connections and disconnections go on around it;
- the acknowledged drivers of Marlin and Smoothieware controllers, which send one
  line at a time;
- the Ruida driver, which uploads a file over UDP, starts it and watches it run;
- the Lihuiyu driver, which feeds a job packet by packet over USB to a controller
  that begins to run it before it has all of it;
- the xTool M1 and D1 drivers, which upload a file that the machine runs by itself;
- the frame that a job must have had before it starts on a machine that is not homed;
- the open document: undo and redo, save, autosave, crash and recovery.

Paths below are relative to `src/`; `machine.rs` is
`crates/beambench-service/src/ops/machine.rs`.

## The system

| Component | State it keeps | Operations | Interacts with |
|---|---|---|---|
| `beambench-streamer` (`engine.rs`, `job.rs`, `progress.rs`) | next line, bytes and lines in flight, paused/cancelled/failed, report counters and timers, job state | prepare, start, tick, pause, resume, cancel | reads and writes the session |
| `beambench-grbl` session (`session.rs`, `state.rs`, `spool.rs`) | session state machine, last status, wait clock, settings, homing | connect, poll, send, reset, home | serial or TCP transport |
| `beambench-service` context (`context.rs`, `job_lifecycle.rs`) | the mutexes `job`, `active_laser_fire`, `session`, `controller_connection_gate`; job resources; atomics for the stop generation, the session epoch, the tick loop | everything below | all interfaces share it |
| machine operations (`machine.rs`) | nothing of their own between calls | connect, disconnect, start, frame, pause, resume, cancel, tick, Emergency Stop, home, jog, status, test fire | the context, under its mutexes |
| job handles (`runtime.rs`) | one handle per controller family | tick, pause, resume, cancel | the session of the same family |
| G-code drivers (`beambench-gcode`, `-marlin`, `-smoothieware`) | one line in flight, resend and busy state | tick | their sessions |
| staged transfers (`beambench-ruida`, `-lihuiyu`, service `*_runtime.rs`) | packet or page in flight, retries | tick | UDP, USB |
| frame confirmation (`context.rs`, `machine.rs`) | the pending and the confirmed fingerprint of a relative frame, the synchronised position | frame, start, tick, jog, home, raw G-code, preview, connect, stop | documents, the session, the job |
| xTool D1 and M1 (`beambench-xtool`, `xtool*_runtime.rs`) | uploaded file, polled state | upload, start, poll, stop | HTTP, serial |
| controller choice (`ops/controller_choice.rs`) | a pending open connection | decide, cancel | the connection gate |
| history and persistence (`history.rs`, `persist.rs`, `beambench-project`) | undo stack, document epoch, files | edit, undo, save, autosave, recover | the file system |
| remote host and agent (`agent.rs`, `beambench-api`) | queued remote starts | routes | machine operations, with a stop generation |
| planner, raster, core, preview, camera | documents and plans | pure computations | the service |

What is hard here:

- the acknowledgement of a line means it was buffered, not executed, and lines
  are matched to acknowledgements by position only;
- the tick reads reports that are older than the user's last action;
- silence and Idle reports have innocent causes (homing, delays) and fatal ones;
- a dozen operations take four mutexes in different subsets, and several of them
  decide something under one mutex and act on it under another;
- Emergency Stop must not wait for a job that is being compiled, so it does not
  take the job mutex until the machine is stopped;
- every failure path must leave job, session, resources, beam and tick loop in
  agreement;
- neither the acknowledgements of the G-code drivers nor the datagrams of a Ruida
  carry a number: a late or repeated one is taken for the answer to something else;
- after a Ruida file is announced, the controller takes every datagram as file data;
- a Lihuiyu controller answers with statuses that say neither what they answer nor
  when it was true, and the driver must decide from them if a packet it sent arrived,
  if an output of its own is still on, and if the job has ended;
- an xTool machine runs an uploaded file when somebody presses its button, an M1 says
  only what it is doing and a D1 tells it in events that are not ordered with its answers,
  and an Emergency Stop sends its stop on a connection of its own before the session's;
- a frame is planned, sent, finished, confirmed and compared in five operations, and
  the drawing, the head, the zero and the connection may change between any two;
- an autosave writes outside the lock it copied under, so a save, another document,
  the end of the application or a crash fall between its steps.

What makes each component correct:

- *streaming*: the byte account is exact, the firmware's buffer never overflows,
  completion means execution, a healthy job never fails, a dead one always ends;
- *service*: no deadlock, job and test fire exclude each other, a job is always
  ticked and its resources live exactly as long as it, nothing prepared before an
  Emergency Stop runs after it, nobody but the tick reads a job's replies;
- *test fire*: a beam that is on is always watched by its deadman;
- *acknowledged drivers*: an answer is counted for the line it answers, Completed
  means executed with the laser off, every failure halts the machine;
- *Ruida*: Completed means the whole file ran, an output of ours is always reported,
  an index that is sent is still that of the file meant, no command ends up in a file;
- *Lihuiyu*: Completed means every packet ran, an output of ours that may be on is never
  forgotten, an upload or a run ends;
- *xTool*: Completed means our file ran, a stop succeeds only when the machine was seen
  idle since, the end of a run is noticed;
- *frames*: a confirmation is of a frame that ran to its end, a relative job starts only
  where such a frame of the same drawing went;
- *documents*: undo restores what was there and an edit is one step of it, clean
  means saved, autosaved work survives crashes, an import lands in its document.

## Modules

| Module | Models | Extends |
|---|---|---|
| `GrblController` | the serial line and the GRBL firmware: external, modelled from what `engine.rs`, `job.rs` and `session.rs` rely on, with the faults they handle | |
| `GrblStream` | `StreamingEngine`, `JobController`, `ProgressTracker`, the job's part of `GrblSession`, `tick_job`/`pause_job`/`resume_job`/`cancel_job` for one job | `GrblController` |
| `JobPromise` | the abstract job: handed over in order, executed in order and at most once, Completed only when all is executed | |
| `MCGrblStream` | instances for TLC | `GrblStream` |
| `GrblStream_proofs` | theorems about `GrblStream` and, at its end, about `FrameGate` | `GrblStream`, `FrameGate`, `TLAPS` |
| `ServiceLocks` | threads as programs of steps, mutexes, wait cycles | |
| `ServiceContext` | the shared state of `ServiceContext`, the machine's beam and queued lines | `ServiceLocks` |
| `LaserFire` | `laser_fire_start`, `laser_fire_stop`, the deadman, `force_laser_fire_stop` | `ServiceContext` |
| `MachineService` | the other operations of `machine.rs` on a GRBL machine | `LaserFire` |
| `MCMachineService` | instances for TLC | `MachineService` |
| `MachineService_proofs` | theorems about `MachineService` | `MachineService`, `SequenceTheorems`, `TLAPS` |
| `LineController` | a firmware that acknowledges a line when it is planned, and M400 when all is executed, with the faults of the line: external, modelled from what both sessions rely on | |
| `AckSession` | `AcknowledgedLineFlow`, `MarlinSerialSession`, `SmoothiewareSerialSession`, their runtime jobs and the service operations that reach them | `LineController` |
| `MCAckSession` | instances for TLC | `AckSession` |
| `AckSession_proofs` | theorems about `AckSession` | `AckSession`, `TLAPS` |
| `RuidaController` | the repository's own virtual Ruida controller, the UDP line, resets and the panel | |
| `RuidaRuntime` | `RuidaStorageClient`, `RuidaRuntime`, the service's Ruida session and job | `RuidaController` |
| `RuidaRuntime_proofs` | theorems about `RuidaRuntime` | `RuidaRuntime`, `TLAPS` |
| `LihuiyuRuntime` | `LihuiyuTransport`, `LihuiyuRuntime`, the service's Lihuiyu session and job, with the repository's virtual controller | |
| `LihuiyuRuntime_proofs` | theorems about `LihuiyuRuntime` | `LihuiyuRuntime`, `SequenceTheorems`, `TLAPS` |
| `XToolM1Runtime` | `M1Runtime`, the service's M1 session and job, the machine and the hands at it | |
| `XToolM1Runtime_proofs` | theorems about `XToolM1Runtime` | `XToolM1Runtime`, `TLAPS` |
| `XToolD1Runtime` | `D1Runtime` over the network, the service's D1 session and job, the machine, its events and the hands at it | |
| `XToolD1Runtime_proofs` | theorems about `XToolD1Runtime` | `XToolD1Runtime`, `SequenceTheorems`, `WellFoundedInduction`, `TLAPS` |
| `FrameGate` | the frame confirmations of `machine.rs`: `start_frame_with_policy`, `start_job_at_generation`, `tick_job`, the preflight, and what moves head, zero, document or connection in between | |
| `MCFrameGate` | instances for TLC | `FrameGate` |
| `DocumentTimeline` | what undo and redo promise, abstractly | |
| `ProjectHistory` | `ProjectHistory`, `atomic_edit`, undo, redo, replacement of the document | |
| `MCProjectHistory` | instances for TLC | `ProjectHistory` |
| `ProjectFiles` | the document with its files: create, open, close, save, autosave, restore, discard, import lease, exit and crash | `ProjectHistory` |
| `MCProjectFiles` | instances for TLC | `ProjectFiles` |
| `ProjectFiles_proofs` | theorems about `ProjectHistory`, the refinement of `DocumentTimeline` among them, and about `ProjectFiles` | `ProjectFiles`, `TLAPS` |

### GrblStream

One job from `start` to the moment the service drops it. `pc` says where the
operation that holds the locks stands: `start` and `tick` are several steps
(take one reply, send one line, query the status, look at silence, check and
complete), because the controller and the clock run between any two reads and
writes; `pause`, `resume` and `cancel` are one step each, because they read
nothing. The host's operations do not interleave with each other: the job and
session mutexes are held throughout.

A line is a number. Its length is `Offset[i] - Offset[i - 1]`, newline included;
its kind (coolant, delay, homing) is membership in a set. Status reports are
named by run state, and `HoldDark` is a Hold with the output off. Report counters
are only ever compared in the code, so the model keeps the comparisons
(`job_report`, `new_report`, `idle_baseline = "fresh"`) and the state stays
finite without a bound. Timers are three-valued, and the clock actions that move
them say when they may:

- `PollDue`: the next status query comes 200 ms after the last one; by then the
  wire has been emptied (127 bytes take 11 ms at 115200 baud);
- `StatusTimeout`: only a firmware that is dead or homing leaves a query open for
  the whole timeout;
- `DelayElapses`: a G4 timed from an Idle report seen during it is not over
  before the firmware has finished it.

A line that was read back from the spool and did not fit stays in
`pending_command`; the model reads it again, so a spool fault may come one tick
later than in the code. A transport fault is for good: the port is gone until the
next connect. An empty job is excluded (the planner produces none).

### MachineService

Each thread has a list of steps (`todo`). A step is the code between two mutex
acquisitions and its label says which mutex it begins by acquiring, so that all
waiting is visible; `Hold` keeps the mutex, `Brief` releases it within the step,
`Return` ends the operation and releases all. Everything a step reads or writes
is under a mutex it holds or an atomic; the generation atomics are read where the
code reads them, under the session mutex. Three user threads call operations, two
threads are there for the tick loop and two for deadmen.

The session is absent, Validating (just reset), Ready or Running; an Alarm only
refuses more, so it is not distinguished. A status refresh may make a validated
controller Ready. When a deadman finds its fire expired is left open, which covers
every keepalive. How a job ends is a choice of the tick (`TickOn`,
`TickCompletes`, `TickFails`, `TickFatal`): `GrblStream` says when each happens.
A handshake that succeeds ends in `ConnectOpen`; one that fails changes nothing
that is modelled. The connection gate is held throughout, so no second connection
can be installed in between. A write may fail at any step that writes, at most
`MaxFaults` times.

### AckSession

The probe and the tick read and write several times while the machine runs, so each
is several steps, told apart by `pc`; start, cancel, Emergency Stop and disconnect
write at most once and are one step. A command is one of eight: what tells commands
apart for the driver is whether the machine plans it, when it answers it, and what it
does to the laser. `to_ctl`, `from_ctl` and `planner` are the two directions of the
serial line and the moves accepted but not executed; the firmware answers when a line
enters the planner, and M400 when the planner is empty. Marlin and Snapmaker say
`busy` while a command waits, Smoothieware does not; M112 is seen anywhere in the input
except by a Snapmaker, where it waits its turn.

The two sessions differ in details only, so one module has both and `dialect` tells
them apart: the configuration queries that follow M115, the completion contract of a
job (no `fire` and no move without power for Smoothieware, a final laser-off for the
others), what leaves the laser on, the meaning of a resend. An M115 that is refused is
a result of the probe, a refused query is an error. The acknowledgement timeout is one
flag, `expired`, and `Expire` may set it only when the machine owes an answer that
cannot come in time: it was lost, the firmware is dead, or it waits for its planner and
cannot say so.

`CleanReopen` says whether a port may be opened on a machine that still has an earlier
session's commands to answer. `RealSerialTransport::open` drains what the port has
received by then, not what the machine answers afterwards, so the code does not ensure
it. It is FALSE only in `ack_stale_probe`, where reopening drops what has arrived and
keeps what is still to be answered.

### RuidaController and RuidaRuntime

The repository contains a virtual Ruida controller that it tests its driver against.
`RuidaController` models that, and adds what it leaves to the real one: a UDP line
that loses, damages, repeats, swaps and delays datagrams in both directions, a reset,
an operator who pauses, resumes, stops, starts or deletes at the panel or copies a file
there from a stick, and a state the status bits do not name. Every datagram is answered by an acknowledgement, some by a
reply; none has a number.

The driver holds the session for the whole of an operation (connect, start, tick,
pause, resume, stop, cancel, poll, jog, home), so one operation is under way, `cmd`,
and `io` says how far it has come: the part it is at, if it is sending, waiting for the
acknowledgement or for the reply, which attempt this is, and what a listing has shown so
far. The parts are the exchanges of `transport.rs`; what an exchange that ends or breaks
does to the phase is in an action named for it (`Starts`, `SelectFails`, `Confirms`,
`NotConfirmed`, ...). A file that is removed at the panel marks the listing under way as
`stale`, which no code reads. A file is `Chunks` datagrams; `whole` in the controller is a
property of the file that the driver cannot see, which verifies uploads by name.

### LihuiyuRuntime

As for Ruida, the repository's virtual controller is the machine: it takes a packet,
pushes `Busy` and `Ready` on its queue of statuses, and pushes `Finished` when a job
has run. Every status that is read and every packet that is written is a step, since
the controller goes on between them. `op` is the operation that holds the session and
the part it waits in (for Ready, to write, for the acknowledgement, or it polls); an
upload is an operation of a few reads, after which it lets go of the session and the
next tick goes on (`active_transfer`). Budgets of time and retries are the fault
`timeout`, which may strike any wait; the other kinds are a rejected packet, a broken
read or write, a controller that stays Busy, a status delivered again, and statuses
with the power bit or without meaning.

`Premature` is the branch for a controller that reports the end of a job while packets
are still to be sent. The virtual controller never does, so no run reaches that branch.
`BusyUnowned` and `wait_until_complete` are never entered through the service and are
left out. A machine that an operation left running is taken to be stopped by hand before the
next connect. The pause toggle of the virtual controller survives a pause that meets
the end of the job; `JobEnds` therefore ends in "or is paused".

### XToolM1Runtime and XToolD1Runtime

The machine is external, modelled from what the drivers ask of it and, for the D1, from
`docs/machines/xtool-d1-network-protocol.md`: it stores one file, its button starts, pauses and stops it, other
applications use it too. Every HTTP request is a step, so the machine and the people go
on between two requests of one operation; `op` is the operation that holds the session
and how far it has come. Emergency Stop first sends a stop on a connection of its own
(`EmergencyStop`), without the session, and later has its turn there; polls, stops and
reconnections fall in between, and it may find the session gone.

An M1 is asked for its status and nothing else. A D1 says only idle or busy, and tells
the rest in events on a channel of their own (`wire`); a poll takes the events that have
arrived (`TakesEvents`) and then reads the state (`PollReads`), and while it believes in a
job the progress, in a request that may fail by itself. Whether more than five
seconds went by without the event that explains the state is the choice `late`.

What no code reads, but properties speak of: `ran` and `cut` (M1) and `fate` (D1) follow
our last upload through the machine; `foreign`, `idle_since_upload` and
`idle_since_estop` say what was done and seen since.

Abstractions: files of two programs are never byte for byte the same; a request that is
refused is one that is lost (D1); events the driver takes as errors, among them framing
and unknown ones, are one, `Alarm`; the progress an M1 also reports is part of its
status; a session lost while idle is dropped in the step after the poll that lost it;
Emergency Stop drops the job in the step in which the session's stop ends (the gap
between the two is in `MachineService`). A D1 on a USB cable is not modelled.

### FrameGate

A GRBL machine that is not homed, on one axis: the head is at a place of `Bed`, and
work positions count from `zero`. `project` holds what `revision_hash` covers: the
drawing, and where it is placed from. Frame and Start hold the job mutex from begin to
end, so at most one of them is under way, in `op`; each is several steps (synchronise,
plan, preflight, send) because jogs, edits, previews, stops and reconnections do not
take that mutex. The fingerprint is what `relative_frame_fingerprint` computes, taken
where the code takes it. `traced` and `finished` record the areas and the fingerprints
of the frames that ran to their end; no action reads them.

The capture of the plan and the read of the shared runtime are one step, so is homing,
and a tick takes the pending fingerprint and stores it in one (both under the job mutex).
The offset of work to machine coordinates is taken to be known, so that coordinates are
trusted exactly when they are valid. Two constants name what the code does not ensure:
`PreviewsOverlap`, that a preview may come between the steps of a Frame or Start, and
`ResetAlarms`, that the controller raises an alarm when a job is reset, which GRBL does
when it moved and does not in a completed Hold. With either the wrong way round, the
properties fail and the findings say how.

### ProjectHistory, DocumentTimeline, ProjectFiles

A project is its identity, its dirty flag and a content from a small set, some of which
is not storable (a number that is not finite). `ProjectHistory` has the undo and redo
stacks, the redo entries an edit in progress has set aside, and the gate; an atomic edit
is several steps: begin, any number of snapshots and changes, commit or rollback. The
limits are those of `history.rs`, one on entries and one on bytes. `DocumentTimeline`
is the abstract view, a present between a past and a future, and `Timeline` maps an
edit in progress to its rollback.

`ProjectFiles` adds the path, the epoch and the save counter, the files, the recovery
file of each project id and its source record. Reading a file or a recovery copy is a
step of its own, before the gate (`OpenLoads`, `RestoreLoads`), and `InstallLoaded`
replaces the document once it holds the gate; one load is under way at a time. What
loading makes of a content is `Migrated`: the tool layers, the mixed layers and the orphan
subpaths it rewrites. Only contents in `Retooled`, whose tool layers change, are marked
dirty by it. `FirstFiles` are files of earlier versions that may be there before the first
start. The project takes its name from the stem of its path on save and load alike, so it
is no part of the content. A save keeps the gate and both document
locks through its steps (write, count, discard, source); an autosave copies under the
gate and then writes outside it, so its steps interleave with everything. An archive is
written to a temporary file and renamed, one step. A crash may fall between any two
steps, and keeps the files only. Ghost variables record what the operations
have promised: the work each autosave reported (`promised`), whether the document was made
from it (`carries`), whether the file of the document was saved over between its load and
its opening (`overtaken`), and the ids in `interrupted`, `dismissed` and `known`; no code
reads them.
`Edit` is the `HistoryStep` of `ProjectHistory`, so the two modules are one document.

## Runs

`Finished` and `Quiescent` are the states where the system may really stop; every run
but `ruida`, `frame` and those of the xTool machines checks that it stops nowhere else.
With everything its bounds allow done and no job, these have nothing to do. Each module
states its types as `TypeOK` (`HistoryTypeOK` in `ProjectHistory`); those of `GrblStream`,
`AckSession`, `MachineService`, `XToolM1Runtime`, `ProjectHistory` and `ProjectFiles` are
theorems, the others hold in their runs when added to the cfg.

| Run | Bounds | Result |
|---|---|---|
| `stream` | 3 lines of 2, 1 and 2 bytes (a motion, a delay, a coolant line), window and buffer of 4 bytes, planner of 1, 2 presses, 1 fault of any of 7 kinds | overflow, completion, healthy jobs, and the refinement of `JobPromise` hold |
| `stream_live` | 2 lines (coolant, delay), synchronous transfer, 2 presses, 1 fault: a lost `ok`, silence or a broken link | every job ends or is paused; a healthy one completes |
| `service` | 3 operations of 10 kinds by 3 threads, 2 failed writes, 2 loop and 2 deadman threads, symmetric threads | no wait cycle, resources, exclusion of jobs and test fires, the tick loop, prepared jobs hold |
| `ack` | 3 dialects, 2 connections, 2 jobs of 5 (3 that keep the contract of a dialect, 2 that break it), 2 stops, planner of 2, 2 lines a tick, 1 fault: a lost, refused or damaged answer or a broken link | one answer due at most, completion, halted failures, nothing behind a halt, every job ends |
| `history` | 1 project of 3 contents (small, large, not storable), 3 entries, 5 bytes, 2 snapshots an edit | depth, and the refinement of `DocumentTimeline` hold |
| `document` | 2 documents opened, a save, an edit, 1 entry of history, 3 contents, 2 of them of earlier versions; with 1 project and 1 file: 2 autosaves, 2 crashes or failed writes; with a second project or file: 1 autosave, no crash; symmetric ids and files | clean means saved, no outdated recovery file, autosaved work survives, imports land where they belong |
| `ruida` | 2 sessions, 2 uploads of 2 datagrams next to a stored file, memory for 2 files, 2 presses, 1 jog or home, 2 attempts of everything, 1 fault of 14 kinds | completion, output known, over means over, an index is that of the file meant, nothing swallowed, every job ends |
| `lihuiyu` | 2 jobs of 3 packets, with the beam or without, 2 sends of a packet, 2 reads between two releases of the session, 3 presses, 1 move, 3 faults of 8 kinds | completion, output known, every job ends |
| `frame` | 2 places, 2 drawings (symmetric), 1 scope, 3 requests to frame or start, 1 jog or change of the zero, 2 edits, 1 fault | a confirmed frame was traced, a relative job starts only where a frame of it went |
| `xtool_m1` | 2 uploads, 5 presses, 3 acts of people at the machine, 2 faults of 5 kinds, 3 reads to confirm a stop | completion, stops confirmed, no upload over a job, the end noticed |
| `xtool_d1` | 2 uploads, 2 presses, 2 reads to confirm a stop, 2 mishaps: faults of 4 kinds, acts of people, other applications | completion, stops confirmed, the end noticed |
| `service_lock_cycle` | jog and disconnect, 2 calls | violated: see Findings |

More configurations reproduce findings; each is run by hand with
`tlc -config <name>.cfg <module>` and ends in a counterexample:

| Configuration | Module | Bounds | Violates |
|---|---|---|---|
| `stream_findings.cfg` | `MCGrblStream` | 2 lines, the first `$H`, no fault | `HealthyJobNeverFails`; without it, `PausedOutputStaysOff` |
| `stream_stray_ok.cfg` | `MCGrblStream` | 4 lines, one stray `ok` at the start | `NoOverflow` |
| `service_fire.cfg` | `MCMachineService` | frame, fire and release, 3 calls | `MotionExcludesFire`; without that name, `BeamIsWatched` |
| `service_start.cfg` | `MCMachineService` | start, Emergency Stop and status, 3 calls | `OnlyTicksRead`; without it, `StartedJobIsTracked` |
| `ack_stale_probe.cfg` | `MCAckSession` | 2 connections, 1 job, no fault, `CleanReopen` FALSE | `CompletedMeansDone` |
| `document_findings.cfg` | `MCProjectFiles` | 2 projects, 2 files, 2 saves, 2 autosaves, 2 crashes | `OpenIsSaved`, `ReportedWorkStays`, `CloseOffersNothing`, `RestoreGoesHome`, each without the others too |
| `ruida_findings.cfg` | `RuidaRuntime` | as `ruida`, 2 faults: a start, a removal or a copy at the panel, a lost reply | `RecoveryIsFinal`; without it, `OthersUntouched` |
| `lihuiyu_findings.cfg` | `LihuiyuRuntime` | 2 jobs, 2 sends of a packet, 2 presses, 2 faults: rejected packets, a status twice, a timeout | `IdleLossIsIdle`; without it, `StopStops`; without both, `FrameCompletedMeansRan`; without the three, `FrameEnds` and `ResumedJobEnds`, each without the other too |
| `xtool_m1_findings.cfg` | `XToolM1Runtime` | 1 upload, 2 presses, 1 act at the machine, 2 lost requests | `StopIsAlwaysConfirmed`; without it, `StoppedIsNotCompleted`; without both, `FailedJobIsStopped` |
| `xtool_d1_findings.cfg` | `XToolD1Runtime` | 2 uploads, 3 presses, 2 mishaps: unanswered requests, acts of people, other applications | `UnownedIsReadOnly`, `SessionStaysUsable`, `OverStaysOver`, `EmergencyStopRemovesFile`, `KeepsRunningIsTrue`, `DeletesOnlyOurs`, `JobIsNotStranded`, each without those that are found before it |
| `frame.cfg` with `StartsFramed` added | `MCFrameGate` | as `frame` | `StartsFramed` |
| `frame_selection.cfg` | `MCFrameGate` | as `frame`, a second scope | `StartsFramedAsCounted` |
| `frame_overtaken.cfg` | `MCFrameGate` | as `frame`, `PreviewsOverlap` | `MotionIsTracked`; without it, `StartsFramedAsCounted` |
| `frame_stopped.cfg` | `MCFrameGate` | as `frame`, no fault, `ResetAlarms` FALSE | `ConfirmedWasTraced` |

Why the bounds are enough to meet the interesting cases: with three lines and a
window of four bytes, a line waits for the window, one waits for its coolant
barrier, one is acknowledged late by a delay, and several are in flight at once; a
planner of one makes acknowledgement and execution differ; two presses give pause
then resume, pause then pause, pause then cancel; one fault reaches every
handler. Every safety property of the run is proved for every size below
(`HealthyJobNeverFails` for jobs without `$H` and a limit of at least three reports; the
run has three, the code five), so that the bound matters only for liveness. In the service, every known
race is between two operations and a thread that ends or begins (a tick loop, a
deadman), or between three operations; three calls with the loop and the deadman
cover all of these. Every property of the run is a theorem for any number of threads,
calls and failed writes.

`jog` is left out of the `service` run because its wait cycle with disconnect is a
finding and would hide every other behaviour; its steps fire through `home`.
`frame` and `fire` run together there, since the exclusion `service` checks is
that of cutting jobs; that frames lack it is the finding of `service_fire.cfg`.

In `ack`, a planner of two and a tick of two lines make a line wait for the planner, for
the tick's limit and for its answer; two connections meet what one session leaves to the
next; one fault reaches every way a tick can fail, and stops add the races with it. All
of its safety properties are theorems for every bound.

In `history`, a large content weighs two of five bytes, so the byte limit and the entry
limit are each reached first by some history, and two snapshots make the redo entries
set aside at the first matter at the second. The properties are theorems for every bound.

In `document`, a save and an autosave overlap at every step, with the document replaced or
restored between them. The bounds meet in two ways (`Bound`), since all of them together
take TLC beyond five minutes. With one project and its file, a first autosave reports
work, a crash follows, the document is restored or the older file opened, a second
autosave may write over the reported copy, and a second crash shows what is left. A file
of an earlier version needs no edit to be autosaved when its load marks it. With a
second project or a second file, what is left behind belongs to another
document than the open one. The safety properties are theorems for every bound.

In `ruida`, two datagrams make a first, a last and a hole; a memory for two files makes
the announcement of a second one fail beside the stored one. Any file may be removed at
the panel, which moves those behind it to a smaller index, and others copied there, so
that the index of our file is not the same from one operation to the next.
`IndexIsMeant` says that every index sent for our file is that of our file, or was listed
before a file was removed: between listing and use nothing protects it, which is the
finding `OthersUntouched`. One fault is a bound that matters: with two, `OutputKnown` and
`OverMeansOver` still hold, but an acknowledgement delivered twice together with a lost
chunk leaves a hole in a file that is verified by name only, and a file that is listed a
moment late lets a failed verification return to Ready with the upload open. So
`CompletedMeansRan` and `NothingSwallowed` are what the driver ensures against any single
fault.

In `lihuiyu`, three packets make a first, a middle and a last, and two reads between
releases make an upload let go of the session before, during and after a packet's
acknowledgement, which is where presses come in. Three faults reach a packet that is
rejected twice, and a fault in the stop that follows a fault. A second job meets the
statuses the first one left. The two safety properties are theorems for every bound.

In `xtool_m1` and `xtool_d1`, the second upload matters because the file, the end or an
event of the first can be taken for its own. Two mishaps are a press that starts the file
and one that stops it, a press and a fault, or a fault and the fault of its remedy.
The safety properties of both are theorems for every bound. A stop
that is never confirmed needs as many reads as `STOP_CONFIRM_ATTEMPTS`, whatever that
number is; the code's is larger.

In `frame`, two requests are a frame and the start it allows; the third is a start
that is refused, a frame that supersedes the first, or a frame before an edit. Two
edits change the drawing and change it back, one move displaces the head or the zero.
`ConfirmedWasTraced` is a theorem for every bound.

### Fairness

`FairSpec` assumes: the tick loop is a thread that keeps running while the service
holds the job (`WF` of `Tick`; it ticks every 5 ms); time passes (`SF` of `PollDue`,
which other steps may disable again and again, and `WF` of the two timers); and a
firmware that is alive delivers, works and reports (`WF`). No fairness is assumed of
the user or of faults. There is no liveness property of the service yet.

`AckSession` assumes the same of its tick loop (`WF` of `TickStep`), of time (`WF` of
`Expire`) and of a firmware that is not halted (`WF` of `Take` and `Execute`).
`RuidaRuntime` assumes that an operation that has begun goes on to its end (`WF` of
`Exchange`; each wait is bounded by a timeout), that the tick loop keeps ticking the job
(`WF` of `BeginTick`), and that the controller comes to the end of a job it runs (`WF`
of `Machine`). `LihuiyuRuntime` assumes the same three (`WF` of `OpStep`, `BeginTick`
and `CompleteJob`). `XToolM1Runtime` assumes that an operation goes on to its end (`WF`
of `Upload` and `ConfirmsStop`) and that a job is ticked (`WF` of `Tick`); of the
machine it assumes nothing, its rest is the hypothesis of the property. `XToolD1Runtime`
assumes the same two (`WF` of `SessionStep` and `Tick`), that some tick takes all that
has arrived, and that time passes, so that some tick comes late enough (`SF` of both).
Fairness of single presses or of faults is assumed nowhere.

## Findings

Each is a disagreement between what a comment promises and what the code does,
found while modelling; `PROJECT.json` quotes both.

- `PausedOutputStaysOff`: a second pause sends the spindle stop toggle again.
- `NoOverflow` from `StraySpec`: an `ok` unread when a job starts shifts its
  account. The other runs, and the theorems, assume that nothing is unread when
  the job starts.
- `HealthyJobNeverFails` with a `$H` in the job: the exemption from the silence
  check ends before the next status report.
- `NoCircularWait` with jog and disconnect: fire and session in both orders.
- `MotionExcludesFire`: a frame does not look at the test fire again once it
  holds the job mutex.
- `StartedJobIsTracked`: Emergency Stop drops a job that began after its reset.
- `BeamIsWatched`: a fire stop clears the state of a later fire.
- `OnlyTicksRead`: a status request may read the acknowledgements of a job that
  started after it looked.
- `CompletedMeansDone` without `CleanReopen`: the answer to a probe that timed out, if it
  comes after the port was opened again, is taken by the next session's probe, and every answer of its job is counted one line
  early, M400's too.
- `CloseOffersNothing`: an autosave in flight at the close writes its recovery file
  after the close removed it.
- `RestoreGoesHome`: the source record of a recovery file is written apart from it.
- `ReportedWorkStays`: after a crash the user may go on from the project's file; the next
  autosave, save or close of that project ends the recovery copy with the work reported
  saved.
- `OpenIsSaved`: a file is read before the gate is held; a save to it in between leaves a
  document that calls itself saved and is not what its file holds.
- `OthersUntouched`: an index that was listed before a file was removed at the panel
  deletes a file of somebody else.
- `RecoveryIsFinal`: a part end moves a Ruida session out of RecoveryRequired.
- `StartsFramed`: a zero that moved after the frame (homing, G92, a controller that
  restarted) lets a job start at a place of the bed no frame went round.
- `StartsFramedAsCounted` with a selection: the fingerprint is of the whole document,
  whatever part was framed.
- `StartsFramedAsCounted` with previews in between: what is confirmed is not what was
  planned.
- `MotionIsTracked`: a frame whose fingerprint fails has already been sent, and no job
  is stored for it.
- `ConfirmedWasTraced` without `ResetAlarms`: a tick that waited for an Emergency Stop
  completes, and confirms, the frame it stopped.
- `StopStops`: the stop of a Lihuiyu upload takes the rejection of the last packet for
  its own failure and is never sent.
- `FrameEnds`, `FrameCompletedMeansRan`: an unlit Lihuiyu upload whose abort fails stays
  Running with nothing uploaded, or completes with the end of an earlier job.
- `IdleLossIsIdle`: a Lihuiyu session that needs recovery is dropped as an idle loss
  with its machine running.
- `StopIsAlwaysConfirmed`: the Emergency Stop of an M1 session that last saw the machine
  at rest succeeds without asking it.
- `StoppedIsNotCompleted`: an M1 job that is stopped at the machine is reported Completed.
- `FailedJobIsStopped`: an M1 session whose polls fail for too long is dropped, its job
  failed and no stop sent.
- `DeletesOnlyOurs`: a D1 stop checks the stored file in one request and deletes it in
  the next.
- `EmergencyStopRemovesFile`: a poll that takes the event of the Emergency Stop's own
  first request forgets the file that the session's stop was to delete.
- `UnownedIsReadOnly`: losing the status channel of an idle D1 session stops whatever the
  machine runs.
- `SessionStaysUsable`: a shutdown whose disconnect fails keeps a session that is
  Disconnected.
- `KeepsRunningIsTrue`: disconnecting a D1 job warns that it keeps running, and stops it.
- `OverStaysOver`: the event of an upload that was undone puts a later idle session into
  RecoveryRequired.
- `JobIsNotStranded`: an upload that saw an older end leaves its job under a session that
  is Ready.

Behaviours of the Ruida driver that no comment contradicts, and no property forbids: a
pause that meets the natural end of a job is reported as ConfirmationTimeout although
the end was seen; after an Emergency Stop that keeps the session its phase is Stopped,
so that start, home and jog are refused while the service shows Ready; a job that ends
between two polls, its part end unseen, is reported as UnexpectedIdle.

A behaviour of the Lihuiyu driver of the same sort: a pause that meets the end of the job
reads its Finished, and forgets it when its own packet is rejected and sent again; after
a resume the job is polled for an end that was already reported (`ResumedJobEnds`).

## Proofs

`GrblStream_proofs` proves, for every value of the constants under
`JobAssumption`, `FirmwareAssumption` and `WindowAssumption`:

- `TypeCorrect`: `Spec => []TypeOK`;
- `AccountCorrect`: `Spec => []StreamInv`;
- `NeverOverflows`: `Spec => []NoOverflow`;
- `CoolantIsAlone`: `Spec => []CoolantAlone`;
- `FailuresAreReported`: `Spec => []FailureReported`;
- `CompletedWasExecuted`: `Spec => []CompletedMeansExecuted`;
- `HealthyJobsNeverFail`: `Spec => []HealthyJobNeverFails`, if `Homing = {}` and
  `IdleLimit >= 3`;
- `StreamImplementsPromise`: `Spec => PromiseSpec`.

The argument for the buffer: `NoOverflow` by itself is not inductive, since the
engine never sees the buffer. `StreamInv` links the two ends. The lines in flight
are the ones after `AckPoint`, in order, and `bytes_in_flight` is exactly the sum
of their sizes (`AccountExact`); what travels on the wire is sorted and lies
between what the firmware received and what was sent (`WireSorted`); every `ok`
still travelling is for a line the firmware has consumed and the engine has not
yet counted, in order, while somebody attends to the job (`OksSorted`). So the
firmware has consumed at least `AckPoint` lines, what it has not consumed is
within what the engine believes in flight, and that is within the window.
A lost `ok` keeps all this (the engine believes too much is in flight), a restart
too (it only consumes), and after the service drops the job nothing more is sent.
The preservation proof splits the steps into those that leave the account alone
(`QuietStep`), `SendLine`, `PollOk`, and the steps of the firmware.
`WindowAssumption` is what `GcodeSpool::generate_checked` and the send loop
enforce: no line is longer than the window.

`FailureReported` is not inductive either: `resume` and the end of a tick write the
tracker without looking at `failed`. `FailureInv` adds why they cannot: a failed job
the service still holds is on its way to `Release`, or its link is gone, and then
neither `cycle_start` nor the Idle report that would complete it gets through. It
rests on a broken link staying broken (see `GrblStream` in the plan).

Completion is decided from a report, and `CompletionIInv` follows what a report can mean.
`MotionInv` says that a line is lost only with a reply that fails the job (`LossIsTold`),
that an Idle report made after the last line was consumed was made with an empty planner
and behind any such reply (`IdleMeansDrained`), and that the parser waits on a delay only
behind motion that is over (`WaitsAlone`). `BaselineInv` says that a baseline is taken only when
every line is acknowledged, so that a report that is newer than it was made after the
last line was consumed; `CompletionInv` concludes that a fresh Idle means a drained
planner and that nothing was lost, or that the job has failed. TLC checks this invariant
on the constants of `stream` (1.8 million states). `StreamImplementsPromise` needs one
part more, that what was executed is in stream order (`MotionOrdered`); its lemma
`RefinesStep` maps each action to a step of `JobPromise` or a stutter.

That a healthy job does not fail is about the streak of Idle reports after which the tracker
gives up on an acknowledgement: an Idle machine with lines in flight is what a lost `ok`
looks like, and for a moment also what a healthy machine looks like. `HealthInv` says why
that moment is short. A poll loop reads every reply that arrived before a tick judges a
report, and a query waits until the last one is answered, so that at most two
reports are under way at once (`FewReports`). Nothing is lost without a fault, so
that every line the firmware has consumed and the engine still counts has its `ok` on the way
(`NothingLost`). Until the firmware consumes the first line in flight, the Idle reports counted
and those that may still come are two together (`NotYet`); once it has, the `ok` goes
ahead of any later report, and only the tick under way may count one more; a delay at the
head of the window keeps the streak at zero (`FewIdles`). So three are never counted.
Both hypotheses are needed: a `$H` suspends the judgement in a way that is a finding, and a
limit of two is reached by two old reports. TLC checks `HealthInv` on four fault-free
instances: the constants of `stream`, two with delays, and four lines with a planner
of two (125 to 226 thousand states).

`MachineService_proofs` proves under `ThreadAssumption` and `OpsAssumption`:

- `ServiceTypeCorrect`: `Spec => []TypeOK`;
- `ServiceNeverDeadlocks`: `Spec => []NoCircularWait`, if `"jog" \notin Ops`;
- `ResourcesAlwaysFollowJob`: `Spec => []ResourcesFollowJob`;
- `JobAlwaysExcludesFire`: `Spec => []JobExcludesFire`;
- `JobIsAlwaysDriven`: `Spec => []JobIsDriven`;
- `PreparedJobsAreCurrent`: `Spec => PreparedJobIsCurrent`.

`ServiceInv` begins with where a thread can be: what is left of its program is a path
through `Follows` (`ShapeInv`), and the step it is at says which mutexes it may and must
hold (`MayHold`, `MustHold`, `LockInv`); `GateInv` adds that who stops a test fire with
the gate held is a disconnect. Every action is summarised once by what it does to its thread (`Moved`) and
once by what it does to the data (`DataEffect`); the other parts are proved from
the summaries. A wait cycle would need an edge from a later mutex to an earlier one in
the order gate, job, fire, session. Only a disconnect makes one (it holds the session and
waits for the fire), it holds the job as well, and nobody who holds the fire then waits
for the session but a jog. With a jog there is a cycle, which is a finding, so that the
hypothesis is what the code does not ensure; the other five theorems hold with it.
`ExclusionInv` keeps what a thread has looked at until it acts on it: a start that found
no fire, or a fire that found no job, still holds the job mutex. `JobIsDriven` needs of a
loop that has given up its place that it will look once more.
TLC checks `ServiceInv` with the constants of `service` (454 thousand states) and with
`jog` and 2 calls.

`ProjectFiles_proofs` proves of the history, under `ProjectHistoryAssumption`:

- `TypeCorrect`: `HistorySpec => []HistoryTypeOK`;
- `DepthIsKept`: `HistorySpec => []DepthKept`;
- `HistoryIsStorable`: `HistorySpec => []HistoryStorable`;
- `HistoryRefinesTimeline`: `HistorySpec => Timeline!Spec`.

`EditInv` says what an edit in progress has done: nothing before its first snapshot,
and after it the redo entries are set aside and the undo stack has grown from where the
edit began. The depth rests on counting both stacks and what is set aside together
(`DepthInv`): redo moves an entry across and never adds one, which is why it needs no
limit of its own. `StorableInv` has the same shape: what a rollback would return to is
storable, whatever the edit passes through. The refinement has one lemma per operation;
commit is the only one that maps to `Edit` of the timeline with a loss of old entries,
for which `enforce_limits` is shown to return an end of its argument.

and of the files, under `ProjectHistoryAssumption` and `ProjectFilesAssumption`:

- `FilesTypeCorrect`: `Spec => []TypeOK`;
- `CleanIsSaved`: `Spec => []CleanMeansSaved`;
- `NoOutdatedRecovery`: `Spec => []RecoveryNotOutdated`;
- `ReportedWorkSurvives`: `Spec => []AutosavedWorkSurvives`;
- `ImportsReachTheirDocument`: `Spec => ImportHitsItsDocument`;
- `FilesKeepTimeline`: `Spec => TimelineKept`.

`FilesInv` builds on the invariants of the history: every step of the
application is a step of the history, a replacement of the document, or leaves it alone
(`DocumentStep` and its lemmas). `SavedInv` follows the documents that may call
themselves saved: the open one, the one a rollback would bring back, the one a save is
about to mark, and the one that is loaded and not yet open (`LoadedIs`); a document whose
file was saved over in between is excepted, and is a finding. The interplay of saves and
autosaves is in `AutosaveInv`: what the autosave in progress wrote or will write is
outdated only if a save has overtaken it, and then its save count tells it so; an
autosave that would write over reported work has the document open that carries it.
`PromiseInv` says that work reported saved is held by the recovery copy, itself or as the
document made from it, until it is saved, given up or forgone, at every step a crash may
follow. `LeaseInv` rests on epochs that only grow. TLC checks `FilesInv` with two projects
and files, an autosave and no crash (5.8 million states), and with one project and file,
2 autosaves and 2 crashes (5 million).

`LihuiyuRuntime_proofs` proves under `LihuiyuRuntimeAssumption`:

- `LihuiyuTypeCorrect`: `Spec => []TypeOK`;
- `OutputIsKnown`: `Spec => []OutputKnown`;
- `CompletedWasRun`: `Spec => CompletedMeansRan`.

The controller's statuses say neither what they answer nor whose end they report, so the
invariant is about the queue of those nobody has read. `QueueInv`: at most one answer to a
packet is under way, there is none when a packet is written, and while a job runs an end
is said after the answer to the packet before it (`AnswerFirst`), so that a poll which
reads Finished leaves no answer behind. `OverInv`: an end that is on its way, or was read
by a command, is of a machine that rests; a stop that waits for its answer has stopped
the machine unless a rejection is on its way. From this follows `OutputKnown`.
`TransferInv` says what the controller has taken: the packets that were acknowledged and,
if one is in flight, that one exactly when the answer on its way is Ready. An end is said
in an upload only behind the last packet (`CompleteJobKeeps`), which is why no
acknowledgement ever finds one pending. `BurnInv` keeps for a running job that burns what
an end it may still read means. It is false of a job without the beam, whose failed abort
leaves it Running (a finding). The lemmas about the queue (`QueueTail`, `QueueJoin`) are
stated once; a read is used through `ReadEffect`, the end of an operation through one
lemma for a failed command, one for an answered one and one for a dropped session. TLC
checks `RuntimeInv` with three jobs and four faults (222 thousand states).

`RuidaRuntime_proofs` proves under `RuidaControllerAssumption`, `RuidaRuntimeAssumption`
and `Lockstep`:

- `RuidaOutputKnown`: `Spec => []OutputKnown`;
- `RuidaOverMeansOver`: `Spec => []OverMeansOver`;
- `RuidaNothingSwallowed`: `Spec => []NothingSwallowed`;
- `RuidaIndexIsMeant`: `Spec => []IndexIsMeant`;
- `RuidaCompletedMeansRan`: `Spec => []CompletedMeansRan`, if nobody starts or deletes files
  there.

`Lockstep` says that an answer comes at once or never: datagrams and answers may be lost or
garbled, the controller may be reset and its panel used, any number of times, but no
answer comes late, twice or before another. The driver numbers nothing, so with such
answers a few faults refute two of the five (see below).
The argument has three layers. In `SessionInv` the line is quiet between exchanges
(`WireInv`), what a reply that is not read yet tells is still so (`Told`), and the exchange
an operation is at says what the runtime believes (`PartInv`); an upload is pending on the
controller only while it is announced, carried or ended, or when the session has given up
(`PendInv`, whence `NothingSwallowed`); and of a job of this session that runs the
runtime knows that its output is unresolved, in a phase that owns one (`SafeInv`, whence the first two). `StoreInv` adds that
the listing agrees with the controller's files until its index is used, unless a file is
removed at the panel in between (whence `RuidaIndexIsMeant`). `TransferInv`
follows the file: the upload on the controller is the cursor's as far as it was acknowledged
(`CursorInv`), a file that is through is stored whole (`WholeInv`), no other is selected
between its selection and its start, and the job that runs is that file (`RunInv`). Most
exchanges change none of this: `HostStep` says so once, for all but the sending, the
acknowledgements and the five actions that move a stage on.
TLC checks `SessionInv`, `StoreInv` and the four properties without a hypothesis about the
panel with two faults of the lockstep line, starts, deletions and copies included (2.6
million states), and all three parts and five properties with three faults without starts
and deletions (1.9 million). The hypotheses of the last theorem are needed:
with three faults TLC finds `CompletedMeansRan` violated by a job that somebody starts at the
panel at the right moment, which is taken for ours, and by a removal there between the
listing of our file and its selection, after which the file of somebody else runs
(the window of `OthersUntouched`).

`XToolM1Runtime_proofs` proves under `XToolM1Assumption`:

- `M1TypeCorrect`: `Spec => []TypeOK`;
- `CompletedWasRun`: `Spec => CompletedMeansRan`;
- `StopWasConfirmed`: `Spec => StopIsConfirmed`;
- `UploadsFindIdleMachine`: `Spec => NoUploadOverJob`.

What a request can do to the machine, and a read to what was seen, is said once
(`SendEffect`, `ReadEffect`). `MachineInv` links the two ends: while the session has a
phase of a running job, the machine holds our upload or has run it whole or was stopped,
since nobody but a second upload replaces it and that needs an idle machine. `SeenInv`
says that a phase in which no job runs is entered only with an idle status seen since the
last upload, and, if an Emergency Stop that found a job waits, since it began: this is
why its turn at the session may take such a phase for a stopped machine. `OpInv` keeps
an upload and the job apart. TLC checks `RuntimeInv` with the constants of `xtool_m1` and
with one fault and one hand more (1.8 million states).

`XToolD1Runtime_proofs` proves under `XToolD1Assumption`:

- `D1TypeCorrect`: `Spec => []TypeOK`;
- `D1CompletedWasRun`: `Spec => CompletedMeansRan`;
- `StopWasConfirmed`: `Spec => StopIsConfirmed`.

Here the difficulty is what an event still means when a poll takes it. `SessionInv` says
where an operation can be and what its session is then: a file is owned in a phase of a
job, by an upload that sends it, or in recovery (`OwnedInv`). The rest is about the
machine. While a file is sent, a machine that has begun anything since the request has
told so on the channel, unless that failed (`UploadInv`): the second synchronisation,
which accepts no such event, therefore finds a machine at rest with the verified file.
From there on, and as long as no other application comes, the machine has no program but
that file's, and an Idle event on its way that no Stopped precedes is the end of a
program that ran (`TraceInv`): each poll keeps this for the events it leaves, and an end
it read is one that was on its way (`CompletedInv`). The loop over the events is a
recursive function, whose equation is proved from the well-foundedness of the numbers
(`HeardDefined`) and whose outcome is bounded by least counterexamples (`HeardTells`). What the machine
does is summarised once (`MachineEffect`). Emergency Stop needs little of this: only the
session's own stop ends it, and one that looks at the stored file has read an idle state
since (`StopInv`). TLC checks `RuntimeInv` with the constants of `xtool_d1` (590 thousand
states).

`AckSession_proofs` proves under `LineControllerAssumption` and `AckSessionAssumption`:

- `TypeCorrect`: `Spec => []TypeOK`;
- `RecoveryHalts`: `Spec => []RecoveryIsHalted`;
- `ClosingIsNoStop`: `Spec => CloseIsNotStop`;

and, if `CleanReopen`:

- `NothingBehindHalt`: `Spec => []NothingFollowsHalt`;
- `AnswersAreCounted`: `Spec => []OneUnanswered`;
- `CompletionIsTrue`: `Spec => []CompletedMeansDone`.

`SessionInv` ties the session to its job: a session that runs has a job the service
holds, a flow that is neither cancelled nor failed and keeps the contract, and an index
that is ahead of the acknowledged lines by the line in flight. `OrderInv` says that a
session that may still write has sent no halt. `WireInv` says, state by state, how many
answers the machine owes: none or one; one is what the probe and a line in flight leave,
and a probe that failed leaves a session that is not used. From these follow
`OneUnanswered`, and, with `JobInv`, completion: the line on the wire is the one in
flight; once the machine has taken M400 its planner is empty; and from the final
laser-off on, the planner ends with the laser off (`EndsOff`) whatever it holds. For
Smoothieware `FireInv` says that no line lights the laser outside a move. A refused line
breaks this account and ends the job, so `JobInv` has it as its exception.

`GrblStream_proofs` also proves, of `FrameGate`, whose specification is `GateSpec`, under
`FrameGateAssumption`:

- `ConfirmedWasTracedAlways`: `ResetAlarms => (GateSpec => []ConfirmedWasTraced)`.

A stop during a completed Hold refutes the hypothesis, which is a finding; everywhere else
a reset while something moves raises the alarm. The theorem needs that a pending
fingerprint is always the one of the job the service holds, a frame (`PendingIsOfJob`):
then only its completion confirms it.

`AccountCorrect`, `CoolantIsAlone`, `FailuresAreReported`, `HistoryIsStorable` and
`ClosingIsNoStop` are theorems about formulas that no run checks, since the
proofs say more.

Only model-checked: that a relative start goes where a frame of its drawing went
(`StartsFramedAsCounted`); Ruida with answers that come late, twice or out of order; and
liveness, which like `ENABLED` is beyond the prover. With such answers the five invariants
of Ruida hold against a single fault of any kind; with two faults `CompletedMeansRan` and
`NothingSwallowed` do not, so that a theorem would have to count faults.

## Not modelled

*Machine service*: shutdown (`prepare_shutdown`, `shutting_down`), `active_jog`, the
times of keepalives, the console other than as a source of G92, overrides, the position
sync of a frame at a homed machine, pause and resume at the level of the service (they
hold both mutexes throughout; `GrblStream` has them).
*Frames*: the drawing of the frame, bounds checks, machines other than GRBL.
*GRBL session*: the handshake, settings, homing bookkeeping, positions.
*Acknowledged drivers*: validation of single lines, the response history, identities
beyond having one.
*Ruida*: packet encoding and swizzling, the case of file names, `raw_machine_status`.
*Lihuiyu*: packet encoding and CRC, positions, `BusyUnowned`, `wait_until_complete`.
*xTool*: a D1 on a USB cable (`d1_serial.rs`, `xtool_d1_serial.rs`), the contents of
archives and G-code, frames of an M1 (it has none).
*Files*: `replace_project`, archive contents and what the migrations move in them, the re-arming of the autosave timer in
the window (at most one autosave is under way), and the check for unchanged work between
two close requests.
*Whole components*: controller choice, remote host and agent.
Planning, raster, geometry, import and export, the command line and the window make up
most of the lines of the repository. They are sequential computations over floating
point data, file formats and presentation: they keep no protocol state, their correctness
is numerical, and they are left to tests.

## Plan

1. `GrblStream`: a transient write fault (a failed pause followed by a resume).
2. `MachineService`: liveness of the tick loop and of the deadman under fair threads;
   shutdown as an operation.
3. `RuidaRuntime`: what holds with answers that come late, as long as none is taken for
   another's.
4. `ControllerChoice`: the connection that waits for the user's choice of a driver.
5. `XToolD1Serial`: the D1 on a USB cable, which is fed line by line.
6. `GrblConnect`: the handshake, unlock, homing bookkeeping and the idle health
   check of `GrblSession`.

Properties are aimed at the hazards listed in `PROJECT.json`; the ones that name
no property there are the next to be covered.
