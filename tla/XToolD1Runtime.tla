--------------------------- MODULE XToolD1Runtime ---------------------------
(***************************************************************************)
(* The xTool D1 driver over the network: D1Runtime (beambench-xtool/src/   *)
(* d1_runtime.rs), the session and job of the service above it (beambench- *)
(* service/src/xtool_d1_runtime.rs), and Emergency Stop, which also sends  *)
(* its stop on a connection of its own (ops/machine.rs).                   *)
(*                                                                         *)
(* The machine stores one file and runs whatever it stores when its button *)
(* is pressed.  It answers requests, whose only word on its state is idle  *)
(* or busy, and tells what it does in events on a channel of their own.    *)
(* Answers and events are not ordered with respect to each other: a poll   *)
(* takes the events that have arrived, and asks for the state after that.  *)
(***************************************************************************)
EXTENDS Naturals, Sequences, SequencesExt

CONSTANTS
  STOP_CONFIRM_ATTEMPTS,
  Faults,                   \* what may go wrong with a request
  MaxMishaps,               \* faults, and what people do at the machine or from elsewhere
  MaxStarts, MaxPresses     \* presses in the program other than Start and Frame

ASSUME XToolD1Assumption ==
  /\ STOP_CONFIRM_ATTEMPTS \in Nat \ {0}
  /\ Faults \subseteq {"lost", "unanswered", "unstored", "closed"}
  /\ {MaxMishaps, MaxStarts, MaxPresses} \subseteq Nat

VARIABLES
  (* the machine *)
  machine, program,         \* what it does, and whose program that is
  file,                     \* whose program it stores
  wire,                     \* the events it has told and no poll has taken
  channel, mishaps,
  (* the program *)
  conn, endpoint,           \* a session; an address for stops outside one
  phase,
  owned,                    \* owned_file.is_some()
  saw_owned_running,
  control, transition,      \* pending_control_since, pending_http_transition_since: is it set?
  job, frame,               \* the state of the job the service holds; is it a frame?
  op,                       \* the operation that holds the session
  estop,                    \* an Emergency Stop waits for the session
  starts, presses,
  (* what was done and seen; no code reads these *)
  fate,                     \* of our last upload
  foreign,                  \* another application was at the machine since then
  idle_since_estop          \* an idle state was read since the last Emergency Stop began

machineVars == <<machine, program, file, wire, fate, foreign>>
sessionVars == <<conn, endpoint, phase, owned, saw_owned_running, control, transition>>
counts == <<starts, presses>>
vars == <<machineVars, channel, mishaps, sessionVars, job, frame, op, estop, counts,
          idle_since_estop>>

Programs == {"ours", "old", "other"}    \* "old" is one of our earlier uploads
\* "Alarm" stands for every event that a poll takes as an error.
Events == {"Idle", "Running", "Paused", "Stopped", "Awaiting", "Alarm"}
OverPhases == {"Ready", "Completed", "Stopped"}
JobPhases == {"ReadyToRun", "Running", "Paused"}
ActivePhases == JobPhases \cup {"PauseRequested", "ResumeRequested"}
Phases == OverPhases \cup ActivePhases \cup {"BusyUnowned", "RecoveryRequired", "Disconnected"}
Polls == {"connect", "upload", "ready", "tick", "idle"}
Stops == {"unwind", "cancel", "tick", "estop", "disconnect", "lost", "drop", "shutdown", "close"}
NoOp == [kind |-> "none", step |-> "none", attempt |-> 0, ended |-> FALSE, stopped |-> FALSE,
         interrupted |-> FALSE]

TypeOK ==
  /\ machine \in {"Idle", "Working", "Paused"} /\ program \in Programs \cup {"none"}
  /\ file \in Programs \cup {"none"} /\ wire \in Seq(Events)
  /\ program = "none" <=> machine = "Idle"
  /\ channel \in {"open", "failed"} /\ mishaps \in 0..MaxMishaps
  /\ {conn, endpoint, owned, saw_owned_running, frame, estop} \subseteq BOOLEAN
  /\ {foreign, idle_since_estop} \subseteq BOOLEAN /\ fate \in {"waiting", "begun", "ran"}
  /\ phase \in Phases /\ {control, transition} \subseteq BOOLEAN
  /\ job \in JobPhases \cup {"none"}
  /\ op.kind \in Polls \cup Stops \cup {"none"} /\ op.attempt \in 0..STOP_CONFIRM_ATTEMPTS
  /\ job # "none" => conn
  /\ channel = "failed" => wire = <<>>
  /\ starts \in 0..MaxStarts /\ presses \in 0..MaxPresses

Init ==
  /\ machine = "Idle" /\ program = "none" /\ file = "none" /\ wire = <<>>
  /\ channel = "failed" /\ mishaps = 0
  /\ conn = FALSE /\ endpoint = FALSE /\ phase = "Disconnected" /\ owned = FALSE
  /\ saw_owned_running = FALSE /\ control = FALSE /\ transition = FALSE
  /\ job = "none" /\ frame = FALSE /\ op = NoOp /\ estop = FALSE
  /\ starts = 0 /\ presses = 0
  /\ fate = "ran" /\ foreign = FALSE /\ idle_since_estop = TRUE

-----------------------------------------------------------------------------
(* The machine.                                                            *)

Tells(events) == wire' = IF channel = "open" THEN wire \o events ELSE wire

Begins(p) ==
  /\ machine' = "Working" /\ program' = p
  /\ fate' = IF p = "ours" /\ fate = "waiting" THEN "begun" ELSE fate
Rests == machine' = "Idle" /\ program' = "none"

Program ==
  UNCHANGED <<sessionVars, job, frame, op, estop, counts, idle_since_estop>>
Mishap == mishaps < MaxMishaps /\ mishaps' = mishaps + 1
ByHand == Mishap /\ Program

ButtonStarts ==
  /\ machine = "Idle" /\ file # "none"
  /\ Begins(file) /\ Tells(<<"Running">>) /\ foreign' = (foreign \/ file = "other")
  /\ UNCHANGED <<file, channel>> /\ ByHand

ButtonPausesOrResumes ==
  /\ machine # "Idle"
  /\ IF machine = "Working" THEN machine' = "Paused" /\ Tells(<<"Paused">>)
                            ELSE machine' = "Working" /\ Tells(<<"Running">>)
  /\ UNCHANGED <<program, file, fate, foreign, channel>> /\ ByHand

\* The flame, tilt, movement and limit checks end the program as the button does.
ButtonStopsOrAlarm ==
  /\ machine # "Idle" /\ Rests
  /\ Tells(<<"Stopped", "Idle">>) \/ Tells(<<"Alarm">>)
  /\ UNCHANGED <<file, fate, foreign, channel>> /\ ByHand

\* Another application stores its file, or starts one.
UsedByOthers ==
  /\ machine = "Idle" /\ foreign' = TRUE
  /\ \/ file' = "other" /\ Tells(<<"Awaiting">>) /\ UNCHANGED <<machine, program, fate>>
     \/ Begins("other") /\ Tells(<<"Running">>) /\ UNCHANGED file
  /\ UNCHANGED channel /\ ByHand

PowerCycles ==
  /\ Rests /\ channel' = "failed" /\ wire' = <<>>
  /\ UNCHANGED <<file, fate, foreign>> /\ ByHand

Finishes ==
  /\ machine = "Working" /\ Rests /\ Tells(<<"Idle">>)
  /\ fate' = IF program = "ours" THEN "ran" ELSE fate
  /\ UNCHANGED <<file, foreign, channel, mishaps>> /\ Program

MachineStep ==
  \/ ButtonStarts \/ ButtonPausesOrResumes \/ ButtonStopsOrAlarm \/ UsedByOthers
  \/ PowerCycles \/ Finishes

-----------------------------------------------------------------------------
(* The line.                                                               *)

Fault(kind) == kind \in Faults /\ Mishap

\* The status connection closes, its heartbeat stops, or its queue overflows: for good.
ChannelFails ==
  /\ channel = "open" /\ Fault("closed")
  /\ channel' = "failed" /\ wire' = <<>>
  /\ UNCHANGED <<machine, program, file, fate, foreign, sessionVars, job, frame, op,
                 estop, counts, idle_since_estop>>

\* A request gets through, is lost or refused, or is carried out and its answer lost.
Sends(Effect, answer) ==
  \/ answer = "ok" /\ Effect /\ UNCHANGED mishaps
  \/ answer = "lost" /\ Fault("lost") /\ UNCHANGED machineVars
  \/ answer = "lost" /\ Fault("unanswered") /\ Effect
Answers == {"ok", "lost"}

\* working_state
Heeds(state) ==
  /\ idle_since_estop' = (idle_since_estop \/ state = "Idle")
  /\ UNCHANGED <<machine, program, file, fate, foreign>>
WorkingState == IF machine = "Idle" THEN "Idle" ELSE "Busy"
Reads(state) ==
  /\ \/ state = "lost" /\ Fault("lost")
     \/ state = WorkingState /\ UNCHANGED mishaps
  /\ Heeds(state)
ReadsAs == {"Idle", "Busy", "lost"}

\* What the machine does with a stop, in whatever state.
Halts ==
  Rests /\ Tells(<<"Stopped", "Idle">>) /\ UNCHANGED <<file, fate, foreign>>
PausesOnRequest ==
  IF machine = "Working"
  THEN machine' = "Paused" /\ Tells(<<"Paused">>) /\ UNCHANGED <<program, file, fate, foreign>>
  ELSE UNCHANGED machineVars
ResumesOnRequest ==
  IF machine = "Paused"
  THEN machine' = "Working" /\ Tells(<<"Running">>) /\ UNCHANGED <<program, file, fate, foreign>>
  ELSE UNCHANGED machineVars

-----------------------------------------------------------------------------
(* Operations, and how they go on.                                         *)

Op(kind, step) == [NoOp EXCEPT !.kind = kind, !.step = step]
GoesTo(step) == op' = [op EXCEPT !.step = step]

Dropped ==
  /\ conn' = FALSE /\ phase' = "Disconnected" /\ owned' = FALSE /\ saw_owned_running' = FALSE
  /\ control' = FALSE /\ transition' = FALSE /\ channel' = "failed" /\ wire' = <<>>
Kept == UNCHANGED <<conn, channel, wire, saw_owned_running, transition>>

\* upload_job: an upload that fails once its file is pending is undone with a stop.
Undone(pending) == IF pending THEN Op("unwind", "stop") ELSE NoOp

\* poll fails: recover; rest are the events it left.
PollFails(rest) ==
  /\ phase' = IF op.kind = "connect" THEN "Disconnected" ELSE "RecoveryRequired"
  /\ op' = CASE op.kind = "tick" -> Op("tick", "stop")
             [] op.kind = "idle" /\ channel = "failed" -> Op("lost", "stop")
             [] op.kind \in {"upload", "ready"} -> Undone(owned')
             [] OTHER -> NoOp
  /\ IF op.kind = "connect" THEN channel' = "failed" /\ wire' = <<>>
     ELSE wire' = rest /\ UNCHANGED channel
  /\ UNCHANGED <<conn, endpoint, job, frame, starts>>

\* poll ends with phase p.  A job learns its state from it; a continuous frame that is
\* complete goes on with its next pass.
PollEnds(p) ==
  /\ phase' = p
  /\ CASE op.kind = "connect" ->
            conn' = TRUE /\ endpoint' = TRUE /\ op' = NoOp /\ UNCHANGED <<job, starts>>
       [] op.kind = "upload" ->
            /\ op' = IF p \in OverPhases THEN Op("upload", "barrier") ELSE Undone(owned')
            /\ UNCHANGED <<conn, endpoint, job, starts>>
       [] op.kind = "ready" ->
            /\ op' = IF op.interrupted THEN Op("unwind", "stop") ELSE NoOp
            /\ job' = IF op.interrupted THEN "none" ELSE "ReadyToRun"
            /\ UNCHANGED <<conn, endpoint, starts>>
       [] op.kind = "tick" ->
            /\ job' = CASE p \in JobPhases -> p
                        [] p \in {"Completed", "Stopped"} -> "none"
                        [] OTHER -> job
            /\ \/ /\ op' = IF p \in {"RecoveryRequired", "BusyUnowned"} THEN Op("tick", "stop") ELSE NoOp
                  /\ UNCHANGED starts
               \/ /\ p = "Completed" /\ frame /\ starts < MaxStarts
                  /\ op' = Op("upload", "take") /\ starts' = starts + 1
            /\ UNCHANGED <<conn, endpoint>>
       [] OTHER -> op' = NoOp /\ UNCHANGED <<conn, endpoint, job, starts>>
  /\ UNCHANGED <<channel, frame>>

-----------------------------------------------------------------------------
(* Polling.                                                                *)

\* What poll_inner makes of an event; s is what it has made of those before.
Seen(s, event) ==
  LET ours == owned /\ s.phase \in ActivePhases IN
  IF s.failed THEN s ELSE
  CASE event = "Alarm" -> [s EXCEPT !.failed = TRUE]
    [] event = "Awaiting" -> [s EXCEPT !.failed = ~owned]
    [] event = "Stopped" -> [s EXCEPT !.stopped = TRUE, !.ended = FALSE]
    [] event = "Idle" -> [s EXCEPT !.ended = s.saw /\ owned /\ ~s.stopped]
    [] event = "Running" /\ ours ->
         [s EXCEPT !.ended = FALSE, !.saw = TRUE, !.phase = "Running", !.control = FALSE]
    [] event = "Running" /\ ~ours -> [s EXCEPT !.ended = FALSE, !.phase = "BusyUnowned"]
    [] event = "Paused" /\ ours /\ s.saw -> [s EXCEPT !.phase = "Paused", !.control = FALSE]
    [] OTHER -> [s EXCEPT !.phase = "BusyUnowned"]

\* Mutated: nobody notices that the status connection ended.
BugChannelLost == FALSE
ChannelLost == channel = "failed"

\* The loop over the events, after the first n.
Heard[n \in Nat] ==
  IF n = 0 THEN [phase |-> phase, saw |-> saw_owned_running, control |-> control,
                 ended |-> FALSE, stopped |-> FALSE, failed |-> FALSE]
  ELSE Seen(Heard[n - 1], wire[n])

\* poll_inner, up to its request: it takes the first n events.  A runtime that is
\* disconnected is not asked.
TakesEvents(n) ==
  LET rest == SubSeq(wire, n + 1, Len(wire))
      s == Heard[n]
  IN
  /\ op.step = "take" /\ n <= Len(wire)
  /\ IF phase = "Disconnected"
     THEN UNCHANGED <<owned, saw_owned_running, control, wire>> /\ PollEnds(phase)
     ELSE IF ChannelLost
     THEN UNCHANGED <<owned, saw_owned_running, control>> /\ PollFails(rest)
     ELSE IF phase = "RecoveryRequired"
     THEN UNCHANGED <<owned, saw_owned_running, control>> /\ wire' = rest /\ PollEnds(phase)
     ELSE /\ saw_owned_running' = s.saw /\ control' = s.control /\ UNCHANGED owned
          /\ IF s.failed THEN PollFails(rest)
             ELSE /\ wire' = rest /\ phase' = s.phase
                  /\ op' = [op EXCEPT !.step = "read", !.ended = s.ended, !.stopped = s.stopped]
                  /\ UNCHANGED <<conn, endpoint, channel, job, frame, starts>>
  /\ UNCHANGED <<machine, program, file, fate, foreign, mishaps, transition, estop,
                 presses, idle_since_estop>>

\* Mutated: an idle machine has completed the file that was seen running.
BugStateAfter(state) ==
  CASE owned /\ state = "Idle" /\ saw_owned_running -> "Completed"
    [] OTHER -> IF owned THEN phase ELSE "Ready"

\* The phase after the request, without a stop or an end.
StateAfter(state) ==
  CASE owned -> phase
    [] ~owned /\ state = "Idle" -> IF phase \in {"Completed", "Stopped"} THEN phase ELSE "Ready"
    [] OTHER -> "BusyUnowned"

\* poll_inner, from its request on; late says whether five seconds have passed since the
\* timers were set.  Of a program that runs or pauses it asks the progress too: told says
\* whether that is answered.
PollReads(late) ==
  /\ op.step = "read"
  /\ \E state \in ReadsAs, told \in BOOLEAN :
       LET over == op.stopped \/ op.ended
           p == IF over THEN (IF op.stopped THEN "Stopped" ELSE "Completed") ELSE StateAfter(state)
           awaiting == IF p = "ReadyToRun" THEN state = "Busy"
                       ELSE p \in ActivePhases /\ state = "Idle"
           overdue == late /\ ((awaiting /\ transition) \/ control)
       IN
       /\ IF told THEN Reads(state)
          ELSE /\ p \in {"Running", "Paused"} /\ ~overdue /\ Fault("lost")
               /\ state = WorkingState /\ Heeds(state)
       /\ IF state = "lost" \/ (over /\ state = "Busy")
          THEN UNCHANGED <<owned, transition>> /\ PollFails(wire)
          ELSE /\ owned' = (owned /\ ~over)
               /\ transition' = awaiting
               /\ IF overdue \/ ~told
                  THEN PollFails(wire)
                  ELSE PollEnds(p) /\ UNCHANGED wire
  /\ UNCHANGED <<saw_owned_running, control, estop, presses>>

Begin(kind) ==
  /\ op = NoOp /\ op' = Op(kind, "take")
  /\ UNCHANGED <<machineVars, channel, mishaps, sessionVars, job, frame, estop, counts,
                 idle_since_estop>>

Tick == job # "none" /\ Begin("tick")
\* The status refresh; a session whose runtime is disconnected is not polled.
IdlePoll == conn /\ job = "none" /\ phase # "Disconnected" /\ Begin("idle")

-----------------------------------------------------------------------------
(* Connecting.                                                             *)

Press == presses < MaxPresses /\ presses' = presses + 1 /\ UNCHANGED starts
Outside == UNCHANGED <<frame, estop>>

\* ReqwestD1NetworkIo::new: the channel is open before anything is asked.
Connect ==
  /\ ~conn /\ op = NoOp /\ Press
  /\ channel' = "open" /\ wire' = <<>> /\ op' = Op("connect", "state")
  /\ UNCHANGED <<machine, program, file, fate, foreign, mishaps, sessionVars, job, idle_since_estop>>
  /\ Outside

\* connect, up to its poll
ConnectReads ==
  /\ op.step = "state"
  /\ \E state \in ReadsAs :
       /\ Reads(state)
       /\ IF state = "lost"
          THEN PollFails(wire)
          ELSE /\ phase' = IF state = "Idle" THEN "Ready" ELSE "BusyUnowned"
               /\ GoesTo("take") /\ UNCHANGED <<conn, endpoint, channel, wire, job, frame, starts>>
  /\ UNCHANGED <<owned, saw_owned_running, control, transition, estop, presses>>

-----------------------------------------------------------------------------
(* Uploading.                                                              *)

\* start_job and a frame's start: upload begins with a poll.
Start(is_frame) ==
  /\ conn /\ op = NoOp /\ job = "none" /\ starts < MaxStarts
  /\ starts' = starts + 1 /\ frame' = is_frame /\ op' = Op("upload", "take")
  /\ UNCHANGED <<machineVars, channel, mishaps, sessionVars, job, estop, presses,
                 idle_since_estop>>

Uploading == UNCHANGED <<conn, endpoint, control, job, frame, estop, counts>>
AllTaken == wire' = <<>> /\ UNCHANGED <<machine, program, file, fate, foreign>>

\* The upload fails before its file is pending: nothing is stopped.
Refused(p) ==
  /\ op' = Undone(owned) /\ phase' = p
  /\ UNCHANGED <<owned, saw_owned_running, transition>>

\* synchronize_status, which takes every event told before it
Synchronizes ==
  /\ op.kind = "upload" /\ op.step = "barrier"
  /\ \/ channel = "failed" /\ Refused(phase) /\ UNCHANGED <<mishaps, machineVars>>
     \/ channel = "open" /\ Fault("lost") /\ Refused(phase) /\ UNCHANGED machineVars
     \/ /\ channel = "open" /\ AllTaken /\ UNCHANGED mishaps
        /\ IF ToSet(wire) \subseteq {"Idle"}
           THEN GoesTo("check") /\ UNCHANGED <<phase, owned, saw_owned_running, transition>>
           ELSE Refused("BusyUnowned")
  /\ UNCHANGED <<channel, idle_since_estop>> /\ Uploading

\* The file is remembered before it is sent.
Owns == owned' = TRUE /\ transition' = FALSE /\ saw_owned_running' = FALSE

ChecksIdle ==
  /\ op.kind = "upload" /\ op.step = "check"
  /\ \E state \in ReadsAs :
       /\ Reads(state)
       /\ CASE state = "Idle" -> GoesTo("post") /\ Owns /\ UNCHANGED phase
            [] state = "Busy" -> Refused("BusyUnowned")
            [] OTHER -> Refused(phase)
  /\ UNCHANGED <<channel, wire>> /\ Uploading

\* The upload fails once its file is pending.
UploadFails ==
  op' = Op("unwind", "stop") /\ phase' = "RecoveryRequired"

\* The request itself: what was stored before is of an earlier upload from now on.
Posts ==
  /\ op.step = "post"
  /\ LET Earlier(p) == IF p = "ours" THEN "old" ELSE p
         Sent(stored) ==
           /\ file' = IF stored THEN "ours" ELSE Earlier(file)
           /\ program' = Earlier(program)
           /\ fate' = "waiting" /\ foreign' = (program = "other")
           /\ IF stored THEN Tells(<<"Awaiting">>) ELSE UNCHANGED wire
           /\ UNCHANGED machine
     IN
     \/ /\ Sent(TRUE) /\ UNCHANGED mishaps /\ GoesTo("readback") /\ UNCHANGED phase
     \/ /\ Sent(FALSE) /\ Fault("unstored") /\ GoesTo("readback") /\ UNCHANGED phase
     \/ /\ Sent(TRUE) /\ Fault("unanswered") /\ UploadFails
     \/ /\ Sent(FALSE) /\ Fault("lost") /\ UploadFails
  /\ UNCHANGED <<channel, owned, saw_owned_running, transition, idle_since_estop>> /\ Uploading

\* The file that is read back is the one that was sent.
Verified == file = "ours"

ReadsBack ==
  /\ op.step = "readback"
  /\ \/ Fault("lost") /\ UploadFails
     \/ /\ UNCHANGED mishaps
        /\ IF Verified THEN GoesTo("synchronize") /\ UNCHANGED phase ELSE UploadFails
  /\ UNCHANGED <<machineVars, channel, owned, saw_owned_running, transition, idle_since_estop>>
  /\ Uploading

\* Motion that was told before the upload was verified is not that of the new file.
SynchronizesAgain ==
  /\ op.step = "synchronize"
  /\ \/ channel = "failed" /\ UploadFails /\ UNCHANGED <<mishaps, machineVars>>
     \/ channel = "open" /\ Fault("lost") /\ UploadFails /\ UNCHANGED machineVars
     \/ /\ channel = "open" /\ AllTaken /\ UNCHANGED mishaps
        /\ IF ToSet(wire) \subseteq {"Idle", "Awaiting"}
           THEN GoesTo("recheck") /\ UNCHANGED phase
           ELSE UploadFails
  /\ UNCHANGED <<channel, owned, saw_owned_running, transition, idle_since_estop>> /\ Uploading

\* upload, up to its last poll
BecomesReady ==
  /\ op.step = "recheck"
  /\ \E state \in ReadsAs :
       /\ Reads(state)
       /\ IF state = "Idle"
          THEN /\ phase' = "ReadyToRun"
               /\ op' = [op EXCEPT !.kind = "ready", !.step = "take"]
          ELSE UploadFails
  /\ UNCHANGED <<channel, wire, owned, saw_owned_running, transition>> /\ Uploading

-----------------------------------------------------------------------------
(* Pausing and stopping.                                                   *)

\* An answer only says that the request was taken.
Asks(Effect, from, to) ==
  /\ job # "none" /\ op = NoOp /\ phase = from
  /\ \E answer \in Answers :
       /\ Sends(Effect, answer)
       /\ IF answer = "ok" THEN phase' = to /\ control' = TRUE
          ELSE phase' = "RecoveryRequired" /\ UNCHANGED control
  /\ UNCHANGED <<channel, conn, endpoint, owned, saw_owned_running, transition, job, op,
                 idle_since_estop>> /\ Outside

Pause == Asks(PausesOnRequest, "Running", "PauseRequested") /\ Press
Resume == Asks(ResumesOnRequest, "Paused", "ResumeRequested") /\ UNCHANGED counts

\* How a stop ends once the machine is idle and its file is no longer pending.
StopDone ==
  CASE op.kind \in {"disconnect", "lost", "drop", "close"} ->
         /\ Dropped /\ op' = NoOp /\ job' = "none"
         /\ endpoint' = (endpoint /\ op.kind # "disconnect")
    [] op.kind = "shutdown" ->
         /\ phase' = "Stopped" /\ owned' = FALSE /\ control' = FALSE /\ op' = Op("close", "stop")
         /\ Kept /\ UNCHANGED <<endpoint, job>>
    [] OTHER ->
         /\ phase' = "Stopped" /\ owned' = FALSE /\ control' = FALSE /\ op' = NoOp
         /\ job' = "none" /\ Kept /\ UNCHANGED endpoint

\* A stop that fails.  The session is given up with another one after an Emergency Stop,
\* and after a frame whose file may be pending.
StopFails ==
  CASE op.kind \in {"disconnect", "lost", "drop"} ->
         /\ Dropped /\ op' = NoOp /\ job' = "none"
         /\ endpoint' = (endpoint /\ op.kind # "disconnect")
    [] OTHER ->
         /\ phase' = IF op.kind = "close" \/ phase = "Disconnected" THEN "Disconnected"
                     ELSE "RecoveryRequired"
         /\ op' = IF op.kind = "estop" \/ (op.kind = "unwind" /\ frame /\ owned)
                  THEN Op("drop", "stop") ELSE NoOp
         /\ job' = IF op.kind = "cancel" THEN job ELSE "none"
         /\ Kept /\ UNCHANGED <<endpoint, owned, control>>

Stopping == UNCHANGED <<frame, estop, counts>>

\* stop's first request, whose answer is not looked at
SendsStop ==
  /\ op.step = "stop"
  /\ IF phase = "Disconnected"
     THEN StopFails /\ UNCHANGED <<machine, program, file, fate, foreign, mishaps>>
     ELSE /\ \E answer \in Answers : Sends(Halts, answer)
          /\ GoesTo("off") /\ UNCHANGED <<channel, sessionVars, job>>
  /\ UNCHANGED idle_since_estop /\ Stopping

\* The second one turns the output off.
SendsOff ==
  /\ op.step = "off"
  /\ \E answer \in Answers :
       /\ Sends(UNCHANGED <<machine, program, file, fate, foreign>>, answer)
       /\ IF answer = "ok"
          THEN op' = [op EXCEPT !.step = "confirm", !.attempt = 1]
               /\ UNCHANGED <<channel, wire, sessionVars, job>>
          ELSE StopFails
  /\ UNCHANGED idle_since_estop /\ Stopping

ConfirmsStop ==
  /\ op.step = "confirm"
  /\ \E state \in ReadsAs :
       /\ Reads(state)
       /\ CASE state = "Idle" /\ owned ->
                 GoesTo("file") /\ UNCHANGED <<channel, wire, sessionVars, job>>
            [] state = "Idle" /\ ~owned -> StopDone
            [] state = "Busy" /\ op.attempt < STOP_CONFIRM_ATTEMPTS ->
                 op' = [op EXCEPT !.attempt = @ + 1] /\ UNCHANGED <<channel, wire, sessionVars, job>>
            [] OTHER -> StopFails
  /\ Stopping

\* Only a file that is still the pending one is deleted.
ChecksFile ==
  /\ op.step = "file"
  /\ \/ Fault("lost") /\ StopFails
     \/ /\ UNCHANGED mishaps
        /\ IF file = "ours"
           THEN GoesTo("delete") /\ UNCHANGED <<channel, wire, sessionVars, job>>
           ELSE StopDone
  /\ UNCHANGED <<machine, program, file, fate, foreign, idle_since_estop>> /\ Stopping

DeletesFile ==
  /\ op.step = "delete"
  /\ \/ file' = "none" /\ UNCHANGED mishaps /\ StopDone
     \/ file' = "none" /\ Fault("unanswered") /\ StopFails
     \/ Fault("lost") /\ UNCHANGED file /\ StopFails
  /\ UNCHANGED <<machine, program, fate, foreign, idle_since_estop>> /\ Stopping

Presses(kind) ==
  /\ conn /\ op = NoOp /\ Press /\ op' = Op(kind, "stop")
  /\ UNCHANGED <<machineVars, channel, mishaps, sessionVars, idle_since_estop>> /\ Outside

Cancel == job # "none" /\ Presses("cancel") /\ UNCHANGED job
Disconnect == Presses("disconnect") /\ UNCHANGED job
\* prepare_shutdown gives the job up first.
Shutdown == Presses("shutdown") /\ job' = "none"

\* emergency_stop, up to its wait for the session: the stop on a connection of its own,
\* which an upload notices when it is done.
EmergencyStop ==
  /\ ~estop /\ Press
  /\ IF endpoint THEN \E answer \in Answers : Sends(Halts, answer)
     ELSE UNCHANGED <<machineVars, mishaps>>
  /\ estop' = TRUE /\ idle_since_estop' = FALSE
  /\ op' = IF op.kind \in {"upload", "ready"} THEN [op EXCEPT !.interrupted = TRUE] ELSE op
  /\ UNCHANGED <<channel, sessionVars, job, frame>>

\* Not connected
EmergencyStopTooLate ==
  /\ estop /\ ~conn /\ op = NoOp /\ estop' = FALSE
  /\ UNCHANGED <<machineVars, channel, mishaps, sessionVars, job, frame, op, counts,
                 idle_since_estop>>

\* Mutated: as on the M1, a session that was last seen idle needs no stop.
BugEmergencyStopProceeds ==
  /\ estop /\ conn /\ op = NoOp /\ estop' = FALSE
  /\ op' = IF phase \in OverPhases THEN NoOp ELSE Op("estop", "stop")
  /\ UNCHANGED <<machineVars, channel, mishaps, sessionVars, job, frame, counts,
                 idle_since_estop>>

\* The session's own stop is sent whatever was last seen.
EmergencyStopProceeds ==
  /\ estop /\ conn /\ op = NoOp /\ estop' = FALSE /\ op' = Op("estop", "stop")
  /\ UNCHANGED <<machineVars, channel, mishaps, sessionVars, job, frame, counts,
                 idle_since_estop>>

-----------------------------------------------------------------------------
SessionStep ==
  \/ \E n \in 0..Len(wire) : TakesEvents(n)
  \/ (\E late \in BOOLEAN : PollReads(late)) \/ ConnectReads
  \/ Synchronizes \/ ChecksIdle \/ Posts \/ ReadsBack \/ SynchronizesAgain \/ BecomesReady
  \/ SendsStop \/ SendsOff \/ ConfirmsStop \/ ChecksFile \/ DeletesFile

Next ==
  \/ MachineStep \/ ChannelFails
  \/ Tick \/ IdlePoll \/ SessionStep
  \/ Connect \/ (\E is_frame \in BOOLEAN : Start(is_frame))
  \/ Pause \/ Resume \/ Cancel \/ Disconnect \/ Shutdown
  \/ EmergencyStop \/ EmergencyStopTooLate \/ EmergencyStopProceeds

\* The poll loop ticks twice a second, requests end, an event that was told does not stay
\* on its way for ever, and the five seconds pass.
Fairness ==
  /\ WF_vars(Tick) /\ WF_vars(SessionStep)
  /\ SF_vars(op.kind = "tick" /\ TakesEvents(Len(wire)))
  /\ SF_vars(op.kind = "tick" /\ PollReads(TRUE))

Spec == Init /\ [][Next]_vars
FairSpec == Spec /\ Fairness

-----------------------------------------------------------------------------
(* Properties.                                                             *)

Completes == op.kind = "tick" /\ op.step = "read" /\ phase' = "Completed"
\* The last of the Emergency Stops that were begun.
EmergencyStopSucceeds ==
  conn /\ conn' /\ op' = NoOp /\ ~estop' /\ (op.kind = "estop" \/ estop)

\* A job is reported Completed only after the machine ran its file whole, unless another
\* application was at the machine: neither an earlier file, nor a file that was not stored,
\* nor an event that was late, nor a stop is taken for the end of the job.
CompletedMeansRan == [][Completes => fate = "ran" \/ foreign]_vars

\* Emergency Stop reports success only after an idle state that was read since it began,
\* whatever polls, stops and reconnections came between its first request and its turn.
StopIsConfirmed == [][EmergencyStopSucceeds => idle_since_estop']_vars

\* A file that has begun to run on a machine that comes to rest does not leave its job in
\* the service, whether its events came or not, unless the session has gone back to Ready
\* under the job.
EndIsNoticed ==
  <>[](machine = "Idle") => []<>(job = "none" \/ fate = "waiting" \/ phase = "Ready")

\* As docs/machines/xtool-d1-network-protocol.md:64 has it: cleanup never deletes another
\* application's file.
DeletesOnlyOurs == [][op.step = "delete" /\ file' = "none" => file \in {"ours", "none"}]_vars

\* As xtool_d1_runtime.rs:258 has it, the session of an Emergency Stop removes its pending
\* file: one that has not begun to run is not left for the button.
EmergencyStopRemovesFile ==
  [][EmergencyStopSucceeds /\ fate = "waiting" /\ ~foreign => file' # "ours"]_vars

\* As tests/d1_network.rs has it (unowned_busy_controller_is_read_only_until_explicit_stop):
\* a lost status connection does not stop another application's program.
UnownedIsReadOnly == op.kind = "lost" /\ op.step = "stop" => program # "other"

\* As machine.rs:7113 has it: a failed shutdown retains a connection that can be used.
SessionStaysUsable == conn => phase # "Disconnected"

\* As machine.rs:3899 has it: a disconnect that leaves a job says that it keeps running.
KeepsRunningIsTrue ==
  [][op.kind = "disconnect" /\ ~conn' /\ job # "none" => machine # "Idle"]_vars

\* A session that has gone back to Ready has no job left.
JobIsNotStranded == phase = "Ready" /\ op = NoOp => job = "none"

\* A refresh of the status does not put a session whose job is over into recovery without
\* a cause: a failed channel, an alarm or another application.
OverStaysOver ==
  [][phase' = "RecoveryRequired" /\ phase \in {"Completed", "Stopped"} /\ op.kind = "idle"
       => channel = "failed" \/ foreign \/ Contains(wire, "Alarm")]_vars
=============================================================================
