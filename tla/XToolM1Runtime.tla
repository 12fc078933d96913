--------------------------- MODULE XToolM1Runtime ---------------------------
(***************************************************************************)
(* The xTool M1 driver: M1Runtime (beambench-xtool/src/runtime.rs), the    *)
(* session and job of the service above it (beambench-service/src/         *)
(* xtool_runtime.rs), and Emergency Stop, which also sends its stop on a   *)
(* connection of its own (ops/machine.rs).                                 *)
(*                                                                         *)
(* The machine runs an uploaded file by itself, from the moment somebody   *)
(* presses its button; all the driver can do is ask for its status.  Every *)
(* HTTP request is a step.  The session's requests exclude each other; the *)
(* machine, the hands at it and the other connection do not wait for them. *)
(***************************************************************************)
EXTENDS Naturals

CONSTANTS
  STOP_CONFIRM_ATTEMPTS,
  Faults, MaxFaults,        \* what may go wrong with a request, and how often
  MaxStarts, MaxPresses,    \* presses in the program other than Start
  MaxHands                  \* what people do at the machine

ASSUME XToolM1Assumption ==
  /\ STOP_CONFIRM_ATTEMPTS \in Nat \ {0}
  /\ Faults \subseteq {"lost", "unanswered", "refused", "Unknown", "Error"}
  /\ {MaxFaults, MaxStarts, MaxPresses, MaxHands} \subseteq Nat

VARIABLES
  (* the machine *)
  machine,            \* the status it reports
  ours,               \* of what it last did, or does: is it our last upload?
  ran,                \* it has run that upload whole
  halting,            \* it has accepted a stop
  hands, faults,
  (* the program *)
  conn, endpoint,     \* a session; an address for stops outside one
  phase,
  job,                \* the state of the job the service holds
  polls_failing,      \* polls_failing_since.is_some()
  op,                 \* the operation that holds the session
  estop,              \* an Emergency Stop waits for the session
  starts, presses,
  (* what was seen, and done; no code reads these *)
  cut,                \* our last upload was stopped, by whomever
  idle_since_upload,  \* an idle status was read since the last upload was sent,
  idle_since_estop,   \* since the last Emergency Stop began,
  estop_job           \* which began while the service held a job

machineVars == <<machine, ours, ran, halting, cut>>
counts == <<starts, presses>>
seen == <<idle_since_upload, idle_since_estop, estop_job>>
vars == <<machineVars, hands, faults, conn, endpoint, phase, job, polls_failing, op, estop,
          counts, seen>>

\* M1Status::is_idle; "Idle" is also P_SLEEP.
Idle == {"Idle", "Finished"}
\* "Measuring" stands for every other thing the machine can be busy with.
Statuses == Idle \cup {"ReadyToRun", "Working", "Paused", "Measuring", "Error"}
OwnPhases == {"ReadyToRun", "Running", "Paused"}
OverPhases == {"Ready", "Completed", "Stopped"}
STOPPABLE_PHASES == OwnPhases \cup {"BusyUnowned", "RecoveryRequired"}
NoOp == [kind |-> "none", attempt |-> 0]

TypeOK ==
  /\ machine \in Statuses /\ hands \in 0..MaxHands /\ faults \in 0..MaxFaults
  /\ {ours, ran, halting, cut, conn, endpoint, polls_failing, estop} \subseteq BOOLEAN
  /\ {idle_since_upload, idle_since_estop, estop_job} \subseteq BOOLEAN
  /\ phase \in STOPPABLE_PHASES \cup OverPhases \cup {"Disconnected"}
  /\ job \in OwnPhases \cup {"none"}
  /\ op.kind \in {"none", "upload", "cancel", "estop", "shutdown"}
  /\ op.attempt \in 0..STOP_CONFIRM_ATTEMPTS
  /\ conn <=> phase # "Disconnected"
  /\ job # "none" => phase \in OwnPhases \cup {"RecoveryRequired"}
  /\ starts \in 0..MaxStarts /\ presses \in 0..MaxPresses

Init ==
  /\ machine = "Idle" /\ ours = FALSE /\ ran = FALSE /\ halting = FALSE /\ cut = FALSE
  /\ hands = 0 /\ faults = 0
  /\ conn = FALSE /\ endpoint = FALSE /\ phase = "Disconnected"
  /\ job = "none" /\ polls_failing = FALSE /\ op = NoOp /\ estop = FALSE
  /\ starts = 0 /\ presses = 0
  /\ idle_since_upload = TRUE /\ idle_since_estop = TRUE /\ estop_job = FALSE

-----------------------------------------------------------------------------
(* The machine.                                                            *)

Machine ==
  UNCHANGED <<faults, conn, endpoint, phase, job, polls_failing, op, estop, counts, seen>>
ByHand == hands < MaxHands /\ hands' = hands + 1 /\ Machine

\* Its button starts the file it holds.
ButtonStarts ==
  /\ machine = "ReadyToRun" /\ ~halting
  /\ machine' = "Working" /\ UNCHANGED <<ours, ran, halting, cut>> /\ ByHand

\* An open lid pauses it, a closed one and the button let it go on.
LidOpensOrCloses ==
  /\ machine \in {"Working", "Paused"} /\ ~halting
  /\ machine' = IF machine = "Working" THEN "Paused" ELSE "Working"
  /\ UNCHANGED <<ours, ran, halting, cut>> /\ ByHand

ButtonStops ==
  /\ machine \in {"ReadyToRun", "Working", "Paused"} /\ ~halting
  /\ machine' = "Idle" /\ cut' = TRUE /\ UNCHANGED <<ours, ran, halting>> /\ ByHand

\* It is put to some other use, or runs the last file once more.
UsedByOthers ==
  /\ machine \in Idle
  /\ machine' \in {"Working", "Measuring"} /\ ours' = FALSE
  /\ UNCHANGED <<ran, halting, cut>> /\ ByHand

\* The remedy of last resort.
PowerCycles ==
  /\ machine' = "Idle" /\ cut' = TRUE /\ halting' = FALSE /\ UNCHANGED <<ours, ran>> /\ ByHand

\* Some firmware says that it has finished, other firmware just rests.
Finishes ==
  /\ machine \in {"Working", "Measuring", "Finished"} /\ ~halting
  /\ machine' \in Idle \ {machine}
  /\ ran' = (ran \/ (ours /\ machine = "Working"))
  /\ UNCHANGED <<ours, halting, cut, hands>> /\ Machine

\* A stop takes its time.
Halts ==
  /\ halting
  /\ machine' = "Idle" /\ halting' = FALSE /\ UNCHANGED <<ours, ran, cut, hands>> /\ Machine

MachineStep ==
  \/ ButtonStarts \/ LidOpensOrCloses \/ ButtonStops \/ PowerCycles \/ UsedByOthers
  \/ Finishes \/ Halts

-----------------------------------------------------------------------------
(* Requests.                                                               *)

Fault(kind) == kind \in Faults /\ faults < MaxFaults /\ faults' = faults + 1

\* What the machine does with an action it accepts.
Takes(action) ==
  CASE action = "stop" /\ machine \notin Idle \cup {"Error"} ->
         halting' = TRUE /\ cut' = TRUE /\ UNCHANGED <<machine, ours, ran>>
    [] action = "pause" /\ machine = "Working" ->
         machine' = "Paused" /\ UNCHANGED <<ours, ran, halting, cut>>
    [] action = "start" /\ machine = "Paused" ->
         machine' = "Working" /\ UNCHANGED <<ours, ran, halting, cut>>
    [] action = "upload" ->
         /\ machine' = "ReadyToRun" /\ ours' = TRUE /\ ran' = FALSE /\ cut' = FALSE
         /\ UNCHANGED halting
    [] OTHER -> UNCHANGED machineVars

\* A request gets through, is lost, is carried out and its answer lost, or is refused, as
\* an upload is to a busy machine.
Sends(action, answer) ==
  LET busy == action = "upload" /\ machine \notin Idle IN
  \/ answer = "ok" /\ ~busy /\ Takes(action) /\ UNCHANGED faults
  \/ answer = "lost" /\ Fault("lost") /\ UNCHANGED machineVars
  \/ answer = "lost" /\ ~busy /\ Fault("unanswered") /\ Takes(action)
  \/ answer = "refused" /\ busy /\ UNCHANGED <<faults, machineVars>>
  \/ answer = "refused" /\ Fault("refused") /\ UNCHANGED machineVars
Answers == {"ok", "lost", "refused"}

\* read_m1_status
Reads(status) ==
  /\ \/ status = machine /\ UNCHANGED <<faults, machineVars>>
     \/ status \in {"lost", "Unknown"} /\ Fault(status) /\ UNCHANGED machineVars
     \/ status = "Error" /\ Fault("Error") /\ machine' = "Error" /\ halting' = FALSE
        /\ UNCHANGED <<ours, ran, cut>>
  /\ idle_since_upload' = (idle_since_upload \/ status \in Idle)
  /\ idle_since_estop' = (idle_since_estop \/ status \in Idle)
  /\ UNCHANGED estop_job
ReadsAs == Statuses \cup {"lost", "Unknown"}

-----------------------------------------------------------------------------
(* Polling.                                                                *)

\* Mutated: a machine that is ready to run counts as done; one that rests does not.
BugEnded(s) == s \in Idle \cup {"ReadyToRun"}
BugEndedOnlyFinished(s) == s = "Finished"
\* A status that says our job is over.
Ended(s) == s \in Idle

\* apply_status
AppliedStatus(s) ==
  CASE s = "Unknown" \/ s = "Error" -> "RecoveryRequired"
    [] s = "Working" /\ phase \in OwnPhases -> "Running"
    [] s = "Paused" /\ phase \in {"Running", "Paused"} -> "Paused"
    [] Ended(s) /\ phase \in OwnPhases -> "Completed"
    [] s \notin Idle /\ phase \in OverPhases -> "BusyUnowned"
    [] OTHER -> phase

JobOver == job' = "none" /\ polls_failing' = FALSE
Dropped == conn' = FALSE /\ phase' = "Disconnected"

\* Polls have failed for XTOOL_POLL_FAILURE_GRACE: the job has failed, and a session that
\* runs or pauses is given up.
PollFails ==
  \/ polls_failing' = TRUE /\ UNCHANGED <<conn, phase, job>>
  \/ /\ polls_failing /\ JobOver
     /\ IF phase \in {"Running", "Paused"} THEN Dropped ELSE UNCHANGED <<conn, phase>>

\* A status was read.  One the driver does not know puts the session into recovery, and
\* the job learns of it with the next.
PollSucceeds(s) ==
  /\ phase' = AppliedStatus(s)
  /\ CASE s = "Unknown" -> polls_failing' = TRUE /\ UNCHANGED job
       [] s # "Unknown" /\ phase' \in OwnPhases -> job' = phase' /\ polls_failing' = FALSE
       [] OTHER -> JobOver
  /\ UNCHANGED conn

Tick ==
  /\ job # "none" /\ op = NoOp
  /\ \E s \in ReadsAs :
       Reads(s) /\ IF s = "lost" THEN PollFails ELSE PollSucceeds(s)
  /\ UNCHANGED <<hands, endpoint, op, estop, counts>>

-----------------------------------------------------------------------------
(* Connecting, starting, pausing.                                          *)

Session == UNCHANGED <<hands, endpoint, estop>>
Press == presses < MaxPresses /\ presses' = presses + 1 /\ UNCHANGED starts

\* connect; register_machine_session
Connect ==
  /\ ~conn /\ Press
  /\ \E s \in Statuses :
       /\ Reads(s)
       /\ phase' = CASE s \in Idle -> "Ready"
                     [] s = "Error" -> "RecoveryRequired"
                     [] OTHER -> "BusyUnowned"
  /\ conn' = TRUE /\ endpoint' = TRUE
  /\ UNCHANGED <<hands, job, polls_failing, op, estop>>

\* disconnect_machine: the machine runs on, and the user is told so if a job is known.
Disconnect ==
  /\ conn /\ op = NoOp /\ Press
  /\ Dropped /\ JobOver /\ endpoint' = FALSE
  /\ UNCHANGED <<machineVars, hands, faults, op, estop, seen>>

\* Mutated: a session in recovery may upload.
BugStart ==
  /\ conn /\ op = NoOp /\ job = "none" /\ starts < MaxStarts
  /\ phase \in OverPhases \cup {"RecoveryRequired"}
  /\ starts' = starts + 1 /\ UNCHANGED presses
  /\ \E answer \in Answers :
       /\ Sends("setprintToolType", answer)
       /\ op' = IF answer = "ok" THEN [NoOp EXCEPT !.kind = "upload"] ELSE NoOp
  /\ UNCHANGED <<hands, conn, endpoint, phase, job, polls_failing, estop, seen>>

\* start_job; upload's first request
Start ==
  /\ conn /\ op = NoOp /\ job = "none" /\ starts < MaxStarts
  /\ phase \in OverPhases
  /\ starts' = starts + 1 /\ UNCHANGED presses
  /\ \E answer \in Answers :
       /\ Sends("setprintToolType", answer)
       /\ op' = IF answer = "ok" THEN [NoOp EXCEPT !.kind = "upload"] ELSE NoOp
  /\ UNCHANGED <<hands, conn, endpoint, phase, job, polls_failing, estop, seen>>

\* Its second one is never repeated: without an answer the machine may hold the file.
Upload ==
  /\ op.kind = "upload"
  /\ \E answer \in Answers :
       /\ Sends("upload", answer)
       /\ phase' = IF answer = "ok" THEN "ReadyToRun" ELSE "RecoveryRequired"
       /\ job' = IF answer = "ok" THEN "ReadyToRun" ELSE "none"
  /\ idle_since_upload' = FALSE
  /\ op' = NoOp
  /\ UNCHANGED <<hands, conn, endpoint, polls_failing, estop, counts, idle_since_estop, estop_job>>

\* send_action: a lost answer leaves open what the machine did.
Asks(action, from, to) ==
  /\ job # "none" /\ op = NoOp /\ phase = from /\ Press
  /\ \E answer \in Answers :
       /\ Sends(action, answer)
       /\ phase' = CASE answer = "ok" -> to
                     [] answer = "lost" -> "RecoveryRequired"
                     [] OTHER -> phase
       /\ job' = IF answer = "ok" THEN to ELSE job
  /\ UNCHANGED <<conn, polls_failing, op, seen>> /\ Session

Pause == Asks("pause", "Running", "Paused")
Resume == Asks("start", "Paused", "Running")

-----------------------------------------------------------------------------
(* Stopping.                                                               *)

\* Mutated: reads that are used up confirm as well.
BugConfirmed(s) == s \in Idle \/ op.attempt = STOP_CONFIRM_ATTEMPTS
Confirmed(s) == s \in Idle

\* How a stop ends.
StopSucceeds ==
  /\ JobOver /\ op' = NoOp
  /\ IF op.kind = "shutdown" THEN Dropped ELSE phase' = "Stopped" /\ UNCHANGED conn

\* recovery: what the machine did is open.
StopFails(kind, recovery) ==
  /\ op' = NoOp
  /\ IF kind = "estop" THEN Dropped
     ELSE phase' = (IF recovery THEN "RecoveryRequired" ELSE phase) /\ UNCHANGED conn
  /\ IF kind = "cancel" THEN UNCHANGED <<job, polls_failing>> ELSE JobOver

\* stop's request
SendsStop(kind) ==
  /\ phase \in STOPPABLE_PHASES
  /\ \E answer \in Answers :
       /\ Sends("stop", answer)
       /\ IF answer = "ok"
          THEN op' = [kind |-> kind, attempt |-> 1] /\ UNCHANGED <<conn, phase, job, polls_failing>>
          ELSE StopFails(kind, answer = "lost")
  /\ UNCHANGED seen

\* its reads
ConfirmsStop ==
  /\ op.kind \in {"cancel", "estop", "shutdown"}
  /\ \E s \in ReadsAs :
       /\ Reads(s)
       /\ \/ Confirmed(s) /\ StopSucceeds
          \/ /\ ~Confirmed(s) /\ s # "lost" /\ op.attempt < STOP_CONFIRM_ATTEMPTS
             /\ op' = [op EXCEPT !.attempt = @ + 1]
             /\ UNCHANGED <<conn, phase, job, polls_failing>>
          \/ /\ ~Confirmed(s)
             /\ s = "lost" \/ op.attempt = STOP_CONFIRM_ATTEMPTS
             /\ StopFails(op.kind, TRUE)
  /\ UNCHANGED counts /\ Session

Cancel == job # "none" /\ op = NoOp /\ Press /\ SendsStop("cancel") /\ Session

\* prepare_shutdown, and emergency_stop once it has the session: with nothing known to
\* run there is nothing to stop.
Shutdown ==
  /\ conn /\ op = NoOp /\ Press /\ Session
  /\ IF phase \in OverPhases
     THEN Dropped /\ JobOver /\ UNCHANGED <<machineVars, faults, op, seen>>
     ELSE SendsStop("shutdown")

\* emergency_stop, up to its wait for the session: the stop on a connection of its own.
EmergencyStop ==
  /\ ~estop /\ Press
  /\ IF endpoint THEN \E answer \in Answers : Sends("stop", answer)
     ELSE UNCHANGED <<machineVars, faults>>
  /\ estop' = TRUE
  /\ idle_since_estop' = FALSE /\ estop_job' = (job # "none")
  /\ UNCHANGED <<hands, conn, endpoint, phase, job, polls_failing, op, idle_since_upload>>

\* Not connected
EmergencyStopTooLate ==
  /\ estop /\ ~conn /\ op = NoOp
  /\ estop' = FALSE
  /\ UNCHANGED <<machineVars, hands, faults, conn, endpoint, phase, job, polls_failing, op,
                 counts, seen>>

EmergencyStopIdle ==
  /\ estop /\ conn /\ op = NoOp /\ phase \in OverPhases
  /\ estop' = FALSE /\ JobOver
  /\ UNCHANGED <<machineVars, hands, faults, conn, endpoint, phase, op, counts, seen>>

EmergencyStopSends ==
  /\ estop /\ conn /\ op = NoOp
  /\ estop' = FALSE
  /\ SendsStop("estop")
  /\ UNCHANGED <<hands, endpoint, counts>>

Next ==
  \/ MachineStep \/ Tick \/ Connect \/ Disconnect \/ Start \/ Upload \/ Pause \/ Resume
  \/ Cancel \/ Shutdown \/ ConfirmsStop
  \/ EmergencyStop \/ EmergencyStopTooLate \/ EmergencyStopIdle \/ EmergencyStopSends

\* The poll loop ticks twice a second, and a request ends within its time limit.
Fairness == WF_vars(Tick) /\ WF_vars(Upload) /\ WF_vars(ConfirmsStop)

Spec == Init /\ [][Next]_vars
FairSpec == Spec /\ Fairness

-----------------------------------------------------------------------------
(* Properties.                                                             *)

EmergencyStopSucceeds ==
  \/ EmergencyStopIdle
  \/ op.kind = "estop" /\ op' = NoOp /\ conn'
Completes == job # "none" /\ phase' = "Completed" /\ phase # "Completed"

\* A job that is reported Completed was run whole by the machine, unless a stop or the
\* machine's button cut it short: the driver cannot tell these apart (M1RuntimePhase::
\* Completed, runtime.rs:263).
CompletedMeansRan == [][Completes => ran \/ cut]_vars

\* An Emergency Stop that began while the service held a job, and reports success, follows
\* an idle status that was read since it began, whatever ticks, cancellations, failures
\* and reconnections came between its first request and its turn at the session.
StopIsConfirmed == [][EmergencyStopSucceeds /\ estop_job => idle_since_estop']_vars

\* A file is sent only to a machine whose idle status was read since the last one was
\* sent: an upload whose answer was lost is not repeated over a job that may be running.
NoUploadOverJob == [][Upload => idle_since_upload]_vars

\* A machine that is done, and stays so, does not leave its job in the service.
EndIsNoticed == <>[](machine \in Idle \cup {"Error"}) => []<>(job = "none")

\* As CHANGELOG.md:291 has it: an Emergency Stop that reports success has seen the machine
\* stop.  It has not, of a machine last seen idle (xtool_runtime.rs:286), which may be at
\* work and have got no stop at all.
StopIsAlwaysConfirmed ==
  [][EmergencyStopSucceeds /\ machine = "Working" /\ ~halting => idle_since_estop']_vars

\* A job that was stopped, by Emergency Stop or at the machine, is not reported as completed.
StoppedIsNotCompleted == [][Completes => ran]_vars

\* As machine.rs:5182 has it: a failed job's session is given up with a stop attempt.  The
\* session is not dropped by a tick while the machine runs our file and no stop was sent.
FailedJobIsStopped ==
  [][Tick /\ conn /\ ~conn' /\ machine \in {"Working", "Paused"} => ~ours \/ cut]_vars
=============================================================================
