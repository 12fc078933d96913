----------------------------- MODULE GrblStream -----------------------------
(***************************************************************************)
(* A managed job streamed to a GRBL controller: StreamingEngine            *)
(* (beambench-streamer/src/engine.rs), JobController (job.rs), the job's   *)
(* state in ProgressTracker (progress.rs), the part of GrblSession         *)
(* (beambench-grbl/src/session.rs, state.rs) a job goes through, and the   *)
(* service that owns the job (tick_job, pause_job, resume_job, cancel_job  *)
(* of beambench-service/src/ops/machine.rs).                               *)
(*                                                                         *)
(* start, tick, pause, resume and cancel run under the job and session     *)
(* locks, so they do not interleave with each other; the controller and    *)
(* the clock run between any two reads and writes of a tick (pc).          *)
(***************************************************************************)
EXTENDS GrblController

CONSTANTS
  GRBL_RX_BUFFER_SIZE,  \* bytes the sender keeps in flight at most
  IdleLimit,            \* IDLE_ACK_DESYNC_REPORT_LIMIT
  Synchronous,          \* TransferMode::Synchronous
  MaxPresses            \* bound: how often the user pauses, resumes or cancels

\* GcodeSpool::generate refuses a line that does not fit the window.
ASSUME WindowAssumption ==
  /\ GRBL_RX_BUFFER_SIZE \in Nat
  /\ GRBL_RX_BUFFER_SIZE <= RxSize
  /\ \A i \in Line : Size(i) <= GRBL_RX_BUFFER_SIZE
  /\ IdleLimit \in Nat \ {0}
  /\ Synchronous \in BOOLEAN
  /\ MaxPresses \in Nat

VARIABLES
  (* StreamingEngine; pending_command is line next_index + 1 *)
  next_index, bytes_in_flight, sent_commands, paused, cancelled, failed,
  (* ProgressTracker *)
  progress,
  (* GrblSession: status_wait is unanswered_status_since, "expired" once it *)
  (* is older than status_timeout                                           *)
  session_state, last_status, status_wait,
  (* JobController.  Report counters are compared, never read, so each      *)
  (* comparison is kept instead of the two counters:                        *)
  (*   job_report    status_report_count > job_start_status_baseline        *)
  (*   new_report    status_report_count # last_idle_ack_desync_status_count*)
  (*   idle_baseline awaiting_idle_baseline: "none", "armed", and "fresh"   *)
  (*                 once a report came after it was taken                  *)
  (*   idle_timer    idle_ack_desync_started: "none", "running", and        *)
  (*                 "elapsed" once as old as the pending delay             *)
  (*   poll_due      last_status_poll is older than STATUS_POLL_INTERVAL    *)
  job_report, new_report, idle_baseline, idle_timer, idle_reports, poll_due,
  spindle_stop_sent,
  (* the service and the transport *)
  pc,       \* where the operation that holds the locks stands
  call,     \* that operation: start or tick
  held,     \* ctx.job holds the job
  link,     \* reads and writes of the transport succeed
  presses   \* how often the user acted

engineVars == <<next_index, bytes_in_flight, sent_commands, paused, cancelled,
                failed>>
sessionVars == <<session_state, last_status, status_wait>>
desyncVars == <<new_report, idle_timer, idle_reports>>
jobVars == <<job_report, idle_baseline, poll_due, spindle_stop_sent>>
hostVars == <<engineVars, progress, sessionVars, desyncVars, jobVars, pc, call,
              held, link, presses>>
vars == <<ctlVars, hostVars>>

JobStates == {"Preparing", "Running", "Paused", "Completed", "Failed", "Cancelled"}
SessionStates == {"Disconnected", "WaitingForBanner", "Validating", "Ready",
                  "Running", "Paused", "Alarm"}

HostTypeOK ==
  /\ next_index \in 0..N
  /\ bytes_in_flight \in Nat
  /\ sent_commands \in Seq(Line)
  /\ progress \in JobStates
  /\ session_state \in SessionStates
  /\ last_status \in StatusReports
  /\ status_wait \in {"none", "waiting", "expired"}
  /\ idle_baseline \in {"none", "armed", "fresh"}
  /\ idle_timer \in {"none", "running", "elapsed"}
  /\ idle_reports \in 0..IdleLimit
  /\ pc \in {"idle", "poll", "send", "query", "spindle", "check", "release"}
  /\ call \in {"start", "tick"}
  /\ presses \in 0..MaxPresses

FlagsOK ==
  /\ paused \in BOOLEAN
  /\ cancelled \in BOOLEAN
  /\ failed \in BOOLEAN
  /\ job_report \in BOOLEAN
  /\ new_report \in BOOLEAN
  /\ poll_due \in BOOLEAN
  /\ spindle_stop_sent \in BOOLEAN
  /\ held \in BOOLEAN
  /\ link \in BOOLEAN

TypeOK == ControllerTypeOK /\ HostTypeOK /\ FlagsOK

HostInit ==
  /\ next_index = 0
  /\ bytes_in_flight = 0
  /\ sent_commands = <<>>
  /\ paused = FALSE
  /\ cancelled = FALSE
  /\ failed = FALSE
  /\ progress = "Preparing"
  /\ session_state = "Ready"
  /\ last_status = "Idle"
  /\ status_wait = "none"
  /\ job_report = FALSE
  /\ new_report = FALSE
  /\ idle_baseline = "none"
  /\ idle_timer = "none"
  /\ idle_reports = 0
  /\ poll_due = TRUE
  /\ spindle_stop_sent = FALSE
  /\ pc = "idle"
  /\ call = "start"
  /\ held = FALSE
  /\ link = TRUE
  /\ presses = 0

Init == ControllerInit /\ HostInit

-----------------------------------------------------------------------------
\* SessionStateMachine::transition, over the states a job's session goes through.
CanTransition(to) ==
  \/ session_state = to
  \/ <<session_state, to>> \in
       {<<"WaitingForBanner", "Validating">>, <<"Validating", "Ready">>,
        <<"Validating", "Alarm">>, <<"Ready", "Running">>, <<"Ready", "Alarm">>,
        <<"Running", "Paused">>, <<"Running", "Ready">>, <<"Running", "Alarm">>,
        <<"Paused", "Running">>, <<"Paused", "Ready">>, <<"Paused", "Alarm">>,
        <<"Alarm", "Ready">>}

Transition(to) == session_state' = IF CanTransition(to) THEN to ELSE session_state

all_sent == next_index >= N
all_acknowledged == all_sent /\ sent_commands = <<>>
homing_in_flight == \E p \in DOMAIN sent_commands : sent_commands[p] \in Homing
pending_dwell == sent_commands # <<>> /\ Head(sent_commands) \in Dwell

Write(kind) == wire' = Append(wire, [k |-> kind, n |-> next_index])

UNCHANGEDController ==
  UNCHANGED <<replies, received, consumed, planner, executed, mode, busy, asked,
              dark, alive, faults>>

\* StreamingEngine::fail
Fail == failed' = TRUE /\ progress' = "Failed"

\* An operation returned an error that is not a job failure, or the job failed
\* or could not start: the service releases the session and drops the job.
\* A job that failed while the session is neither Running nor Paused (an alarm)
\* is dropped without touching the session.
LeaveFailed ==
  IF session_state' \in {"Running", "Paused"}
  THEN pc' = "release" /\ UNCHANGED held
  ELSE pc' = "idle" /\ held' = FALSE

-----------------------------------------------------------------------------
(* JobController::start and the head of tick.                              *)

Start ==
  /\ pc = "idle"
  /\ progress = "Preparing"
  /\ CanTransition("Running")
  /\ session_state' = "Running"
  /\ progress' = "Running"
  /\ idle_baseline' = "none"
  /\ job_report' = FALSE
  /\ new_report' = FALSE
  /\ idle_reports' = 0
  /\ idle_timer' = "none"
  /\ pc' = "send"
  /\ call' = "start"
  /\ UNCHANGED <<ctlVars, engineVars, last_status, status_wait, poll_due,
                 spindle_stop_sent, held, link, presses>>

TickBegin ==
  /\ pc = "idle"
  /\ held
  /\ pc' = "poll"
  /\ call' = "tick"
  /\ UNCHANGED <<ctlVars, engineVars, progress, sessionVars, desyncVars, jobVars,
                 held, link, presses>>

(* The reply loop of tick: GrblSession::poll_response, then                *)
(* StreamingEngine::handle_response.                                       *)

TakeReply(kinds) ==
  /\ pc = "poll"
  /\ replies # <<>>
  /\ Head(replies).k \in kinds
  /\ replies' = Tail(replies)
  /\ UNCHANGED <<wire, received, consumed, planner, executed, mode, busy, asked,
                 dark, alive, faults>>

ForgetDesync == new_report' = FALSE /\ idle_timer' = "none" /\ idle_reports' = 0

PollOk ==
  /\ TakeReply({"ok"})
  /\ IF bytes_in_flight > 0 THEN ForgetDesync ELSE UNCHANGED desyncVars
  /\ IF failed \/ sent_commands = <<>>
     THEN UNCHANGED <<sent_commands, bytes_in_flight>>
     ELSE /\ sent_commands' = Tail(sent_commands)
          /\ bytes_in_flight' =
               LET size == Size(Head(sent_commands)) IN
               IF size <= bytes_in_flight THEN bytes_in_flight - size ELSE 0
  /\ UNCHANGED <<next_index, paused, cancelled, failed, progress, sessionVars,
                 jobVars, pc, call, held, link, presses>>

\* The session's view of a status report; `merged' positions are left out.
ObserveStatus(report) ==
  /\ last_status' = report
  /\ status_wait' = "none"
  /\ IF report = "Alarm" THEN session_state' = "Alarm"
     ELSE IF session_state = "Alarm" /\ report = "Idle" THEN Transition("Ready")
     ELSE UNCHANGED session_state

PollStatus ==
  /\ TakeReply(StatusReports \ {"Alarm"})
  /\ ObserveStatus(Head(replies).k)
  /\ job_report' = TRUE
  /\ idle_baseline' = IF idle_baseline = "none" THEN "none" ELSE "fresh"
  /\ IF Head(replies).k # "Idle" THEN ForgetDesync
     ELSE new_report' = TRUE /\ UNCHANGED <<idle_timer, idle_reports>>
  /\ UNCHANGED <<engineVars, progress, poll_due, spindle_stop_sent, pc, call,
                 held, link, presses>>

\* A failed job ignores every later reply; an active one fails.
PollFailure ==
  /\ TakeReply({"error", "ALARM", "banner", "Alarm"})
  /\ LET kind == Head(replies).k IN
     /\ IF kind = "Alarm"
        THEN /\ ObserveStatus(kind)
             /\ job_report' = TRUE
             /\ idle_baseline' = IF idle_baseline = "none" THEN "none" ELSE "fresh"
        ELSE /\ session_state' =
                  IF kind = "ALARM" THEN "Alarm"
                  ELSE IF kind = "banner" /\ session_state = "WaitingForBanner"
                       THEN "Validating" ELSE session_state
             /\ UNCHANGED <<last_status, status_wait, job_report, idle_baseline>>
     /\ IF failed
        THEN /\ IF kind = "Alarm" THEN ForgetDesync ELSE UNCHANGED desyncVars
             /\ UNCHANGED <<failed, progress, pc, held>>
        ELSE /\ Fail
             /\ new_report' = (new_report \/ kind = "Alarm")
             /\ UNCHANGED <<idle_timer, idle_reports>>
             /\ LeaveFailed
  /\ UNCHANGED <<next_index, bytes_in_flight, sent_commands, paused, cancelled,
                 poll_due, spindle_stop_sent, call, link, presses>>

PollDone ==
  /\ pc = "poll"
  /\ link
  /\ replies = <<>>
  /\ pc' = "send"
  /\ UNCHANGED <<ctlVars, engineVars, progress, sessionVars, desyncVars, jobVars,
                 call, held, link, presses>>

-----------------------------------------------------------------------------
(* StreamingEngine::send_tick                                              *)

\* Mutated: a pause does not stop the stream.
BugQuietUnpaused == cancelled \/ failed

Quiet == paused \/ cancelled \/ failed

\* Mutated: the acknowledgement of a coolant line does not lift its barrier.
BugCoolantForever == next_index \in AirAssist

AwaitsCoolantAck ==
  sent_commands # <<>> /\ sent_commands[Len(sent_commands)] \in AirAssist

\* Mutated: the newline is not counted (the full 128 bytes are used).
BugWindowOffByOne ==
  \/ Quiet
  \/ AwaitsCoolantAck
  \/ all_sent
  \/ ~all_sent /\ bytes_in_flight + Size(next_index + 1) - 1 > GRBL_RX_BUFFER_SIZE

\* The conditions that end the send loop before line next_index + 1.
Blocked ==
  \/ Quiet
  \/ AwaitsCoolantAck
  \/ all_sent
  \/ /\ ~all_sent
     /\ \/ Synchronous /\ bytes_in_flight > 0
        \/ next_index + 1 \in AirAssist /\ bytes_in_flight > 0
        \/ bytes_in_flight + Size(next_index + 1) > GRBL_RX_BUFFER_SIZE

SendLine ==
  /\ pc = "send"
  /\ link
  /\ ~Blocked
  /\ wire' = Append(wire, [k |-> "line", n |-> next_index + 1])
  /\ bytes_in_flight' = bytes_in_flight + Size(next_index + 1)
  /\ sent_commands' = Append(sent_commands, next_index + 1)
  /\ next_index' = next_index + 1
  /\ UNCHANGEDController
  /\ UNCHANGED <<paused, cancelled, failed, progress, sessionVars, desyncVars,
                 jobVars, pc, call, held, link, presses>>

\* The spool file cannot be read back: the engine fails before the window is
\* looked at.
SpoolFails ==
  /\ pc = "send"
  /\ ~(Quiet \/ AwaitsCoolantAck \/ all_sent)
  /\ ~(Synchronous /\ bytes_in_flight > 0)
  /\ Fault("spool")
  /\ Fail
  /\ pc' = "release"
  /\ UNCHANGED <<wire, replies, received, consumed, planner, executed, mode,
                 busy, asked, dark, alive>>
  /\ UNCHANGED <<next_index, bytes_in_flight, sent_commands, paused, cancelled,
                 sessionVars, desyncVars, jobVars, call, held, link, presses>>

\* start has nothing more to do; the service installs the job.
SendDone ==
  /\ pc = "send"
  /\ Blocked
  /\ IF call = "start" THEN pc' = "idle" /\ held' = TRUE
     ELSE pc' = "query" /\ UNCHANGED held
  /\ UNCHANGED <<ctlVars, engineVars, progress, sessionVars, desyncVars, jobVars,
                 call, link, presses>>

-----------------------------------------------------------------------------
(* The rest of JobController::tick.                                        *)

QueryStatus ==
  /\ pc = "query"
  /\ IF poll_due
     THEN /\ link
          /\ Write("?")
          /\ status_wait' = IF status_wait = "none" THEN "waiting" ELSE status_wait
          /\ UNCHANGEDController
     ELSE UNCHANGED <<ctlVars, status_wait>>
  /\ poll_due' = FALSE
  /\ pc' = "spindle"
  /\ UNCHANGED <<engineVars, progress, session_state, last_status, desyncVars,
                 job_report, idle_baseline, spindle_stop_sent, call, held, link, presses>>

\* Mutated: silence is never noticed.
BugNeverSilent == FALSE

Silent == status_wait = "expired" /\ ~homing_in_flight

FailSilent ==
  /\ pc = "spindle"
  /\ Silent
  /\ Fail
  /\ UNCHANGED session_state
  /\ LeaveFailed
  /\ UNCHANGED <<ctlVars, next_index, bytes_in_flight, sent_commands, paused,
                 cancelled, last_status, status_wait, desyncVars, jobVars, call,
                 link, presses>>

\* The last report is a Hold with the output on.
OutputHeld == paused /\ ~spindle_stop_sent /\ SpindleMode /\ last_status = "Hold"

\* stop_spindle_mode_output_when_held
SpindleStop ==
  /\ pc = "spindle"
  /\ ~Silent
  /\ IF OutputHeld
     THEN /\ link
          /\ Write("spindle_stop")
          /\ spindle_stop_sent' = TRUE
          /\ UNCHANGEDController
     ELSE UNCHANGED <<ctlVars, spindle_stop_sent>>
  /\ pc' = "check"
  /\ UNCHANGED <<engineVars, progress, sessionVars, desyncVars, job_report,
                 idle_baseline, poll_due, call, held, link, presses>>

\* A read or a write that fails ends the operation with an error.  The service
\* treats it as fatal, or, when the job has failed already, as that failure.
TransportError ==
  /\ ~link
  /\ \/ pc = "poll"
     \/ pc = "send" /\ ~Blocked
     \/ pc = "query" /\ poll_due
     \/ pc = "spindle" /\ ~Silent /\ OutputHeld
  /\ IF progress = "Failed" /\ session_state \notin {"Running", "Paused"}
     THEN pc' = "idle" /\ held' = FALSE
     ELSE pc' = "release" /\ UNCHANGED held
  /\ UNCHANGED <<ctlVars, engineVars, progress, sessionVars, desyncVars, jobVars,
                 call, link, presses>>

IdleUnacknowledged ==
  /\ job_report
  /\ ~all_acknowledged
  /\ bytes_in_flight > 0
  /\ last_status = "Idle"

\* idle_ack_desync_reports, and the timer, after this tick's report is counted.
CountedReports ==
  IF new_report /\ idle_reports < IdleLimit THEN idle_reports + 1 ELSE idle_reports
CountedTimer ==
  IF new_report /\ idle_timer = "none" THEN "running" ELSE idle_timer
\* Mutated: a delay is not exempt from the idle check.
BugNoDelayExemption == FALSE

InDelay == pending_dwell /\ CountedTimer = "running"

\* fail_if_idle_with_unacknowledged_bytes decides to fail.
FailDesync ==
  /\ pc = "check"
  /\ IdleUnacknowledged
  /\ ~InDelay
  /\ CountedReports >= IdleLimit
  /\ Fail
  /\ idle_reports' = CountedReports
  /\ idle_timer' = CountedTimer
  /\ new_report' = FALSE
  /\ UNCHANGED session_state
  /\ LeaveFailed
  /\ UNCHANGED <<ctlVars, next_index, bytes_in_flight, sent_commands, paused,
                 cancelled, last_status, status_wait, jobVars, call, link, presses>>

\* Mutated: any Idle counts, the one from before the last acknowledgement too.
BugStaleIdleCompletes ==
  all_acknowledged /\ ~failed /\ ~cancelled /\ last_status = "Idle"

\* The tick ends: it may take the completion baseline, and it completes the
\* job once an Idle report came after that baseline.
Completes ==
  /\ all_acknowledged
  /\ ~failed
  /\ ~cancelled
  /\ idle_baseline = "fresh"
  /\ last_status = "Idle"

TickEnd ==
  /\ pc = "check"
  /\ ~(IdleUnacknowledged /\ ~InDelay /\ CountedReports >= IdleLimit)
  /\ IF IdleUnacknowledged
     THEN /\ idle_reports' = IF InDelay THEN 0 ELSE CountedReports
          /\ idle_timer' = CountedTimer
          /\ new_report' = FALSE
     ELSE ForgetDesync
  /\ idle_baseline' =
       IF all_acknowledged /\ ~failed /\ ~cancelled /\ idle_baseline = "none"
       THEN "armed" ELSE idle_baseline
  /\ IF Completes
     THEN /\ progress' = "Completed"
          /\ Transition("Ready")
          /\ IF CanTransition("Ready") THEN pc' = "idle" /\ held' = FALSE
             ELSE pc' = "release" /\ UNCHANGED held
     ELSE IF progress = "Failed"
     THEN UNCHANGED <<progress, session_state>> /\ LeaveFailed
     ELSE pc' = "idle" /\ UNCHANGED <<progress, session_state, held>>
  /\ UNCHANGED <<ctlVars, engineVars, last_status, status_wait, job_report,
                 poll_due, spindle_stop_sent, call, link, presses>>

-----------------------------------------------------------------------------
(* pause, resume and cancel, each under the locks: they run between ticks. *)

Press ==
  /\ pc = "idle"
  /\ held
  /\ presses < MaxPresses
  /\ presses' = presses + 1

\* The hold byte is written first; a session that cannot be Paused then makes
\* pause return an error with the engine paused.
Pause ==
  /\ Press
  /\ IF link
     THEN /\ Write("!")
          /\ UNCHANGEDController
          /\ paused' = TRUE
          /\ spindle_stop_sent' = FALSE
          /\ Transition("Paused")
          /\ progress' = IF CanTransition("Paused") THEN "Paused" ELSE progress
          /\ UNCHANGED failed
     ELSE /\ Fail
          /\ UNCHANGED <<ctlVars, paused, spindle_stop_sent, session_state>>
  /\ UNCHANGED <<next_index, bytes_in_flight, sent_commands, cancelled,
                 last_status, status_wait, desyncVars, job_report, idle_baseline,
                 poll_due, pc, call, held, link>>

\* Without a link cycle_start fails and nothing changes.
Resume ==
  /\ Press
  /\ link
  /\ Write("~")
  /\ UNCHANGEDController
  /\ Transition("Running")
  /\ IF CanTransition("Running")
     THEN /\ paused' = FALSE
          /\ spindle_stop_sent' = FALSE
          /\ progress' = "Running"
     ELSE UNCHANGED <<paused, spindle_stop_sent, progress>>
  /\ UNCHANGED <<next_index, bytes_in_flight, sent_commands, cancelled, failed,
                 last_status, status_wait, desyncVars, job_report, idle_baseline,
                 poll_due, pc, call, held, link>>

\* The service confirms a cancel with a second reset.  A cancel whose reset
\* cannot be written leaves the engine cancelled and the job in place.
Cancel ==
  /\ Press
  /\ cancelled' = TRUE
  /\ IF link
     THEN /\ wire' = wire \o <<[k |-> "ctrl-x", n |-> next_index],
                               [k |-> "m5", n |-> next_index],
                               [k |-> "ctrl-x", n |-> next_index]>>
          /\ UNCHANGEDController
          /\ session_state' = "WaitingForBanner"
          /\ status_wait' = "none"
          /\ progress' = "Cancelled"
          /\ held' = FALSE
     ELSE UNCHANGED <<ctlVars, session_state, status_wait, progress, held>>
  /\ UNCHANGED <<next_index, bytes_in_flight, sent_commands, paused, failed,
                 last_status, desyncVars, jobVars, pc, call, link>>

\* drop_stale_machine_session: reset, M5, close; then the job is dropped.
Release ==
  /\ pc = "release"
  /\ IF link
     THEN /\ wire' = wire \o <<[k |-> "ctrl-x", n |-> next_index],
                               [k |-> "m5", n |-> next_index]>>
          /\ UNCHANGEDController
     ELSE UNCHANGED ctlVars
  /\ session_state' = "Disconnected"
  /\ status_wait' = "none"
  /\ held' = FALSE
  /\ pc' = "idle"
  /\ UNCHANGED <<engineVars, progress, last_status, desyncVars, jobVars, call,
                 link, presses>>

-----------------------------------------------------------------------------
(* The clock, and the faults of the transport.                             *)

\* The next query is due 200 ms after the last one.  The wire is emptied within
\* that time: a full window takes 11 ms at 115200 baud.
PollDue ==
  /\ pc = "idle" /\ held
  /\ ~poll_due
  /\ wire = <<>>
  /\ poll_due' = TRUE
  /\ UNCHANGED <<ctlVars, engineVars, progress, sessionVars, desyncVars,
                 job_report, idle_baseline, spindle_stop_sent, pc, call, held,
                 link, presses>>

\* Only a firmware that is dead or homing leaves a query open for 15 seconds.
StatusTimeout ==
  /\ status_wait = "waiting"
  /\ ~alive \/ busy \in Homing
  /\ status_wait' = "expired"
  /\ UNCHANGED <<ctlVars, engineVars, progress, session_state, last_status,
                 desyncVars, jobVars, pc, call, held, link, presses>>

\* A delay counted from an Idle report seen during it does not elapse before
\* the firmware has finished it.
DelayElapses ==
  /\ idle_timer = "running"
  /\ pending_dwell => (~alive \/ consumed >= Head(sent_commands))
  /\ idle_timer' = "elapsed"
  /\ UNCHANGED <<ctlVars, engineVars, progress, sessionVars, new_report,
                 idle_reports, jobVars, pc, call, held, link, presses>>

\* A port that is gone stays gone until the next connect.
BreakLink ==
  /\ Fault("link")
  /\ link
  /\ link' = FALSE
  /\ UNCHANGED <<wire, replies, received, consumed, planner, executed, mode,
                 busy, asked, dark, alive>>
  /\ UNCHANGED <<engineVars, progress, sessionVars, desyncVars, jobVars, pc, call,
                 held, presses>>

-----------------------------------------------------------------------------
Poll == PollOk \/ PollStatus \/ PollFailure \/ PollDone
Send == SendLine \/ SendDone
Finish == QueryStatus \/ FailSilent \/ SpindleStop \/ FailDesync \/ TickEnd
Tick == TickBegin \/ Poll \/ Send \/ Finish \/ TransportError \/ Release
User == Pause \/ Resume \/ Cancel
Clock == PollDue \/ StatusTimeout \/ DelayElapses
HostFault == SpoolFails \/ BreakLink

Controller == ControllerNext /\ UNCHANGED hostVars

\* The service dropped the job: the host is done with it.
Finished == ~held /\ pc = "idle" /\ progress # "Preparing" /\ UNCHANGED vars

Next ==
  \/ Start \/ Tick \/ User \/ Clock \/ HostFault \/ Controller \/ Finished

Spec == Init /\ [][Next]_vars

\* A job that starts while the answer to a command written just before it (the
\* M5 of the test fire that start_job stops) is still unread: nothing on the way
\* to JobController::start reads it.
StrayInit == AtRest /\ HostInit /\ replies = <<[k |-> "ok", n |-> 0]>>

StraySpec == StrayInit /\ [][Next]_vars

\* The tick loop is a thread that ticks the job every 5 ms as long as the
\* service holds it; time passes; a firmware that is alive makes progress.
Fairness ==
  /\ WF_vars(Tick)
  /\ SF_vars(PollDue)
  /\ WF_vars(StatusTimeout \/ DelayElapses)
  /\ WF_vars(Deliver /\ UNCHANGED hostVars)
  /\ WF_vars(Work /\ UNCHANGED hostVars)
  /\ WF_vars(Report /\ UNCHANGED hostVars)

FairSpec == Spec /\ Fairness

-----------------------------------------------------------------------------
(* Properties.                                                             *)

\* The firmware's receive buffer never holds more than it can: the account in
\* send_tick leaves room for every byte already on the wire.
NoOverflow == RxBytes <= RxSize

\* The engine's account of the stream.  A job the service still works on, or has
\* yet to start, is Attended.  AckPoint lines were acknowledged; the ones in
\* flight are those after it, byte for byte; and what the firmware has not
\* consumed fits the window however late the acknowledgements are.
Attended == held \/ pc # "idle" \/ progress = "Preparing"

AckPoint == next_index - Len(sent_commands)

AccountExact ==
  /\ AckPoint \in Nat
  /\ \A p \in DOMAIN sent_commands : sent_commands[p] = AckPoint + p
  /\ bytes_in_flight = Offset[next_index] - Offset[AckPoint]

WireSorted ==
  /\ consumed <= received
  /\ received <= next_index
  /\ \A p \in DOMAIN wire : received <= wire[p].n /\ wire[p].n <= next_index
  /\ \A p, q \in DOMAIN wire : p < q => wire[p].n <= wire[q].n

OksSorted ==
  /\ AckPoint <= consumed
  /\ \A p \in DOMAIN replies :
       replies[p].k = "ok" => AckPoint < replies[p].n /\ replies[p].n <= consumed
  /\ \A p, q \in DOMAIN replies :
       p < q /\ replies[p].k = "ok" /\ replies[q].k = "ok"
         => replies[p].n < replies[q].n
  /\ \A p \in DOMAIN wire : wire[p].k # "m5"

StreamInv ==
  /\ AccountExact
  /\ WireSorted
  /\ Attended => OksSorted
  /\ held \/ pc # "idle" => progress # "Preparing"
  /\ Offset[next_index] - Offset[consumed] <= GRBL_RX_BUFFER_SIZE

\* Completed is reported only once the machine has executed every line, in
\* order, and has no motion left: an `ok' only means a line was buffered.
CompletedMeansExecuted ==
  progress = "Completed" => planner = <<>> /\ executed = [i \in Line |-> i]

\* With a controller and a link that work, no interleaving of delays, pauses,
\* stale reports and slow acknowledgements makes the job fail.
HealthyJobNeverFails == faults = 0 => ~failed

\* A coolant line is alone in flight: nothing is put on the wire behind it or
\* before it until it is acknowledged.
CoolantAlone ==
  \A p \in DOMAIN sent_commands :
    sent_commands[p] \in AirAssist => Len(sent_commands) = 1

\* A failed engine is always reported as a failed (or since cancelled) job, so
\* the service releases the controller.
FailureReported == failed => progress \in {"Failed", "Cancelled"}

\* In spindle mode the output of a held machine, once stopped, is not turned on
\* again before cycle start (the override byte is a toggle).
PausedOutputStaysOff == [][dark /\ mode' = "Hold" => dark']_vars

\* A running job never hangs: it is paused, or the service is done with it.
JobEnds == held ~> (~held \/ paused)

\* A job on a working controller that nobody pauses or cancels completes.
HealthyJobCompletes ==
  progress = "Running" ~>
    (progress = "Completed" \/ paused \/ cancelled \/ faults > 0)

\* The abstract job: phase, lines handed over, lines executed.
Promise == INSTANCE JobPromise
  WITH phase <- progress, handed <- next_index, done <- executed

PromiseSpec == Promise!Spec
=============================================================================
