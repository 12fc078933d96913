---------------------------- MODULE AckSession -----------------------------
(***************************************************************************)
(* The acknowledged G-code drivers: AcknowledgedLineFlow                   *)
(* (beambench-gcode/src/acknowledgement.rs), MarlinSerialSession           *)
(* (beambench-marlin/src/session.rs), SmoothiewareSerialSession            *)
(* (beambench-smoothieware/src/session.rs), their runtime jobs             *)
(* (beambench-service/src/runtime.rs) and the operations of the service    *)
(* that reach them.  One line is in flight at a time; a job is over when   *)
(* M400 has been answered; any fault ends in M112 and a reconnect.         *)
(*                                                                         *)
(* The probe and the tick read and write several times while the machine   *)
(* runs, so each is several steps, told apart by pc; the other operations  *)
(* write at most once and are one step each.  Both mutexes are held for    *)
(* the whole of an operation.                                              *)
(***************************************************************************)
EXTENDS LineController, FiniteSets

CONSTANTS
  Jobs,                \* command lists the planner may hand over
  MAX_LINES_PER_TICK,
  ConfigQueries,       \* LASER_CONFIGURATION_QUERIES of Smoothieware
  CleanReopen,         \* nothing is unread or unanswered when a port is opened
  MaxConnects, MaxStarts, MaxStops

ASSUME AckSessionAssumption ==
  /\ Jobs \subseteq Seq(JobLine)
  /\ MAX_LINES_PER_TICK \in Nat \ {0}
  /\ ConfigQueries \in Nat
  /\ CleanReopen \in BOOLEAN
  /\ {MaxConnects, MaxStarts, MaxStops} \subseteq Nat

VARIABLES
  state,      \* MarlinSessionState, SmoothiewareSessionState
  probe,      \* last_identity_probe: the outcome, and if an identity was seen
  flow,       \* job_flow
  outcome,    \* job_outcome
  job,        \* the service holds a job handle in state Running
  pc,         \* where the operation that holds the mutexes stands
  queries,    \* probe: commands yet to be answered
  sent,       \* tick: lines sent
  progressed, \* tick: this round of the pump did something
  expired,    \* the line in flight has had no activity for the whole timeout
  connects, starts, stops

sesVars == <<state, probe, flow, outcome, job, pc, queries, sent, progressed, expired>>
counts == <<connects, starts, stops>>
vars == <<ctlVars, sesVars, counts>>

Probe == [outcome : {"none", "succeeded", "failed"}, identified : BOOLEAN]
NoProbe == [outcome |-> "none", identified |-> FALSE]

\* job_flow when it is None: a job has at least the barrier.
NoFlow == [commands |-> <<>>, next_index |-> 0, acknowledged_lines |-> 0,
           in_flight |-> FALSE, cancelled |-> FALSE, failed |-> FALSE]

TypeOK ==
  /\ ControllerTypeOK
  /\ state \in {"Disconnected", "Validating", "Ready", "Running",
                "RecoveryRequired", "Error"}
  /\ probe \in Probe
  /\ flow \in [commands : Jobs \cup {<<>>}, next_index : Nat,
               acknowledged_lines : Nat, in_flight : BOOLEAN,
               cancelled : BOOLEAN, failed : BOOLEAN]
  /\ outcome \in {"none", "Completed", "CancelCommandSentRecoveryRequired",
                  "FailedRecoveryRequired"}
  /\ job \in BOOLEAN
  /\ pc \in {"idle", "probe", "send", "read"}
  /\ queries \in 0..(1 + ConfigQueries)
  /\ sent \in 0..MAX_LINES_PER_TICK
  /\ progressed \in BOOLEAN /\ expired \in BOOLEAN
  /\ connects \in 0..MaxConnects /\ starts \in 0..MaxStarts /\ stops \in 0..MaxStops

Init ==
  /\ ControllerInit
  /\ state = "Disconnected"
  /\ probe = NoProbe
  /\ flow = NoFlow
  /\ outcome = "none"
  /\ job = FALSE
  /\ pc = "idle"
  /\ queries = 0 /\ sent = 0
  /\ progressed = FALSE /\ expired = FALSE
  /\ connects = 0 /\ starts = 0 /\ stops = 0

-----------------------------------------------------------------------------
(* The flow. *)

Total == Len(flow.commands)
Active == ~flow.cancelled /\ ~flow.failed
\* Mutated: the next line does not wait for the answer to the last one.
BugNoWait == Active /\ flow.next_index < Total

LineReady == Active /\ ~flow.in_flight /\ flow.next_index < Total
\* Mutated: a job is complete when its last line was sent.
BugCompleteWhenSent == Active /\ flow.next_index = Total

IsComplete == Active /\ ~flow.in_flight /\ flow.acknowledged_lines = Total

NewFlow(commands) == [NoFlow EXCEPT !.commands = commands]
MarkSent == [flow EXCEPT !.next_index = @ + 1, !.in_flight = TRUE]
Acknowledge == [flow EXCEPT !.in_flight = FALSE, !.acknowledged_lines = @ + 1]
Failed == [flow EXCEPT !.failed = TRUE, !.in_flight = FALSE]
Cancelled(f) ==
  IF f = NoFlow THEN f ELSE [f EXCEPT !.cancelled = TRUE, !.in_flight = FALSE]

\* observe refuses the reply: an error, a resend, or an answer to nothing.
Rejects(reply) ==
  reply \in {"error", "resend"} \/ (reply = "ok" /\ ~flow.in_flight)

-----------------------------------------------------------------------------
(* The serial line. *)

Send(command) == to_ctl' = Append(to_ctl, command)

\* write_line, which fails on a broken link.
TrySend(command) == IF link = "up" THEN Send(command) ELSE UNCHANGED to_ctl

Read(reply) ==
  /\ link = "up"
  /\ from_ctl # <<>>
  /\ reply = Head(from_ctl)
  /\ from_ctl' = Tail(from_ctl)

NothingToRead == link = "up" /\ from_ctl = <<>>

-----------------------------------------------------------------------------
(* Connecting: connect, probe_identity, activate. *)

\* The port opens on a machine that restarts, or on one that carries on; one that
\* carries on has dealt with what it was sent, if the reopening is clean.
Connect ==
  /\ pc = "idle" /\ state = "Disconnected"
  /\ connects < MaxConnects
  /\ connects' = connects + 1
  /\ state' = "Validating"
  /\ probe' = NoProbe /\ flow' = NoFlow /\ outcome' = "none"
  /\ expired' = FALSE
  /\ link' = "up"
  /\ \/ /\ to_ctl' = <<>> /\ from_ctl' = <<>> /\ planner' = <<>>
        /\ beam' = FALSE /\ halted' = FALSE
     \/ /\ IF CleanReopen
           THEN (halted \/ to_ctl = <<>>) /\ to_ctl' = <<>> /\ from_ctl' = <<>>
           ELSE from_ctl' = <<>> /\ UNCHANGED to_ctl
        /\ UNCHANGED <<planner, beam, halted>>
  /\ UNCHANGED <<dialect, faults, job, pc, queries, sent, progressed, starts, stops>>

ConnectFails ==
  /\ pc = "idle" /\ state = "Disconnected"
  /\ connects < MaxConnects
  /\ connects' = connects + 1
  /\ Fault("link")
  /\ state' = "Error"
  /\ UNCHANGED <<dialect, wires, machine, link, probe, flow, outcome, job, pc, queries,
                 sent, progressed, expired, starts, stops>>

ProbeIdentity ==
  /\ pc = "idle" /\ state = "Validating" /\ probe = NoProbe
  /\ IF link = "up"
     THEN /\ Send("M115")
          /\ queries' = 1 + (IF dialect = "Smoothieware" THEN ConfigQueries ELSE 0)
          /\ pc' = "probe"
          /\ UNCHANGED state
     ELSE /\ state' = "Error"
          /\ UNCHANGED <<to_ctl, queries, pc>>
  /\ UNCHANGED <<dialect, from_ctl, machine, link, faults, probe, flow, outcome, job,
                 sent, progressed, expired, counts>>

\* The first command of the probe is M115, the ones after it are the queries.
IdentityQuery ==
  queries = 1 + (IF dialect = "Smoothieware" THEN ConfigQueries ELSE 0)

\* An M115 that is refused or not answered is a result; a query is an error.
EndProbe(result) ==
  /\ pc' = "idle"
  /\ queries' = 0
  /\ IF result = "failed" /\ ~IdentityQuery
     THEN state' = "Error" /\ UNCHANGED probe
     ELSE probe' = [probe EXCEPT !.outcome = result] /\ UNCHANGED state

ProbeRead ==
  /\ pc = "probe"
  /\ \E reply \in Reply :
       /\ Read(reply)
       /\ \/ /\ reply \in {"info", "busy"}
             /\ probe' = [probe EXCEPT !.identified = @ \/ reply = "info"]
             /\ UNCHANGED <<to_ctl, state, pc, queries>>
          \/ /\ reply \in {"error", "resend"}
             /\ EndProbe("failed")
             /\ UNCHANGED to_ctl
          \/ /\ reply = "ok"
             /\ queries = 1 \/ ~probe.identified
             /\ EndProbe("succeeded")
             /\ UNCHANGED to_ctl
          \/ /\ reply = "ok"
             /\ queries > 1 /\ probe.identified
             /\ queries' = queries - 1
             /\ Send("M115")
             /\ UNCHANGED <<state, pc, probe>>
  /\ UNCHANGED <<dialect, machine, link, faults, flow, outcome, job,
                 sent, progressed, expired, counts>>

\* No answer came in time, or the port is gone.
ProbeEnds ==
  /\ pc = "probe"
  /\ \/ /\ NothingToRead
        /\ EndProbe("failed")
     \/ /\ link = "down"
        /\ state' = "Error"
        /\ pc' = "idle" /\ queries' = 0
        /\ UNCHANGED probe
  /\ UNCHANGED <<dialect, wires, machine, link, faults, flow, outcome, job,
                 sent, progressed, expired, counts>>

\* Both dialects need the identity; generic Marlin its EMERGENCY_PARSER, which
\* the firmware here has.  A session that cannot be activated is dropped.
Activate ==
  /\ pc = "idle" /\ state = "Validating"
  /\ probe.outcome # "none"
  /\ IF probe.outcome = "succeeded" /\ probe.identified
     THEN state' = "Ready" /\ UNCHANGED <<probe, flow>>
     ELSE state' = "Disconnected" /\ probe' = NoProbe /\ flow' = NoFlow
  /\ UNCHANGED <<ctlVars, outcome, job, pc, queries, sent, progressed, expired, counts>>

-----------------------------------------------------------------------------
(* Jobs: start_job, tick, cancel_job. *)

\* validate_job_completion_contract.
Barrier(commands) ==
  commands # <<>> /\ commands[Len(commands)] = "M400"

OffIsFinal(commands) ==
  \E off \in 1..(Len(commands) - 1) :
    /\ commands[off] = "M5"
    /\ \A i \in (off + 1)..(Len(commands) - 1) : commands[i] # "M3"

Contract(commands) ==
  /\ Barrier(commands)
  /\ IF dialect = "Smoothieware"
     THEN \A i \in DOMAIN commands : commands[i] \notin {"G1bare", "fire"}
     ELSE OffIsFinal(commands)

\* Mutated: a session that needs a reconnect takes a job.
BugStartUnrecovered ==
  /\ pc = "idle" /\ state \in {"Ready", "RecoveryRequired"} /\ ~job
  /\ starts < MaxStarts
  /\ starts' = starts + 1
  /\ \E commands \in Jobs : flow' = NewFlow(commands)
  /\ outcome' = "none"
  /\ state' = "Running"
  /\ job' = TRUE
  /\ expired' = FALSE
  /\ UNCHANGED <<dialect, wires, machine, link, faults, probe, pc,
                 queries, sent, progressed, connects, stops>>

StartJob ==
  /\ pc = "idle" /\ state = "Ready" /\ ~job
  /\ starts < MaxStarts
  /\ starts' = starts + 1
  /\ \E commands \in Jobs :
       /\ Contract(commands)
       /\ flow' = NewFlow(commands)
  /\ outcome' = "none"
  /\ state' = "Running"
  /\ job' = TRUE
  /\ expired' = FALSE
  /\ UNCHANGED <<dialect, wires, machine, link, faults, probe, pc,
                 queries, sent, progressed, connects, stops>>

\* Mutated: a tick that fails does not halt the machine.
BugFailUnhalted(f) ==
  /\ flow' = Cancelled(f)
  /\ state' = "RecoveryRequired"
  /\ outcome' = "FailedRecoveryRequired"
  /\ pc' = "idle"
  /\ job' = FALSE
  /\ expired' = FALSE
  /\ UNCHANGED to_ctl

\* A tick that fails halts the machine, and the service drops the job.
FailTick(f) ==
  /\ flow' = Cancelled(f)
  /\ state' = "RecoveryRequired"
  /\ outcome' = "FailedRecoveryRequired"
  /\ TrySend("M112")
  /\ pc' = "idle"
  /\ job' = FALSE
  /\ expired' = FALSE

\* Mutated: the timeout is not looked at.
BugNoTimeout ==
  /\ pc = "idle" /\ job
  /\ sent' = 0
  /\ progressed' = FALSE
  /\ IF state # "Running"
     THEN job' = FALSE /\ UNCHANGED pc
     ELSE pc' = "send" /\ UNCHANGED job
  /\ UNCHANGED <<ctlVars, state, flow, outcome, expired, probe, queries, counts>>

\* The timeout is looked at before anything is read.  A tick of a session that
\* no longer runs fails at once and leaves the session as it is.
TickBegins ==
  /\ pc = "idle" /\ job
  /\ sent' = 0
  /\ progressed' = FALSE
  /\ IF state # "Running"
     THEN job' = FALSE /\ UNCHANGED <<to_ctl, state, flow, outcome, pc, expired>>
     ELSE IF expired
     THEN FailTick(Failed)
     ELSE pc' = "send" /\ UNCHANGED <<to_ctl, state, flow, outcome, job, expired>>
  /\ UNCHANGED <<dialect, from_ctl, machine, link, faults, probe, queries, counts>>

Sends == sent < MAX_LINES_PER_TICK /\ LineReady

TickSends ==
  /\ pc = "send"
  /\ IF Sends /\ link = "down"
     THEN FailTick(flow) /\ UNCHANGED <<sent, progressed>>
     ELSE /\ pc' = "read"
          /\ progressed' = Sends
          /\ IF Sends
             THEN /\ Send(flow.commands[flow.next_index + 1])
                  /\ flow' = MarkSent
                  /\ sent' = sent + 1
                  /\ expired' = FALSE
             ELSE UNCHANGED <<to_ctl, flow, sent, expired>>
          /\ UNCHANGED <<state, outcome, job>>
  /\ UNCHANGED <<dialect, from_ctl, machine, link, faults, probe, queries, counts>>

TickReads ==
  /\ pc = "read"
  /\ \E reply \in Reply :
       /\ Read(reply)
       /\ IF Rejects(reply)
          THEN FailTick(Failed) /\ UNCHANGED progressed
          ELSE /\ flow' = IF reply = "ok" THEN Acknowledge ELSE flow
               /\ expired' = (expired /\ reply \notin {"ok", "busy"})
               /\ progressed' = TRUE
               /\ UNCHANGED <<to_ctl, state, outcome, pc, job>>
  /\ UNCHANGED <<dialect, machine, link, faults, probe, queries, sent, counts>>

TickCannotRead ==
  /\ pc = "read" /\ link = "down"
  /\ FailTick(flow)
  /\ UNCHANGED <<dialect, from_ctl, machine, link, faults, probe, queries, sent,
                 progressed, counts>>

\* Nothing is left to read: another round, or the end of the tick.
TickTurns ==
  /\ pc = "read" /\ NothingToRead
  /\ IF progressed /\ ~IsComplete
     THEN pc' = "send" /\ UNCHANGED <<state, outcome, job>>
     ELSE /\ pc' = "idle"
          /\ IF IsComplete
             THEN state' = "Ready" /\ outcome' = "Completed" /\ job' = FALSE
             ELSE UNCHANGED <<state, outcome, job>>
  /\ UNCHANGED <<ctlVars, probe, flow, queries, sent, progressed, expired, counts>>

-----------------------------------------------------------------------------
(* Stops: emergency_shutdown, reached from the service in three ways. *)

Stop ==
  /\ pc = "idle"
  /\ stops < MaxStops
  /\ stops' = stops + 1
  /\ UNCHANGED <<connects, starts>>

\* What emergency_shutdown leaves behind where its state allows it.
ShutDown ==
  /\ state \in {"Ready", "Running", "RecoveryRequired"}
  /\ TrySend("M112")
  /\ flow' = Cancelled(flow)
  /\ expired' = FALSE
  /\ outcome' = IF link = "up" THEN "CancelCommandSentRecoveryRequired"
                               ELSE "FailedRecoveryRequired"

\* cancel_job keeps the job when the halt could not be written or the session
\* does not run: the next tick reports the failure.
CancelJob ==
  /\ Stop
  /\ job
  /\ IF state = "Running"
     THEN /\ ShutDown
          /\ state' = "RecoveryRequired"
          /\ job' = (link = "down")
     ELSE UNCHANGED <<to_ctl, flow, expired, outcome, state, job>>
  /\ UNCHANGED <<dialect, from_ctl, machine, link, faults, probe, pc, queries, sent,
                 progressed>>

\* Emergency Stop drops the session whose halt could not be written, and the
\* job always.
EmergencyStop ==
  /\ Stop
  /\ state \notin {"Disconnected", "Validating", "Error"}
  /\ ShutDown
  /\ state' = IF link = "up" THEN "RecoveryRequired" ELSE "Disconnected"
  /\ probe' = IF link = "up" THEN probe ELSE NoProbe
  /\ job' = FALSE
  /\ UNCHANGED <<dialect, from_ctl, machine, link, faults, pc, queries, sent, progressed>>

\* The service halts a machine with a job before it closes the port.
Disconnect ==
  /\ pc = "idle"
  /\ state \in {"Ready", "Running", "RecoveryRequired"}
  /\ IF job THEN ShutDown ELSE UNCHANGED <<to_ctl, outcome, expired>>
  /\ state' = "Disconnected"
  /\ probe' = NoProbe /\ flow' = NoFlow
  /\ job' = FALSE
  /\ UNCHANGED <<dialect, from_ctl, machine, link, faults, pc, queries, sent,
                 progressed, counts>>

\* A session that could not be validated.
DropFailedConnection ==
  /\ pc = "idle" /\ state = "Error"
  /\ state' = "Disconnected"
  /\ UNCHANGED <<ctlVars, probe, flow, outcome, job, pc, queries, sent, progressed,
                 expired, counts>>

-----------------------------------------------------------------------------
(* Time. *)

\* The acknowledgement timeout passes without activity: the reply was lost or the
\* firmware is dead, or it waits for the planner and cannot say so.
Expire ==
  /\ state = "Running"
  /\ flow.in_flight
  /\ ~expired
  /\ from_ctl = <<>>
  /\ to_ctl = <<>> \/ halted \/ (dialect = "Smoothieware" /\ ~CanTake)
  /\ expired' = TRUE
  /\ UNCHANGED <<ctlVars, state, probe, flow, outcome, job, pc, queries, sent,
                 progressed, counts>>

ConnectionStep ==
  Connect \/ ConnectFails \/ ProbeIdentity \/ ProbeRead \/ ProbeEnds
    \/ Activate \/ DropFailedConnection

TickStep == TickBegins \/ TickSends \/ TickReads \/ TickCannotRead \/ TickTurns

StopStep == CancelJob \/ EmergencyStop \/ Disconnect

MachineStep == ControllerStep /\ UNCHANGED <<sesVars, counts>>

\* Everything the bounds allow has happened.
Quiescent ==
  /\ state = "Disconnected" /\ connects = MaxConnects
  /\ UNCHANGED vars

Next ==
  \/ ConnectionStep \/ StartJob \/ TickStep \/ StopStep
  \/ MachineStep
  \/ Expire
  \/ Quiescent

Spec == Init /\ [][Next]_vars

\* The tick loop keeps ticking a job, time passes, and a firmware that is not
\* halted takes its input and moves.
FairSpec ==
  /\ Spec
  /\ WF_vars(TickStep)
  /\ WF_vars(Expire)
  /\ WF_vars(Take /\ UNCHANGED <<sesVars, counts>>)
  /\ WF_vars(Execute /\ UNCHANGED <<sesVars, counts>>)

-----------------------------------------------------------------------------
(* Properties. *)

\* What is still to be answered, and the answers still to be read: where they stand.
Answer == {"ok", "error", "resend"}
Due == {<<"command", i>> : i \in {j \in DOMAIN to_ctl : to_ctl[j] # "M112"}}
         \cup {<<"answer", i>> : i \in {j \in DOMAIN from_ctl : from_ctl[j] \in Answer}}

\* The flow's account of the wire is exact: while a job runs there is an answer
\* still to come only for the line in flight, and between jobs for nothing.  An
\* answer too many would acknowledge each line one line early, for every job of
\* the connection (AcknowledgedLineFlow::observe).
OneUnanswered ==
  /\ state = "Running" => /\ \A a, b \in Due : a = b
                          /\ Due # {} => flow.in_flight
  /\ state = "Ready" => Due = {}

\* A job is reported as completed only when the machine has executed all of it
\* and the laser is off: the last answer is M400's, and validate_job_completion_
\* contract has seen to the laser.
CompletedMeansDone ==
  outcome = "Completed" /\ state = "Ready" =>
    /\ flow.next_index = Total
    /\ to_ctl = <<>> /\ planner = <<>>
    /\ ~beam

\* A session that requires recovery has halted its machine, or tried to over a
\* broken link: whichever way the job failed or was stopped, motion that was
\* acknowledged does not go on (tick and emergency_shutdown).
RecoveryIsHalted ==
  state = "RecoveryRequired" =>
    \/ halted
    \/ \E i \in DOMAIN to_ctl : to_ctl[i] = "M112"
    \/ link = "down"

\* Behind a halt there is no line of a job on the wire, also when the line before
\* it is still unanswered and when its answer arrives afterwards.
NothingFollowsHalt ==
  \A i, j \in DOMAIN to_ctl : i < j /\ to_ctl[i] = "M112" => to_ctl[j] \notin JobLine

\* The session is closed on a running job only after the halt was attempted, so
\* that closing the port never passes for a stop.
CloseIsNotStop ==
  [][state = "Running" /\ state' = "Disconnected" => outcome' # "none"]_vars

\* Every job ends, whatever is lost: the service is never left with a job that
\* waits for an answer that cannot come.
JobEnds == job ~> ~job
=============================================================================
