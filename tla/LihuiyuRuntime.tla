--------------------------- MODULE LihuiyuRuntime ---------------------------
(***************************************************************************)
(* The Lihuiyu driver: LihuiyuTransport (beambench-lihuiyu/src/            *)
(* transport.rs), LihuiyuRuntime (runtime.rs) and the session and job of   *)
(* the service above it (beambench-service/src/lihuiyu_runtime.rs), with   *)
(* the repository's virtual controller.                                    *)
(*                                                                         *)
(* The controller says nothing unasked: the driver writes a packet when a  *)
(* status it read says Ready, and reads statuses until one says what       *)
(* became of it.  Each of these is a step, for the machine goes on between *)
(* them; an operation holds the session from its first step to its last,   *)
(* except that an upload lets go of it after every few reads.              *)
(***************************************************************************)
EXTENDS Naturals, Sequences

CONSTANTS
  Packets,                     \* packets of a job
  UsesBeam,                    \* does the beam burn in a job? a frame's may not
  checksum_attempts,           \* LihuiyuTransferConfig
  TRANSFER_POLLS_PER_ADVANCE,
  Faults, MaxFaults,           \* what may go wrong, or take longer, and how often
  MaxStarts, MaxPresses, MaxMoves

ASSUME LihuiyuRuntimeAssumption ==
  /\ {Packets, checksum_attempts, TRANSFER_POLLS_PER_ADVANCE} \subseteq Nat \ {0}
  /\ UsesBeam \subseteq BOOLEAN
  /\ Faults \subseteq {"checksum", "write", "read", "timeout", "Busy", "again",
                   "Power", "Unknown"}
  /\ {MaxFaults, MaxStarts, MaxPresses, MaxMoves} \subseteq Nat

VARIABLES
  (* the controller *)
  accepted,     \* packets of the last job it has taken
  running, paused,
  status_queue,
  ran,          \* it has run the last job whole
  faults,
  (* the session and its job *)
  conn,
  phase, owned_output_unresolved,
  active_transfer,
  job,          \* the state of the job the service holds
  op,           \* the operation that holds the session
  starts, presses, moves

ctlVars == <<accepted, running, paused, status_queue, ran>>
rtVars == <<phase, owned_output_unresolved, active_transfer>>
counts == <<starts, presses, moves>>
vars == <<ctlVars, faults, conn, rtVars, job, op, counts>>

\* "disconnect" drops the session after a stop, and so does "lost", of an idle one.
Drops == {"disconnect", "lost"}
Stops == {"cancel", "stop"} \cup Drops
Moves == {"home", "unlock", "jog"}
IdlePhases == {"Ready", "Completed", "Stopped"}
\* Nothing is sent any more.
Unstoppable == {"RecoveryRequired", "PowerFault"}

\* A transfer: packets acknowledged, sends of the next one, if that waits for its
\* acknowledgement, and if a terminal status was read before it and since.
NoTransfer == [index |-> 0, attempt |-> 0, awaiting_ack |-> FALSE,
               observed_preflight_terminal |-> FALSE, pending_ack_terminal |-> FALSE]
NewTransfer == [NoTransfer EXCEPT !.attempt = 1]
\* An operation: what it waits for, its sends (an idle poll's reads), if it read a
\* terminal status before a send and after the last one, the statuses it has read.
NoOp == [kind |-> "none", part |-> "none", attempt |-> 0, polls |-> 0,
         preflight_terminal |-> FALSE, ack_terminal |-> FALSE]

TypeOK ==
  /\ accepted \in Seq(1..Packets)
  /\ running \in BOOLEAN /\ paused \in BOOLEAN /\ ran \in BOOLEAN
  /\ status_queue \in Seq({"Busy", "Ready", "Finished", "ChecksumError"})
  /\ faults \in 0..MaxFaults
  /\ conn \in BOOLEAN
  /\ phase \in IdlePhases \cup {"Disconnected", "Transferring", "Running", "Paused",
                                "PowerFault", "RecoveryRequired"}
  /\ owned_output_unresolved \in BOOLEAN
  /\ active_transfer.index \in 0..(Packets - 1)
  /\ active_transfer.attempt \in 0..checksum_attempts
  /\ phase = "Transferring" <=> active_transfer # NoTransfer
  /\ job \in {"none", "Preparing", "Running", "Paused"}
  /\ op.kind \in {"none", "advance", "poll", "refresh", "pause", "resume"} \cup Stops \cup Moves
  /\ op.part \in {"none", "ready", "write", "ack", "poll"}
  /\ op.attempt \in 0..checksum_attempts + 2
  /\ op.polls \in 0..TRANSFER_POLLS_PER_ADVANCE
  /\ conn <=> phase # "Disconnected"
  /\ job # "none" \/ op # NoOp => conn
  /\ starts \in 0..MaxStarts /\ presses \in 0..MaxPresses /\ moves \in 0..MaxMoves

Init ==
  /\ accepted = <<>> /\ running = FALSE /\ paused = FALSE
  /\ status_queue = <<>> /\ ran = FALSE /\ faults = 0
  /\ conn = FALSE /\ phase = "Disconnected"
  /\ owned_output_unresolved = FALSE
  /\ active_transfer = NoTransfer
  /\ job = "none" /\ op = NoOp
  /\ starts = 0 /\ presses = 0 /\ moves = 0

-----------------------------------------------------------------------------
(* The controller: LihuiyuVirtualController.                               *)

Fault(kind) ==
  /\ kind \in Faults /\ faults < MaxFaults
  /\ faults' = faults + 1

Answers(statuses) == status_queue' = status_queue \o statuses

\* It accepts a packet of a job, or a command.
Accepts == Answers(<<"Busy", "Ready">>) /\ UNCHANGED ran

AcceptsPacket(i) ==
  /\ accepted' = Append(accepted, i)
  /\ running' = TRUE
  /\ Accepts /\ UNCHANGED paused

AcceptsCommand(kind) ==
  /\ CASE kind \in {"pause", "resume"} ->
             paused' = ~paused /\ UNCHANGED <<accepted, running>>
       [] kind = "unlock" ->
             UNCHANGED <<accepted, running, paused>>
       [] OTHER ->
             accepted' = <<>> /\ running' = FALSE /\ paused' = FALSE
  /\ Accepts

\* complete_job, once the end of the job has arrived and nothing holds it.  What ended is
\* said once, or again to whoever asks next.
CompleteJob ==
  /\ running /\ ~paused
  /\ accepted # <<>> /\ accepted[Len(accepted)] = Packets
  /\ running' = FALSE
  /\ ran' = (accepted = [i \in 1..Packets |-> i])
  /\ \/ Answers(<<"Finished">>) /\ UNCHANGED faults
     \/ Answers(<<"Finished", "Finished">>) /\ Fault("again")
  /\ UNCHANGED <<accepted, paused, conn, rtVars, job, op, counts>>

-----------------------------------------------------------------------------
(* A status is read.  A budget of polls that is used up is the fault       *)
(* "timeout": the controller stayed Busy, or Finished, for that long.      *)

Statuses == {"Ready", "Busy", "Finished", "ChecksumError", "Power", "Unknown",
             "read", "timeout"}

Reads(s) ==
  /\ \/ /\ s = IF status_queue = <<>> THEN "Ready" ELSE Head(status_queue)
        /\ status_queue' = IF status_queue = <<>> THEN <<>> ELSE Tail(status_queue)
        /\ UNCHANGED faults
     \/ /\ s \in {"Busy", "Power", "Unknown", "read", "timeout"}
        /\ Fault(s) /\ UNCHANGED status_queue
  /\ UNCHANGED <<accepted, running, paused, ran>>

-----------------------------------------------------------------------------
(* How operations end.                                                     *)

Phase(p) == phase' = p
Recover == Phase("RecoveryRequired")
\* Nothing of ours can burn any more.
Resolved(p) == Phase(p) /\ owned_output_unresolved' = FALSE

\* The session is dropped.
Dropped ==
  /\ conn' = FALSE /\ Phase("Disconnected")
  /\ owned_output_unresolved' = FALSE /\ active_transfer' = NoTransfer
  /\ op' = NoOp

Stays == op' = NoOp /\ UNCHANGED conn

\* The service drops a job whose progress is terminal.
JobFrom(p) ==
  job' = CASE p = "Transferring" -> "Preparing"
           [] p \in {"Running", "Paused"} -> p
           [] OTHER -> "none"

\* An operation begins; a command first waits for the controller to be ready.
Begins(kind, part) == op' = [NoOp EXCEPT !.kind = kind, !.part = part, !.attempt = 1]
Commands(kind) == Begins(kind, "ready")

-----------------------------------------------------------------------------
(* advance_job_transfer, one read or write at a time.                      *)

Transfer == active_transfer
Polled == op.polls + 1

\* The tick has read enough and lets go of the session, unless it still has to write.
GoesOn(part) ==
  op' = IF part # "write" /\ Polled = TRANSFER_POLLS_PER_ADVANCE THEN NoOp
        ELSE [op EXCEPT !.part = part, !.polls = Polled]

\* The error of advance_transfer_step; the service drops the job, which has failed.
\* Mutated: packets that were acknowledged are forgotten.
BugAdvanceFails(s, ambiguous) ==
  /\ active_transfer' = NoTransfer
  /\ IF ambiguous THEN Recover /\ UNCHANGED owned_output_unresolved
     ELSE Resolved(IF s = "Power" THEN "PowerFault" ELSE "Ready")
  /\ job' = "none" /\ Stays

AdvanceFails(s, ambiguous) ==
  LET accepted_some == Transfer.index > 0 /\ (s = "Power" => owned_output_unresolved) IN
  /\ IF ambiguous \/ accepted_some
     THEN Recover /\ UNCHANGED owned_output_unresolved
     ELSE Resolved(IF s = "Power" THEN "PowerFault" ELSE "Ready")
  /\ active_transfer' = NoTransfer
  /\ job' = "none" /\ Stays

\* Before the packet is written: what is read now is no answer to it.
AdvanceReady(s) ==
  /\ op.part = "ready"
  /\ \/ /\ s = "Ready" /\ GoesOn("write")
        /\ UNCHANGED active_transfer
     \/ /\ s = "Busy" /\ GoesOn("ready")
        /\ UNCHANGED active_transfer
     \/ /\ s = "Finished" /\ GoesOn("ready")
        /\ active_transfer' = [Transfer EXCEPT !.observed_preflight_terminal = TRUE]
  /\ UNCHANGED <<conn, phase, owned_output_unresolved, job>>

AdvanceNotReady(s) ==
  /\ op.part = "ready"
  /\ s \notin {"Ready", "Busy", "Finished"}
  /\ AdvanceFails(s, FALSE)

\* A terminal status before the last packet cannot be of this job.
Premature ==
  \/ Transfer.index > 0 /\ Transfer.observed_preflight_terminal
  \/ Transfer.index + 1 < Packets /\ Transfer.pending_ack_terminal

Acknowledged ==
  IF Transfer.index + 1 < Packets
  THEN /\ active_transfer' = [NewTransfer EXCEPT !.index = Transfer.index + 1]
       /\ UNCHANGED <<phase, owned_output_unresolved, job>>
  ELSE /\ active_transfer' = NoTransfer
       /\ IF Transfer.pending_ack_terminal
          THEN Resolved("Completed") /\ JobFrom("Completed")
          ELSE Phase("Running") /\ JobFrom("Running") /\ UNCHANGED owned_output_unresolved

AdvanceAcked(s) ==
  /\ op.part = "ack" /\ s = "Ready"
  /\ IF Premature THEN AdvanceFails(s, TRUE)
     ELSE Acknowledged /\ Stays

\* A rejected packet is sent again, as often as is allowed.
AdvanceRejected(s) ==
  /\ op.part = "ack" /\ s = "ChecksumError"
  /\ IF Transfer.attempt >= checksum_attempts THEN AdvanceFails(s, FALSE)
     ELSE /\ active_transfer' = [Transfer EXCEPT !.attempt = @ + 1, !.awaiting_ack = FALSE]
          /\ GoesOn("ready")
          /\ UNCHANGED <<conn, phase, owned_output_unresolved, job>>

AdvanceWaits(s) ==
  /\ op.part = "ack" /\ s \in {"Busy", "Finished"}
  /\ active_transfer' = [Transfer EXCEPT !.pending_ack_terminal = @ \/ s = "Finished"]
  /\ GoesOn("ack")
  /\ UNCHANGED <<conn, phase, owned_output_unresolved, job>>

\* An answer that cannot be read leaves open what became of the packet.
AdvanceLost(s) ==
  /\ op.part = "ack" /\ s \in {"Power", "Unknown", "read", "timeout"}
  /\ AdvanceFails(s, TRUE)

AdvanceReads ==
  /\ op.kind = "advance"
  /\ \E s \in Statuses :
       /\ Reads(s)
       /\ \/ AdvanceReady(s) \/ AdvanceNotReady(s) \/ AdvanceAcked(s)
          \/ AdvanceRejected(s) \/ AdvanceWaits(s) \/ AdvanceLost(s)
  /\ UNCHANGED counts

\* A write arrives, arrives garbled, or fails, before or after it arrived.
Arrives(accepts) ==
  \/ accepts /\ UNCHANGED faults
  \/ /\ Fault("checksum") /\ Answers(<<"ChecksumError">>)
     /\ UNCHANGED <<accepted, running, paused, ran>>
Breaks(accepts) == Fault("write") /\ (accepts \/ UNCHANGED ctlVars)

AdvanceWrites ==
  /\ op.kind = "advance" /\ op.part = "write"
  /\ \/ /\ Arrives(AcceptsPacket(Transfer.index + 1))
        /\ active_transfer' = [Transfer EXCEPT !.awaiting_ack = TRUE,
                                               !.pending_ack_terminal = FALSE]
        /\ op' = IF op.polls = TRANSFER_POLLS_PER_ADVANCE THEN NoOp
                 ELSE [op EXCEPT !.part = "ack"]
        /\ UNCHANGED <<conn, phase, owned_output_unresolved, job>>
     \/ Breaks(AcceptsPacket(Transfer.index + 1)) /\ AdvanceFails("write", TRUE)
  /\ UNCHANGED counts

-----------------------------------------------------------------------------
(* send_command: a packet of its own, sent and answered under one lock.    *)

\* How a command ends that was answered.
CommandSucceeds(terminal) ==
  /\ CASE op.kind = "pause" ->
            /\ IF terminal THEN Resolved("Completed")
               ELSE Phase("Paused") /\ UNCHANGED owned_output_unresolved
            /\ job' = "Paused" /\ Stays /\ UNCHANGED active_transfer
       [] op.kind = "resume" ->
            /\ IF terminal THEN Resolved("Completed")
               ELSE Phase("Running") /\ UNCHANGED owned_output_unresolved
            /\ job' = "Running" /\ Stays /\ UNCHANGED active_transfer
       [] op.kind \in {"cancel", "stop"} ->
            /\ Resolved(IF phase \in IdlePhases THEN "Ready"
                        ELSE IF terminal THEN "Completed" ELSE "Stopped")
            /\ job' = "none" /\ Stays /\ UNCHANGED active_transfer
       [] op.kind \in Drops ->
            Dropped /\ job' = "none"
       [] OTHER ->
            /\ Phase("Ready") /\ Stays
            /\ UNCHANGED <<job, active_transfer, owned_output_unresolved>>

\* Mutated: a job that may burn does not matter.
BugCommandFails(ambiguous) ==
  IF op.kind \in Drops \/ (op.kind = "stop" /\ ambiguous)
  THEN Dropped /\ job' = "none"
  ELSE /\ IF ambiguous THEN Recover ELSE UNCHANGED phase
       /\ UNCHANGED <<owned_output_unresolved, active_transfer, conn>>
       /\ IF op.kind = "stop" THEN Commands("disconnect") /\ job' = "none"
          ELSE op' = NoOp /\ UNCHANGED job

\* How one ends that was not: a disconnection drops the session all the same, and an
\* Emergency Stop does so after it has tried once more.
CommandFails(ambiguous) ==
  LET lost == ambiguous \/ (owned_output_unresolved /\ op.kind \notin Moves) IN
  IF op.kind \in Drops \/ (op.kind = "stop" /\ lost)
  THEN Dropped /\ job' = "none"
  ELSE /\ IF lost THEN Recover ELSE UNCHANGED phase
       /\ UNCHANGED <<owned_output_unresolved, active_transfer, conn>>
       /\ IF op.kind = "stop" THEN Commands("disconnect") /\ job' = "none"
          ELSE op' = NoOp /\ UNCHANGED job

CommandGoesOn(part) ==
  /\ op' = [op EXCEPT !.part = part]
  /\ UNCHANGED <<conn, rtVars, job>>
SeesTerminal ==
  /\ op' = IF op.part = "ready" THEN [op EXCEPT !.preflight_terminal = TRUE]
           ELSE [op EXCEPT !.ack_terminal = TRUE]
  /\ UNCHANGED <<conn, rtVars, job>>

CommandReads ==
  /\ op.kind \in Stops \cup Moves \cup {"pause", "resume"} /\ op.part \in {"ready", "ack"}
  /\ phase \notin Unstoppable
  /\ \E s \in Statuses :
       /\ Reads(s)
       /\ \/ s = "Busy" /\ UNCHANGED <<conn, rtVars, job, op>>
          \/ s = "Finished" /\ SeesTerminal
          \/ s = "Ready" /\ op.part = "ready" /\ CommandGoesOn("write")
          \/ s = "Ready" /\ op.part = "ack" /\ CommandSucceeds(op.preflight_terminal \/ op.ack_terminal)
          \/ /\ s = "ChecksumError" /\ op.part = "ack"
             /\ IF op.attempt >= checksum_attempts THEN CommandFails(FALSE)
                ELSE /\ op' = [op EXCEPT !.part = "ready", !.attempt = @ + 1,
                                            !.ack_terminal = FALSE]
                     /\ UNCHANGED <<conn, rtVars, job>>
          \/ s = "ChecksumError" /\ op.part = "ready" /\ CommandFails(FALSE)
          \/ s \in {"Power", "Unknown", "read", "timeout"} /\ CommandFails(op.part = "ack")
  /\ UNCHANGED counts

CommandWrites ==
  /\ op.kind \in Stops \cup Moves \cup {"pause", "resume"} /\ op.part = "write"
  /\ \/ Arrives(AcceptsCommand(op.kind)) /\ CommandGoesOn("ack")
     \/ Breaks(AcceptsCommand(op.kind)) /\ CommandFails(TRUE)
  /\ UNCHANGED counts

-----------------------------------------------------------------------------
(* poll: one status, for a tick or for an idle session.                    *)

\* Mutated: a controller that is Ready again is taken to have ended the job.
BugPollPhase(s) ==
  CASE s \in {"Finished", "Ready"} /\ phase \in {"Running", "Paused"} -> "Completed"
    [] s = "Power" /\ ~owned_output_unresolved -> "PowerFault"
    [] s = "Power" /\ owned_output_unresolved -> "RecoveryRequired"
    [] s \in {"ChecksumError", "Unknown", "read"} -> "RecoveryRequired"
    [] OTHER -> phase

PollPhase(s) ==
  CASE s = "Finished" /\ phase \in {"Running", "Paused"} -> "Completed"
    [] s = "Power" /\ ~owned_output_unresolved -> "PowerFault"
    [] s = "Power" /\ owned_output_unresolved -> "RecoveryRequired"
    [] s \in {"ChecksumError", "Unknown"} -> "RecoveryRequired"
    [] s = "read" /\ owned_output_unresolved -> "RecoveryRequired"
    [] OTHER -> phase

Polls(s) ==
  /\ phase' = PollPhase(s)
  /\ owned_output_unresolved' =
       (owned_output_unresolved /\ ~(s = "Finished" /\ phase \in {"Running", "Paused"}))
  /\ UNCHANGED <<active_transfer, conn>>

\* LihuiyuRuntimeJob::tick.  A job that fails while the session counts as active is
\* stopped with the session (disconnect_failed_active_job).
TickPolls ==
  /\ op.kind = "poll"
  /\ \E s \in Statuses \ {"timeout"} :
       /\ Reads(s)
       /\ Polls(s)
       /\ IF s = "read"
          THEN /\ job' = "none"
               /\ IF phase' \in {"Running", "Paused"} THEN Commands("disconnect")
                  ELSE op' = NoOp
          ELSE JobFrom(phase') /\ op' = NoOp
  /\ UNCHANGED counts

\* refresh_idle_session_health: a second error drops the session, after a stop.
IdlePolls ==
  /\ op.kind = "refresh"
  /\ \E s \in Statuses \ {"timeout"} :
       /\ Reads(s)
       /\ Polls(s)
       /\ op' = IF s # "read" THEN NoOp
                ELSE IF op.attempt = 1 /\ phase' # "RecoveryRequired"
                THEN [op EXCEPT !.attempt = 2]
                ELSE [NoOp EXCEPT !.kind = "lost", !.part = "ready", !.attempt = 1]
       /\ UNCHANGED job
  /\ UNCHANGED counts

-----------------------------------------------------------------------------
(* The service begins an operation.                                        *)

Machine == UNCHANGED <<ctlVars, faults>>
Free == conn /\ op = NoOp

\* A machine that a dropped session left running is stopped by hand before the next.
Connect ==
  /\ ~conn
  /\ conn' = TRUE /\ Phase("Ready")
  /\ accepted' = <<>> /\ running' = FALSE /\ paused' = FALSE /\ status_queue' = <<>>
  /\ UNCHANGED <<ran, faults, owned_output_unresolved,
                 active_transfer, job, op, counts>>

StartJob ==
  /\ Free /\ job = "none" /\ phase \in IdlePhases
  /\ starts < MaxStarts /\ starts' = starts + 1
  /\ Phase("Transferring") /\ active_transfer' = NewTransfer
  /\ \E b \in UsesBeam : owned_output_unresolved' = b
  /\ job' = "Preparing"
  /\ accepted' = <<>> /\ ran' = FALSE
  /\ UNCHANGED <<running, paused, status_queue, faults, conn, op,
                 presses, moves>>

BeginTick ==
  /\ Free /\ job # "none"
  /\ CASE phase = "Transferring" ->
            /\ op' = [NoOp EXCEPT !.kind = "advance",
                                  !.part = IF Transfer.awaiting_ack THEN "ack" ELSE "ready"]
            /\ UNCHANGED job
       [] phase = "RecoveryRequired" ->
            job' = "none" /\ UNCHANGED op
       [] OTHER ->
            Begins("poll", "poll") /\ UNCHANGED job
  /\ Machine /\ UNCHANGED <<conn, rtVars, counts>>

Presses == presses < MaxPresses /\ presses' = presses + 1 /\ UNCHANGED <<starts, moves>>

BeginPause ==
  /\ Free /\ job # "none" /\ phase = "Running"
  /\ Presses /\ Commands("pause")
  /\ Machine /\ UNCHANGED <<conn, rtVars, job>>

BeginResume ==
  /\ Free /\ job # "none" /\ phase = "Paused"
  /\ Presses /\ Commands("resume")
  /\ Machine /\ UNCHANGED <<conn, rtVars, job>>

\* abort_transfer: the packet in flight is forgotten.
Aborts ==
  /\ active_transfer' = NoTransfer
  /\ phase' = IF phase = "Transferring" THEN "Running" ELSE phase
  /\ UNCHANGED <<owned_output_unresolved>>

BeginCancel ==
  /\ Free /\ job # "none" /\ phase \in {"Transferring", "Running", "Paused"}
  /\ Presses /\ Commands("cancel")
  /\ Aborts
  /\ Machine /\ UNCHANGED <<conn, job>>

\* Emergency Stop, and disconnect_machine.
BeginStop ==
  /\ Free /\ phase \notin Unstoppable
  /\ Presses /\ \E k \in {"stop", "disconnect"} : Commands(k)
  /\ Aborts
  /\ Machine /\ UNCHANGED <<conn, job>>

\* What cannot be stopped is dropped with the session all the same.
StopRefused ==
  /\ conn /\ (op = NoOp \/ op.kind \in Drops) /\ phase \in Unstoppable
  /\ Dropped /\ job' = "none"
  /\ Machine /\ UNCHANGED counts

BeginMove ==
  /\ Free /\ job = "none" /\ phase \in IdlePhases
  /\ moves < MaxMoves /\ moves' = moves + 1
  /\ \E k \in Moves : Commands(k)
  /\ Machine /\ UNCHANGED <<conn, rtVars, job, starts, presses>>

\* A status request of an idle session.  One that needs recovery cannot be polled, and
\* is taken for lost (handle_idle_connection_loss).
BeginRefresh ==
  /\ Free /\ job = "none"
  /\ IF phase = "RecoveryRequired" THEN Commands("lost") ELSE Begins("refresh", "poll")
  /\ Machine /\ UNCHANGED <<conn, rtVars, job, counts>>

-----------------------------------------------------------------------------
OpStep == AdvanceReads \/ AdvanceWrites \/ CommandReads \/ CommandWrites
          \/ TickPolls \/ IdlePolls
          \/ (op # NoOp /\ StopRefused)

Next ==
  \/ CompleteJob \/ OpStep
  \/ Connect \/ StartJob \/ BeginTick \/ BeginPause \/ BeginResume \/ BeginCancel
  \/ BeginStop \/ StopRefused \/ BeginMove \/ BeginRefresh

Spec == Init /\ [][Next]_vars

\* The tick loop ticks a job the service holds, an operation goes on (every wait has a
\* budget), and the machine comes to the end of a job that nothing holds.
FairSpec == Spec /\ WF_vars(OpStep) /\ WF_vars(BeginTick) /\ WF_vars(CompleteJob)

-----------------------------------------------------------------------------
Completes == phase' = "Completed" /\ phase # "Completed" /\ op.kind \notin Stops

\* A job that burns is Completed only when its every packet was taken once and in order,
\* and it has run to its end: whatever advance_job_transfer was told to send again, the
\* user paused, or the job before left unread for poll.
CompletedMeansRan == [][Completes /\ owned_output_unresolved => ran']_vars

\* So is a job of any kind, a frame without the beam too (LihuiyuRuntime::poll).
FrameCompletedMeansRan == [][Completes => ran']_vars

\* A machine that executes packets of ours is never reported as Ready, Completed or
\* Stopped: not after an upload that broke (advance_transfer_step), a stop that failed
\* (cancel, output_off) or a lost answer.
OutputKnown == phase \in IdlePhases => ~running

\* A job that burns and is uploaded ends, unless the controller holds it: ticks report an
\* upload that breaks, a stop that fails and a link that is lost.
JobEnds == (job = "Preparing" /\ owned_output_unresolved) ~> (job = "none" \/ paused)

\* So does a job of any kind: abort_transfer leaves no job that nothing can end.
FrameEnds == job = "Preparing" ~> (job = "none" \/ paused)

\* So does one that resume has set going again: send_packet loses no end of a job.
ResumedJobEnds == (job = "Running" /\ owned_output_unresolved) ~> (job = "none" \/ paused)

\* What handle_idle_connection_loss drops as idle was idle.
IdleLossIsIdle == op.kind = "lost" => ~running

\* A machine that can be written to is stopped by an Emergency Stop (emergency_stop and
\* abort_transfer), whatever was in flight.
StopStops == [][op.kind = "stop" /\ op'.kind # "stop" => ~running']_vars
=============================================================================
