----------------------------- MODULE FrameGate -----------------------------
(***************************************************************************)
(* The frame a job must have had on a machine that is not homed            *)
(* (beambench-service/src/ops/machine.rs).  On such a machine nobody knows *)
(* where the bed ends, so a job placed relative to the head may start only *)
(* when a frame of it has run to its end: start_frame_with_policy leaves a *)
(* fingerprint, tick_job confirms it when the frame completes, and the     *)
(* preflight of start_job_at_generation compares.                          *)
(*                                                                         *)
(* A GRBL machine on one axis.  Operations that hold the job mutex from    *)
(* their first line to their last (Frame and Start) are one at a time; the *)
(* head, the document, other requests and the Emergency Stop move on       *)
(* between their steps.  An Option is a set of at most one element.        *)
(***************************************************************************)
EXTENDS Integers, FiniteSets

CONSTANTS
  Bed,          \* the places of the head
  Contents,     \* what can be drawn in the document
  Scopes,       \* what a request is for: the document, or a selection in it
  PreviewsOverlap,  \* may a preview come between the steps of Frame or Start?
  ResetAlarms,  \* does the controller raise an alarm when a job is reset?
  MaxRequests,  \* bound: Frame and Start requests
  MaxMoves,     \* bound: jogs and changes of the zero
  MaxEdits,     \* bound: edits of the document
  MaxFailures   \* bound: broken lines, failed stops and refused passes

ASSUME FrameGateAssumption ==
  /\ Bed \subseteq Nat /\ 0 \in Bed /\ IsFiniteSet(Bed)
  /\ PreviewsOverlap \in BOOLEAN /\ ResetAlarms \in BOOLEAN
  /\ {MaxRequests, MaxMoves, MaxEdits, MaxFailures} \subseteq Nat

VARIABLES
  project,      \* what revision_hash covers
  session, machine_coordinates_valid,
  leaving,      \* disconnect_machine waits for the job mutex
  runtime,      \* optimization_runtime
  op,           \* the operation that holds the job mutex, and its locals
  job,
  pending_relative_frame_confirmation, relative_frame_confirmation,
  (* the machine *)
  head, zero,   \* the place of the head, and the one its work position counts from
  running,      \* it moves on our account
  (* history *)
  traced,       \* the areas frames went round to the end
  finished,     \* the fingerprints of those frames
  requests, moves, edits, failures

confirmations == <<pending_relative_frame_confirmation, relative_frame_confirmation>>
machineVars == <<head, zero>>
history == <<traced, finished>>
bounds == <<requests, moves, edits, failures>>
linkVars == <<session, machine_coordinates_valid, leaving>>
gateVars == <<project, linkVars, runtime, op, job, confirmations, machineVars, running,
          history, bounds>>

StartFrom == {"AbsoluteCoords", "CurrentPosition", "UserOrigin"}
Positions == UNION {{p - z : p \in Bed} : z \in Bed}
Optional(S) == {{}} \cup {{x} : x \in S}

Documents == [content : Contents, start_from : StartFrom,
              user_origin : Optional(Positions)]
Prints == [document : Documents, target : Positions]
Areas == [content : Contents, scope : Scopes, target : Positions, place : Int]

NoOp == [kind |-> "none", part |-> "none", scope |-> "none", document |-> {},
         target |-> {}, stopped |-> FALSE]
NoJob == [kind |-> "none", repeat |-> FALSE, area |-> {}, relative |-> FALSE,
          print |-> {}]

GateTypeOK ==
  /\ project \in Documents
  /\ session \in BOOLEAN /\ machine_coordinates_valid \in BOOLEAN
  /\ leaving \in BOOLEAN /\ running \in BOOLEAN
  /\ runtime \in [current_position : Optional(Positions), coordinates_trusted : BOOLEAN]
  /\ op \in [kind : {"none", "frame", "start"},
             part : {"none", "synced", "planned", "checked"},
             scope : Scopes \cup {"none"}, document : Optional(Documents),
             target : Optional(Positions), stopped : BOOLEAN]
  /\ job.kind \in {"none", "frame", "cut"}
  /\ job.repeat \in BOOLEAN /\ job.relative \in BOOLEAN
  /\ job.print \in Optional(Prints)
  /\ pending_relative_frame_confirmation \in Optional(Prints)
  /\ relative_frame_confirmation \in Optional(Prints)
  /\ head \in Bed /\ zero \in Bed
  /\ finished \subseteq Prints
  /\ requests \in 0..MaxRequests /\ moves \in 0..MaxMoves
  /\ edits \in 0..MaxEdits /\ failures \in 0..MaxFailures

GateInit ==
  /\ project \in [content : Contents, start_from : StartFrom, user_origin : {{}}]
  /\ session = TRUE /\ machine_coordinates_valid = FALSE /\ leaving = FALSE
  /\ runtime = [current_position |-> {}, coordinates_trusted |-> FALSE]
  /\ op = NoOp
  /\ job = NoJob
  /\ pending_relative_frame_confirmation = {}
  /\ relative_frame_confirmation = {}
  /\ head \in Bed /\ zero = 0
  /\ running = FALSE
  /\ traced = {} /\ finished = {}
  /\ requests = 0 /\ moves = 0 /\ edits = 0 /\ failures = 0

-----------------------------------------------------------------------------
WorkPosition == head - zero

Failure == failures < MaxFailures /\ failures' = failures + 1

\* planning::sync_current_position, while the session is there.
SyncCurrentPosition ==
  runtime' = [current_position |-> IF session /\ project.start_from = "CurrentPosition"
                                   THEN {WorkPosition} ELSE {},
              coordinates_trusted |-> session /\ machine_coordinates_valid]

\* Where a document is placed, as the plan and the fingerprint read it.
Target(d) ==
  CASE d.start_from = "CurrentPosition" -> runtime.current_position
    [] d.start_from = "UserOrigin" -> d.user_origin
    [] OTHER -> {}

\* relative_frame_fingerprint: asked for at all, and what it is (nothing when the
\* target is unavailable, an error).
NeedsFrame(d) == d.start_from # "AbsoluteCoords" /\ ~runtime.coordinates_trusted
\* Mutated: the fingerprint is of the document as it is by now.
BugFingerprint(d) ==
  IF NeedsFrame(d) THEN {[document |-> project, target |-> t] : t \in Target(d)} ELSE {}

Fingerprint(d) ==
  IF NeedsFrame(d) THEN {[document |-> d, target |-> t] : t \in Target(d)} ELSE {}

\* The area the machine goes round or burns when it is sent a plan for target t.
Area(d, scope, t) ==
  {[content |-> d.content, scope |-> scope, target |-> p, place |-> p + zero] : p \in t}

-----------------------------------------------------------------------------
(* Frame and Start.  Both begin with sync_current_position.                *)

Request(kind, scope) ==
  /\ op = NoOp /\ job = NoJob /\ session /\ ~leaving
  /\ requests < MaxRequests
  /\ SyncCurrentPosition
  /\ op' = [NoOp EXCEPT !.kind = kind, !.part = "synced", !.scope = scope]
  /\ requests' = requests + 1
  /\ UNCHANGED <<project, linkVars, job, confirmations, machineVars, running, history,
                 moves, edits, failures>>

\* The document is captured and the plan placed: without a target there is none.
Plan ==
  /\ op.part = "synced"
  /\ op' = IF project.start_from # "AbsoluteCoords" /\ Target(project) = {}
           THEN NoOp
           ELSE [op EXCEPT !.part = "planned", !.document = {project},
                           !.target = Target(project)]
  /\ UNCHANGED <<project, linkVars, runtime, job, confirmations, machineVars, running,
                 history, bounds>>

\* An Emergency Stop or, for Start, a new connection since the request.
Refused == op.stopped \/ ~session

Launch(d, kind, again, print) ==
  /\ job' = [kind |-> kind, repeat |-> again, print |-> print,
             area |-> Area(d, op.scope, op.target),
             relative |-> d.start_from # "AbsoluteCoords" /\ ~machine_coordinates_valid]
  /\ running' = TRUE

\* start_frame_with_policy, from the session mutex on: the first lines are sent, and
\* only then is the fingerprint taken; when that fails nobody keeps the job.
SendFrame ==
  /\ op.kind = "frame" /\ op.part = "planned"
  /\ op' = NoOp
  /\ \E d \in op.document, again \in BOOLEAN :
       IF Refused THEN UNCHANGED <<job, running, confirmations>>
       ELSE IF NeedsFrame(d) /\ Target(d) = {}
       THEN running' = TRUE /\ UNCHANGED <<job, confirmations>>
       ELSE /\ Launch(d, "frame", again, Fingerprint(d))
            /\ pending_relative_frame_confirmation' = Fingerprint(d)
            /\ UNCHANGED relative_frame_confirmation
  /\ UNCHANGED <<project, linkVars, runtime, machineVars, history, bounds>>

\* Mutated: the preflight leaves the frame that is pending.
BugPreflight ==
  /\ op.kind = "start" /\ op.part = "planned"
  /\ \E d \in op.document :
       op' = IF /\ session
                /\ NeedsFrame(d) => /\ Fingerprint(d) # {}
                                    /\ relative_frame_confirmation = Fingerprint(d)
             THEN [op EXCEPT !.part = "checked"] ELSE NoOp
  /\ UNCHANGED <<project, linkVars, runtime, job, confirmations,
                 machineVars, running, history, bounds>>

\* The check of run_preflight_check_with_plan; past it start_job_at_generation
\* forgets the frame that is pending.
Preflight ==
  /\ op.kind = "start" /\ op.part = "planned"
  /\ \E d \in op.document :
       IF /\ session
          /\ NeedsFrame(d) => /\ Fingerprint(d) # {}
                              /\ relative_frame_confirmation = Fingerprint(d)
       THEN /\ op' = [op EXCEPT !.part = "checked"]
            /\ pending_relative_frame_confirmation' = {}
       ELSE op' = NoOp /\ UNCHANGED pending_relative_frame_confirmation
  /\ UNCHANGED <<project, linkVars, runtime, job, relative_frame_confirmation,
                 machineVars, running, history, bounds>>

SendJob ==
  /\ op.part = "checked"
  /\ op' = NoOp
  /\ \E d \in op.document :
       IF Refused THEN UNCHANGED <<job, running>>
       ELSE Launch(d, "cut", FALSE, Fingerprint(d))
  /\ UNCHANGED <<project, linkVars, runtime, confirmations, machineVars, history, bounds>>

\* drop_stale_machine_session.
DropStale ==
  /\ session' = FALSE /\ machine_coordinates_valid' = FALSE
  /\ pending_relative_frame_confirmation' = {} /\ relative_frame_confirmation' = {}
  /\ running' = FALSE

\* The first lines of either fail: the session is dropped.
SendFails ==
  /\ \/ op.kind = "frame" /\ op.part = "planned"
     \/ op.part = "checked"
  /\ ~Refused /\ Failure
  /\ op' = NoOp
  /\ DropStale
  /\ UNCHANGED <<project, leaving, runtime, job, machineVars, history,
                 requests, moves, edits>>

-----------------------------------------------------------------------------
(* tick_job.                                                               *)

Confirm ==
  relative_frame_confirmation' =
    IF pending_relative_frame_confirmation = {}
    THEN relative_frame_confirmation ELSE pending_relative_frame_confirmation

\* The job or the pass of a frame completes.  A continuous frame begins again.
TickCompleted ==
  /\ job # NoJob
  /\ Confirm
  /\ pending_relative_frame_confirmation' = {}
  /\ IF job.repeat THEN UNCHANGED <<job, running>> ELSE job' = NoJob /\ running' = FALSE
  /\ IF job.kind = "frame"
     THEN traced' = traced \cup job.area /\ finished' = finished \cup job.print
     ELSE UNCHANGED history
  /\ UNCHANGED <<project, linkVars, runtime, op, machineVars, bounds>>

\* The next pass of a continuous frame cannot be begun; nothing of it was sent.
NextPassRefused ==
  /\ job.repeat /\ Failure
  /\ job' = NoJob /\ running' = FALSE
  /\ traced' = traced \cup job.area /\ finished' = finished \cup job.print
  /\ UNCHANGED <<project, linkVars, runtime, op, confirmations, machineVars,
                 requests, moves, edits>>

\* It fails, or its tick does: the session is dropped.
TickFailed ==
  /\ job # NoJob /\ Failure
  /\ job' = NoJob
  /\ DropStale
  /\ UNCHANGED <<project, leaving, runtime, op, machineVars, history,
                 requests, moves, edits>>

CancelJob ==
  /\ job # NoJob /\ session
  /\ job' = NoJob /\ running' = FALSE
  /\ UNCHANGED <<project, linkVars, runtime, op, confirmations, machineVars, history,
                 bounds>>

-----------------------------------------------------------------------------
(* The connection.                                                         *)

\* A stop that is not confirmed drops the session and keeps the confirmations.  A tick
\* has waited for the session all the while and comes before the job is dropped: where
\* the reset of a paused job raises no alarm it finds every line acknowledged, the
\* machine idle, and the job completed.
EmergencyStop ==
  /\ session
  /\ op' = IF op = NoOp THEN NoOp ELSE [op EXCEPT !.stopped = TRUE]
  /\ machine_coordinates_valid' = FALSE
  /\ job' = NoJob /\ running' = FALSE
  /\ \/ UNCHANGED <<session, failures>>
     \/ session' = FALSE /\ Failure
  /\ \E completed \in {FALSE, job # NoJob /\ session' /\ ~ResetAlarms} :
       IF completed THEN Confirm /\ pending_relative_frame_confirmation' = {}
       ELSE UNCHANGED confirmations
  /\ op # NoOp \/ job # NoJob \/ machine_coordinates_valid \/ ~session'
  /\ UNCHANGED <<project, leaving, runtime, machineVars, history,
                 requests, moves, edits>>

\* handle_idle_connection_loss.
IdleConnectionLost ==
  /\ session /\ job = NoJob /\ Failure
  /\ op' = IF op.kind = "start" THEN [op EXCEPT !.stopped = TRUE] ELSE op
  /\ DropStale
  /\ UNCHANGED <<project, leaving, runtime, job, machineVars, history,
                 requests, moves, edits>>

\* disconnect_machine clears first, then waits for the job mutex.
DisconnectBegin ==
  /\ session /\ ~leaving
  /\ leaving' = TRUE
  /\ pending_relative_frame_confirmation' = {} /\ relative_frame_confirmation' = {}
  /\ UNCHANGED <<project, session, machine_coordinates_valid, runtime, op, job,
                 machineVars, running, history, bounds>>

DisconnectEnd ==
  /\ leaving /\ op = NoOp
  /\ leaving' = FALSE
  /\ session' = FALSE /\ machine_coordinates_valid' = FALSE
  /\ job' = NoJob /\ running' = FALSE
  /\ UNCHANGED <<project, runtime, op, confirmations, machineVars, history, bounds>>

\* A controller that restarts when its port is opened counts from where it stands.
Connected ==
  /\ ~session /\ ~leaving
  /\ session' = TRUE /\ machine_coordinates_valid' = FALSE
  /\ zero' \in {zero, head}
  /\ UNCHANGED <<project, leaving, runtime, op, job, head, running, history, bounds>>

\* connect_machine forgets the frames; begin_controller_connection does not.
ConnectMachine ==
  /\ Connected
  /\ pending_relative_frame_confirmation' = {} /\ relative_frame_confirmation' = {}

BeginControllerConnection ==
  /\ Connected
  /\ UNCHANGED confirmations

-----------------------------------------------------------------------------
(* The operator and other requests.                                        *)

Move(newHead, newZero) ==
  /\ session /\ ~running /\ moves < MaxMoves
  /\ head' = newHead /\ zero' = newZero
  /\ moves' = moves + 1

\* jog holds no job mutex.
Jog ==
  /\ \E p \in Bed \ {head} : Move(p, zero)
  /\ UNCHANGED <<project, linkVars, runtime, op, job, confirmations, running, history,
                 requests, edits, failures>>

\* home, and finalize_completed_grbl_homing; it holds the job mutex.
Home ==
  /\ op = NoOp /\ job = NoJob
  /\ Move(0, 0)
  /\ machine_coordinates_valid' = TRUE
  /\ UNCHANGED <<project, session, leaving, runtime, op, job, confirmations, running,
                 history, requests, edits, failures>>

\* send_gcode_line with a G92 of the console or a macro.
SendGcodeLine ==
  /\ op = NoOp /\ job = NoJob /\ zero # head
  /\ Move(head, head)
  /\ UNCHANGED <<project, linkVars, runtime, op, job, confirmations, running, history,
                 requests, edits, failures>>

\* Any edit of the document, and set_work_origin and reset_work_origin.
Edit ==
  /\ edits < MaxEdits /\ edits' = edits + 1
  /\ \/ \E c \in Contents \ {project.content} : project' = [project EXCEPT !.content = c]
     \/ \E s \in StartFrom \ {project.start_from} : project' = [project EXCEPT !.start_from = s]
     \/ session /\ project' = [project EXCEPT !.user_origin = {WorkPosition}]
     \/ session /\ project' = [project EXCEPT !.user_origin = {}]
  /\ UNCHANGED <<linkVars, runtime, op, job, confirmations, machineVars, running,
                 history, requests, moves, failures>>

\* A preview or a preflight report: neither takes the job mutex.
Preview ==
  /\ op = NoOp \/ PreviewsOverlap
  /\ SyncCurrentPosition
  /\ runtime' # runtime
  /\ UNCHANGED <<project, linkVars, op, job, confirmations, machineVars, running,
                 history, bounds>>

-----------------------------------------------------------------------------
GateNext ==
  \/ \E k \in {"frame", "start"}, s \in Scopes : Request(k, s)
  \/ Plan \/ SendFrame \/ Preflight \/ SendJob \/ SendFails
  \/ TickCompleted \/ NextPassRefused \/ TickFailed \/ CancelJob
  \/ EmergencyStop \/ IdleConnectionLost \/ DisconnectBegin \/ DisconnectEnd
  \/ ConnectMachine \/ BeginControllerConnection
  \/ Jog \/ Home \/ SendGcodeLine \/ Edit \/ Preview

GateSpec == GateInit /\ [][GateNext]_gateVars

-----------------------------------------------------------------------------
\* A confirmation is of a frame that went round to its end: never of one that was
\* cancelled, stopped, or cut short with its connection, whatever completes after it.
ConfirmedWasTraced == relative_frame_confirmation \subseteq finished

\* A job placed relative to the head of a machine that is not homed starts only where,
\* by the machine's own count, a frame of the same drawing went round to its end:
\* whatever was edited, moved, stopped or connected again since and in between.
StartsFramedAsCounted ==
  job.kind = "cut" /\ job.relative =>
    \E a \in job.area, t \in traced :
      t.content = a.content /\ t.scope = a.scope /\ t.target = a.target

\* The same of the bed, where the edges are that nobody else checks.
StartsFramed == job.kind = "cut" /\ job.relative => job.area # {} /\ job.area \subseteq traced

\* What moves on our account is a job the service keeps, which can cancel it.
MotionIsTracked == running => job # NoJob
=============================================================================
