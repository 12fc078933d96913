---------------------------- MODULE RuidaRuntime ----------------------------
(***************************************************************************)
(* The Ruida driver: RuidaStorageClient (beambench-ruida/src/transport.rs),*)
(* RuidaRuntime (beambench-ruida/src/runtime.rs) and the session and job   *)
(* of the service above it (beambench-service/src/ruida_runtime.rs).       *)
(*                                                                         *)
(* An operation holds the session for all of its datagrams, so one is under *)
(* way at a time; io says how far it has come.  Its part names the exchange *)
(* it is at: a datagram sent, an acknowledgement and perhaps a reply read.  *)
(* The controller, the line and the operator's hand at the panel go on in   *)
(* between.                                                                 *)
(***************************************************************************)
EXTENDS RuidaController

CONSTANTS
  MAX_ATTEMPTS,                  \* RuidaTransferConfig
  STORAGE_ATTEMPTS,
  CONFIRMATION_ATTEMPTS,         \* RuidaRuntimeConfig
  UPLOAD_CHUNKS_PER_ADVANCE,
  MaxConnects, MaxStarts, MaxPresses, MaxMoves

ASSUME RuidaRuntimeAssumption ==
  /\ {MAX_ATTEMPTS, STORAGE_ATTEMPTS, CONFIRMATION_ATTEMPTS,
      UPLOAD_CHUNKS_PER_ADVANCE} \subseteq Nat \ {0}
  /\ {MaxConnects, MaxStarts, MaxPresses, MaxMoves} \subseteq Nat

VARIABLES
  conn,     \* the service holds a session
  job,      \* the state of the job the service holds
  cmd,      \* the operation under way
  rt,       \* RuidaRuntime and the flag of its RuidaStorageClient
  io,       \* how far the operation has come
  connects, starts, presses, moves

vars == <<ctlVars, faults, replies, conn, job, cmd, rt, io,
          connects, starts, presses, moves>>
svcVars == <<conn, job, cmd>>
counts == <<connects, starts, presses, moves>>

Phase == {"Disconnected", "Ready", "BusyUnowned", "Uploading", "Uploaded", "Queued",
          "Starting", "Running", "Pausing", "Paused", "Resuming",
          "CompletionVerifying", "Completed", "ManualMotion", "Stopping", "Stopped",
          "RecoveryRequired"}
OwningPhase == {"Starting", "Running", "Pausing", "Paused", "Resuming",
                "CompletionVerifying", "Stopping"}

\* cursor: the file's name, the stage of the upload, and the chunks acknowledged.
NoCursor == [name |-> NoName, stage |-> "AnnounceFile", acked |-> 0]
Fresh == [phase |-> "Disconnected", receipt |-> NoName, cursor |-> NoCursor,
          observed_active |-> FALSE, observed_part_end |-> FALSE,
          owned_output_unresolved |-> FALSE, ambiguous |-> FALSE]

Listings == {"begin", "verify", "inspect", "find", "scoped", "gone"}
Statuses == {"connected", "selected", "confirm", "status"}
Parts == Listings \cup Statuses \cup
         {"none", "enq", "card", "announce", "chunk", "select", "process", "eof",
          "delete", "home", "speed", "move"}
Unknown == MAX_CONTROLLER_FILES + 1
NoIo == [part |-> "none", await |-> "none", attempt |-> 0, tries |-> 0,
         total |-> Unknown, listed |-> <<>>, stale |-> FALSE]

TypeOK ==
  /\ ControllerTypeOK
  /\ conn \in BOOLEAN
  /\ job \in {"none", "Preparing", "Running", "Paused"}
  /\ job # "none" => conn
  /\ cmd \in {"none", "connect", "start", "tick", "pause", "resume", "cancel",
              "stop", "disconnect", "move", "poll"}
  /\ rt.phase \in Phase
  /\ rt.receipt \in Names \cup {NoName}
  /\ rt.cursor.name \in Names \cup {NoName}
  /\ rt.cursor.stage \in {"AnnounceFile", "Chunks", "Verify"}
  /\ rt.cursor.acked \in 0..Chunks
  /\ rt.phase \in {"Uploaded", "Queued", "Completed", "Stopped"} \cup OwningPhase
       => rt.receipt # NoName
  /\ (rt.phase = "Uploading") <=> (rt.cursor # NoCursor)
  /\ io.part \in Parts
  /\ io.await \in {"none", "send", "ack", "reply"}
  /\ io.attempt \in 0..MAX_ATTEMPTS
  /\ io.total \in 0..Unknown
  /\ Len(io.listed) <= io.total
  /\ (cmd = "none") <=> (io = NoIo)
  /\ io.stale \in BOOLEAN
  /\ connects <= MaxConnects /\ starts <= MaxStarts
  /\ presses <= MaxPresses /\ moves <= MaxMoves

Init ==
  /\ ControllerInit
  /\ conn = FALSE /\ job = "none" /\ cmd = "none"
  /\ rt = Fresh
  /\ io = NoIo
  /\ connects = 0 /\ starts = 0 /\ presses = 0 /\ moves = 0

-----------------------------------------------------------------------------
(* What an operation does next. *)

To(p) == [rt EXCEPT !.phase = p]
Recovery == To("RecoveryRequired")

\* A listing starts from nothing; the next exchange keeps the last listing.
Enter(p, tries) ==
  io' = [part |-> p, await |-> "send", attempt |-> 0, tries |-> tries,
         total |-> IF p \in Listings THEN Unknown ELSE io.total,
         listed |-> IF p \in Listings THEN <<>> ELSE io.listed,
         stale |-> p \notin Listings /\ io.stale]
Goes(p) == Enter(p, 1) /\ UNCHANGED svcVars
Again == Enter(io.part, io.tries + 1) /\ UNCHANGED svcVars

\* The operation is over and leaves this job.
Leaves(state) ==
  /\ io' = NoIo
  /\ cmd' = "none"
  /\ job' = state
  /\ conn' = (conn /\ cmd # "disconnect")

\* RuidaRuntimeJob::tick gives the job up, a start never makes one; an Emergency
\* Stop and a disconnection drop the session they could not stop.
Errs ==
  /\ io' = NoIo
  /\ cmd' = "none"
  /\ job' = IF cmd \in {"tick", "stop", "disconnect"} THEN "none" ELSE job
  /\ conn' = (conn /\ cmd \notin {"stop", "disconnect"})

Deleting == IF rt.phase = "Uploading" THEN rt.cursor.name ELSE rt.receipt
Matches(list, n) == {i \in DOMAIN list : list[i] = n}
IndexListed(n) == CHOOSE i \in Matches(io.listed, n) : TRUE

ProcessAction == CASE rt.phase = "Starting" -> "Start"
                   [] rt.phase = "Pausing"  -> "Pause"
                   [] rt.phase = "Resuming" -> "Resume"
                   [] OTHER                 -> "Stop"

\* The datagram of the exchange the operation is at.
Request ==
  CASE io.part \in Statuses  -> <<"status">>
    [] io.part \in Listings  -> IF io.total = Unknown THEN <<"count">>
                                ELSE <<"name", Len(io.listed) + 1>>
    [] io.part = "announce"  -> <<"announce", rt.cursor.name>>
    [] io.part = "chunk"     -> <<"chunk", rt.cursor.acked + 1>>
    [] io.part = "select"    -> <<"select", IndexListed(rt.receipt)>>
    [] io.part = "delete"    -> <<"delete", IndexListed(Deleting)>>
    [] io.part = "process"   -> <<ProcessAction>>
    [] OTHER                 -> <<io.part>>

ExpectsReply == io.part \in Statuses \cup Listings \cup {"card"}

\* parse_memory_reply, parse_document_name_reply, and the address or index they check.
Fits(reply) ==
  /\ reply[1] = Request[1]
  /\ reply[1] = "name" => reply[2] = Request[2]

-----------------------------------------------------------------------------
(* exchange: one datagram out, its acknowledgement and its reply in. *)

Sends == [io EXCEPT !.await = "ack", !.attempt = @ + 1]

Send ==
  /\ io.await = "send"
  /\ io' = Sends
  /\ \/ Receives(Request) /\ UNCHANGED faults
     \/ Fault("lost_send") /\ UNCHANGED <<ctlVars, replies>>
     \/ Fault("garbled") /\ Answers(<<Nak>>) /\ UNCHANGED ctlVars
  /\ UNCHANGED <<svcVars, rt, counts>>

Awaits == io.await \in {"ack", "reply"}
Reads(reply) == replies # <<>> /\ reply = Head(replies) /\ replies' = Tail(replies)

ReadAck ==
  /\ io.await = "ack" /\ ExpectsReply
  /\ Reads(Ack)
  /\ io' = [io EXCEPT !.await = "reply"]
  /\ UNCHANGED <<ctlVars, faults, svcVars, rt, counts>>

\* Mutated: a datagram that was not answered is sent again, too.
BugResendsUnanswered ==
  /\ io.await = "ack"
  /\ Reads(Nak) \/ (replies = <<>> /\ UNCHANGED replies)
  /\ io.attempt < MAX_ATTEMPTS
  /\ io' = [io EXCEPT !.await = "send"]
  /\ UNCHANGED <<ctlVars, faults, svcVars, rt, counts>>

\* Only a datagram the controller says it could not read is sent again.
ReadNak ==
  /\ io.await = "ack"
  /\ Reads(Nak)
  /\ io.attempt < MAX_ATTEMPTS
  /\ io' = [io EXCEPT !.await = "send"]
  /\ UNCHANGED <<ctlVars, faults, svcVars, rt, counts>>

\* Nothing came in time; late: it is still to come, and the next exchange reads it.
TimesOut ==
  /\ Awaits
  /\ \/ replies = <<>> /\ UNCHANGED faults
     \/ replies # <<>> /\ Fault("late")
  /\ UNCHANGED replies

\* The exchange of part p gave what it should: an acknowledgement, or a reply.
Done(p) ==
  /\ io.part = p /\ io.await = "ack" /\ ~ExpectsReply
  /\ Reads(Ack)
  /\ UNCHANGED <<ctlVars, faults, counts>>

\* Where an acknowledgement is due, a reply is taken for the reply asked for.
Gives(p, reply) ==
  /\ io.part = p /\ Awaits /\ ExpectsReply
  /\ Reads(reply)
  /\ io.await = "ack" => reply \notin {Ack, Nak, Err}
  /\ Fits(reply)
  /\ UNCHANGED <<ctlVars, faults, counts>>

Unfit(reply) ==
  IF io.await = "ack" /\ reply = Ack THEN FALSE
  ELSE IF io.await = "ack" /\ reply = Nak THEN io.attempt = MAX_ATTEMPTS
  ELSE ~ExpectsReply \/ ~Fits(reply)

\* The exchange of part p failed.
Breaks(p) ==
  /\ io.part = p
  /\ \/ TimesOut
     \/ /\ Awaits /\ replies # <<>>
        /\ Unfit(Head(replies)) /\ Reads(Head(replies))
        /\ UNCHANGED faults
  /\ UNCHANGED <<ctlVars, counts>>

-----------------------------------------------------------------------------
(* list_files_verified: a count, then each name. *)

\* The listing with the reply at hand; complete when as long as the count said.
NowListed == IF Head(replies)[1] = "count" THEN <<>>
             ELSE Append(io.listed, Head(replies)[3])
NowTotal == IF Head(replies)[1] = "count" THEN Head(replies)[2] ELSE io.total

ListGoesOn ==
  /\ io.part \in Listings /\ replies # <<>>
  /\ Gives(io.part, Head(replies))
  /\ Len(NowListed) < NowTotal
  /\ io' = [io EXCEPT !.await = "send", !.attempt = 0,
                      !.listed = NowListed, !.total = NowTotal]
  /\ UNCHANGED <<svcVars, rt>>

Lists(p) ==
  /\ replies # <<>>
  /\ Gives(p, Head(replies))
  /\ Len(NowListed) = NowTotal

Unique(n) == Cardinality(Matches(NowListed, n)) = 1
Missing(n) == Matches(NowListed, n) = {}

\* The next exchange takes its index from the complete listing.
GoesListed(p) ==
  /\ io' = [part |-> p, await |-> "send", attempt |-> 0, tries |-> 1,
            total |-> NowTotal, listed |-> NowListed, stale |-> io.stale]
  /\ UNCHANGED svcVars

-----------------------------------------------------------------------------
(* The status. *)

Moving(s) == s \in {"Running", "ManualMotion"}
JobRunning(s) == s \in {"Running", "Paused"}
Owns == rt.phase \in OwningPhase

PartEndSeen ==
  CASE rt.phase = "Stopping"     -> rt
    [] rt.phase = "ManualMotion" -> Recovery
    [] Owns /\ rt.phase # "Stopping" ->
         [To("CompletionVerifying") EXCEPT !.observed_part_end = TRUE]
    [] OTHER                     -> To("BusyUnowned")

ActivitySeen(s) ==
  CASE rt.phase \in {"Starting", "Resuming"} ->
         IF Moving(s) THEN [To("Running") EXCEPT !.observed_active = TRUE] ELSE rt
    [] rt.phase = "Running" ->
         IF Moving(s) THEN [rt EXCEPT !.observed_active = TRUE] ELSE To("Paused")
    [] rt.phase = "Pausing" -> IF s = "Paused" THEN To("Paused") ELSE rt
    [] rt.phase = "Paused"  -> IF Moving(s) THEN To("Running") ELSE rt
    [] rt.phase = "ManualMotion" -> IF JobRunning(s) THEN Recovery ELSE rt
    [] rt.phase \in {"Stopping", "RecoveryRequired"} -> rt
    [] rt.phase \in {"Uploading", "Uploaded", "Queued", "CompletionVerifying"} -> Recovery
    [] OTHER -> To("BusyUnowned")

\* Mutated: a machine that is idle has completed its job.
BugIdleCompletes ==
  CASE rt.phase \in {"BusyUnowned", "ManualMotion"} -> To("Ready")
    [] rt.phase \in {"Running", "CompletionVerifying"} ->
         [To("Completed") EXCEPT !.owned_output_unresolved = FALSE]
    [] rt.phase = "Stopping" -> [To("Stopped") EXCEPT !.owned_output_unresolved = FALSE]
    [] rt.phase \in {"Pausing", "Paused", "Resuming"} -> Recovery
    [] OTHER -> rt

\* Both were seen: the controller at work, and the end of the part.
Verified ==
  rt.phase = "CompletionVerifying" /\ rt.observed_active /\ rt.observed_part_end

IdleSeen ==
  CASE rt.phase \in {"BusyUnowned", "ManualMotion"} -> To("Ready")
    [] Verified -> [To("Completed") EXCEPT !.owned_output_unresolved = FALSE]
    [] rt.phase = "Stopping" -> [To("Stopped") EXCEPT !.owned_output_unresolved = FALSE]
    [] Owns /\ rt.phase \notin {"Starting", "Stopping"} /\ ~Verified -> Recovery
    [] OTHER -> rt

apply_status(s) ==
  CASE s = "Unknown" -> Recovery
    [] s = "PartEnd" -> PartEndSeen
    [] s = "Idle"    -> IdleSeen
    [] OTHER         -> ActivitySeen(s)

\* apply_status returned an error: it has just marked recovery.
Rejected(s) ==
  s = "Unknown" \/ (apply_status(s).phase = "RecoveryRequired"
                      /\ rt.phase # "RecoveryRequired")

-----------------------------------------------------------------------------
(* Connecting. *)

BeginConnect ==
  /\ cmd = "none" /\ ~conn
  /\ connects < MaxConnects
  /\ connects' = connects + 1
  /\ cmd' = "connect"
  /\ rt' = Fresh
  /\ Enter("enq", 1)
  /\ replies' = <<>>
  /\ UNCHANGED <<ctlVars, faults, conn, job, starts, presses, moves>>

Enquires ==
  \/ Done("enq") /\ Goes("card") /\ UNCHANGED rt
  \/ Gives("card", <<"card">>) /\ Goes("connected") /\ UNCHANGED rt

\* Only an idle controller gets a session.
Connects == \E s \in Exec :
  /\ Gives("connected", <<"status", s>>)
  /\ IF s = "Idle"
     THEN /\ rt' = To("Ready") /\ conn' = TRUE
          /\ cmd' = "none" /\ io' = NoIo /\ UNCHANGED job
     ELSE Errs /\ UNCHANGED rt

ConnectBreaks ==
  /\ \E p \in {"enq", "card", "connected"} : Breaks(p)
  /\ Errs
  /\ UNCHANGED rt

-----------------------------------------------------------------------------
(* The upload: begin_upload by the start, advance_upload by the ticks. *)

BeginStart ==
  /\ cmd = "none" /\ conn /\ job = "none" /\ rt.phase = "Ready"
  /\ starts < MaxStarts
  /\ starts' = starts + 1
  /\ cmd' = "start"
  /\ Enter("begin", 1)
  /\ UNCHANGED <<ctlVars, faults, replies, conn, job, rt, connects, presses, moves>>

Begins ==
  /\ Lists("begin")
  /\ \/ /\ Len(NowListed) >= MAX_CONTROLLER_FILES
        /\ Errs /\ UNCHANGED rt
     \/ /\ Len(NowListed) < MAX_CONTROLLER_FILES
        /\ \E n \in Names :
             /\ Missing(n)
             /\ rt' = [To("Uploading") EXCEPT !.cursor = [NoCursor EXCEPT !.name = n]]
        /\ Leaves("Preparing")

BeginBreaks == Breaks("begin") /\ Errs /\ UNCHANGED rt

UploadStep == CASE rt.cursor.stage = "AnnounceFile" -> "announce"
                [] rt.cursor.stage = "Chunks"       -> "chunk"
                [] OTHER                            -> "verify"

\* RuidaRuntimeJob::tick; a storage client that is ambiguous refuses at once.
BeginTick ==
  /\ cmd = "none" /\ job # "none"
  /\ IF rt.ambiguous
     THEN job' = "none" /\ UNCHANGED <<cmd, io>>
     ELSE /\ cmd' = "tick" /\ UNCHANGED job
          /\ Enter(IF rt.phase # "Uploading" THEN "status" ELSE UploadStep, 1)
  /\ UNCHANGED <<ctlVars, faults, replies, conn, rt, counts>>

Announces ==
  /\ Done("announce")
  /\ rt' = [rt EXCEPT !.cursor.stage = "Chunks"]
  /\ Leaves(job)

SendsChunk ==
  /\ Done("chunk")
  /\ LET acked == rt.cursor.acked + 1 IN
       /\ rt' = [rt EXCEPT !.cursor.acked = acked,
                           !.cursor.stage = IF acked = Chunks THEN "Verify" ELSE @]
       /\ IF acked = Chunks \/ io.tries = UPLOAD_CHUNKS_PER_ADVANCE
          THEN Leaves(job) ELSE Again

\* Mutated: a failed chunk only fails the job.
BugUploadForgiven ==
  /\ \E p \in {"announce", "chunk"} : Breaks(p)
  /\ rt' = [To("Ready") EXCEPT !.cursor = NoCursor]
  /\ Errs

UploadBreaks ==
  /\ \E p \in {"announce", "chunk"} : Breaks(p)
  /\ rt' = [Recovery EXCEPT !.cursor = NoCursor, !.ambiguous = TRUE]
  /\ Errs

Verifies ==
  /\ Lists("verify")
  /\ Unique(rt.cursor.name)
  /\ rt' = [To("Uploaded") EXCEPT !.receipt = rt.cursor.name, !.cursor = NoCursor]
  /\ Goes("inspect")

\* find_unique_file_with_retry: the file may be listed a little later.
LooksAgain ==
  /\ \/ Lists("verify") /\ Missing(rt.cursor.name)
     \/ Lists("find") /\ Missing(rt.cursor.name)
     \/ Lists("gone") /\ ~Missing(Deleting)
  /\ io.tries < STORAGE_ATTEMPTS
  /\ Again
  /\ UNCHANGED rt

VerifyFails ==
  /\ \/ Breaks("verify")
     \/ /\ Lists("verify") /\ ~Unique(rt.cursor.name)
        /\ Missing(rt.cursor.name) => io.tries = STORAGE_ATTEMPTS
  /\ rt' = [To("Ready") EXCEPT !.cursor = NoCursor]
  /\ Errs

-----------------------------------------------------------------------------
(* queue_uploaded and start, in the tick that completed the upload. *)

Inspects ==
  /\ Lists("inspect")
  /\ Unique(rt.receipt)
  /\ GoesListed("select")
  /\ UNCHANGED rt

InspectFails ==
  /\ \/ Breaks("inspect")
     \/ Lists("inspect") /\ ~Unique(rt.receipt)
  /\ Errs
  /\ UNCHANGED rt

SelectsFile == Done("select") /\ Goes("selected") /\ UNCHANGED rt

\* Queued, and at once Starting: the selection must have moved nothing.
Starts == \E s \in Exec :
  /\ Gives("selected", <<"status", s>>)
  /\ IF apply_status(s).phase = "Uploaded"
     THEN /\ rt' = [To("Starting") EXCEPT !.observed_active = FALSE,
                                          !.observed_part_end = FALSE,
                                          !.owned_output_unresolved = TRUE]
          /\ Goes("process")
     ELSE rt' = Recovery /\ Errs

SelectFails ==
  /\ Breaks("select") \/ Breaks("selected")
  /\ rt' = Recovery
  /\ Errs

-----------------------------------------------------------------------------
(* A process command, and the status that confirms it. *)

SendsProcess == Done("process") /\ Goes("confirm") /\ UNCHANGED rt

\* Mutated: a command that was not acknowledged is taken as not delivered.
BugFailClears ==
  /\ Breaks("process")
  /\ rt' = [Recovery EXCEPT !.owned_output_unresolved = FALSE]
  /\ Errs

\* Mutated: after it, the file can be queued again.
BugFailReturns == Breaks("process") /\ rt' = To("Uploaded") /\ Errs

ProcessFails == Breaks("process") /\ rt' = Recovery /\ Errs

Target == CASE cmd = "pause" -> "Paused"
            [] cmd \in {"tick", "resume"} -> "Running"
            [] OTHER -> "Stopped"

\* A cancelled job's file is deleted next; an Emergency Stop leaves it.
Confirms == \E s \in Exec :
  /\ Gives("confirm", <<"status", s>>)
  /\ apply_status(s).phase = Target
  /\ rt' = apply_status(s)
  /\ IF cmd = "cancel" THEN Goes("scoped")
     ELSE Leaves(IF Target = "Stopped" THEN "none" ELSE Target)

\* Mutated: a confirmation is waited for as long as it takes.
BugWaitsForEver == \E s \in Exec :
  /\ Gives("confirm", <<"status", s>>)
  /\ apply_status(s).phase # Target /\ ~Rejected(s)
  /\ rt' = apply_status(s)
  /\ Enter("confirm", 1) /\ UNCHANGED svcVars

Waits == \E s \in Exec :
  /\ Gives("confirm", <<"status", s>>)
  /\ apply_status(s).phase # Target /\ ~Rejected(s)
  /\ io.tries < CONFIRMATION_ATTEMPTS
  /\ rt' = apply_status(s)
  /\ Again

NotConfirmed == \E s \in Exec :
  /\ Gives("confirm", <<"status", s>>)
  /\ apply_status(s).phase # Target
  /\ Rejected(s) \/ io.tries = CONFIRMATION_ATTEMPTS
  /\ rt' = [apply_status(s) EXCEPT !.phase = "RecoveryRequired"]
  /\ Errs

ConfirmBreaks ==
  /\ Breaks("confirm")
  /\ rt' = IF Owns THEN Recovery ELSE rt
  /\ Errs

BeginPause ==
  /\ cmd = "none" /\ job # "none" /\ presses < MaxPresses
  /\ \/ rt.phase = "Running" /\ rt' = To("Pausing") /\ cmd' = "pause"
     \/ rt.phase = "Paused" /\ rt' = To("Resuming") /\ cmd' = "resume"
  /\ presses' = presses + 1
  /\ Enter("process", 1)
  /\ UNCHANGED <<ctlVars, faults, replies, conn, job, connects, starts, moves>>

-----------------------------------------------------------------------------
(* The tick of a job that is on the controller, and the poll of an idle one. *)

StateShown(phase) ==
  CASE phase = "Paused" -> "Paused"
    [] phase \in OwningPhase \ {"Paused", "Stopping"} -> "Running"
    [] OTHER -> "none"

TickPolls == \E s \in Exec :
  /\ cmd = "tick"
  /\ Gives("status", <<"status", s>>)
  /\ rt' = apply_status(s)
  /\ IF Rejected(s) THEN Errs
     ELSE IF apply_status(s).phase = "Completed" THEN Goes("scoped")
     ELSE Leaves(StateShown(apply_status(s).phase))

AfterLoss == IF Owns \/ rt.phase = "ManualMotion" THEN Recovery ELSE rt

TickLosesStatus ==
  /\ cmd = "tick"
  /\ Breaks("status")
  /\ rt' = AfterLoss
  /\ Errs

BeginPoll ==
  /\ cmd = "none" /\ conn /\ job = "none" /\ ~rt.ambiguous
  /\ cmd' = "poll"
  /\ Enter("status", 1)
  /\ UNCHANGED <<ctlVars, faults, replies, conn, job, rt, counts>>

Polls == \E s \in Exec :
  /\ cmd = "poll"
  /\ Gives("status", <<"status", s>>)
  /\ ~Rejected(s)
  /\ rt' = apply_status(s)
  /\ Leaves(job)

\* emergency_stop of the session in runtime state r, for the operation c.
Halts(c, r) ==
  LET Ends(stopped) == /\ cmd' = "none" /\ io' = NoIo /\ job' = "none"
                       /\ conn' = (stopped /\ c # "disconnect")
      From(p) == /\ cmd' = c /\ UNCHANGED <<conn, job>> /\ Enter(p, 1)
  IN CASE r.phase \in OwningPhase \ {"Stopping"} ->
            From("process") /\ rt' = [r EXCEPT !.phase = "Stopping"]
       [] r.phase = "Uploading" /\ r.cursor.stage = "AnnounceFile" ->
            Ends(TRUE) /\ rt' = [r EXCEPT !.phase = "Ready", !.cursor = NoCursor]
       [] r.phase = "Uploading" /\ r.cursor.stage # "AnnounceFile" ->
            From(IF r.cursor.stage = "Chunks" THEN "eof" ELSE "find") /\ rt' = r
       [] r.phase \in {"Uploaded", "Queued", "Completed", "Stopped"} ->
            From("scoped") /\ rt' = r
       [] r.phase \in {"Ready", "Disconnected"} -> Ends(TRUE) /\ rt' = r
       [] OTHER -> Ends(FALSE) /\ rt' = r

\* refresh_idle_session_health: an error is rechecked once, then the session is
\* disconnected.
PollFails ==
  /\ cmd = "poll"
  /\ \E r \in {AfterLoss, Recovery} :
       /\ \/ Breaks("status") /\ r = AfterLoss
          \/ \E s \in Exec : Gives("status", <<"status", s>>) /\ Rejected(s) /\ r = Recovery
       /\ IF io.tries = 1 THEN Again /\ rt' = r ELSE Halts("disconnect", r)

PollRefused ==
  /\ cmd = "none" /\ conn /\ job = "none" /\ rt.ambiguous
  /\ Halts("disconnect", rt)
  /\ UNCHANGED <<ctlVars, faults, replies, counts>>

-----------------------------------------------------------------------------
(* Stopping. *)

BeginCancel ==
  /\ cmd = "none" /\ job # "none" /\ presses < MaxPresses
  /\ rt.phase \in (OwningPhase \ {"Stopping"}) \cup {"Uploading"}
  /\ presses' = presses + 1
  /\ Halts("cancel", rt)
  /\ UNCHANGED <<ctlVars, faults, replies, connects, starts, moves>>

BeginStop ==
  /\ cmd = "none" /\ conn /\ presses < MaxPresses
  /\ presses' = presses + 1
  /\ \/ Halts("stop", rt)
     \/ Halts("disconnect", rt)
  /\ UNCHANGED <<ctlVars, faults, replies, connects, starts, moves>>

\* abort_upload: the terminator, then the truncated file is looked for and deleted.
ClosesUpload == Done("eof") /\ Goes("find") /\ UNCHANGED rt

CloseBreaks ==
  /\ Breaks("eof")
  /\ rt' = [Recovery EXCEPT !.cursor = NoCursor, !.ambiguous = TRUE]
  /\ Errs

Finds ==
  /\ \/ Lists("find") /\ Unique(rt.cursor.name)
     \/ Lists("scoped") /\ Unique(rt.receipt)
  /\ GoesListed("delete")
  /\ UNCHANGED rt

DeletesFile == Done("delete") /\ Goes("gone") /\ UNCHANGED rt

IsGone ==
  /\ Lists("gone")
  /\ Missing(Deleting)
  /\ rt' = IF rt.phase = "Uploading"
           THEN [To("Ready") EXCEPT !.cursor = NoCursor]
           ELSE [To("Ready") EXCEPT !.receipt = NoName, !.observed_active = FALSE,
                   !.observed_part_end = FALSE, !.owned_output_unresolved = FALSE]
  /\ Leaves("none")

NotGone ==
  \/ \E p \in {"find", "scoped", "delete", "gone"} : Breaks(p)
  \/ /\ Lists("find") /\ ~Unique(rt.cursor.name)
     /\ Missing(rt.cursor.name) => io.tries = STORAGE_ATTEMPTS
  \/ Lists("scoped") /\ ~Unique(rt.receipt)
  \/ Lists("gone") /\ ~Missing(Deleting) /\ io.tries = STORAGE_ATTEMPTS

AbortFails ==
  /\ rt.phase = "Uploading"
  /\ NotGone
  /\ rt' = [Recovery EXCEPT !.cursor = NoCursor]
  /\ Errs

\* A file that stays behind is mentioned; the job is over all the same.
DeleteFails ==
  /\ rt.phase # "Uploading"
  /\ NotGone
  /\ IF cmd = "cancel" THEN Leaves("none") ELSE Errs
  /\ UNCHANGED rt

-----------------------------------------------------------------------------
(* Manual motion: home_xy, jog, jog_axis. *)

BeginMove ==
  /\ cmd = "none" /\ conn /\ job = "none" /\ rt.phase = "Ready"
  /\ moves < MaxMoves
  /\ moves' = moves + 1
  /\ cmd' = "move"
  /\ \/ Enter("home", 1) /\ rt' = To("ManualMotion")
     \/ Enter("speed", 1) /\ UNCHANGED rt
  /\ UNCHANGED <<ctlVars, faults, replies, conn, job, connects, starts, presses>>

\* The second axis of a jog may follow.
MovesAxis ==
  \/ Done("home") /\ Leaves(job) /\ UNCHANGED rt
  \/ Done("speed") /\ Goes("move") /\ rt' = To("ManualMotion")
  \/ Done("move") /\ Leaves(job) /\ UNCHANGED rt
  \/ Done("move") /\ io.tries = 1 /\ Again /\ UNCHANGED rt

MoveBreaks ==
  /\ \E p \in {"home", "speed", "move"} : Breaks(p)
  /\ rt' = Recovery
  /\ Errs

-----------------------------------------------------------------------------
Exchange ==
  \/ Send \/ ReadAck \/ ReadNak
  \/ Enquires \/ Connects \/ ConnectBreaks
  \/ ListGoesOn \/ Begins \/ BeginBreaks
  \/ Announces \/ SendsChunk \/ UploadBreaks \/ Verifies \/ LooksAgain \/ VerifyFails
  \/ Inspects \/ InspectFails \/ SelectsFile \/ Starts \/ SelectFails
  \/ SendsProcess \/ ProcessFails \/ Confirms \/ Waits \/ NotConfirmed \/ ConfirmBreaks
  \/ TickPolls \/ TickLosesStatus \/ Polls \/ PollFails
  \/ ClosesUpload \/ CloseBreaks \/ Finds \/ DeletesFile \/ IsGone
  \/ AbortFails \/ DeleteFails
  \/ MovesAxis \/ MoveBreaks

Begin ==
  \/ BeginConnect \/ BeginStart \/ BeginTick \/ BeginPause \/ BeginPoll \/ PollRefused
  \/ BeginCancel \/ BeginStop \/ BeginMove

Machine ==
  /\ FinishesRun \/ Settles
  /\ UNCHANGED <<replies, faults>>

Surroundings ==
  \/ LosesReply \/ DeliversTwice \/ Swaps \/ Resets
  \/ PanelPauses \/ PanelResumes \/ PanelStops \/ PanelStarts \/ PanelCopies
  \/ PanelShowsUnknown

\* What has been listed is old when someone removes a file; no code reads this.
PanelAges ==
  /\ PanelRemoves
  /\ io' = IF io.listed = <<>> /\ ~Awaits THEN io ELSE [io EXCEPT !.stale = TRUE]
  /\ UNCHANGED <<svcVars, rt, counts>>

Next ==
  \/ Exchange
  \/ Begin
  \/ (Machine \/ Surroundings) /\ UNCHANGED <<svcVars, rt, io, counts>>
  \/ PanelAges

Spec == Init /\ [][Next]_vars

\* An operation goes on to its end, jobs are ticked, and the controller comes to the
\* end of what it does.
Fairness ==
  /\ WF_vars(Exchange)
  /\ WF_vars(BeginTick)
  /\ WF_vars(Machine /\ UNCHANGED <<svcVars, rt, io, counts>>)

FairSpec == Spec /\ Fairness

-----------------------------------------------------------------------------
(* Properties. *)

\* A job reported Completed was executed by the controller, every byte of it, to its
\* end (queue_uploaded, start and apply_status after an upload that is verified by
\* name only, over a line that loses, repeats and reorders).
CompletedMeansRan == conn /\ rt.phase = "Completed" => rt.receipt \in ran

\* While the controller has a job that Beam Bench started in this session, the snapshot
\* says that output may be active, whatever was lost (output_may_be_active).
OutputKnown ==
  conn /\ JobOnMachine /\ running.owned => rt.owned_output_unresolved

\* A phase that says the job is over is one in which the controller has no job of ours.
OverMeansOver ==
  conn /\ rt.phase \in {"Completed", "Stopped", "Ready", "Uploading", "Uploaded"}
    => ~(JobOnMachine /\ running.owned)

\* The index with which a file is selected or deleted is still that of the file meant,
\* whatever was lost, sent again or reset and whatever came or went before the listing it
\* is taken from: only a removal at the panel after that can make it another's.
IndexIsMeant ==
  io.part \in {"select", "delete"} /\ io.await = "send" =>
    io.stale \/ NameAt(Request[2]) = IF io.part = "select" THEN rt.receipt ELSE Deleting

\* No file of other people is selected or deleted, without that exception (the RDC6445G
\* plan's "failure must leave unrelated controller files untouched").
OthersUntouched ==
  io.part \in {"select", "delete"} /\ io.await = "send" => NameAt(Request[2]) \notin Stored

\* No command is swallowed as file data: while the controller takes everything for
\* the file, only its next chunk or its terminator is sent, or a new connection asks
\* who is there (abort_upload's comment).
NothingSwallowed ==
  conn /\ pending # NoUpload /\ io.await = "send" => io.part \in {"chunk", "eof"}

\* A session that asks for recovery stays so until the user reconnects
\* (disconnect_machine: recovery is a phase "whose remedy is reconnecting").
RecoveryIsFinal ==
  [][conn /\ rt.phase = "RecoveryRequired" => rt'.phase = "RecoveryRequired" \/ cmd' = "connect"]_vars

\* A job ends or is paused: no fault, no press and nothing done at the panel leaves
\* one that is ticked for ever.
JobEnds == job # "none" ~> job \in {"none", "Paused"}
=============================================================================
