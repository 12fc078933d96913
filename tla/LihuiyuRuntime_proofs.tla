---------------------- MODULE LihuiyuRuntime_proofs ----------------------
(***************************************************************************)
(* What the Lihuiyu driver guarantees for jobs of any length, any number   *)
(* of starts and presses, and any number of packets that are rejected,     *)
(* lost or answered late: that a controller which executes packets of ours *)
(* is never reported as idle, and that a job that burns is reported as     *)
(* completed only after it has run whole.                                  *)
(***************************************************************************)
EXTENDS LihuiyuRuntime, SequenceTheorems, TLAPS

(***************************************************************************)
(* The invariant.                                                          *)
(***************************************************************************)

Kinds == {"none", "advance", "poll", "refresh", "pause", "resume"} \cup Stops \cup Moves
CommandKinds == {"pause", "resume"} \cup Stops \cup Moves

\* What the controller says of a packet, after Busy.
PacketAnswers == {"Ready", "ChecksumError"}

Holds(queue, s) == \E i \in DOMAIN queue : queue[i] = s
Answerless(queue) == \A i \in DOMAIN queue : queue[i] \notin PacketAnswers
OneAnswer(queue) ==
  \A i, j \in DOMAIN queue :
    queue[i] \in PacketAnswers /\ queue[j] \in PacketAnswers => i = j
\* An end is said after the answer to the packet before it.
AnswerFirst(queue) ==
  \A i, j \in DOMAIN queue :
    queue[i] = "Finished" /\ queue[j] \in PacketAnswers => j < i

\* The first n packets of a job.
Prefix(n) == [i \in 1..n |-> i]

Transfers == [index : 0..(Packets - 1), attempt : 0..checksum_attempts,
              awaiting_ack : BOOLEAN, observed_preflight_terminal : BOOLEAN,
              pending_ack_terminal : BOOLEAN]
Operations == [kind : Kinds, part : {"none", "ready", "write", "ack", "poll"},
               attempt : 0..(checksum_attempts + 2), polls : 0..TRANSFER_POLLS_PER_ADVANCE,
               preflight_terminal : BOOLEAN, ack_terminal : BOOLEAN]

\* What a controller has said and nobody has read.
Queued == {"Busy", "Ready", "Finished", "ChecksumError"}

\* The parts of TypeOK, apart from those that OpInv implies.
ControllerOK ==
  /\ accepted \in Seq(1..Packets)
  /\ running \in BOOLEAN /\ paused \in BOOLEAN /\ ran \in BOOLEAN
  /\ status_queue \in Seq(Queued)
  /\ faults \in 0..MaxFaults

SessionOK ==
  /\ conn \in BOOLEAN /\ owned_output_unresolved \in BOOLEAN
  /\ phase \in IdlePhases \cup {"Disconnected", "Transferring", "Running", "Paused",
                                "PowerFault", "RecoveryRequired"}
  /\ phase = "Transferring" <=> active_transfer # NoTransfer
  /\ job \in {"none", "Preparing", "Running", "Paused"}
  /\ conn <=> phase # "Disconnected"
  /\ job # "none" \/ op # NoOp => conn

CountsOK ==
  starts \in 0..MaxStarts /\ presses \in 0..MaxPresses /\ moves \in 0..MaxMoves

\* Where an operation can be, and in which phase.
OpInv ==
  /\ op \in Operations /\ active_transfer \in Transfers
  /\ op.kind = "none" <=> op = NoOp
  /\ op.kind = "none" => op.part = "none"
  /\ op.kind = "advance" =>
       /\ phase = "Transferring" /\ op.part \in {"ready", "write", "ack"}
       /\ op.part = "ack" <=> active_transfer.awaiting_ack
       /\ op.part # "write" => op.polls < TRANSFER_POLLS_PER_ADVANCE
       /\ ~op.preflight_terminal /\ ~op.ack_terminal
  /\ op.kind \in CommandKinds => op.part \in {"ready", "write", "ack"} /\ op.attempt >= 1
  /\ op.kind \in {"poll", "refresh"} => op.part = "poll" /\ op.attempt >= 1
  /\ op.kind \in Moves => phase \in IdlePhases /\ job = "none"
  /\ op.kind \in {"pause", "resume"} => phase \in {"Running", "Paused"}
  /\ op.kind \in {"refresh", "lost"} => job = "none"
  /\ phase = "Transferring" => op.kind \in {"none", "advance"} /\ job # "none"

\* One answer at most is under way, and a packet is written when there is none.
QueueInv ==
  /\ OneAnswer(status_queue)
  /\ op.part = "write" => Answerless(status_queue)
  /\ op.part = "write" /\ op.kind = "advance" => status_queue = <<>>
  /\ phase \in IdlePhases /\ op.part # "ack" => Answerless(status_queue)
  /\ phase \in {"Transferring", "Running", "Paused"}
     /\ (op.part = "ack" => op.kind = "advance") => AnswerFirst(status_queue)

\* Who was told of an end can rely on it.
OverInv ==
  /\ Holds(status_queue, "Finished") => ~running
  /\ op.preflight_terminal \/ op.ack_terminal => ~running
  /\ phase \in IdlePhases => ~running
  /\ op.kind \in {"cancel", "stop"} /\ op.part = "ack" =>
       ~running \/ Holds(status_queue, "ChecksumError")

\* The controller has taken the packets that were acknowledged, in order, and the one
\* in flight unless it was garbled.
TransferInv ==
  phase = "Transferring" =>
    LET index == active_transfer.index IN
    /\ ~active_transfer.pending_ack_terminal
    /\ active_transfer.attempt >= 1
    /\ ~active_transfer.awaiting_ack => Answerless(status_queue) /\ accepted = Prefix(index)
    /\ active_transfer.awaiting_ack =>
         \/ Holds(status_queue, "Ready") /\ accepted = Prefix(index + 1)
         \/ Holds(status_queue, "ChecksumError") /\ accepted = Prefix(index)
    /\ accepted = <<>> => ~running
    /\ accepted # <<>> /\ Holds(status_queue, "Finished") => ran

\* A job that burns and that nobody stops was taken whole, and what was said of its end
\* is true.
BurnInv ==
  owned_output_unresolved /\ phase \in {"Running", "Paused"} /\ op.kind \notin Stops =>
    /\ accepted = Prefix(Packets)
    /\ Holds(status_queue, "Finished") \/ op.preflight_terminal \/ op.ack_terminal => ran

RuntimeInv ==
  /\ ControllerOK /\ SessionOK /\ CountsOK
  /\ OpInv /\ QueueInv /\ OverInv /\ TransferInv /\ BurnInv

(***************************************************************************)
(* The statuses under way.                                                 *)
(***************************************************************************)

\* A queue that was read from is one place shorter.
LEMMA TailPlaces ==
  ASSUME NEW queue \in Seq(Queued), queue # <<>>
  PROVE  /\ Tail(queue) \in Seq(Queued)
         /\ 1 \in DOMAIN queue /\ Head(queue) = queue[1]
         /\ \A i \in DOMAIN Tail(queue) :
              i \in Nat /\ i + 1 \in DOMAIN queue /\ Tail(queue)[i] = queue[i + 1]
         /\ \A i \in DOMAIN queue \ {1} :
              i \in Nat /\ i - 1 \in DOMAIN Tail(queue) /\ Tail(queue)[i - 1] = queue[i]
  OBVIOUS

\* Where there is no answer there is none too many.
LEMMA AnswerlessIsFine ==
  ASSUME NEW queue, Answerless(queue)
  PROVE  /\ OneAnswer(queue) /\ AnswerFirst(queue)
         /\ \A a \in PacketAnswers : ~Holds(queue, a)
  BY DEF Answerless, OneAnswer, AnswerFirst, Holds

\* What is left once a status is read.
LEMMA QueueTail ==
  ASSUME NEW queue \in Seq(Queued), queue # <<>>
  PROVE  /\ Tail(queue) \in Seq(Queued)
         /\ Holds(queue, Head(queue))
         /\ \A s : Holds(Tail(queue), s) => Holds(queue, s)
         /\ \A s : Holds(queue, s) => s = Head(queue) \/ Holds(Tail(queue), s)
         /\ Answerless(queue) => Answerless(Tail(queue)) /\ Head(queue) \notin PacketAnswers
         /\ OneAnswer(queue) => OneAnswer(Tail(queue))
         /\ AnswerFirst(queue) => AnswerFirst(Tail(queue))
         /\ OneAnswer(queue) /\ Head(queue) \in PacketAnswers =>
              /\ Answerless(Tail(queue))
              /\ \A a \in PacketAnswers : Holds(queue, a) => a = Head(queue)
         /\ AnswerFirst(queue) /\ Head(queue) = "Finished" => Answerless(queue)
<1>1. /\ Tail(queue) \in Seq(Queued)
      /\ 1 \in DOMAIN queue /\ Head(queue) = queue[1]
      /\ \A i \in DOMAIN Tail(queue) :
           i \in Nat /\ i + 1 \in DOMAIN queue /\ Tail(queue)[i] = queue[i + 1]
      /\ \A i \in DOMAIN queue \ {1} :
           i \in Nat /\ i - 1 \in DOMAIN Tail(queue) /\ Tail(queue)[i - 1] = queue[i]
  BY TailPlaces
<1>2. Holds(queue, Head(queue))
  BY <1>1 DEF Holds
<1>3. \A s : Holds(Tail(queue), s) => Holds(queue, s)
  BY <1>1 DEF Holds
<1>4. \A s : Holds(queue, s) => s = Head(queue) \/ Holds(Tail(queue), s)
  BY <1>1 DEF Holds
<1>5. Answerless(queue) => Answerless(Tail(queue)) /\ Head(queue) \notin PacketAnswers
  BY <1>1 DEF Answerless
<1>6. OneAnswer(queue) => OneAnswer(Tail(queue))
  <2> SUFFICES ASSUME OneAnswer(queue), NEW i \in DOMAIN Tail(queue),
                      NEW j \in DOMAIN Tail(queue),
                      Tail(queue)[i] \in PacketAnswers, Tail(queue)[j] \in PacketAnswers
               PROVE  i = j
    BY DEF OneAnswer
  <2>1. i + 1 = j + 1
    BY <1>1 DEF OneAnswer
  <2> QED
    BY <1>1, <2>1
<1>7. AnswerFirst(queue) => AnswerFirst(Tail(queue))
  <2> SUFFICES ASSUME AnswerFirst(queue), NEW i \in DOMAIN Tail(queue),
                      NEW j \in DOMAIN Tail(queue),
                      Tail(queue)[i] = "Finished", Tail(queue)[j] \in PacketAnswers
               PROVE  j < i
    BY DEF AnswerFirst
  <2>1. j + 1 < i + 1
    BY <1>1 DEF AnswerFirst
  <2> QED
    BY <1>1, <2>1
<1>8. ASSUME OneAnswer(queue), Head(queue) \in PacketAnswers
      PROVE  /\ Answerless(Tail(queue))
             /\ \A a \in PacketAnswers : Holds(queue, a) => a = Head(queue)
  <2>1. \A i \in DOMAIN queue : queue[i] \in PacketAnswers => i = 1
    BY <1>1, <1>8 DEF OneAnswer
  <2>2. \A i \in DOMAIN Tail(queue) : Tail(queue)[i] \notin PacketAnswers
    <3> SUFFICES ASSUME NEW i \in DOMAIN Tail(queue), Tail(queue)[i] \in PacketAnswers
                 PROVE  FALSE
      OBVIOUS
    <3>1. i + 1 = 1 /\ i \in Nat /\ i \in 1..Len(Tail(queue))
      BY <1>1, <2>1
    <3> QED
      BY <3>1
  <2> QED
    BY <1>1, <2>1, <2>2 DEF Holds, Answerless
<1>9. AnswerFirst(queue) /\ Head(queue) = "Finished" => Answerless(queue)
  <2> SUFFICES ASSUME AnswerFirst(queue), queue[1] = "Finished", NEW i \in DOMAIN queue,
                      queue[i] \in PacketAnswers
               PROVE  FALSE
    BY <1>1 DEF Answerless
  <2>1. i < 1 /\ i \in 1..Len(queue)
    BY <1>1 DEF AnswerFirst
  <2> QED
    BY <2>1
<1> QED
  BY <1>1, <1>2, <1>3, <1>4, <1>5, <1>6, <1>7, <1>8, <1>9

\* What there is once more is said.
LEMMA QueueJoin ==
  ASSUME NEW queue \in Seq(Queued), NEW more \in Seq(Queued)
  PROVE  /\ queue \o more \in Seq(Queued)
         /\ \A s : Holds(queue \o more, s) <=> Holds(queue, s) \/ Holds(more, s)
         /\ Answerless(queue) /\ Answerless(more) => Answerless(queue \o more)
         /\ Answerless(queue) /\ OneAnswer(more) => OneAnswer(queue \o more)
         /\ OneAnswer(queue) /\ Answerless(more) => OneAnswer(queue \o more)
         /\ AnswerFirst(queue) /\ Answerless(more) => AnswerFirst(queue \o more)
<1> DEFINE all == queue \o more
<1>1. /\ all \in Seq(Queued) /\ Len(all) = Len(queue) + Len(more)
      /\ \A i \in DOMAIN queue : i \in DOMAIN all /\ all[i] = queue[i]
      /\ \A i \in DOMAIN more : i + Len(queue) \in DOMAIN all /\ all[i + Len(queue)] = more[i]
      /\ \A i \in DOMAIN all :
           \/ i \in DOMAIN queue /\ all[i] = queue[i]
           \/ i - Len(queue) \in DOMAIN more /\ all[i] = more[i - Len(queue)]
              /\ \A j \in DOMAIN queue : j < i
  OBVIOUS
<1>2. /\ DOMAIN queue = 1..Len(queue) /\ DOMAIN more = 1..Len(more)
      /\ Len(queue) \in Nat /\ Len(more) \in Nat /\ DOMAIN all = 1..Len(all)
  BY <1>1
<1> HIDE DEF all
<1>3. \A s : Holds(all, s) <=> Holds(queue, s) \/ Holds(more, s)
  BY <1>1 DEF Holds
<1>4. Answerless(queue) /\ Answerless(more) => Answerless(all)
  BY <1>1 DEF Answerless
<1>5. Answerless(queue) /\ OneAnswer(more) => OneAnswer(all)
  <2> SUFFICES ASSUME Answerless(queue), OneAnswer(more),
                      NEW i \in DOMAIN all, NEW j \in DOMAIN all,
                      all[i] \in PacketAnswers, all[j] \in PacketAnswers
               PROVE  i = j
    BY DEF OneAnswer
  <2>1. i - Len(queue) = j - Len(queue)
    BY <1>1 DEF Answerless, OneAnswer
  <2> QED
    BY <1>1, <1>2, <2>1
<1>6. OneAnswer(queue) /\ Answerless(more) => OneAnswer(all)
  BY <1>1 DEF Answerless, OneAnswer
<1>7. AnswerFirst(queue) /\ Answerless(more) => AnswerFirst(all)
  BY <1>1 DEF Answerless, AnswerFirst
<1> QED
  BY <1>1, <1>3, <1>4, <1>5, <1>6, <1>7 DEF all

\* What the controller says of a packet it takes, of a garbled one, and of an end.
LEMMA SaidAtOnce ==
  /\ {<<"Busy", "Ready">>, <<"ChecksumError">>, <<"Finished">>, <<"Finished", "Finished">>,
      <<>>} \subseteq Seq(Queued)
  /\ OneAnswer(<<"Busy", "Ready">>) /\ AnswerFirst(<<"Busy", "Ready">>)
  /\ Holds(<<"Busy", "Ready">>, "Ready") /\ ~Holds(<<"Busy", "Ready">>, "Finished")
  /\ ~Holds(<<"Busy", "Ready">>, "ChecksumError")
  /\ OneAnswer(<<"ChecksumError">>) /\ AnswerFirst(<<"ChecksumError">>)
  /\ Holds(<<"ChecksumError">>, "ChecksumError") /\ ~Holds(<<"ChecksumError">>, "Finished")
  /\ Answerless(<<"Finished">>) /\ Holds(<<"Finished">>, "Finished")
  /\ Answerless(<<"Finished", "Finished">>) /\ Holds(<<"Finished", "Finished">>, "Finished")
  /\ Answerless(<<>>) /\ OneAnswer(<<>>) /\ AnswerFirst(<<>>) /\ \A s : ~Holds(<<>>, s)
<1>1. /\ DOMAIN <<"Busy", "Ready">> = {1, 2} /\ DOMAIN <<"Finished", "Finished">> = {1, 2}
      /\ DOMAIN <<"ChecksumError">> = {1} /\ DOMAIN <<"Finished">> = {1} /\ DOMAIN <<>> = {}
  OBVIOUS
<1>2. /\ OneAnswer(<<"Busy", "Ready">>) /\ AnswerFirst(<<"Busy", "Ready">>)
      /\ Holds(<<"Busy", "Ready">>, "Ready") /\ ~Holds(<<"Busy", "Ready">>, "Finished")
      /\ ~Holds(<<"Busy", "Ready">>, "ChecksumError")
  BY <1>1 DEF OneAnswer, AnswerFirst, Holds, PacketAnswers
<1>3. /\ OneAnswer(<<"ChecksumError">>) /\ AnswerFirst(<<"ChecksumError">>)
      /\ Holds(<<"ChecksumError">>, "ChecksumError") /\ ~Holds(<<"ChecksumError">>, "Finished")
  BY <1>1 DEF OneAnswer, AnswerFirst, Holds, PacketAnswers
<1>4. /\ Answerless(<<"Finished">>) /\ Holds(<<"Finished">>, "Finished")
      /\ Answerless(<<"Finished", "Finished">>) /\ Holds(<<"Finished", "Finished">>, "Finished")
  BY <1>1 DEF Answerless, Holds, PacketAnswers
<1>5. Answerless(<<>>) /\ OneAnswer(<<>>) /\ AnswerFirst(<<>>) /\ \A s : ~Holds(<<>>, s)
  BY <1>1 DEF Answerless, OneAnswer, AnswerFirst, Holds
<1>6. {<<"Busy", "Ready">>, <<"ChecksumError">>, <<"Finished">>, <<"Finished", "Finished">>,
       <<>>} \subseteq Seq(Queued)
  BY DEF Queued
<1> QED
  BY <1>2, <1>3, <1>4, <1>5, <1>6

\* A fault is one of those that may happen.
LEMMA FaultCounted ==
  ASSUME ControllerOK, UNCHANGED faults \/ \E kind : Fault(kind)
  PROVE  faults' \in 0..MaxFaults
<1>1. MaxFaults \in Nat /\ faults \in 0..MaxFaults
  BY LihuiyuRuntimeAssumption DEF ControllerOK
<1>2. faults' = faults \/ (faults < MaxFaults /\ faults' = faults + 1)
  BY DEF Fault
<1> QED
  BY <1>1, <1>2

\* What a read tells: the next status the controller said, or Ready if it has said all.
\* A fault leaves the queue alone.
LEMMA ReadEffect ==
  ASSUME ControllerOK, OneAnswer(status_queue), NEW s, Reads(s)
  PROVE  /\ UNCHANGED <<accepted, running, paused, ran>>
         /\ faults' \in 0..MaxFaults /\ status_queue' \in Seq(Queued)
         /\ OneAnswer(status_queue')
         /\ Answerless(status_queue) => Answerless(status_queue')
         /\ AnswerFirst(status_queue) => AnswerFirst(status_queue')
         /\ \A x : Holds(status_queue', x) => Holds(status_queue, x)
         /\ \A a \in PacketAnswers : Holds(status_queue, a) => a = s \/ Holds(status_queue', a)
         /\ s = "Finished" => Holds(status_queue, "Finished")
         /\ s = "Finished" /\ AnswerFirst(status_queue) => Answerless(status_queue)
         /\ s = "ChecksumError" =>
              /\ Holds(status_queue, "ChecksumError") /\ ~Holds(status_queue, "Ready")
              /\ Answerless(status_queue')
         /\ s = "Ready" =>
              /\ ~Holds(status_queue, "ChecksumError") /\ Answerless(status_queue')
              /\ Answerless(status_queue) => status_queue' = <<>>
<1>1. /\ status_queue \in Seq(Queued) /\ UNCHANGED <<accepted, running, paused, ran>>
  BY DEF ControllerOK, Reads
<1>2. faults' \in 0..MaxFaults
  BY FaultCounted DEF Reads
<1>3. CASE status_queue # <<>> /\ s = Head(status_queue) /\ status_queue' = Tail(status_queue)
  <2>1. "Ready" \in PacketAnswers /\ "ChecksumError" \in PacketAnswers
    BY DEF PacketAnswers
  <2> QED
    BY <1>1, <1>2, <1>3, <2>1, QueueTail
<1>4. CASE status_queue = <<>> /\ s = "Ready" /\ status_queue' = <<>>
  BY <1>1, <1>2, <1>4, SaidAtOnce
<1>5. CASE s \in {"Busy", "Power", "Unknown", "read", "timeout"} /\ UNCHANGED status_queue
  BY <1>1, <1>2, <1>5
<1> QED
  BY <1>3, <1>4, <1>5 DEF Reads

\* The first packets of a job, and one more.
LEMMA PrefixGrows ==
  ASSUME NEW n \in Nat
  PROVE  /\ Prefix(n) \in Seq(Nat) /\ Len(Prefix(n)) = n
         /\ Prefix(n) = <<>> <=> n = 0
         /\ n # 0 => Prefix(n)[n] = n
         /\ Append(Prefix(n), n + 1) = Prefix(n + 1)
         /\ \A m \in Nat : n <= m => Prefix(n) \in Seq(1..m)
<1>1. Prefix(n) \in Seq(Nat) /\ Len(Prefix(n)) = n /\ (n # 0 => Prefix(n)[n] = n)
  BY DEF Prefix
<1>2. Prefix(n) = <<>> <=> n = 0
  BY <1>1
<1>3. Append(Prefix(n), n + 1) = Prefix(n + 1)
  BY DEF Prefix
<1>4. ASSUME NEW m \in Nat, n <= m PROVE Prefix(n) \in Seq(1..m)
  BY <1>4 DEF Prefix
<1> QED
  BY <1>1, <1>2, <1>3, <1>4

\* An operation that has just begun.
Begun(o, kind, part) ==
  /\ o \in Operations /\ o # NoOp
  /\ o.kind = kind /\ o.part = part /\ o.attempt = 1
  /\ ~o.preflight_terminal /\ ~o.ack_terminal

LEMMA BeginsEffect ==
  ASSUME NEW kind \in CommandKinds \cup {"poll", "refresh"}, NEW part \in {"ready", "poll"},
         Begins(kind, part)
  PROVE  Begun(op', kind, part)
<1>1. op' = [NoOp EXCEPT !.kind = kind, !.part = part, !.attempt = 1]
  BY DEF Begins
<1>2. kind \in Kinds /\ kind # "none"
  BY DEF Kinds, CommandKinds, Stops, Drops, Moves
<1>3. 1 \in 0..(checksum_attempts + 2) /\ 0 \in 0..TRANSFER_POLLS_PER_ADVANCE
  BY LihuiyuRuntimeAssumption
<1> QED
  BY <1>1, <1>2, <1>3 DEF Begun, Operations, NoOp

\* An operation that is none.
LEMMA NoOpFields ==
  /\ NoOp \in Operations /\ NoOp.kind = "none" /\ NoOp.part = "none"
  /\ ~NoOp.preflight_terminal /\ ~NoOp.ack_terminal
<1>1. 0 \in 0..(checksum_attempts + 2) /\ 0 \in 0..TRANSFER_POLLS_PER_ADVANCE
  BY LihuiyuRuntimeAssumption
<1> QED
  BY <1>1 DEF NoOp, Operations, Kinds

\* No transfer, and one that has just begun.
LEMMA TransferFields ==
  /\ NoTransfer \in Transfers
  /\ \A index \in 0..(Packets - 1) :
       LET transfer == [NewTransfer EXCEPT !.index = index] IN
       /\ transfer \in Transfers /\ transfer # NoTransfer
       /\ transfer.index = index /\ transfer.attempt = 1
       /\ ~transfer.awaiting_ack /\ ~transfer.pending_ack_terminal
  /\ NewTransfer \in Transfers /\ NewTransfer # NoTransfer /\ NewTransfer.index = 0
  /\ NewTransfer.attempt = 1 /\ ~NewTransfer.awaiting_ack /\ ~NewTransfer.pending_ack_terminal
<1>1. 0 \in 0..(Packets - 1) /\ {0, 1} \subseteq 0..checksum_attempts
  BY LihuiyuRuntimeAssumption
<1>2. /\ NewTransfer.index = 0 /\ NewTransfer.attempt = 1
      /\ ~NewTransfer.awaiting_ack /\ ~NewTransfer.pending_ack_terminal
  BY DEF NoTransfer, NewTransfer
<1>3. NoTransfer \in Transfers /\ NewTransfer \in Transfers
  BY <1>1 DEF NoTransfer, NewTransfer, Transfers
<1>4. NewTransfer.attempt # NoTransfer.attempt
  BY <1>2 DEF NoTransfer
<1>5. ASSUME NEW index \in 0..(Packets - 1)
      PROVE  LET transfer == [NewTransfer EXCEPT !.index = index] IN
             /\ transfer \in Transfers /\ transfer # NoTransfer
             /\ transfer.index = index /\ transfer.attempt = 1
             /\ ~transfer.awaiting_ack /\ ~transfer.pending_ack_terminal
  <2> DEFINE transfer == [NewTransfer EXCEPT !.index = index]
  <2>1. /\ transfer \in Transfers /\ transfer.index = index /\ transfer.attempt = 1
        /\ ~transfer.awaiting_ack /\ ~transfer.pending_ack_terminal
    BY <1>2, <1>3 DEF Transfers
  <2>2. transfer # NoTransfer
    BY <2>1 DEF NoTransfer
  <2> QED
    BY <2>1, <2>2
<1> QED
  BY <1>2, <1>3, <1>4, <1>5

(***************************************************************************)
(* Operations begin, and sessions come and go.                             *)
(***************************************************************************)

\* An operation begins: of a job that is uploaded only one that stops it, which forgets
\* the packet in flight.
LEMMA BeginKeeps ==
  ASSUME RuntimeInv, conn, op = NoOp,
         NEW kind \in CommandKinds \cup {"poll", "refresh"},
         Begins(kind, IF kind \in CommandKinds THEN "ready" ELSE "poll"),
         UNCHANGED <<ctlVars, faults, conn, owned_output_unresolved, job>>, CountsOK',
         active_transfer' = NoTransfer,
         phase' = IF phase = "Transferring" THEN "Running" ELSE phase,
         phase = "Transferring" => kind \in Stops,
         kind \in Moves => phase \in IdlePhases /\ job = "none",
         kind \in {"pause", "resume"} => phase' \in {"Running", "Paused"},
         kind \in {"refresh", "lost"} => job = "none"
  PROVE  RuntimeInv'
<1>1. /\ op' \in Operations /\ op' # NoOp /\ op'.kind = kind /\ op'.attempt = 1
      /\ op'.part = (IF kind \in CommandKinds THEN "ready" ELSE "poll")
      /\ ~op'.preflight_terminal /\ ~op'.ack_terminal
  BY BeginsEffect DEF Begun
<1>2. kind \notin {"none", "advance"} /\ (kind \in {"poll", "refresh"} => kind \notin CommandKinds)
  BY DEF CommandKinds, Stops, Drops, Moves
<1>3. NoOp.kind = "none" /\ NoOp.part = "none" /\ NoTransfer \in Transfers
  BY NoOpFields, TransferFields
<1>4. phase' # "Transferring" /\ (phase' \in IdlePhases => phase \in IdlePhases)
      /\ (phase' \in {"Running", "Paused"} => phase \in {"Transferring", "Running", "Paused"})
  BY DEF IdlePhases
<1>5. ControllerOK' /\ SessionOK'
  BY <1>4 DEF RuntimeInv, ControllerOK, SessionOK, ctlVars
<1>6. OpInv'
  BY <1>1, <1>2, <1>3, <1>4 DEF OpInv, CommandKinds, Stops, Drops, Moves
<1>7. QueueInv'
  BY <1>1, <1>3, <1>4 DEF RuntimeInv, QueueInv, ctlVars
<1>8. OverInv' /\ TransferInv'
  BY <1>1, <1>4 DEF RuntimeInv, OverInv, TransferInv, ctlVars
<1>9. BurnInv'
  BY <1>1, <1>3, <1>4 DEF RuntimeInv, BurnInv, Stops, Drops, ctlVars
<1> QED
  BY <1>5, <1>6, <1>7, <1>8, <1>9 DEF RuntimeInv

\* Between uploads there is no packet in flight.
LEMMA NoneInFlight ==
  ASSUME RuntimeInv, UNCHANGED <<phase, active_transfer>>, phase # "Transferring"
  PROVE  /\ active_transfer' = NoTransfer
         /\ phase' = IF phase = "Transferring" THEN "Running" ELSE phase
  BY DEF RuntimeInv, SessionOK

\* A session that is dropped.
LEMMA DroppedKeeps ==
  ASSUME RuntimeInv, Dropped, job' = "none", UNCHANGED counts,
         ControllerOK', OneAnswer(status_queue'), Holds(status_queue', "Finished") => ~running'
  PROVE  RuntimeInv'
<1>1. /\ conn' = FALSE /\ phase' = "Disconnected" /\ owned_output_unresolved' = FALSE
      /\ active_transfer' = NoTransfer /\ op' = NoOp
  BY DEF Dropped, Phase
<1>2. SessionOK' /\ CountsOK'
  BY <1>1 DEF RuntimeInv, SessionOK, CountsOK, counts
<1>3. OpInv'
  BY <1>1, NoOpFields, TransferFields DEF OpInv, CommandKinds, Stops, Drops, Moves
<1>4. QueueInv' /\ OverInv' /\ TransferInv' /\ BurnInv'
  BY <1>1, NoOpFields DEF QueueInv, OverInv, TransferInv, BurnInv, IdlePhases
<1> QED
  BY <1>2, <1>3, <1>4 DEF RuntimeInv

\* BeginPause and BeginResume: what the job waits for is Running, or Paused.
LEMMA BeginPauseKeeps == RuntimeInv /\ (BeginPause \/ BeginResume) => RuntimeInv'
<1> SUFFICES ASSUME RuntimeInv, NEW kind \in {"pause", "resume"}, Free, Presses, Commands(kind),
                    phase \in {"Running", "Paused"},
                    Machine, UNCHANGED <<conn, rtVars, job>>
             PROVE  RuntimeInv'
  BY DEF BeginPause, BeginResume
<1>1. CountsOK'
  BY LihuiyuRuntimeAssumption DEF RuntimeInv, CountsOK, Presses
<1>2. kind \in CommandKinds /\ kind \notin Moves /\ kind \notin {"refresh", "lost"}
  BY DEF CommandKinds, Moves
<1>3. active_transfer' = NoTransfer /\ phase' = IF phase = "Transferring" THEN "Running" ELSE phase
  BY NoneInFlight DEF rtVars
<1> QED
  BY <1>1, <1>2, <1>3, BeginKeeps DEF Free, Commands, Machine, rtVars

\* BeginCancel and BeginStop: also while the job is uploaded.
LEMMA BeginStopKeeps == RuntimeInv /\ (BeginCancel \/ BeginStop) => RuntimeInv'
<1> SUFFICES ASSUME RuntimeInv, NEW kind \in {"cancel", "stop", "disconnect"}, Free, Presses,
                    Commands(kind), Aborts, Machine, UNCHANGED <<conn, job>>
             PROVE  RuntimeInv'
  BY DEF BeginCancel, BeginStop
<1>1. CountsOK'
  BY LihuiyuRuntimeAssumption DEF RuntimeInv, CountsOK, Presses
<1>2. /\ kind \in CommandKinds /\ kind \in Stops
      /\ kind \notin Moves /\ kind \notin {"pause", "resume", "refresh", "lost"}
  BY DEF CommandKinds, Stops, Drops, Moves
<1> QED
  BY <1>1, <1>2, BeginKeeps DEF Free, Commands, Aborts, Machine

\* BeginMove: only while the machine is idle.
LEMMA BeginMoveKeeps == RuntimeInv /\ BeginMove => RuntimeInv'
<1> SUFFICES ASSUME RuntimeInv, BeginMove PROVE RuntimeInv'
  OBVIOUS
<1>1. PICK kind \in Moves : Commands(kind)
  BY DEF BeginMove
<1>2. CountsOK'
  BY LihuiyuRuntimeAssumption DEF RuntimeInv, CountsOK, BeginMove
<1>3. kind \in CommandKinds /\ kind \notin {"pause", "resume", "refresh", "lost"}
  BY DEF CommandKinds, Moves
<1>4. phase \in IdlePhases /\ phase # "Transferring" /\ UNCHANGED <<phase, active_transfer>>
  BY DEF BeginMove, IdlePhases, rtVars
<1> QED
  BY <1>1, <1>2, <1>3, <1>4, NoneInFlight, BeginKeeps
     DEF BeginMove, Free, Commands, Machine, rtVars

\* BeginRefresh: of an idle session, which is polled or taken for lost.
LEMMA BeginRefreshKeeps == RuntimeInv /\ BeginRefresh => RuntimeInv'
<1> SUFFICES ASSUME RuntimeInv, BeginRefresh PROVE RuntimeInv'
  OBVIOUS
<1>1. PICK kind \in {"lost", "refresh"} :
        Begins(kind, IF kind \in CommandKinds THEN "ready" ELSE "poll")
  BY DEF BeginRefresh, Commands, CommandKinds, Stops, Drops, Moves
<1>2. kind \in CommandKinds \cup {"poll", "refresh"}
      /\ kind \notin Moves /\ kind \notin {"pause", "resume"}
  BY DEF CommandKinds, Stops, Drops, Moves
<1>3. CountsOK'
  BY DEF RuntimeInv, CountsOK, BeginRefresh, counts
<1>4. phase # "Transferring"
  BY DEF BeginRefresh, RuntimeInv, OpInv
<1>5. active_transfer' = NoTransfer /\ phase' = IF phase = "Transferring" THEN "Running" ELSE phase
  BY <1>4, NoneInFlight DEF BeginRefresh, rtVars
<1> QED
  BY <1>1, <1>2, <1>3, <1>4, <1>5, BeginKeeps DEF BeginRefresh, Free, Machine, rtVars

\* StopRefused: a session that cannot be stopped is dropped.
LEMMA StopRefusedKeeps == RuntimeInv /\ StopRefused => RuntimeInv'
<1> SUFFICES ASSUME RuntimeInv, StopRefused PROVE RuntimeInv'
  OBVIOUS
<1>1. ControllerOK' /\ OneAnswer(status_queue') /\ (Holds(status_queue', "Finished") => ~running')
  BY DEF RuntimeInv, ControllerOK, QueueInv, OverInv, StopRefused, Machine, ctlVars
<1> QED
  BY <1>1, DroppedKeeps DEF StopRefused

\* Connect: a machine that was left running has been stopped by hand.
LEMMA ConnectKeeps == RuntimeInv /\ Connect => RuntimeInv'
<1> SUFFICES ASSUME RuntimeInv, Connect PROVE RuntimeInv'
  OBVIOUS
<1>1. <<>> \in Seq(1..Packets) /\ <<>> \in Seq(Queued) /\ Answerless(<<>>) /\ OneAnswer(<<>>)
      /\ AnswerFirst(<<>>) /\ \A s : ~Holds(<<>>, s)
  BY SaidAtOnce
<1>2. /\ ~conn /\ conn' = TRUE /\ phase' = "Ready" /\ running' = FALSE /\ paused' = FALSE
      /\ accepted' = <<>> /\ status_queue' = <<>>
      /\ UNCHANGED <<ran, faults, owned_output_unresolved, active_transfer, job, op, counts>>
  BY DEF Connect, Phase
<1>3. op = NoOp /\ phase = "Disconnected" /\ active_transfer = NoTransfer
  BY <1>2 DEF RuntimeInv, SessionOK
<1>4. ControllerOK' /\ SessionOK' /\ CountsOK'
  BY <1>1, <1>2, <1>3 DEF RuntimeInv, ControllerOK, SessionOK, CountsOK, IdlePhases, counts
<1>5. OpInv'
  BY <1>2, <1>3, NoOpFields DEF RuntimeInv, OpInv, CommandKinds, Stops, Drops, Moves
<1>6. QueueInv' /\ OverInv' /\ TransferInv' /\ BurnInv'
  BY <1>1, <1>2, <1>3, NoOpFields DEF QueueInv, OverInv, TransferInv, BurnInv, IdlePhases
<1> QED
  BY <1>4, <1>5, <1>6 DEF RuntimeInv

\* StartJob: nothing of it has been taken, and nothing runs.
LEMMA StartJobKeeps == RuntimeInv /\ StartJob => RuntimeInv'
<1> SUFFICES ASSUME RuntimeInv, StartJob PROVE RuntimeInv'
  OBVIOUS
<1>1. /\ conn /\ op = NoOp /\ phase \in IdlePhases /\ phase' = "Transferring"
      /\ active_transfer' = NewTransfer /\ job' = "Preparing" /\ accepted' = <<>> /\ ran' = FALSE
      /\ UNCHANGED <<running, paused, status_queue, faults, conn, op>>
  BY DEF StartJob, Free, Phase
<1>2. /\ NewTransfer \in Transfers /\ NewTransfer # NoTransfer /\ NewTransfer.index = 0
      /\ NewTransfer.attempt = 1 /\ ~NewTransfer.awaiting_ack /\ ~NewTransfer.pending_ack_terminal
  BY TransferFields
<1>3. Prefix(0) = <<>> /\ <<>> \in Seq(1..Packets)
  BY PrefixGrows
<1>4. ~running /\ Answerless(status_queue)
  BY <1>1, NoOpFields DEF RuntimeInv, OverInv, QueueInv
<1>5. owned_output_unresolved' \in BOOLEAN
  BY LihuiyuRuntimeAssumption DEF StartJob
<1>6. ControllerOK'
  BY <1>1, <1>3 DEF RuntimeInv, ControllerOK
<1>7. SessionOK'
  BY <1>1, <1>2, <1>5 DEF RuntimeInv, SessionOK
<1>8. CountsOK'
  BY LihuiyuRuntimeAssumption DEF RuntimeInv, CountsOK, StartJob
<1>9. OpInv'
  BY <1>1, <1>2, NoOpFields DEF OpInv, CommandKinds, Stops, Drops, Moves
<1>10. QueueInv'
  BY <1>1, <1>4, AnswerlessIsFine, NoOpFields DEF QueueInv
<1>11. OverInv' /\ TransferInv' /\ BurnInv'
  BY <1>1, <1>2, <1>3, <1>4, NoOpFields DEF OverInv, TransferInv, BurnInv
<1> QED
  BY <1>6, <1>7, <1>8, <1>9, <1>10, <1>11 DEF RuntimeInv

\* BeginTick: an upload goes on, a job that needs recovery is dropped, another one polled.
LEMMA BeginTickKeeps == RuntimeInv /\ BeginTick => RuntimeInv'
<1> SUFFICES ASSUME RuntimeInv, BeginTick PROVE RuntimeInv'
  OBVIOUS
<1>1. /\ conn /\ op = NoOp /\ job # "none"
      /\ UNCHANGED <<ctlVars, faults, conn, rtVars, counts>>
  BY DEF BeginTick, Free, Machine
<1>2. CASE phase = "Transferring"
  <2>1. UNCHANGED job /\ op' = [NoOp EXCEPT !.kind = "advance",
                          !.part = IF active_transfer.awaiting_ack THEN "ack" ELSE "ready"]
    BY <1>2 DEF BeginTick, Transfer
  <2>2. /\ op' \in Operations /\ op'.kind = "advance" /\ op' # NoOp
        /\ op'.part = (IF active_transfer.awaiting_ack THEN "ack" ELSE "ready")
        /\ op'.polls = 0 /\ ~op'.preflight_terminal /\ ~op'.ack_terminal
    <3>1. NoOp \in Operations /\ NoOp.kind = "none"
      BY NoOpFields
    <3> QED
      BY <2>1, <3>1, NoOpFields DEF Operations, Kinds, NoOp
  <2> HIDE <2>1
  <2>3. ControllerOK' /\ SessionOK' /\ CountsOK'
    BY <1>1, <2>1, <2>2 DEF RuntimeInv, ControllerOK, SessionOK, CountsOK, ctlVars, rtVars, counts
  <2>4. OpInv'
    BY <1>1, <1>2, <2>1, <2>2, LihuiyuRuntimeAssumption DEF RuntimeInv, OpInv, CommandKinds, Stops, Drops, Moves,
       rtVars
  <2>5. QueueInv'
    BY <1>1, <1>2, <2>2, NoOpFields DEF RuntimeInv, QueueInv, IdlePhases, ctlVars, rtVars
  <2>6. OverInv' /\ TransferInv' /\ BurnInv'
    BY <1>1, <1>2, <2>2 DEF RuntimeInv, OverInv, TransferInv, BurnInv, IdlePhases, ctlVars,
       rtVars
  <2> QED
    BY <2>3, <2>4, <2>5, <2>6 DEF RuntimeInv
<1>3. CASE phase = "RecoveryRequired"
  <2>1. job' = "none" /\ UNCHANGED op
    BY <1>3 DEF BeginTick
  <2> QED
    BY <1>1, <1>3, <2>1, NoOpFields DEF RuntimeInv, ControllerOK, SessionOK, CountsOK, OpInv, QueueInv,
       OverInv, TransferInv, BurnInv, ctlVars, rtVars, counts, CommandKinds, Stops, Drops, Moves
<1>4. CASE phase \notin {"Transferring", "RecoveryRequired"}
  <2>1. UNCHANGED job /\ Begins("poll", "poll")
    BY <1>4 DEF BeginTick
  <2>2. "poll" \notin CommandKinds /\ "poll" \notin Moves
    BY DEF CommandKinds, Stops, Drops, Moves
  <2>3. CountsOK'
    BY <1>1 DEF RuntimeInv, CountsOK, counts
  <2>4. active_transfer' = NoTransfer
        /\ phase' = IF phase = "Transferring" THEN "Running" ELSE phase
    BY <1>1, <1>4, NoneInFlight DEF rtVars
  <2>5. Begins("poll", IF "poll" \in CommandKinds THEN "ready" ELSE "poll")
    BY <2>1, <2>2
  <2> QED
    BY <1>1, <1>4, <2>1, <2>2, <2>3, <2>4, <2>5, BeginKeeps DEF rtVars
<1> QED
  BY <1>2, <1>3, <1>4

\* CompleteJob: the machine has run what it has taken of the job, which is all of it.
LEMMA CompleteJobKeeps == RuntimeInv /\ CompleteJob => RuntimeInv'
<1> SUFFICES ASSUME RuntimeInv, CompleteJob PROVE RuntimeInv'
  OBVIOUS
<1>1. /\ running /\ running' = FALSE /\ accepted # <<>> /\ accepted[Len(accepted)] = Packets
      /\ ran' = (accepted = Prefix(Packets))
      /\ UNCHANGED <<accepted, paused, conn, rtVars, job, op, counts>>
  BY DEF CompleteJob, Prefix
<1>2. PICK more \in {<<"Finished">>, <<"Finished", "Finished">>} : status_queue' = status_queue \o more
  BY DEF CompleteJob, Answers
<1>3. /\ more \in Seq(Queued) /\ Answerless(more) /\ status_queue \in Seq(Queued)
  BY SaidAtOnce DEF RuntimeInv, ControllerOK
<1>4. /\ status_queue' \in Seq(Queued)
      /\ \A s : Holds(status_queue', s) <=> Holds(status_queue, s) \/ Holds(more, s)
      /\ Answerless(status_queue) => Answerless(status_queue')
      /\ OneAnswer(status_queue) => OneAnswer(status_queue')
      /\ AnswerFirst(status_queue) => AnswerFirst(status_queue')
  BY <1>2, <1>3, QueueJoin
<1>5. faults' \in 0..MaxFaults
  BY FaultCounted DEF RuntimeInv, CompleteJob
<1>6. ~Holds(status_queue, "Finished") /\ ~op.preflight_terminal /\ ~op.ack_terminal
      /\ phase \notin IdlePhases
  BY <1>1 DEF RuntimeInv, OverInv
<1>7. Packets \in Nat \ {0}
  BY LihuiyuRuntimeAssumption
\* What was taken ends with the last packet only if that is in flight.
<1>8. phase = "Transferring" => active_transfer.awaiting_ack /\ accepted = Prefix(Packets)
  <2> SUFFICES ASSUME phase = "Transferring"
               PROVE  active_transfer.awaiting_ack /\ accepted = Prefix(Packets)
    OBVIOUS
  <2>1. active_transfer.index \in 0..(Packets - 1)
    BY DEF RuntimeInv, OpInv, Transfers
  <2> DEFINE index == active_transfer.index
  <2>2. accepted # Prefix(index)
    <3>1. index \in Nat /\ index < Packets
      BY <1>7, <2>1
    <3>2. index = 0 => Prefix(index) = <<>>
      BY <3>1, PrefixGrows
    <3>3. index # 0 => Len(Prefix(index)) = index /\ Prefix(index)[index] = index
      BY <3>1, PrefixGrows
    <3> QED
      BY <1>1, <3>1, <3>2, <3>3
  <2>3. active_transfer.awaiting_ack /\ accepted = Prefix(index + 1)
    BY <2>2 DEF RuntimeInv, TransferInv
  <2>4. Prefix(index + 1)[index + 1] = index + 1 /\ Len(Prefix(index + 1)) = index + 1
    <3>1. index + 1 \in Nat /\ index + 1 # 0
      BY <1>7, <2>1
    <3> QED
      BY <3>1, PrefixGrows
  <2>5. index + 1 = Packets
    BY <1>1, <2>3, <2>4
  <2> QED
    BY <2>3, <2>5
<1>9. ControllerOK' /\ SessionOK' /\ CountsOK'
  BY <1>1, <1>4, <1>5 DEF RuntimeInv, ControllerOK, SessionOK, CountsOK, rtVars, counts
<1>10. OpInv'
  BY <1>1 DEF RuntimeInv, OpInv, rtVars
<1>11. QueueInv'
  BY <1>1, <1>4, <1>6, <1>8 DEF RuntimeInv, QueueInv, OpInv, rtVars
<1>12. OverInv'
  BY <1>1, <1>4 DEF RuntimeInv, OverInv, rtVars
<1>13. TransferInv'
  BY <1>1, <1>4, <1>8 DEF RuntimeInv, TransferInv, rtVars
<1>14. BurnInv'
  BY <1>1 DEF RuntimeInv, BurnInv, rtVars
<1> QED
  BY <1>9, <1>10, <1>11, <1>12, <1>13, <1>14 DEF RuntimeInv

(***************************************************************************)
(* An upload.                                                              *)
(***************************************************************************)

\* A tick goes on, or has read enough.
LEMMA GoesOnEffect ==
  ASSUME OpInv, op.kind = "advance", op.part # "write",
         NEW part \in {"ready", "write", "ack"}, GoesOn(part)
  PROVE  /\ op' \in Operations
         /\ \/ op' = NoOp /\ part # "write"
            \/ /\ op'.kind = "advance" /\ op'.part = part /\ op' # NoOp
               /\ part # "write" => op'.polls < TRANSFER_POLLS_PER_ADVANCE
               /\ op'.preflight_terminal = op.preflight_terminal
               /\ op'.ack_terminal = op.ack_terminal
<1>1. /\ op \in Operations /\ op.polls \in Nat /\ op.polls < TRANSFER_POLLS_PER_ADVANCE
      /\ TRANSFER_POLLS_PER_ADVANCE \in Nat
  BY LihuiyuRuntimeAssumption DEF OpInv, Operations
<1>2. CASE op' = NoOp /\ part # "write"
  BY <1>2, NoOpFields
<1>3. CASE op' = [op EXCEPT !.part = part, !.polls = op.polls + 1]
           /\ (part = "write" \/ op.polls + 1 # TRANSFER_POLLS_PER_ADVANCE)
  <2>1. op.polls + 1 \in 0..TRANSFER_POLLS_PER_ADVANCE
    BY <1>1
  <2>2. op' \in Operations
    BY <1>1, <1>3, <2>1 DEF Operations
  <2>3. /\ op'.kind = "advance" /\ op'.part = part /\ op'.polls = op.polls + 1
        /\ op'.preflight_terminal = op.preflight_terminal
               /\ op'.ack_terminal = op.ack_terminal
    BY <1>1, <1>3 DEF Operations
  <2>4. op' # NoOp
    BY <2>3, NoOpFields
  <2>5. part # "write" => op'.polls < TRANSFER_POLLS_PER_ADVANCE
    BY <1>1, <1>3, <2>3
  <2> QED
    BY <2>2, <2>3, <2>4, <2>5
<1> QED
  BY <1>2, <1>3 DEF GoesOn, Polled

\* An upload that fails leaves a session that is Ready only if no packet was taken.
LEMMA AdvanceFailsKeeps ==
  ASSUME RuntimeInv, op.kind = "advance", NEW s, NEW ambiguous \in BOOLEAN,
         AdvanceFails(s, ambiguous), UNCHANGED counts, ControllerOK', OneAnswer(status_queue'),
         Holds(status_queue', "Finished") => ~running',
         ~ambiguous /\ active_transfer.index = 0 => ~running' /\ Answerless(status_queue')
  PROVE  RuntimeInv'
<1>1. /\ active_transfer' = NoTransfer /\ job' = "none" /\ op' = NoOp /\ UNCHANGED conn
      /\ phase' \in {"RecoveryRequired", "PowerFault", "Ready"}
      /\ owned_output_unresolved' \in {owned_output_unresolved, FALSE}
  BY DEF AdvanceFails, Recover, Resolved, Phase, Stays
<1>2. phase' = "Ready" => ~ambiguous /\ active_transfer.index = 0
  <2>1. active_transfer.index \in Nat
    BY LihuiyuRuntimeAssumption DEF RuntimeInv, OpInv, Transfers
  <2> QED
    BY <2>1 DEF AdvanceFails, Recover, Resolved, Phase, Transfer
<1>3. phase = "Transferring" /\ conn
  BY DEF RuntimeInv, OpInv, SessionOK
<1>4. SessionOK' /\ CountsOK'
  BY <1>1, <1>3 DEF RuntimeInv, SessionOK, CountsOK, IdlePhases, counts
<1>5. OpInv'
  BY <1>1, NoOpFields, TransferFields DEF OpInv, CommandKinds, Stops, Drops, Moves
<1>6. QueueInv'
  BY <1>1, <1>2, NoOpFields DEF QueueInv, IdlePhases
<1>7. OverInv' /\ TransferInv' /\ BurnInv'
  BY <1>1, <1>2, NoOpFields DEF OverInv, TransferInv, BurnInv, IdlePhases
<1> QED
  BY <1>4, <1>5, <1>6, <1>7 DEF RuntimeInv

\* An upload that goes on: what was acknowledged stays, and so does the session.
LEMMA AdvanceGoesOnKeeps ==
  ASSUME RuntimeInv, op.kind = "advance", op.part # "write",
         NEW part \in {"ready", "write", "ack"}, GoesOn(part),
         UNCHANGED <<accepted, running, ran, conn, phase, owned_output_unresolved, job, counts>>,
         active_transfer' \in Transfers, active_transfer'.attempt >= 1,
         active_transfer'.index = active_transfer.index,
         ~active_transfer'.pending_ack_terminal,
         active_transfer'.awaiting_ack <=> part = "ack",
         ControllerOK', OneAnswer(status_queue'),
         \A x : Holds(status_queue', x) => Holds(status_queue, x),
         part = "ack" =>
           /\ op.part = "ack" /\ AnswerFirst(status_queue')
           /\ \A a \in PacketAnswers : Holds(status_queue, a) => Holds(status_queue', a),
         part # "ack" =>
           Answerless(status_queue') /\ accepted = Prefix(active_transfer.index),
         part = "write" => status_queue' = <<>>
  PROVE  RuntimeInv'
<1>1. /\ op' \in Operations
      /\ \/ op' = NoOp /\ part # "write"
         \/ /\ op'.kind = "advance" /\ op'.part = part /\ op' # NoOp
            /\ part # "write" => op'.polls < TRANSFER_POLLS_PER_ADVANCE
            /\ op'.preflight_terminal = op.preflight_terminal
               /\ op'.ack_terminal = op.ack_terminal
  BY GoesOnEffect DEF RuntimeInv
<1>2. /\ phase = "Transferring" /\ conn /\ job # "none"
      /\ active_transfer.awaiting_ack <=> op.part = "ack"
      /\ ~op.preflight_terminal /\ ~op.ack_terminal
  BY DEF RuntimeInv, OpInv, SessionOK
<1>3. active_transfer' # NoTransfer
  BY DEF NoTransfer
<1>4. SessionOK' /\ CountsOK'
  BY <1>2, <1>3 DEF RuntimeInv, SessionOK, CountsOK, counts
<1>5. OpInv'
  BY <1>1, <1>2, NoOpFields DEF OpInv, CommandKinds, Stops, Drops, Moves
<1>6. AnswerFirst(status_queue')
  BY AnswerlessIsFine
<1>7. QueueInv'
  BY <1>1, <1>2, <1>6, NoOpFields DEF QueueInv, IdlePhases
<1>8. OverInv'
  BY <1>1, <1>2, NoOpFields DEF RuntimeInv, OverInv, IdlePhases
<1>9. TransferInv'
  <2>1. CASE part = "ack"
    BY <1>2, <2>1 DEF RuntimeInv, TransferInv, PacketAnswers
  <2>2. CASE part # "ack"
    BY <1>2, <2>2 DEF RuntimeInv, TransferInv
  <2> QED
    BY <2>1, <2>2
<1>10. BurnInv'
  BY <1>2 DEF BurnInv
<1> QED
  BY <1>4, <1>5, <1>7, <1>8, <1>9, <1>10 DEF RuntimeInv

\* AdvanceReads: the controller answers, and the upload goes on, ends or fails.
LEMMA AdvanceReadsKeeps == RuntimeInv /\ AdvanceReads => RuntimeInv'
<1> SUFFICES ASSUME RuntimeInv, AdvanceReads PROVE RuntimeInv'
  OBVIOUS
<1>1. PICK s \in Statuses :
        /\ Reads(s)
        /\ \/ AdvanceReady(s) \/ AdvanceNotReady(s) \/ AdvanceAcked(s)
           \/ AdvanceRejected(s) \/ AdvanceWaits(s) \/ AdvanceLost(s)
  BY DEF AdvanceReads
<1>2. op.kind = "advance" /\ UNCHANGED counts
  BY DEF AdvanceReads
<1>3. ControllerOK /\ OneAnswer(status_queue)
  BY DEF RuntimeInv, QueueInv
<1>4. /\ UNCHANGED <<accepted, running, paused, ran>>
      /\ faults' \in 0..MaxFaults /\ status_queue' \in Seq(Queued)
      /\ OneAnswer(status_queue')
      /\ Answerless(status_queue) => Answerless(status_queue')
      /\ AnswerFirst(status_queue) => AnswerFirst(status_queue')
      /\ \A x : Holds(status_queue', x) => Holds(status_queue, x)
      /\ \A a \in PacketAnswers : Holds(status_queue, a) => a = s \/ Holds(status_queue', a)
      /\ s = "Finished" => Holds(status_queue, "Finished")
      /\ s = "Finished" /\ AnswerFirst(status_queue) => Answerless(status_queue)
      /\ s = "ChecksumError" =>
           /\ Holds(status_queue, "ChecksumError") /\ ~Holds(status_queue, "Ready")
           /\ Answerless(status_queue')
      /\ s = "Ready" =>
           /\ ~Holds(status_queue, "ChecksumError") /\ Answerless(status_queue')
           /\ Answerless(status_queue) => status_queue' = <<>>
  BY <1>1, <1>3, ReadEffect
<1>5. ControllerOK'
  BY <1>3, <1>4 DEF ControllerOK
<1>6. /\ active_transfer \in Transfers /\ active_transfer.attempt >= 1
      /\ ~active_transfer.pending_ack_terminal
      /\ active_transfer.index \in 0..(Packets - 1) /\ Packets \in Nat \ {0}
      /\ phase = "Transferring" /\ conn /\ job # "none"
      /\ op.part \in {"ready", "write", "ack"}
      /\ op.part = "ack" <=> active_transfer.awaiting_ack
      /\ ~active_transfer.awaiting_ack =>
           Answerless(status_queue) /\ accepted = Prefix(active_transfer.index)
      /\ active_transfer.awaiting_ack =>
           \/ Holds(status_queue, "Ready") /\ accepted = Prefix(active_transfer.index + 1)
           \/ Holds(status_queue, "ChecksumError") /\ accepted = Prefix(active_transfer.index)
      /\ AnswerFirst(status_queue)
  BY <1>2, LihuiyuRuntimeAssumption
     DEF RuntimeInv, OpInv, TransferInv, QueueInv, SessionOK, Transfers
<1>7. /\ Holds(status_queue', "Finished") => ~running'
      /\ accepted = <<>> => ~running'
      /\ active_transfer.index = 0 /\ accepted = Prefix(active_transfer.index) => ~running'
  <2>1. Prefix(0) = <<>>
    BY PrefixGrows
  <2> QED
    BY <1>4, <1>6, <2>1 DEF RuntimeInv, OverInv, TransferInv
<1> DEFINE index == active_transfer.index
<1>8. ASSUME AdvanceReady(s) PROVE RuntimeInv'
  <2>1. op.part = "ready" /\ UNCHANGED <<conn, phase, owned_output_unresolved, job>>
    BY <1>8 DEF AdvanceReady
  <2>2. CASE s = "Ready" /\ GoesOn("write") /\ UNCHANGED active_transfer
    BY <1>2, <1>4, <1>5, <1>6, <2>1, <2>2, AdvanceGoesOnKeeps
  <2>3. CASE s = "Busy" /\ GoesOn("ready") /\ UNCHANGED active_transfer
    BY <1>2, <1>4, <1>5, <1>6, <2>1, <2>3, AdvanceGoesOnKeeps
  <2>4. CASE /\ s = "Finished" /\ GoesOn("ready")
             /\ active_transfer' = [active_transfer EXCEPT !.observed_preflight_terminal = TRUE]
    <3>1. /\ active_transfer' \in Transfers /\ active_transfer'.attempt >= 1
          /\ active_transfer'.index = active_transfer.index
          /\ ~active_transfer'.pending_ack_terminal /\ ~active_transfer'.awaiting_ack
      BY <1>6, <2>1, <2>4 DEF Transfers
    <3> QED
      BY <1>2, <1>4, <1>5, <1>6, <2>1, <2>4, <3>1, AdvanceGoesOnKeeps
  <2> QED
    BY <1>8, <2>2, <2>3, <2>4 DEF AdvanceReady, Transfer
<1>9. ASSUME AdvanceNotReady(s) PROVE RuntimeInv'
  <2>1. AdvanceFails(s, FALSE) /\ op.part = "ready"
    BY <1>9 DEF AdvanceNotReady
  <2>2. index = 0 => ~running' /\ Answerless(status_queue')
    BY <1>4, <1>6, <1>7, <2>1
  <2> QED
    BY <1>2, <1>4, <1>5, <1>7, <2>1, <2>2, AdvanceFailsKeeps
<1>10. ASSUME AdvanceLost(s) PROVE RuntimeInv'
  <2>1. AdvanceFails(s, TRUE)
    BY <1>10 DEF AdvanceLost
  <2> QED
    BY <1>2, <1>4, <1>5, <1>7, <2>1, AdvanceFailsKeeps
<1>11. ASSUME AdvanceRejected(s) PROVE RuntimeInv'
  <2>1. op.part = "ack" /\ s = "ChecksumError" /\ accepted = Prefix(index)
    BY <1>4, <1>6, <1>11 DEF AdvanceRejected
  <2>2. CASE AdvanceFails(s, FALSE)
    BY <1>2, <1>4, <1>5, <1>7, <2>1, <2>2, AdvanceFailsKeeps
  <2>3. CASE /\ active_transfer.attempt < checksum_attempts
             /\ active_transfer' = [active_transfer EXCEPT !.attempt = @ + 1, !.awaiting_ack = FALSE]
             /\ GoesOn("ready")
             /\ UNCHANGED <<conn, phase, owned_output_unresolved, job>>
    <3>1. active_transfer.attempt + 1 \in 0..checksum_attempts /\ active_transfer.attempt + 1 >= 1
      BY <1>6, <2>3, LihuiyuRuntimeAssumption DEF Transfers
    <3>2. /\ active_transfer' \in Transfers /\ active_transfer'.attempt >= 1
          /\ active_transfer'.index = active_transfer.index
          /\ ~active_transfer'.pending_ack_terminal /\ ~active_transfer'.awaiting_ack
      BY <1>6, <2>3, <3>1 DEF Transfers
    <3> QED
      BY <1>2, <1>4, <1>5, <1>6, <2>1, <2>3, <3>2, AdvanceGoesOnKeeps
  <2>4. active_transfer.attempt >= checksum_attempts \/ active_transfer.attempt < checksum_attempts
    BY <1>6, LihuiyuRuntimeAssumption DEF Transfers
  <2> QED
    BY <1>11, <2>2, <2>3, <2>4 DEF AdvanceRejected, Transfer
<1>12. ASSUME AdvanceWaits(s) PROVE RuntimeInv'
  <2>1. /\ op.part = "ack" /\ s \in {"Busy", "Finished"} /\ GoesOn("ack")
        /\ active_transfer' = [active_transfer EXCEPT !.pending_ack_terminal = @ \/ s = "Finished"]
        /\ UNCHANGED <<conn, phase, owned_output_unresolved, job>>
    BY <1>12 DEF AdvanceWaits, Transfer
  <2>2. s = "Busy"
    <3>1. ~Answerless(status_queue)
      BY <1>6, <2>1, AnswerlessIsFine DEF PacketAnswers
    <3> QED
      BY <1>4, <1>6, <2>1, <3>1
  <2>3. /\ active_transfer' \in Transfers /\ active_transfer'.attempt >= 1
        /\ active_transfer'.index = active_transfer.index
        /\ ~active_transfer'.pending_ack_terminal /\ active_transfer'.awaiting_ack
    BY <1>6, <2>1, <2>2 DEF Transfers
  <2>4. "Busy" \notin PacketAnswers
    BY DEF PacketAnswers
  <2> QED
    BY <1>2, <1>4, <1>5, <1>6, <2>1, <2>2, <2>3, <2>4, AdvanceGoesOnKeeps
<1>13. ASSUME AdvanceAcked(s) PROVE RuntimeInv'
  <2>1. op.part = "ack" /\ s = "Ready"
    BY <1>13 DEF AdvanceAcked
  <2>2. accepted = Prefix(index + 1) /\ Answerless(status_queue')
    BY <1>4, <1>6, <2>1
  <2>3. CASE AdvanceFails(s, TRUE)
    BY <1>2, <1>4, <1>5, <1>7, <2>3, AdvanceFailsKeeps
  <2>4. CASE index + 1 < Packets /\ Acknowledged /\ Stays
    <3>1. /\ active_transfer' = [NewTransfer EXCEPT !.index = index + 1]
          /\ op' = NoOp /\ UNCHANGED <<conn, phase, owned_output_unresolved, job>>
      BY <2>4 DEF Acknowledged, Stays, Transfer
    <3>2. index + 1 \in 0..(Packets - 1)
      BY <1>6, <2>4
    <3>3. /\ active_transfer' \in Transfers /\ active_transfer' # NoTransfer
          /\ active_transfer'.index = index + 1 /\ active_transfer'.attempt = 1
          /\ ~active_transfer'.awaiting_ack /\ ~active_transfer'.pending_ack_terminal
      BY <3>1, <3>2, TransferFields
    <3> HIDE <3>1
    <3>4. SessionOK' /\ CountsOK'
      BY <1>2, <1>6, <3>1, <3>3 DEF RuntimeInv, SessionOK, CountsOK, counts
    <3>5. OpInv'
      BY <1>6, <3>1, <3>3, NoOpFields DEF OpInv, CommandKinds, Stops, Drops, Moves
    <3>6. QueueInv'
      BY <1>4, <1>6, <2>2, <3>1, NoOpFields DEF QueueInv, IdlePhases
    <3>7. OverInv' /\ BurnInv'
      BY <1>6, <1>7, <3>1, NoOpFields DEF OverInv, BurnInv, IdlePhases
    <3>8. TransferInv'
      BY <1>4, <1>6, <1>7, <2>2, <3>1, <3>3 DEF RuntimeInv, TransferInv
    <3> QED
      BY <1>5, <3>4, <3>5, <3>6, <3>7, <3>8 DEF RuntimeInv
  <2>5. CASE ~(index + 1 < Packets) /\ Acknowledged /\ Stays
    <3>1. /\ active_transfer' = NoTransfer /\ op' = NoOp /\ phase' = "Running"
          /\ job' = "Running" /\ UNCHANGED <<conn, owned_output_unresolved>>
      BY <1>6, <2>5 DEF Acknowledged, Stays, Transfer, Phase, JobFrom
    <3>2. index + 1 = Packets
      BY <1>6, <2>5
    <3>3. accepted = Prefix(Packets) /\ accepted # <<>>
      BY <1>6, <2>2, <3>2, PrefixGrows
    <3>4. SessionOK' /\ CountsOK'
      BY <1>2, <1>6, <3>1 DEF RuntimeInv, SessionOK, CountsOK, counts
    <3>5. OpInv'
      BY <3>1, NoOpFields, TransferFields DEF OpInv, CommandKinds, Stops, Drops, Moves
    <3>6. QueueInv'
      BY <1>4, <1>6, <3>1, NoOpFields DEF QueueInv, IdlePhases
    <3>7. OverInv' /\ TransferInv'
      BY <1>7, <3>1, NoOpFields DEF OverInv, TransferInv, IdlePhases
    <3>8. BurnInv'
      BY <1>4, <1>6, <3>1, <3>3, NoOpFields DEF RuntimeInv, TransferInv, BurnInv
    <3> QED
      BY <1>5, <3>4, <3>5, <3>6, <3>7, <3>8 DEF RuntimeInv
  <2> QED
    BY <1>13, <2>3, <2>4, <2>5 DEF AdvanceAcked
<1> QED
  BY <1>1, <1>8, <1>9, <1>10, <1>11, <1>12, <1>13

\* A packet is taken, garbled or lost.
Taken(n) ==
  /\ accepted' = Append(accepted, n) /\ running' = TRUE
  /\ status_queue' = status_queue \o <<"Busy", "Ready">>
  /\ UNCHANGED <<paused, ran>>
Garbled ==
  /\ status_queue' = status_queue \o <<"ChecksumError">>
  /\ UNCHANGED <<accepted, running, paused, ran>>

\* AdvanceWrites: a packet is written, or fails to be.
LEMMA AdvanceWritesKeeps == RuntimeInv /\ AdvanceWrites => RuntimeInv'
<1> SUFFICES ASSUME RuntimeInv, AdvanceWrites PROVE RuntimeInv'
  OBVIOUS
<1> DEFINE index == active_transfer.index
<1>1. op.kind = "advance" /\ op.part = "write" /\ UNCHANGED counts
  BY DEF AdvanceWrites
<1>2. /\ active_transfer \in Transfers /\ active_transfer.attempt >= 1
      /\ ~active_transfer.awaiting_ack /\ ~active_transfer.pending_ack_terminal
      /\ index \in 0..(Packets - 1) /\ Packets \in Nat \ {0}
      /\ phase = "Transferring" /\ conn /\ job # "none"
      /\ accepted = Prefix(index) /\ status_queue = <<>>
  BY <1>1, LihuiyuRuntimeAssumption
     DEF RuntimeInv, OpInv, TransferInv, QueueInv, SessionOK, Transfers
<1>3. /\ op \in Operations /\ faults' \in 0..MaxFaults
      /\ index = 0 => ~running
  <2>1. Prefix(0) = <<>>
    BY PrefixGrows
  <2>2. UNCHANGED faults \/ \E kind : Fault(kind)
    BY DEF AdvanceWrites, Arrives, Breaks
  <2>3. faults' \in 0..MaxFaults
    BY <2>2, FaultCounted DEF RuntimeInv
  <2> QED
    BY <1>2, <2>1, <2>3 DEF RuntimeInv, OpInv, TransferInv
\* What the controller says of it.
<1>4. ASSUME Taken(index + 1)
      PROVE  /\ accepted' = Prefix(index + 1) /\ status_queue' = <<"Busy", "Ready">>
             /\ running' = TRUE /\ accepted' # <<>> /\ UNCHANGED ran
             /\ ControllerOK'
  <2>1. accepted' = Prefix(index + 1) /\ status_queue' = <<"Busy", "Ready">>
    <3>1. index \in Nat
      BY <1>2
    <3>2. accepted' = Append(Prefix(index), index + 1)
      BY <1>2, <1>4 DEF Taken
    <3>3. status_queue' = <<>> \o <<"Busy", "Ready">>
      BY <1>2, <1>4 DEF Taken
    <3>4. <<>> \o <<"Busy", "Ready">> = <<"Busy", "Ready">>
      OBVIOUS
    <3> QED
      BY <3>1, <3>2, <3>3, <3>4, PrefixGrows
  <2>2. index + 1 \in Nat /\ index + 1 <= Packets /\ index + 1 # 0
    BY <1>2
  <2>3. Prefix(index + 1) \in Seq(1..Packets) /\ Prefix(index + 1) # <<>>
    BY <1>2, <2>2, PrefixGrows
  <2> QED
    BY <1>3, <1>4, <2>1, <2>3, SaidAtOnce DEF Taken, RuntimeInv, ControllerOK
<1>5. ASSUME Garbled
      PROVE  /\ status_queue' = <<"ChecksumError">> /\ UNCHANGED <<accepted, running, ran>>
             /\ ControllerOK'
  <2>1. status_queue' = <<"ChecksumError">>
    BY <1>2, <1>5 DEF Garbled
  <2> QED
    BY <1>3, <1>5, <2>1, SaidAtOnce DEF Garbled, RuntimeInv, ControllerOK
<1>6. CASE /\ Taken(index + 1) \/ Garbled
           /\ active_transfer' = [active_transfer EXCEPT !.awaiting_ack = TRUE,
                                                         !.pending_ack_terminal = FALSE]
           /\ op' = IF op.polls = TRANSFER_POLLS_PER_ADVANCE THEN NoOp
                    ELSE [op EXCEPT !.part = "ack"]
           /\ UNCHANGED <<conn, phase, owned_output_unresolved, job>>
  <2>1. /\ active_transfer' \in Transfers /\ active_transfer'.attempt >= 1
        /\ active_transfer'.index = index
        /\ ~active_transfer'.pending_ack_terminal /\ active_transfer'.awaiting_ack
        /\ active_transfer' # NoTransfer
    BY <1>2, <1>6 DEF Transfers, NoTransfer
  <2>2. /\ op' \in Operations
        /\ \/ op' = NoOp
           \/ /\ op'.kind = "advance" /\ op'.part = "ack"
              /\ op'.polls < TRANSFER_POLLS_PER_ADVANCE
    <3>1. op.polls \in 0..TRANSFER_POLLS_PER_ADVANCE /\ TRANSFER_POLLS_PER_ADVANCE \in Nat
      BY <1>3, LihuiyuRuntimeAssumption DEF Operations
    <3>2. CASE op' = NoOp
      BY <3>2, NoOpFields
    <3>3. CASE op' = [op EXCEPT !.part = "ack"] /\ op.polls # TRANSFER_POLLS_PER_ADVANCE
      BY <1>1, <1>3, <3>1, <3>3 DEF Operations
    <3> QED
      BY <1>6, <3>2, <3>3
  <2>3. op' # NoOp => op'.kind = "advance" /\ op'.part = "ack"
    BY <2>2
  <2>4. op'.kind = "advance" => op' # NoOp
    BY NoOpFields
  <2>13. ~op'.preflight_terminal /\ ~op'.ack_terminal
    <3>1. ~op.preflight_terminal /\ ~op.ack_terminal
      BY <1>1 DEF RuntimeInv, OpInv
    <3> QED
      BY <1>3, <1>6, <3>1, NoOpFields DEF Operations
  <2>5. /\ OneAnswer(status_queue') /\ AnswerFirst(status_queue')
        /\ ~Holds(status_queue', "Finished")
        /\ \/ Holds(status_queue', "Ready") /\ accepted' = Prefix(index + 1) /\ accepted' # <<>>
           \/ Holds(status_queue', "ChecksumError") /\ accepted' = Prefix(index) /\ UNCHANGED running
    BY <1>2, <1>4, <1>5, <1>6, SaidAtOnce
  <2>6. ControllerOK' /\ SessionOK' /\ CountsOK'
    BY <1>1, <1>2, <1>4, <1>5, <1>6, <2>1 DEF RuntimeInv, SessionOK, CountsOK, counts
  <2>7. OpInv'
    BY <1>2, <1>6, <2>1, <2>2, <2>4, <2>13, NoOpFields DEF OpInv, CommandKinds, Stops, Drops, Moves
  <2>8. QueueInv'
    BY <1>2, <1>6, <2>2, <2>5, NoOpFields DEF QueueInv, IdlePhases
  <2>9. OverInv'
    BY <1>2, <1>6, <2>2, <2>5, <2>13, NoOpFields DEF OverInv, IdlePhases
  <2>10. TransferInv'
    BY <1>2, <1>3, <1>6, <2>1, <2>5 DEF RuntimeInv, TransferInv
  <2>11. BurnInv'
    BY <1>2, <1>6 DEF BurnInv
  <2> QED
    BY <2>6, <2>7, <2>8, <2>9, <2>10, <2>11 DEF RuntimeInv
<1>7. CASE (Taken(index + 1) \/ UNCHANGED ctlVars) /\ AdvanceFails("write", TRUE)
  <2>1. ControllerOK' /\ OneAnswer(status_queue') /\ ~Holds(status_queue', "Finished")
    <3>1. CASE Taken(index + 1)
      BY <1>4, <3>1, SaidAtOnce
    <3>2. CASE UNCHANGED ctlVars
      BY <1>2, <1>3, <3>2, SaidAtOnce DEF ctlVars, RuntimeInv, ControllerOK
    <3> QED
      BY <1>7, <3>1, <3>2
  <2> QED
    BY <1>1, <1>7, <2>1, AdvanceFailsKeeps
<1> QED
  BY <1>6, <1>7 DEF AdvanceWrites, Transfer, Arrives, Breaks, AcceptsPacket, Accepts, Answers,
     Taken, Garbled

(***************************************************************************)
(* A command.                                                              *)
(***************************************************************************)

\* Where a command is, and what it can change.
LEMMA CommandState ==
  ASSUME RuntimeInv, op.kind \in CommandKinds
  PROVE  /\ op \in Operations /\ op.attempt >= 1 /\ op.part \in {"ready", "write", "ack"}
         /\ op # NoOp /\ conn /\ phase \notin {"Transferring", "Disconnected"}
         /\ active_transfer = NoTransfer
         /\ op.kind \in Moves => phase \in IdlePhases /\ job = "none"
         /\ op.kind \in {"pause", "resume"} => phase \in {"Running", "Paused"}
<1>1. op.kind \notin {"none", "advance"}
  BY DEF CommandKinds, Stops, Drops, Moves
<1> QED
  BY <1>1, NoOpFields DEF RuntimeInv, OpInv, SessionOK

\* A command that fails: it is known what became of it, or the session needs recovery.
LEMMA CommandFailsKeeps ==
  ASSUME RuntimeInv, op.kind \in CommandKinds, NEW ambiguous \in BOOLEAN,
         CommandFails(ambiguous), UNCHANGED counts, ControllerOK', OneAnswer(status_queue'),
         Holds(status_queue', "Finished") => ~running', running' => running,
         ~ambiguous =>
           /\ AnswerFirst(status_queue')
           /\ phase \in IdlePhases => Answerless(status_queue')
  PROVE  RuntimeInv'
<1>1. /\ op \in Operations /\ op # NoOp /\ conn /\ phase \notin {"Transferring", "Disconnected"}
      /\ active_transfer = NoTransfer
      /\ op.kind \in Moves => phase \in IdlePhases /\ job = "none"
  BY CommandState
<1>2. CASE Dropped /\ job' = "none"
  BY <1>2, DroppedKeeps
<1>3. CASE /\ phase' = "RecoveryRequired" \/ (UNCHANGED phase /\ ~ambiguous
                                         /\ (owned_output_unresolved => op.kind \in Moves))
           /\ UNCHANGED <<owned_output_unresolved, active_transfer, conn>>
           /\ \/ Commands("disconnect") /\ job' = "none"
              \/ op' = NoOp /\ UNCHANGED job
  <2>1. \/ Begun(op', "disconnect", "ready") /\ job' = "none"
        \/ op' = NoOp /\ UNCHANGED job
    BY <1>3, BeginsEffect DEF Commands, CommandKinds, Stops, Drops, Moves
  <2> HIDE <1>3
  <2>2. /\ phase' = "RecoveryRequired" \/ (UNCHANGED phase /\ ~ambiguous
                                          /\ (owned_output_unresolved => op.kind \in Moves))
        /\ UNCHANGED <<owned_output_unresolved, active_transfer, conn>>
    BY <1>3
  <2>3. op' \in Operations /\ ~op'.preflight_terminal /\ ~op'.ack_terminal
        /\ op'.part \in {"none", "ready"}
    BY <2>1, NoOpFields DEF Begun
  <2>4. \/ op' # NoOp /\ op'.kind = "disconnect" /\ op'.part = "ready" /\ op'.attempt = 1
           /\ job' = "none"
        \/ op' = NoOp /\ op'.kind = "none" /\ op'.part = "none" /\ UNCHANGED job
    BY <2>1, NoOpFields DEF Begun
  <2>5. SessionOK' /\ CountsOK'
    BY <1>1, <2>2, <2>4 DEF RuntimeInv, SessionOK, CountsOK, IdlePhases, counts
  <2>6. OpInv'
    BY <1>1, <2>2, <2>3, <2>4, TransferFields DEF OpInv, CommandKinds, Stops, Drops, Moves
  <2>7. QueueInv'
    BY <1>1, <2>2, <2>3 DEF QueueInv, IdlePhases
  <2>8. OverInv' /\ TransferInv'
    BY <1>1, <2>2, <2>3 DEF RuntimeInv, OverInv, TransferInv, IdlePhases
  <2>9. BurnInv'
    BY <1>1, <2>2 DEF BurnInv, IdlePhases
  <2> QED
    BY <2>5, <2>6, <2>7, <2>8, <2>9 DEF RuntimeInv
<1> QED
  BY <1>2, <1>3 DEF CommandFails, Recover, Phase

\* A command that was answered.
LEMMA CommandSucceedsKeeps ==
  ASSUME RuntimeInv, op.kind \in CommandKinds, phase \notin Unstoppable,
         NEW terminal \in BOOLEAN,
         CommandSucceeds(terminal), UNCHANGED <<accepted, ran, counts>>, ControllerOK',
         OneAnswer(status_queue'), Answerless(status_queue'),
         \A x : Holds(status_queue', x) => Holds(status_queue, x),
         UNCHANGED running, terminal => ~running, op.kind \in {"cancel", "stop"} => ~running
  PROVE  RuntimeInv'
<1>1. /\ op \in Operations /\ op # NoOp /\ conn /\ phase \notin {"Transferring", "Disconnected"}
      /\ active_transfer = NoTransfer
      /\ op.kind \in Moves => phase \in IdlePhases /\ job = "none"
      /\ op.kind \in {"pause", "resume"} => phase \in {"Running", "Paused"}
  BY CommandState
<1>2. AnswerFirst(status_queue') /\ (Holds(status_queue', "Finished") => ~running')
  BY AnswerlessIsFine DEF RuntimeInv, OverInv
<1>3. CASE op.kind \in {"pause", "resume"}
  <2>1. /\ \/ phase' = "Completed" /\ terminal
           \/ phase' \in {"Paused", "Running"} /\ UNCHANGED owned_output_unresolved
        /\ owned_output_unresolved' \in {owned_output_unresolved, FALSE}
        /\ job' \in {"Paused", "Running"} /\ op' = NoOp /\ UNCHANGED <<conn, active_transfer>>
    <3>1. CASE op.kind = "pause"
      BY <3>1 DEF CommandSucceeds, Resolved, Phase, Stays, Drops
    <3>2. CASE op.kind = "resume"
      BY <3>2 DEF CommandSucceeds, Resolved, Phase, Stays, Drops
    <3> QED
      BY <1>3, <3>1, <3>2
  <2>2. SessionOK' /\ CountsOK'
    BY <1>1, <2>1 DEF RuntimeInv, SessionOK, CountsOK, IdlePhases, counts
  <2>3. OpInv'
    BY <1>1, <2>1, NoOpFields, TransferFields DEF OpInv, CommandKinds, Stops, Drops, Moves
  <2>4. QueueInv' /\ OverInv' /\ TransferInv'
    BY <1>2, <2>1, NoOpFields DEF QueueInv, OverInv, TransferInv, IdlePhases
  <2>5. BurnInv'
    BY <1>1, <1>3, <2>1, NoOpFields DEF RuntimeInv, BurnInv, Stops, Drops
  <2> QED
    BY <2>2, <2>3, <2>4, <2>5 DEF RuntimeInv
<1>4. CASE op.kind \in {"cancel", "stop"}
  <2>1. /\ phase' \in IdlePhases /\ owned_output_unresolved' = FALSE
        /\ job' = "none" /\ op' = NoOp /\ UNCHANGED <<conn, active_transfer>>
    <3>1. /\ Resolved(IF phase \in IdlePhases THEN "Ready"
                      ELSE IF terminal THEN "Completed" ELSE "Stopped")
          /\ job' = "none" /\ Stays /\ UNCHANGED active_transfer
      BY <1>4 DEF CommandSucceeds, Drops
    <3> QED
      BY <3>1 DEF Resolved, Phase, Stays, IdlePhases
  <2>2. SessionOK' /\ CountsOK'
    BY <1>1, <2>1 DEF RuntimeInv, SessionOK, CountsOK, IdlePhases, counts
  <2>3. OpInv'
    BY <1>1, <2>1, NoOpFields, TransferFields DEF OpInv, IdlePhases, CommandKinds, Stops, Drops, Moves
  <2>4. QueueInv' /\ OverInv' /\ TransferInv' /\ BurnInv'
    BY <1>2, <1>4, <2>1, NoOpFields DEF QueueInv, OverInv, TransferInv, BurnInv, IdlePhases
  <2> QED
    BY <2>2, <2>3, <2>4 DEF RuntimeInv
<1>5. CASE op.kind \in Drops
  <2>1. Dropped /\ job' = "none"
    BY <1>5 DEF CommandSucceeds, Drops
  <2> QED
    BY <1>2, <2>1, DroppedKeeps
<1>6. CASE op.kind \in Moves
  <2>1. /\ phase' = "Ready" /\ op' = NoOp
        /\ UNCHANGED <<conn, job, active_transfer, owned_output_unresolved>>
    BY <1>6 DEF CommandSucceeds, Phase, Stays, Moves, Drops
  <2>2. SessionOK' /\ CountsOK'
    BY <1>1, <2>1 DEF RuntimeInv, SessionOK, CountsOK, IdlePhases, counts
  <2>3. OpInv'
    BY <1>1, <2>1, NoOpFields, TransferFields DEF OpInv, IdlePhases, CommandKinds, Stops, Drops, Moves
  <2>4. ~running
    BY <1>1, <1>6 DEF RuntimeInv, OverInv
  <2>5. QueueInv' /\ OverInv' /\ TransferInv' /\ BurnInv'
    BY <1>2, <2>1, <2>4, NoOpFields DEF QueueInv, OverInv, TransferInv, BurnInv, IdlePhases
  <2> QED
    BY <2>2, <2>3, <2>5 DEF RuntimeInv
<1> QED
  BY <1>3, <1>4, <1>5, <1>6 DEF CommandKinds, Stops

\* A command that goes on.
LEMMA CommandGoesOnKeeps ==
  ASSUME RuntimeInv, op.kind \in CommandKinds, op' \in Operations, op'.kind = op.kind,
         op'.part \in {"ready", "write", "ack"}, op'.attempt >= 1,
         UNCHANGED <<conn, rtVars, job, counts>>, ControllerOK',
         OneAnswer(status_queue'), Holds(status_queue', "Finished") => ~running',
         running' => running,
         op'.preflight_terminal \/ op'.ack_terminal => ~running',
         op'.part = "write" => Answerless(status_queue'),
         op'.part # "ack" /\ phase \in IdlePhases => Answerless(status_queue'),
         op'.part # "ack" /\ phase \in {"Running", "Paused"} => AnswerFirst(status_queue'),
         op.kind \in {"cancel", "stop"} /\ op'.part = "ack" =>
           ~running' \/ Holds(status_queue', "ChecksumError"),
         op.kind \in {"pause", "resume"} => UNCHANGED <<accepted, ran>>,
         ran /\ op.kind \in {"pause", "resume"} => ran',
         owned_output_unresolved /\ op.kind \in {"pause", "resume"}
           /\ (Holds(status_queue', "Finished") \/ op'.preflight_terminal \/ op'.ack_terminal) =>
           \/ Holds(status_queue, "Finished")
           \/ op.preflight_terminal \/ op.ack_terminal
  PROVE  RuntimeInv'
<1>1. /\ op \in Operations /\ op # NoOp /\ conn /\ phase \notin {"Transferring", "Disconnected"}
      /\ active_transfer = NoTransfer
      /\ op.kind \in Moves => phase \in IdlePhases /\ job = "none"
      /\ op.kind \in {"pause", "resume"} => phase \in {"Running", "Paused"}
  BY CommandState
<1>2. op' # NoOp /\ op.kind \notin {"none", "advance", "poll", "refresh"}
  BY NoOpFields DEF CommandKinds, Stops, Drops, Moves
<1>3. SessionOK' /\ CountsOK'
  BY <1>1, <1>2 DEF RuntimeInv, SessionOK, CountsOK, counts, rtVars
<1>4. OpInv'
  BY <1>1, <1>2 DEF RuntimeInv, OpInv, rtVars
<1>5. QueueInv'
  BY <1>1, <1>2 DEF RuntimeInv, QueueInv, rtVars
<1>6. OverInv' /\ TransferInv'
  BY <1>1, <1>2 DEF RuntimeInv, OverInv, TransferInv, rtVars
<1>7. BurnInv'
  <2>1. op.kind \in {"pause", "resume"} \/ op.kind \in Stops \/ phase \in IdlePhases
    BY <1>1 DEF CommandKinds
  <2> QED
    BY <1>1, <2>1 DEF RuntimeInv, BurnInv, IdlePhases, rtVars
<1> QED
  BY <1>3, <1>4, <1>5, <1>6, <1>7 DEF RuntimeInv

\* CommandReads: one status more for a command.
LEMMA CommandReadsKeeps == RuntimeInv /\ CommandReads => RuntimeInv'
<1> SUFFICES ASSUME RuntimeInv, CommandReads PROVE RuntimeInv'
  OBVIOUS
<1>1. /\ op.kind \in CommandKinds /\ op.part \in {"ready", "ack"}
      /\ phase \notin Unstoppable /\ UNCHANGED counts
  BY DEF CommandReads, CommandKinds
<1>2. PICK s \in Statuses :
       /\ Reads(s)
       /\ \/ s = "Busy" /\ UNCHANGED <<conn, rtVars, job, op>>
          \/ s = "Finished" /\ SeesTerminal
          \/ s = "Ready" /\ op.part = "ready" /\ CommandGoesOn("write")
          \/ s = "Ready" /\ op.part = "ack" /\ CommandSucceeds(op.preflight_terminal \/ op.ack_terminal)
          \/ /\ s = "ChecksumError" /\ op.part = "ack"
             /\ IF op.attempt >= checksum_attempts THEN CommandFails(FALSE)
                ELSE /\ op' = [op EXCEPT !.part = "ready", !.attempt = @ + 1,
                                            !.ack_terminal = FALSE]
                     /\ UNCHANGED <<conn, rtVars, job>>
          \/ s = "ChecksumError" /\ op.part = "ready" /\ CommandFails(FALSE)
          \/ s \in {"Power", "Unknown", "read", "timeout"} /\ CommandFails(op.part = "ack")
  BY DEF CommandReads
<1>3. /\ op \in Operations /\ op.attempt >= 1 /\ op # NoOp
      /\ phase \notin {"Transferring", "Disconnected"}
  BY <1>1, CommandState
<1>4. ControllerOK /\ OneAnswer(status_queue)
  BY DEF RuntimeInv, QueueInv
<1>5. /\ UNCHANGED <<accepted, running, paused, ran>>
      /\ faults' \in 0..MaxFaults /\ status_queue' \in Seq(Queued)
      /\ OneAnswer(status_queue')
      /\ Answerless(status_queue) => Answerless(status_queue')
      /\ AnswerFirst(status_queue) => AnswerFirst(status_queue')
      /\ \A x : Holds(status_queue', x) => Holds(status_queue, x)
      /\ \A a \in PacketAnswers : Holds(status_queue, a) => a = s \/ Holds(status_queue', a)
      /\ s = "Finished" => Holds(status_queue, "Finished")
      /\ s = "ChecksumError" => Answerless(status_queue')
      /\ s = "Ready" => ~Holds(status_queue, "ChecksumError") /\ Answerless(status_queue')
  BY <1>2, <1>4, ReadEffect
<1>6. ControllerOK'
  BY <1>4, <1>5 DEF ControllerOK
<1>7. Holds(status_queue', "Finished") => ~running'
  BY <1>5 DEF RuntimeInv, OverInv
\* A command that was not sent leaves what was said before in order.
<1>8. /\ op.part = "ready" /\ phase \in IdlePhases => Answerless(status_queue')
      /\ op.part = "ready" => AnswerFirst(status_queue')
  <2>1. phase \in IdlePhases \/ phase \in {"Running", "Paused"}
    BY <1>1, <1>3 DEF RuntimeInv, SessionOK, Unstoppable
  <2> QED
    BY <1>5, <2>1, AnswerlessIsFine DEF RuntimeInv, QueueInv
<1>9. CASE s = "Busy" /\ UNCHANGED <<conn, rtVars, job, op>>
  <2>1. op.kind \in {"cancel", "stop"} /\ op.part = "ack" =>
          ~running' \/ Holds(status_queue', "ChecksumError")
    BY <1>5, <1>9 DEF RuntimeInv, OverInv, PacketAnswers
  <2>2. op.preflight_terminal \/ op.ack_terminal => ~running'
    BY <1>5 DEF RuntimeInv, OverInv
  <2> QED
    BY <1>1, <1>3, <1>5, <1>6, <1>7, <1>8, <1>9, <2>1, <2>2, CommandGoesOnKeeps
<1>10. CASE s = "Finished" /\ SeesTerminal
  <2>1. ~running /\ Holds(status_queue, "Finished")
    BY <1>5, <1>10 DEF RuntimeInv, OverInv
  <2>2. /\ op' \in Operations /\ op'.kind = op.kind /\ op'.part = op.part
        /\ op'.attempt = op.attempt /\ UNCHANGED <<conn, rtVars, job>>
    BY <1>3, <1>10 DEF SeesTerminal, Operations
  <2> QED
    BY <1>1, <1>3, <1>5, <1>6, <1>7, <1>8, <2>1, <2>2, CommandGoesOnKeeps
<1>11. CASE s = "Ready" /\ op.part = "ready" /\ CommandGoesOn("write")
  <2>1. /\ op' \in Operations /\ op'.kind = op.kind /\ op'.part = "write"
        /\ op'.attempt = op.attempt /\ UNCHANGED <<conn, rtVars, job>>
        /\ op'.preflight_terminal = op.preflight_terminal /\ op'.ack_terminal = op.ack_terminal
    BY <1>3, <1>11 DEF CommandGoesOn, Operations
  <2>2. op'.preflight_terminal \/ op'.ack_terminal => ~running'
    BY <1>5, <2>1 DEF RuntimeInv, OverInv
  <2>3. Answerless(status_queue') /\ AnswerFirst(status_queue')
    BY <1>5, <1>11, AnswerlessIsFine
  <2> QED
    BY <1>1, <1>3, <1>5, <1>6, <1>7, <2>1, <2>2, <2>3, CommandGoesOnKeeps
<1>12. CASE /\ s = "Ready" /\ op.part = "ack"
            /\ CommandSucceeds(op.preflight_terminal \/ op.ack_terminal)
  <2>1. (op.preflight_terminal \/ op.ack_terminal) \in BOOLEAN
    BY <1>3 DEF Operations
  <2>2. /\ op.preflight_terminal \/ op.ack_terminal => ~running
        /\ op.kind \in {"cancel", "stop"} => ~running
    BY <1>5, <1>12 DEF RuntimeInv, OverInv
  <2> QED
    BY <1>1, <1>5, <1>6, <1>12, <2>1, <2>2, CommandSucceedsKeeps
<1>13. CASE /\ s = "ChecksumError" /\ op.part = "ack" /\ op.attempt < checksum_attempts
            /\ op' = [op EXCEPT !.part = "ready", !.attempt = op.attempt + 1,
                                !.ack_terminal = FALSE]
            /\ UNCHANGED <<conn, rtVars, job>>
  <2>1. op.attempt + 1 \in 0..(checksum_attempts + 2) /\ op.attempt + 1 >= 1
    BY <1>3, <1>13, LihuiyuRuntimeAssumption DEF Operations
  <2>2. /\ op' \in Operations /\ op'.kind = op.kind /\ op'.part = "ready"
        /\ op'.attempt = op.attempt + 1
        /\ op'.preflight_terminal = op.preflight_terminal /\ ~op'.ack_terminal
    BY <1>3, <1>13, <2>1 DEF Operations
  <2>3. op'.preflight_terminal => ~running'
    BY <1>5, <2>2 DEF RuntimeInv, OverInv
  <2>4. Answerless(status_queue') /\ AnswerFirst(status_queue')
    BY <1>5, <1>13, AnswerlessIsFine
  <2> QED
    BY <1>1, <1>3, <1>5, <1>6, <1>7, <1>13, <2>1, <2>2, <2>3, <2>4, CommandGoesOnKeeps
<1>14. CASE s = "ChecksumError" /\ CommandFails(FALSE)
  <2>1. Answerless(status_queue') /\ AnswerFirst(status_queue')
    BY <1>5, <1>14, AnswerlessIsFine
  <2> QED
    BY <1>1, <1>5, <1>6, <1>7, <1>14, <2>1, CommandFailsKeeps
<1>15. CASE CommandFails(op.part = "ack")
  <2>1. (op.part = "ack") \in BOOLEAN /\ (~(op.part = "ack") => op.part = "ready")
    BY <1>1
  <2> QED
    BY <1>1, <1>5, <1>6, <1>7, <1>8, <1>15, <2>1, CommandFailsKeeps
<1>16. op.attempt \in Nat /\ checksum_attempts \in Nat
  BY <1>3, LihuiyuRuntimeAssumption DEF Operations
<1>17. CASE /\ s = "ChecksumError" /\ op.part = "ack"
            /\ IF op.attempt >= checksum_attempts THEN CommandFails(FALSE)
               ELSE /\ op' = [op EXCEPT !.part = "ready", !.attempt = @ + 1,
                                           !.ack_terminal = FALSE]
                    /\ UNCHANGED <<conn, rtVars, job>>
  <2>1. CASE op.attempt >= checksum_attempts
    BY <1>14, <1>17, <2>1
  <2>2. CASE op.attempt < checksum_attempts
    <3>1. ~(op.attempt >= checksum_attempts)
      BY <1>16, <2>2
    <3>2. /\ op' = [op EXCEPT !.part = "ready", !.attempt = op.attempt + 1,
                              !.ack_terminal = FALSE]
          /\ UNCHANGED <<conn, rtVars, job>>
      BY <1>17, <3>1
    <3> QED
      BY <1>13, <1>17, <2>2, <3>2
  <2> QED
    BY <1>16, <2>1, <2>2
<1> QED
  BY <1>2, <1>9, <1>10, <1>11, <1>12, <1>14, <1>15, <1>17

\* CommandWrites: the packet of a command is written, or fails to be.
LEMMA CommandWritesKeeps == RuntimeInv /\ CommandWrites => RuntimeInv'
<1> SUFFICES ASSUME RuntimeInv, CommandWrites PROVE RuntimeInv'
  OBVIOUS
<1>1. op.kind \in CommandKinds /\ op.part = "write" /\ UNCHANGED counts
  BY DEF CommandWrites, CommandKinds
<1>2. /\ op \in Operations /\ op.attempt >= 1 /\ op # NoOp
      /\ phase \notin {"Transferring", "Disconnected"}
      /\ status_queue \in Seq(Queued) /\ Answerless(status_queue)
  BY <1>1, CommandState DEF RuntimeInv, ControllerOK, QueueInv
<1>3. faults' \in 0..MaxFaults
  <2>1. UNCHANGED faults \/ \E kind : Fault(kind)
    BY DEF CommandWrites, Arrives, Breaks
  <2> QED
    BY <2>1, FaultCounted DEF RuntimeInv
<1>4. /\ Holds(status_queue, "Finished") => ~running
      /\ op.preflight_terminal \/ op.ack_terminal => ~running
  BY DEF RuntimeInv, OverInv
\* What the controller makes of it.
<1>5. ASSUME AcceptsCommand(op.kind)
      PROVE  /\ ControllerOK' /\ UNCHANGED ran /\ (running' => running)
             /\ op.kind \in {"pause", "resume"} => UNCHANGED accepted
             /\ op.kind \in {"cancel", "stop"} => ~running'
             /\ OneAnswer(status_queue')
             /\ Holds(status_queue', "Finished") <=> Holds(status_queue, "Finished")
  <2>1. status_queue' = status_queue \o <<"Busy", "Ready">> /\ UNCHANGED ran
    BY <1>5 DEF AcceptsCommand, Accepts, Answers
  <2>2. /\ status_queue' \in Seq(Queued) /\ OneAnswer(status_queue')
        /\ Holds(status_queue', "Finished") <=> Holds(status_queue, "Finished")
    BY <1>2, <2>1, SaidAtOnce, QueueJoin
  <2>3. /\ \/ accepted' = <<>> /\ running' = FALSE /\ paused' = FALSE
              /\ op.kind \notin {"pause", "resume"}
           \/ UNCHANGED <<accepted, running, paused>> /\ op.kind = "unlock"
           \/ UNCHANGED <<accepted, running>> /\ paused' = ~paused
              /\ op.kind \in {"pause", "resume"}
    <3>1. CASE op.kind \in {"pause", "resume"}
      BY <1>5, <3>1 DEF AcceptsCommand
    <3>2. CASE op.kind = "unlock"
      BY <1>5, <3>2 DEF AcceptsCommand
    <3>3. CASE op.kind \notin {"pause", "resume", "unlock"}
      BY <1>5, <3>3 DEF AcceptsCommand
    <3> QED
      BY <3>1, <3>2, <3>3
  <2>4. /\ accepted' \in Seq(1..Packets) /\ running' \in BOOLEAN /\ paused' \in BOOLEAN
    <3>1. <<>> \in Seq(1..Packets)
      OBVIOUS
    <3>2. accepted \in Seq(1..Packets) /\ running \in BOOLEAN /\ paused \in BOOLEAN
      BY DEF RuntimeInv, ControllerOK
    <3> QED
      BY <2>3, <3>1, <3>2
  <2> QED
    BY <1>3, <2>1, <2>2, <2>3, <2>4 DEF RuntimeInv, ControllerOK
<1>6. ASSUME Garbled
      PROVE  /\ ControllerOK' /\ UNCHANGED <<accepted, running, ran>>
             /\ OneAnswer(status_queue') /\ Holds(status_queue', "ChecksumError")
             /\ Holds(status_queue', "Finished") <=> Holds(status_queue, "Finished")
  <2>1. /\ status_queue' \in Seq(Queued)
        /\ OneAnswer(status_queue') /\ Holds(status_queue', "ChecksumError")
        /\ Holds(status_queue', "Finished") <=> Holds(status_queue, "Finished")
    <3>1. /\ <<"ChecksumError">> \in Seq(Queued) /\ OneAnswer(<<"ChecksumError">>)
          /\ Holds(<<"ChecksumError">>, "ChecksumError")
          /\ ~Holds(<<"ChecksumError">>, "Finished")
      BY SaidAtOnce
    <3>2. status_queue' = status_queue \o <<"ChecksumError">>
      BY <1>6 DEF Garbled
    <3> QED
      BY <1>2, <3>1, <3>2, QueueJoin
  <2> QED
    BY <1>3, <1>6, <2>1 DEF Garbled, RuntimeInv, ControllerOK
<1>7. CASE (AcceptsCommand(op.kind) \/ Garbled) /\ CommandGoesOn("ack")
  <2>1. /\ op' \in Operations /\ op'.kind = op.kind /\ op'.part = "ack"
        /\ op'.attempt = op.attempt /\ UNCHANGED <<conn, rtVars, job>>
        /\ op'.preflight_terminal = op.preflight_terminal /\ op'.ack_terminal = op.ack_terminal
    BY <1>2, <1>7 DEF CommandGoesOn, Operations
  <2>2. /\ ControllerOK' /\ UNCHANGED ran /\ (running' => running)
        /\ op.kind \in {"pause", "resume"} => UNCHANGED accepted
        /\ op.kind \in {"cancel", "stop"} => ~running' \/ Holds(status_queue', "ChecksumError")
        /\ OneAnswer(status_queue')
        /\ Holds(status_queue', "Finished") <=> Holds(status_queue, "Finished")
    BY <1>5, <1>6, <1>7
  <2>3. running' \in BOOLEAN /\ running \in BOOLEAN
    BY <2>2 DEF RuntimeInv, ControllerOK
  <2> QED
    BY <1>1, <1>2, <1>4, <2>1, <2>2, <2>3, CommandGoesOnKeeps
<1>8. CASE (AcceptsCommand(op.kind) \/ UNCHANGED ctlVars) /\ CommandFails(TRUE)
  <2>1. /\ ControllerOK' /\ OneAnswer(status_queue') /\ (running' => running)
        /\ Holds(status_queue', "Finished") => Holds(status_queue, "Finished")
    <3>1. CASE AcceptsCommand(op.kind)
      BY <1>5, <3>1
    <3>2. CASE UNCHANGED ctlVars
      BY <1>3, <3>2 DEF RuntimeInv, ControllerOK, QueueInv, ctlVars
    <3> QED
      BY <1>8, <3>1, <3>2
  <2> QED
    BY <1>1, <1>4, <1>8, <2>1, CommandFailsKeeps
<1> QED
  BY <1>7, <1>8 DEF CommandWrites, Arrives, Breaks, Answers, Garbled

(***************************************************************************)
(* Polls, and every step together.                                         *)
(***************************************************************************)

\* A status that was polled: what it says of an end is true.
LEMMA PollsKeeps ==
  ASSUME RuntimeInv, op.kind \in {"poll", "refresh"},
         NEW s \in Statuses, Reads(s), Polls(s), UNCHANGED counts,
         op' \in Operations, op'.kind = "none" <=> op' = NoOp,
         \/ op' = NoOp
         \/ op'.kind = "refresh" /\ op'.part = "poll" /\ op'.attempt >= 1
         \/ op'.kind \in {"disconnect", "lost"} /\ op'.part = "ready" /\ op'.attempt >= 1,
         op'.preflight_terminal \/ op'.ack_terminal => op.preflight_terminal \/ op.ack_terminal,
         job' \in {"none", "Running", "Paused"},
         op'.kind \in {"refresh", "lost"} => job' = "none"
  PROVE  RuntimeInv'
<1>1. /\ phase \notin {"Transferring", "Disconnected"} /\ conn
      /\ active_transfer = NoTransfer /\ op.part = "poll" /\ op.kind \notin Stops
  BY NoOpFields DEF RuntimeInv, OpInv, SessionOK, Stops, Drops
<1>2. /\ UNCHANGED <<accepted, running, paused, ran>>
      /\ faults' \in 0..MaxFaults /\ status_queue' \in Seq(Queued)
      /\ OneAnswer(status_queue')
      /\ Answerless(status_queue) => Answerless(status_queue')
      /\ AnswerFirst(status_queue) => AnswerFirst(status_queue')
      /\ \A x : Holds(status_queue', x) => Holds(status_queue, x)
      /\ s = "Finished" => Holds(status_queue, "Finished")
      /\ s = "Finished" /\ AnswerFirst(status_queue) => Answerless(status_queue)
  BY ReadEffect DEF RuntimeInv, QueueInv
<1>3. UNCHANGED <<active_transfer, conn>>
  BY DEF Polls
<1>4. \/ /\ s = "Finished" /\ phase \in {"Running", "Paused"}
         /\ phase' = "Completed" /\ owned_output_unresolved' = FALSE
      \/ /\ phase' \in {phase, "PowerFault", "RecoveryRequired"}
         /\ UNCHANGED owned_output_unresolved
  <2>1. owned_output_unresolved \in BOOLEAN
    BY DEF RuntimeInv, SessionOK
  <2> QED
    BY <2>1 DEF Polls, PollPhase
<1>5. phase' = "Completed" /\ phase # "Completed" => Answerless(status_queue') /\ ~running'
  BY <1>1, <1>2, <1>4 DEF RuntimeInv, QueueInv, OverInv
<1>6. ControllerOK'
  BY <1>2 DEF RuntimeInv, ControllerOK
<1>7. SessionOK' /\ CountsOK'
  BY <1>1, <1>3, <1>4 DEF RuntimeInv, SessionOK, CountsOK, IdlePhases, counts
<1>8. OpInv'
  BY <1>1, <1>3, <1>4, NoOpFields, TransferFields
     DEF OpInv, IdlePhases, CommandKinds, Stops, Drops, Moves
<1>9. op'.part \in {"none", "poll", "ready"} /\ op'.kind \notin {"cancel", "stop"}
  BY NoOpFields
<1>10. QueueInv'
  BY <1>1, <1>2, <1>4, <1>5, <1>9 DEF RuntimeInv, QueueInv, IdlePhases
<1>11. OverInv' /\ TransferInv'
  BY <1>1, <1>2, <1>4, <1>5, <1>9 DEF RuntimeInv, OverInv, TransferInv, IdlePhases
<1>12. BurnInv'
  BY <1>1, <1>2, <1>4 DEF RuntimeInv, BurnInv
<1> QED
  BY <1>6, <1>7, <1>8, <1>10, <1>11, <1>12 DEF RuntimeInv

\* TickPolls: a job of the service.
LEMMA TickPollsKeeps == RuntimeInv /\ TickPolls => RuntimeInv'
<1> SUFFICES ASSUME RuntimeInv, TickPolls PROVE RuntimeInv'
  OBVIOUS
<1>1. op.kind = "poll" /\ UNCHANGED counts
  BY DEF TickPolls
<1>2. PICK s \in Statuses :
       /\ Reads(s) /\ Polls(s)
       /\ IF s = "read"
          THEN /\ job' = "none"
               /\ IF phase' \in {"Running", "Paused"} THEN Commands("disconnect")
                  ELSE op' = NoOp
          ELSE JobFrom(phase') /\ op' = NoOp
  BY DEF TickPolls
<1>3. phase' # "Transferring"
  BY <1>1, <1>2 DEF RuntimeInv, OpInv, Polls, PollPhase
<1>4. job' \in {"none", "Running", "Paused"}
  BY <1>2, <1>3 DEF JobFrom
<1>5. op' = NoOp \/ Begun(op', "disconnect", "ready")
  BY <1>2, BeginsEffect DEF Commands, CommandKinds, Stops, Drops
<1> QED
  BY <1>1, <1>2, <1>4, <1>5, NoOpFields, PollsKeeps DEF Begun

\* IdlePolls: a session no job holds.
LEMMA IdlePollsKeeps == RuntimeInv /\ IdlePolls => RuntimeInv'
<1> SUFFICES ASSUME RuntimeInv, IdlePolls PROVE RuntimeInv'
  OBVIOUS
<1>1. op.kind = "refresh" /\ UNCHANGED counts
  BY DEF IdlePolls
<1>2. PICK s \in Statuses :
       /\ Reads(s) /\ Polls(s)
       /\ op' = IF s # "read" THEN NoOp
                ELSE IF op.attempt = 1 /\ phase' # "RecoveryRequired"
                THEN [op EXCEPT !.attempt = 2]
                ELSE [NoOp EXCEPT !.kind = "lost", !.part = "ready", !.attempt = 1]
       /\ UNCHANGED job
  BY DEF IdlePolls
<1>3. op \in Operations /\ op.part = "poll" /\ job = "none"
  BY <1>1 DEF RuntimeInv, OpInv
<1>4. CASE op' = NoOp
  BY <1>1, <1>2, <1>3, <1>4, NoOpFields, PollsKeeps
<1>5. CASE op' = [op EXCEPT !.attempt = 2]
  <2>1. 2 \in 0..(checksum_attempts + 2)
    BY LihuiyuRuntimeAssumption
  <2>2. /\ op' \in Operations /\ op'.kind = "refresh" /\ op'.part = "poll" /\ op'.attempt = 2
        /\ op'.preflight_terminal = op.preflight_terminal /\ op'.ack_terminal = op.ack_terminal
    BY <1>1, <1>3, <1>5, <2>1 DEF Operations
  <2>3. op' # NoOp
    BY <2>2, NoOpFields
  <2> QED
    BY <1>1, <1>2, <1>3, <2>2, <2>3, PollsKeeps
<1>6. CASE op' = [NoOp EXCEPT !.kind = "lost", !.part = "ready", !.attempt = 1]
  <2>1. Begun(op', "lost", "ready")
    BY <1>6, BeginsEffect DEF Begins, CommandKinds, Stops, Drops
  <2> QED
    BY <1>1, <1>2, <1>3, <2>1, PollsKeeps DEF Begun
<1> QED
  BY <1>2, <1>4, <1>5, <1>6

\* Nothing is connected, and nothing runs.
LEMMA RuntimeInit == Init => RuntimeInv
<1> SUFFICES ASSUME Init PROVE RuntimeInv
  OBVIOUS
<1>1. /\ accepted = <<>> /\ running = FALSE /\ paused = FALSE
      /\ status_queue = <<>> /\ ran = FALSE /\ faults = 0
      /\ conn = FALSE /\ phase = "Disconnected"
      /\ owned_output_unresolved = FALSE
      /\ active_transfer = NoTransfer
      /\ job = "none" /\ op = NoOp
      /\ starts = 0 /\ presses = 0 /\ moves = 0
  BY DEF Init
<1>2. <<>> \in Seq(1..Packets) /\ <<>> \in Seq(Queued)
  OBVIOUS
<1>3. ControllerOK /\ CountsOK
  <2>1. 0 \in 0..MaxFaults /\ 0 \in 0..MaxStarts /\ 0 \in 0..MaxPresses /\ 0 \in 0..MaxMoves
    BY LihuiyuRuntimeAssumption
  <2> QED
    BY <1>1, <1>2, <2>1 DEF ControllerOK, CountsOK
<1>4. SessionOK
  BY <1>1 DEF SessionOK, IdlePhases
<1>5. OpInv
  BY <1>1, NoOpFields, TransferFields DEF OpInv, CommandKinds, Stops, Drops, Moves
<1>6. QueueInv /\ OverInv /\ TransferInv /\ BurnInv
  BY <1>1, SaidAtOnce, NoOpFields DEF QueueInv, OverInv, TransferInv, BurnInv, IdlePhases
<1> QED
  BY <1>3, <1>4, <1>5, <1>6 DEF RuntimeInv

\* Every step keeps the invariant.
LEMMA RuntimeStep == RuntimeInv /\ [Next]_vars => RuntimeInv'
<1> SUFFICES ASSUME RuntimeInv, [Next]_vars PROVE RuntimeInv'
  OBVIOUS
<1>1. CASE CompleteJob
  BY <1>1, CompleteJobKeeps
<1>2. CASE AdvanceReads \/ AdvanceWrites
  BY <1>2, AdvanceReadsKeeps, AdvanceWritesKeeps
<1>3. CASE CommandReads \/ CommandWrites
  BY <1>3, CommandReadsKeeps, CommandWritesKeeps
<1>4. CASE TickPolls \/ IdlePolls
  BY <1>4, TickPollsKeeps, IdlePollsKeeps
<1>5. CASE Connect \/ StopRefused
  BY <1>5, ConnectKeeps, StopRefusedKeeps
<1>6. CASE StartJob \/ BeginTick
  BY <1>6, StartJobKeeps, BeginTickKeeps
<1>7. CASE BeginPause \/ BeginResume \/ BeginCancel \/ BeginStop
  BY <1>7, BeginPauseKeeps, BeginStopKeeps
<1>8. CASE BeginMove \/ BeginRefresh
  BY <1>8, BeginMoveKeeps, BeginRefreshKeeps
<1>9. CASE UNCHANGED vars
  BY <1>9 DEF vars, ctlVars, rtVars, counts, RuntimeInv, ControllerOK, SessionOK, CountsOK,
     OpInv, QueueInv, OverInv, TransferInv, BurnInv
<1> QED
  BY <1>1, <1>2, <1>3, <1>4, <1>5, <1>6, <1>7, <1>8, <1>9 DEF Next, OpStep

\* So it holds in every state the specification reaches.
LEMMA RuntimeInvAlways == Spec => []RuntimeInv
<1> QED
  BY RuntimeInit, RuntimeStep, PTL DEF Spec

(***************************************************************************)
(* What the runs check, for every value of the constants.                  *)
(***************************************************************************)

\* What a job is made of, and the session, the operation and the controller, have their
\* types: an operation and a job belong to a session that is open, and a session that
\* uploads (LihuiyuRuntime, active_transfer) is the one in the phase Transferring.
THEOREM LihuiyuTypeCorrect == Spec => []TypeOK
<1>1. RuntimeInv => TypeOK
  <2> SUFFICES ASSUME RuntimeInv PROVE TypeOK
    OBVIOUS
  <2>1. /\ active_transfer.index \in 0..(Packets - 1)
        /\ active_transfer.attempt \in 0..checksum_attempts
    BY DEF RuntimeInv, OpInv, Transfers
  <2>2. /\ op.kind \in {"none", "advance", "poll", "refresh", "pause", "resume"} \cup Stops \cup Moves
        /\ op.part \in {"none", "ready", "write", "ack", "poll"}
        /\ op.attempt \in 0..checksum_attempts + 2
        /\ op.polls \in 0..TRANSFER_POLLS_PER_ADVANCE
    BY DEF RuntimeInv, OpInv, Operations, Kinds
  <2> QED
    BY <2>1, <2>2 DEF TypeOK, RuntimeInv, ControllerOK, SessionOK, CountsOK, Queued
<1> QED
  BY <1>1, RuntimeInvAlways, PTL

\* A machine that executes packets of ours is never reported as Ready, Completed or
\* Stopped: not after an upload that broke (advance_transfer_step), a stop that failed
\* (cancel, output_off) or a lost answer, however often any of them happens.
THEOREM OutputIsKnown == Spec => []OutputKnown
<1>1. RuntimeInv => OutputKnown
  BY DEF RuntimeInv, OverInv, OutputKnown
<1> QED
  BY <1>1, RuntimeInvAlways, PTL

\* A step that completes a job that burns: the machine has run it.
LEMMA CompletesWhatRan ==
  RuntimeInv /\ [Next]_vars => [Completes /\ owned_output_unresolved => ran']_vars
<1> SUFFICES ASSUME RuntimeInv, Next, Completes, owned_output_unresolved PROVE ran'
  OBVIOUS
<1>1. phase' = "Completed" /\ phase # "Completed" /\ op.kind \notin Stops
  BY DEF Completes
<1>2. AdvanceReads \/ CommandReads \/ TickPolls \/ IdlePolls
  <2>1. CASE AdvanceWrites
    BY <1>1, <2>1 DEF AdvanceWrites, AdvanceFails, Recover, Resolved, Phase
  <2>2. CASE CommandWrites
    BY <1>1, <2>2 DEF CommandWrites, CommandGoesOn, CommandFails, Dropped, Recover, Phase, rtVars
  <2>3. CASE CompleteJob \/ Connect \/ StartJob \/ BeginTick
    BY <1>1, <2>3 DEF CompleteJob, Connect, StartJob, BeginTick, Phase, rtVars
  <2>4. CASE BeginPause \/ BeginResume \/ BeginCancel \/ BeginStop
    BY <1>1, <2>4 DEF BeginPause, BeginResume, BeginCancel, BeginStop, Aborts, rtVars
  <2>5. CASE StopRefused \/ BeginMove \/ BeginRefresh
    BY <1>1, <2>5 DEF StopRefused, BeginMove, BeginRefresh, Dropped, Phase, rtVars
  <2> QED
    BY <2>1, <2>2, <2>3, <2>4, <2>5 DEF Next, OpStep
\* An upload ends with its last packet, and an end it read before was not of it.
<1>3. ~AdvanceReads
  <2> SUFFICES ASSUME AdvanceReads PROVE FALSE
    OBVIOUS
  <2>1. op.kind = "advance" /\ phase = "Transferring" /\ ~active_transfer.pending_ack_terminal
    BY DEF AdvanceReads, RuntimeInv, OpInv, TransferInv
  <2> QED
    BY <1>1, <2>1 DEF AdvanceReads, AdvanceReady, AdvanceNotReady, AdvanceAcked, AdvanceRejected,
       AdvanceWaits, AdvanceLost, AdvanceFails, Acknowledged, Transfer, Recover, Resolved, Phase
<1>4. CASE CommandReads
  <2>1. op.kind \in CommandKinds
    BY <1>4 DEF CommandReads, CommandKinds
  <2>2. PICK s \in Statuses : Reads(s)
    BY <1>4 DEF CommandReads
  <2>3. UNCHANGED ran
    BY <2>2 DEF Reads
  <2>4. CommandSucceeds(op.preflight_terminal \/ op.ack_terminal)
    BY <1>1, <1>4 DEF CommandReads, SeesTerminal, CommandGoesOn, CommandFails, Dropped, Recover,
       Phase, rtVars
  <2>5. op.kind \in {"pause", "resume"} \/ op.kind \in Moves
    BY <1>1, <2>1 DEF CommandKinds
  <2>6. CASE op.kind \in Moves
    BY <1>1, <2>4, <2>6 DEF CommandSucceeds, Phase, Stops, Drops, Moves
  <2>7. CASE op.kind = "pause"
    BY <1>1, <2>3, <2>4, <2>7
       DEF CommandSucceeds, Phase, Stops, Drops, RuntimeInv, OpInv, BurnInv
  <2>8. CASE op.kind = "resume"
    BY <1>1, <2>3, <2>4, <2>8
       DEF CommandSucceeds, Phase, Stops, Drops, RuntimeInv, OpInv, BurnInv
  <2> QED
    BY <2>5, <2>6, <2>7, <2>8
<1>5. CASE TickPolls \/ IdlePolls
  <2>1. PICK s \in Statuses : Reads(s) /\ Polls(s)
    BY <1>5 DEF TickPolls, IdlePolls
  <2>2. s = "Finished" /\ phase \in {"Running", "Paused"}
    BY <1>1, <2>1 DEF Polls, PollPhase
  <2>3. Holds(status_queue, "Finished") /\ UNCHANGED ran
    BY <2>1, <2>2, ReadEffect DEF RuntimeInv, QueueInv
  <2> QED
    BY <1>1, <2>2, <2>3 DEF RuntimeInv, BurnInv
<1> QED
  BY <1>2, <1>3, <1>4, <1>5

\* A job that burns is Completed only when its every packet was taken once and in order,
\* and it has run to its end: whatever advance_job_transfer was told to send again, the
\* user paused, or the job before left unread for poll.
THEOREM CompletedWasRun == Spec => CompletedMeansRan
<1> QED
  BY RuntimeInvAlways, CompletesWhatRan, PTL DEF Spec, CompletedMeansRan
=============================================================================
