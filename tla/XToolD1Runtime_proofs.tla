----------------------- MODULE XToolD1Runtime_proofs -----------------------
(***************************************************************************)
(* What the xTool D1 driver guarantees for any number of starts, presses   *)
(* and mishaps: that a job reported Completed ran whole, and that an       *)
(* Emergency Stop reported as successful was confirmed.                    *)
(***************************************************************************)
EXTENDS XToolD1Runtime, SequenceTheorems, WellFoundedInduction, TLAPS

(***************************************************************************)
(* The invariant.                                                          *)
(***************************************************************************)

PollSteps == {"take", "read"}
Sent == {"readback", "synchronize", "recheck"}
Sending == {"post"} \cup Sent
UploadSteps == {"barrier", "check"} \cup Sending
StopSteps == {"stop", "off", "confirm", "file", "delete"}
Steps == {"none", "state"} \cup PollSteps \cup UploadSteps \cup StopSteps
Operations ==
  [kind : Polls \cup Stops \cup {"none"}, step : Steps, attempt : 0..STOP_CONFIRM_ATTEMPTS,
   ended : BOOLEAN, stopped : BOOLEAN, interrupted : BOOLEAN]

\* The types of the machine and its channel, of what is counted, and of the session.
MachineOK ==
  /\ machine \in {"Idle", "Working", "Paused"} /\ program \in Programs \cup {"none"}
  /\ file \in Programs \cup {"none"} /\ wire \in Seq(Events)
  /\ program = "none" <=> machine = "Idle"
  /\ foreign \in BOOLEAN /\ fate \in {"waiting", "begun", "ran"}
  /\ channel \in {"open", "failed"} /\ (channel = "failed" => wire = <<>>)
CountsOK ==
  mishaps \in 0..MaxMishaps /\ starts \in 0..MaxStarts /\ presses \in 0..MaxPresses
SessionOK ==
  /\ conn \in BOOLEAN /\ endpoint \in BOOLEAN /\ owned \in BOOLEAN
  /\ saw_owned_running \in BOOLEAN /\ frame \in BOOLEAN /\ estop \in BOOLEAN
  /\ idle_since_estop \in BOOLEAN /\ control \in BOOLEAN /\ transition \in BOOLEAN
  /\ phase \in Phases /\ job \in JobPhases \cup {"none"} /\ (job # "none" => conn)

\* What an operation may be at, and that all but a connection have a session.
ShapeInv ==
  /\ op \in Operations
  /\ op.kind = "none" => op = NoOp
  /\ op.step = "none" => op = NoOp
  /\ op.step = "state" => op.kind = "connect"
  /\ op.step \in PollSteps => op.kind \in Polls
  /\ op.step \in UploadSteps => op.kind = "upload"
  /\ op.step \in StopSteps => op.kind \in Stops
  /\ op.kind \notin {"none", "connect"} => conn
  /\ op.kind = "connect" => ~conn

\* A file is owned by a session in a phase of a job, and by an upload that sends it.
OwnedInv ==
  /\ ~conn => ~owned
  /\ phase = "Disconnected" => ~owned
  /\ op.kind = "close" => ~owned
  /\ op.step \in {"barrier", "check"} => phase \in OverPhases
  /\ op.step \in Sending => owned /\ phase \in OverPhases
  /\ owned /\ phase \in OverPhases => op.step \in Sending

\* A stop that looks at the file has seen the machine idle.
StopInv ==
  op.kind = "estop" /\ op.step \in {"file", "delete"} /\ ~estop => idle_since_estop

SessionInv == MachineOK /\ CountsOK /\ SessionOK /\ ShapeInv /\ OwnedInv /\ StopInv

\* Events that tell of motion, and of an end that no stop explains.
Moved(w) == \E i \in 1..Len(w) : w[i] \notin {"Idle", "Awaiting"}
Ended(w) == \E i \in 1..Len(w) : w[i] = "Idle" /\ \A j \in 1..i : w[j] # "Stopped"

\* While a file is sent, a machine that has begun anything has told so; and what was
\* verified is stored.
Transfer == {"post", "readback", "synchronize"}
UploadInv ==
  /\ op.step \in Transfer /\ channel = "open" => machine = "Idle" \/ Moved(wire)
  /\ op.step = "synchronize" => file = "ours" \/ foreign

\* From there on the machine has no program but the session's, and an end that is on its
\* way is that of its program, unless a stop was read before it.
Followed == owned /\ (phase \in ActivePhases \cup {"BusyUnowned"} \/ op.step = "recheck")
Placed == program \in {"none", "ours"} /\ file \in {"none", "ours"}
Stopped == op.step = "read" /\ op.stopped
TraceInv ==
  Followed /\ ~foreign => Placed /\ (Ended(wire) /\ ~Stopped => fate = "ran")

\* An end that was read, and a phase that says so, is that of a program that ran.
CompletedInv ==
  /\ phase = "Completed" /\ op.step \notin Sent => fate = "ran" \/ foreign
  /\ op.step = "read" /\ op.ended /\ ~op.stopped => fate = "ran" \/ foreign

DataInv == UploadInv /\ TraceInv /\ CompletedInv
RuntimeInv == SessionInv /\ DataInv

(***************************************************************************)
(* Events.                                                                 *)
(***************************************************************************)

\* What is appended ends a program only if it is told to end, and hides no motion.
LEMMA Joined ==
  ASSUME NEW w \in Seq(Events), NEW v \in Seq(Events)
  PROVE  /\ w \o v \in Seq(Events)
         /\ Ended(w \o v) => Ended(w) \/ Ended(v)
         /\ Moved(w) \/ Moved(v) => Moved(w \o v)
<1>1. /\ w \o v \in Seq(Events) /\ Len(w) \in Nat /\ Len(v) \in Nat
      /\ Len(w \o v) = Len(w) + Len(v)
      /\ \A i \in 1..Len(w) : (w \o v)[i] = w[i]
      /\ \A i \in 1..Len(v) : (w \o v)[Len(w) + i] = v[i]
  <2>1. \A i \in 1..(Len(w) + Len(v)) :
          (w \o v)[i] = IF i <= Len(w) THEN w[i] ELSE v[i - Len(w)]
    BY ConcatProperties
  <2>2. w \o v \in Seq(Events) /\ Len(w) \in Nat /\ Len(v) \in Nat
        /\ Len(w \o v) = Len(w) + Len(v)
    BY ConcatProperties, LenProperties
  <2>3. ASSUME NEW i \in 1..Len(v) PROVE (w \o v)[Len(w) + i] = v[i]
    <3>1. Len(w) + i \in 1..(Len(w) + Len(v)) /\ ~(Len(w) + i <= Len(w))
          /\ Len(w) + i - Len(w) = i
      BY <2>2
    <3> QED
      BY <2>1, <3>1
  <2> QED
    BY <2>1, <2>2, <2>3
<1>2. ASSUME Ended(w \o v) PROVE Ended(w) \/ Ended(v)
  <2>1. PICK i \in 1..Len(w \o v) : /\ (w \o v)[i] = "Idle"
                                    /\ \A j \in 1..i : (w \o v)[j] # "Stopped"
    BY <1>2 DEF Ended
  <2>2. CASE i <= Len(w)
    <3>1. i \in 1..Len(w) /\ \A j \in 1..i : j \in 1..Len(w)
      BY <1>1, <2>2
    <3> QED
      BY <1>1, <2>1, <3>1 DEF Ended
  <2>3. CASE i > Len(w)
    <3> DEFINE k == i - Len(w)
    <3>1. k \in 1..Len(v) /\ Len(w) + k = i
      BY <1>1, <2>3
    <3>2. v[k] = "Idle"
      BY <1>1, <2>1, <3>1
    <3>3. ASSUME NEW j \in 1..k PROVE v[j] # "Stopped"
      <4>1. j \in 1..Len(v) /\ Len(w) + j \in 1..i
        BY <1>1, <3>1
      <4> QED
        BY <1>1, <2>1, <4>1
    <3> QED
      BY <3>1, <3>2, <3>3 DEF Ended
  <2> QED
    BY <1>1, <2>2, <2>3
<1>3. ASSUME Moved(w) PROVE Moved(w \o v)
  <2>1. PICK i \in 1..Len(w) : w[i] \notin {"Idle", "Awaiting"}
    BY <1>3 DEF Moved
  <2>2. i \in 1..Len(w \o v)
    BY <1>1
  <2> QED
    BY <1>1, <2>1, <2>2 DEF Moved
<1>4. ASSUME Moved(v) PROVE Moved(w \o v)
  <2>1. PICK i \in 1..Len(v) : v[i] \notin {"Idle", "Awaiting"}
    BY <1>4 DEF Moved
  <2>2. Len(w) + i \in 1..Len(w \o v)
    BY <1>1
  <2> QED
    BY <1>1, <2>1, <2>2 DEF Moved
<1> QED
  BY <1>1, <1>2, <1>3, <1>4

\* What the machine tells.
LEMMA Told ==
  /\ ~Ended(<<>>) /\ <<>> \in Seq(Events)
  /\ \A e \in Events : /\ <<e>> \in Seq(Events)
                       /\ e # "Idle" => ~Ended(<<e>>)
                       /\ e \notin {"Idle", "Awaiting"} => Moved(<<e>>)
  /\ <<"Stopped", "Idle">> \in Seq(Events) /\ ~Ended(<<"Stopped", "Idle">>)
  /\ Moved(<<"Stopped", "Idle">>)
<1>1. ~Ended(<<>>) /\ <<>> \in Seq(Events)
  BY DEF Ended
<1>2. ASSUME NEW e \in Events
      PROVE  /\ <<e>> \in Seq(Events)
             /\ e # "Idle" => ~Ended(<<e>>)
             /\ e \notin {"Idle", "Awaiting"} => Moved(<<e>>)
  <2>1. <<e>> \in Seq(Events) /\ Len(<<e>>) = 1 /\ <<e>>[1] = e /\ 1..1 = {1}
    OBVIOUS
  <2> QED
    BY <2>1 DEF Ended, Moved
<1>3. /\ <<"Stopped", "Idle">> \in Seq(Events) /\ ~Ended(<<"Stopped", "Idle">>)
      /\ Moved(<<"Stopped", "Idle">>)
  <2> DEFINE v == <<"Stopped", "Idle">>
  <2>1. v \in Seq(Events)
    BY DEF Events
  <2>2. Len(v) = 2 /\ v[1] = "Stopped" /\ v[2] = "Idle"
    OBVIOUS
  <2>3. \A i \in 1..2 : 1 \in 1..i
    OBVIOUS
  <2> QED
    BY <2>1, <2>2, <2>3 DEF Ended, Moved
<1> QED
  BY <1>1, <1>2, <1>3

(***************************************************************************)
(* The machine.                                                            *)
(***************************************************************************)

\* What is kept of a machine that goes on: a program that ran has run; from a program of
\* the session's only ends of it come; and motion is told as long as the channel is open.
TraceEffect ==
  /\ MachineOK'
  /\ fate = "ran" => fate' = "ran"
  /\ foreign => foreign'
  /\ Placed /\ ~foreign' => Placed' /\ (Ended(wire') => Ended(wire) \/ fate' = "ran")
UploadEffect ==
  /\ channel' = "open" => channel = "open"
  /\ channel' = "open" /\ (machine = "Idle" \/ Moved(wire)) => machine' = "Idle" \/ Moved(wire')
  /\ file = "ours" => file' = "ours" \/ foreign'
MachineEffect == TraceEffect /\ UploadEffect

LEMMA NothingMoves ==
  ASSUME MachineOK, UNCHANGED <<machineVars, channel>>
  PROVE  MachineEffect
<1>1. UNCHANGED <<machine, program, file, wire, fate, foreign, channel>>
  BY DEF machineVars
<1> QED
  BY <1>1 DEF MachineEffect, TraceEffect, UploadEffect, MachineOK, Placed

\* What Tells does to the wire.
LEMMA TellsEffect ==
  ASSUME MachineOK, NEW events \in Seq(Events), Tells(events), UNCHANGED channel
  PROVE  /\ wire' \in Seq(Events) /\ channel' \in {"open", "failed"}
         /\ channel' = "failed" => wire' = <<>>
         /\ Ended(wire') => Ended(wire) \/ Ended(events)
         /\ Moved(wire) => Moved(wire')
         /\ channel' = "open" /\ Moved(events) => Moved(wire')
<1>1. CASE channel = "open"
  <2>1. wire' = wire \o events
    BY <1>1 DEF Tells
  <2> QED
    BY <1>1, <2>1, Joined DEF MachineOK
<1>2. CASE channel # "open"
  <2>1. wire' = wire
    BY <1>2 DEF Tells
  <2> QED
    BY <1>2, <2>1 DEF MachineOK
<1> QED
  BY <1>1, <1>2

\* The machine moves on, and tells of it.
MovesOn(events) ==
  /\ events \in Seq(Events) /\ Tells(events) /\ UNCHANGED channel
  /\ machine' \in {"Idle", "Working", "Paused"} /\ program' \in Programs \cup {"none"}
  /\ program' = "none" <=> machine' = "Idle"
  /\ file' \in Programs \cup {"none"} /\ foreign' \in BOOLEAN
  /\ fate' \in {"waiting", "begun", "ran"}
  /\ fate = "ran" => fate' = "ran"
  /\ foreign => foreign'
  /\ Placed /\ ~foreign' => Placed' /\ (Ended(events) => fate' = "ran")
  /\ machine = "Idle" => machine' = "Idle" \/ Moved(events)
  /\ file = "ours" => file' = "ours" \/ foreign'

LEMMA TellingKeeps ==
  ASSUME MachineOK, NEW events, MovesOn(events)
  PROVE  MachineEffect
<1> USE DEF MovesOn
<1>1. /\ wire' \in Seq(Events) /\ channel' \in {"open", "failed"}
      /\ channel' = "failed" => wire' = <<>>
      /\ Ended(wire') => Ended(wire) \/ Ended(events)
      /\ Moved(wire) => Moved(wire')
      /\ channel' = "open" /\ Moved(events) => Moved(wire')
  BY TellsEffect
<1>2. MachineOK'
  BY <1>1 DEF MachineOK
<1> QED
  BY <1>1, <1>2 DEF MachineEffect, TraceEffect, UploadEffect

\* A halt, a pause and a resumption, whoever asks for them.
LEMMA HaltKeeps ==
  ASSUME MachineOK, Halts, UNCHANGED channel
  PROVE  MachineEffect
<1>1. /\ machine' = "Idle" /\ program' = "none" /\ Tells(<<"Stopped", "Idle">>)
      /\ UNCHANGED <<file, fate, foreign>>
  BY DEF Halts, Rests
<1>2. Placed => Placed'
  BY <1>1 DEF Placed
<1>3. MovesOn(<<"Stopped", "Idle">>)
  BY <1>1, <1>2, Told DEF MovesOn, MachineOK, Programs
<1> QED
  BY <1>3, TellingKeeps

LEMMA TogglesKeep ==
  ASSUME MachineOK, PausesOnRequest \/ ResumesOnRequest, UNCHANGED channel
  PROVE  MachineEffect
<1>1. CASE UNCHANGED machineVars
  BY <1>1, NothingMoves
<1>2. CASE \E e \in {"Paused", "Running"} :
             /\ machine # "Idle" /\ machine' \in {"Working", "Paused"} /\ Tells(<<e>>)
             /\ UNCHANGED <<program, file, fate, foreign>>
  <2>1. PICK e \in {"Paused", "Running"} : Tells(<<e>>)
    BY <1>2
  <2>2. e \in Events /\ e # "Idle"
    BY DEF Events
  <2>3. <<e>> \in Seq(Events) /\ ~Ended(<<e>>)
    BY <2>2, Told
  <2>4. Placed => Placed'
    BY <1>2 DEF Placed
  <2>5. MovesOn(<<e>>)
    BY <1>2, <2>1, <2>3, <2>4 DEF MovesOn, MachineOK
  <2> QED
    BY <2>5, TellingKeeps
<1> QED
  BY <1>1, <1>2 DEF PausesOnRequest, ResumesOnRequest

\* A mishap is one of those that are counted.
LEMMA MishapCounted ==
  ASSUME CountsOK, \/ UNCHANGED mishaps \/ Mishap
                   \/ \E kind \in {"lost", "unanswered", "unstored", "closed"} : Fault(kind)
  PROVE  mishaps' \in 0..MaxMishaps
<1>1. MaxMishaps \in Nat /\ mishaps \in 0..MaxMishaps
  BY XToolD1Assumption DEF CountsOK
<1>2. mishaps' = mishaps \/ (mishaps < MaxMishaps /\ mishaps' = mishaps + 1)
  BY DEF Fault, Mishap
<1> QED
  BY <1>1, <1>2

LEMMA PressCounted ==
  ASSUME CountsOK, \/ UNCHANGED counts \/ UNCHANGED <<starts, presses>> \/ Press
                   \/ starts < MaxStarts /\ starts' = starts + 1 /\ UNCHANGED presses
  PROVE  starts' \in 0..MaxStarts /\ presses' \in 0..MaxPresses
<1>1. /\ starts \in 0..MaxStarts /\ presses \in 0..MaxPresses
      /\ MaxStarts \in Nat /\ MaxPresses \in Nat
  BY XToolD1Assumption DEF CountsOK
<1>2. \/ starts' = starts /\ presses' = presses
      \/ starts' = starts /\ presses < MaxPresses /\ presses' = presses + 1
      \/ starts < MaxStarts /\ starts' = starts + 1 /\ presses' = presses
  BY DEF counts, Press
<1> QED
  BY <1>1, <1>2

\* What the machine and the people at it do.
LEMMA MachineMoves ==
  ASSUME MachineOK, CountsOK, MachineStep
  PROVE  MachineEffect /\ CountsOK'
<1>1. CountsOK'
  <2>1. (UNCHANGED mishaps \/ Mishap) /\ UNCHANGED counts
    BY DEF MachineStep, ButtonStarts, ButtonPausesOrResumes, ButtonStopsOrAlarm, UsedByOthers,
           PowerCycles, Finishes, ByHand, Program
  <2> QED
    BY <2>1, MishapCounted, PressCounted DEF CountsOK
<1>2. CASE ButtonStarts
  <2>1. /\ machine = "Idle" /\ file # "none" /\ machine' = "Working" /\ program' = file
        /\ fate' = (IF file = "ours" /\ fate = "waiting" THEN "begun" ELSE fate)
        /\ Tells(<<"Running">>) /\ foreign' = (foreign \/ file = "other")
        /\ UNCHANGED <<file, channel>>
    BY <1>2 DEF ButtonStarts, Begins
  <2>2. "Running" \in Events /\ <<"Running">> \in Seq(Events) /\ ~Ended(<<"Running">>)
        /\ Moved(<<"Running">>)
    BY Told DEF Events
  <2>3. Placed /\ ~foreign' => Placed'
    BY <2>1 DEF Placed
  <2>4. /\ program' \in Programs \cup {"none"} /\ program' # "none" /\ foreign' \in BOOLEAN
        /\ fate' \in {"waiting", "begun", "ran"} /\ (fate = "ran" => fate' = "ran")
    BY <2>1 DEF MachineOK
  <2>5. MovesOn(<<"Running">>)
    BY <2>1, <2>2, <2>3, <2>4 DEF MovesOn, MachineOK
  <2> QED
    BY <1>1, <2>5, TellingKeeps
<1>3. CASE ButtonPausesOrResumes
  <2>1. PICK e \in {"Paused", "Running"} : Tells(<<e>>)
    BY <1>3 DEF ButtonPausesOrResumes
  <2>2. e \in Events /\ e # "Idle"
    BY DEF Events
  <2>3. <<e>> \in Seq(Events) /\ ~Ended(<<e>>)
    BY <2>2, Told
  <2>4. /\ machine # "Idle" /\ machine' \in {"Working", "Paused"}
        /\ UNCHANGED <<program, file, fate, foreign, channel>>
    BY <1>3 DEF ButtonPausesOrResumes
  <2>5. Placed => Placed'
    BY <2>4 DEF Placed
  <2>6. MovesOn(<<e>>)
    BY <2>1, <2>3, <2>4, <2>5 DEF MovesOn, MachineOK
  <2> QED
    BY <1>1, <2>6, TellingKeeps
<1>4. CASE ButtonStopsOrAlarm
  <2>1. /\ machine' = "Idle" /\ program' = "none"
        /\ UNCHANGED <<file, fate, foreign, channel>>
    BY <1>4 DEF ButtonStopsOrAlarm, Rests
  <2>2. PICK events \in {<<"Stopped", "Idle">>, <<"Alarm">>} : Tells(events)
    BY <1>4 DEF ButtonStopsOrAlarm
  <2>3. "Alarm" \in Events /\ events \in Seq(Events) /\ ~Ended(events)
    BY Told DEF Events
  <2>4. Placed => Placed'
    BY <2>1 DEF Placed
  <2>5. MovesOn(events)
    BY <2>1, <2>2, <2>3, <2>4 DEF MovesOn, MachineOK
  <2> QED
    BY <1>1, <2>5, TellingKeeps
<1>5. CASE UsedByOthers
  <2>1. /\ machine = "Idle" /\ foreign' = TRUE /\ UNCHANGED channel
        /\ fate' \in {"waiting", "begun", "ran"} /\ (fate = "ran" => fate' = "ran")
    BY <1>5 DEF UsedByOthers, Begins, MachineOK
  <2>2. \/ file' = "other" /\ Tells(<<"Awaiting">>) /\ UNCHANGED <<machine, program>>
        \/ /\ machine' = "Working" /\ program' = "other" /\ Tells(<<"Running">>)
           /\ UNCHANGED file
    BY <1>5 DEF UsedByOthers, Begins
  <2>3. /\ <<"Awaiting">> \in Seq(Events) /\ <<"Running">> \in Seq(Events)
        /\ Moved(<<"Running">>)
    BY Told DEF Events
  <2>4. CASE file' = "other" /\ Tells(<<"Awaiting">>) /\ UNCHANGED <<machine, program>>
    <3>1. MovesOn(<<"Awaiting">>)
      BY <2>1, <2>3, <2>4 DEF MovesOn, MachineOK, Programs
    <3> QED
      BY <1>1, <3>1, TellingKeeps
  <2>5. CASE machine' = "Working" /\ program' = "other" /\ Tells(<<"Running">>) /\ UNCHANGED file
    <3>1. MovesOn(<<"Running">>)
      BY <2>1, <2>3, <2>5 DEF MovesOn, MachineOK, Programs
    <3> QED
      BY <1>1, <3>1, TellingKeeps
  <2> QED
    BY <2>2, <2>4, <2>5
<1>6. CASE PowerCycles
  <2>1. /\ machine' = "Idle" /\ program' = "none" /\ channel' = "failed" /\ wire' = <<>>
        /\ UNCHANGED <<file, fate, foreign>>
    BY <1>6 DEF PowerCycles, Rests
  <2> QED
    BY <1>1, <2>1, Told DEF MachineEffect, TraceEffect, UploadEffect, MachineOK, Placed
<1>7. CASE Finishes
  <2>1. /\ machine = "Working" /\ machine' = "Idle" /\ program' = "none" /\ Tells(<<"Idle">>)
        /\ fate' = (IF program = "ours" THEN "ran" ELSE fate)
        /\ UNCHANGED <<file, foreign, channel>>
    BY <1>7 DEF Finishes, Rests
  <2>2. <<"Idle">> \in Seq(Events)
    BY Told DEF Events
  <2>3. Placed => Placed' /\ fate' = "ran"
    BY <2>1 DEF Placed, MachineOK
  <2>4. fate' \in {"waiting", "begun", "ran"} /\ (fate = "ran" => fate' = "ran")
    BY <2>1 DEF MachineOK
  <2>5. MovesOn(<<"Idle">>)
    BY <2>1, <2>2, <2>3, <2>4 DEF MovesOn, MachineOK
  <2> QED
    BY <1>1, <2>5, TellingKeeps
<1> QED
  BY <1>1, <1>2, <1>3, <1>4, <1>5, <1>6, <1>7 DEF MachineStep

\* A request that may have effect.
LEMMA SendEffect ==
  ASSUME MachineOK, CountsOK, UNCHANGED channel, NEW answer \in Answers,
         \/ Sends(Halts, answer) \/ Sends(PausesOnRequest, answer) \/ Sends(ResumesOnRequest, answer)
  PROVE  MachineEffect /\ mishaps' \in 0..MaxMishaps
<1>1. UNCHANGED mishaps \/ Fault("lost") \/ Fault("unanswered")
  BY DEF Sends
<1>2. UNCHANGED machineVars \/ Halts \/ PausesOnRequest \/ ResumesOnRequest
  BY DEF Sends
<1> QED
  BY <1>1, <1>2, MishapCounted, NothingMoves, HaltKeeps, TogglesKeep

\* A read tells whether the machine is idle.
LEMMA ReadEffect ==
  ASSUME MachineOK, CountsOK, NEW state \in ReadsAs, Reads(state)
  PROVE  /\ mishaps' \in 0..MaxMishaps /\ UNCHANGED <<machine, program, file, fate, foreign>>
         /\ state = "Idle" => machine = "Idle"
         /\ idle_since_estop' = (idle_since_estop \/ state = "Idle")
<1>1. UNCHANGED mishaps \/ Fault("lost")
  BY DEF Reads
<1> QED
  BY <1>1, MishapCounted DEF Reads, Heeds, WorkingState

(***************************************************************************)
(* The loop over the events.                                               *)
(***************************************************************************)
Below == {pair \in Nat \X Nat : pair[1] < pair[2]}

LEMMA LeastNumber ==
  ASSUME NEW T, T \subseteq Nat, T # {}
  PROVE  \E x \in T : \A y \in T : x <= y
<1>1. IsWellFoundedOn(Below, Nat)
  BY NatLessThanWellFounded DEF OpToRel, Below
<1>2. PICK x \in T : \A y \in T : ~(<<y, x>> \in Below)
  BY <1>1, WFMin
<1>3. ASSUME NEW y \in T PROVE x <= y
  <2>1. ~(y < x)
    BY <1>2 DEF Below
  <2> QED
    BY <2>1
<1> QED
  BY <1>3

\* What the loop begins with.
Unheard == [phase |-> phase, saw |-> saw_owned_running, control |-> control,
            ended |-> FALSE, stopped |-> FALSE, failed |-> FALSE]

\* A function that follows the loop for n events.
UpTo(g, n) == \A i \in 0..n : g[i] = IF i = 0 THEN Unheard ELSE Seen(g[i - 1], wire[i])

LEMMA UpToUnique ==
  ASSUME NEW n \in Nat, NEW g, NEW h, UpTo(g, n), UpTo(h, n)
  PROVE  g[n] = h[n]
<1> DEFINE T == {i \in 0..n : g[i] # h[i]}
<1> SUFFICES ASSUME T # {} PROVE FALSE
  OBVIOUS
<1>1. PICK i \in T : \A j \in T : i <= j
  <2>1. T \subseteq Nat
    OBVIOUS
  <2> QED
    BY <2>1, LeastNumber
<1>2. CASE i = 0
  BY <1>1, <1>2 DEF UpTo
<1>3. CASE i # 0
  <2>1. i - 1 \in 0..n /\ i \in 0..n /\ ~(i <= i - 1)
    BY <1>1, <1>3
  <2>2. g[i - 1] = h[i - 1]
    BY <1>1, <2>1
  <2> QED
    BY <1>1, <1>3, <2>1, <2>2 DEF UpTo
<1> QED
  BY <1>2, <1>3

LEMMA UpToExists ==
  ASSUME NEW n \in Nat
  PROVE  \E g : UpTo(g, n)
<1> DEFINE T == {i \in Nat : ~\E g : UpTo(g, i)}
<1> SUFFICES ASSUME T # {} PROVE FALSE
  OBVIOUS
<1>1. PICK i \in T : \A j \in T : i <= j
  BY LeastNumber
<1>2. CASE i = 0
  <2> DEFINE g == [j \in Nat |-> Unheard]
  <2>1. UpTo(g, 0)
    BY DEF UpTo
  <2> QED
    BY <1>1, <1>2, <2>1
<1>3. CASE i # 0
  <2>1. i - 1 \in Nat /\ ~(i <= i - 1)
    BY <1>3
  <2>2. PICK h : UpTo(h, i - 1)
    BY <1>1, <2>1
  <2> DEFINE g == [j \in Nat |-> IF j = i THEN Seen(h[i - 1], wire[i]) ELSE h[j]]
  <2>3. ASSUME NEW j \in 0..i
        PROVE  g[j] = IF j = 0 THEN Unheard ELSE Seen(g[j - 1], wire[j])
    <3>1. CASE j = i
      BY <1>3, <2>1, <3>1
    <3>2. CASE j # i
      <4>1. j \in 0..(i - 1) /\ g[j] = h[j] /\ (j # 0 => g[j - 1] = h[j - 1])
        BY <2>1, <3>2
      <4> QED
        BY <2>2, <4>1 DEF UpTo
    <3> QED
      BY <3>1, <3>2
  <2>4. UpTo(g, i)
    BY <2>3 DEF UpTo
  <2> QED
    BY <1>1, <2>4
<1> QED
  BY <1>2, <1>3

\* The loop takes the events one by one.
LEMMA HeardDefined ==
  \A n \in Nat : Heard[n] = IF n = 0 THEN Unheard ELSE Seen(Heard[n - 1], wire[n])
<1> DEFINE G(n) == CHOOSE g : UpTo(g, n)
           F == [n \in Nat |-> G(n)[n]]
<1>1. \A n \in Nat : UpTo(G(n), n)
  BY UpToExists
<1>2. ASSUME NEW n \in Nat
      PROVE  F[n] = IF n = 0 THEN Unheard ELSE Seen(F[n - 1], wire[n])
  <2>1. F[n] = IF n = 0 THEN Unheard ELSE Seen(G(n)[n - 1], wire[n])
    <3> HIDE DEF G
    <3>1. G(n)[n] = IF n = 0 THEN Unheard ELSE Seen(G(n)[n - 1], wire[n])
      BY <1>1 DEF UpTo
    <3> QED
      BY <3>1
  <2>2. CASE n = 0
    BY <2>1, <2>2
  <2>3. CASE n # 0
    <3> HIDE DEF G
    <3>1. n - 1 \in Nat
      BY <2>3
    <3>2. UpTo(G(n), n - 1) /\ UpTo(G(n - 1), n - 1)
      BY <1>1, <3>1 DEF UpTo
    <3>3. G(n)[n - 1] = G(n - 1)[n - 1]
      BY <3>1, <3>2, UpToUnique
    <3>4. F[n - 1] = G(n - 1)[n - 1]
      BY <3>1
    <3> QED
      BY <2>1, <2>3, <3>3, <3>4
  <2> QED
    BY <2>2, <2>3
<1>3. F = [n \in Nat |-> IF n = 0 THEN Unheard ELSE Seen(F[n - 1], wire[n])]
  <2> HIDE DEF G
  <2> QED
    BY <1>2
<1>4. Heard = CHOOSE f : f = [n \in Nat |-> IF n = 0 THEN Unheard ELSE Seen(f[n - 1], wire[n])]
  BY DEF Heard, Unheard
<1>5. Heard = [n \in Nat |-> IF n = 0 THEN Unheard ELSE Seen(Heard[n - 1], wire[n])]
  <2> HIDE DEF F
  <2> QED
    BY <1>3, <1>4
<1> QED
  BY <1>5

\* What has been heard of n events: an end is the session's own, and no stop was among
\* them.
HeardOf(n) ==
  LET s == Heard[n] IN
  /\ s \in [phase : Phases, saw : BOOLEAN, control : BOOLEAN, ended : BOOLEAN,
             stopped : BOOLEAN, failed : BOOLEAN]
  /\ s.phase \in {phase, "Running", "Paused", "BusyUnowned"}
  /\ ~s.failed /\ ~s.stopped => \A j \in 1..n : wire[j] # "Stopped"
  /\ ~s.failed /\ s.ended => /\ owned /\ ~s.stopped
                             /\ \E i \in 1..n : wire[i] = "Idle"

LEMMA SeenAdds ==
  ASSUME SessionInv, NEW n \in Nat, n \in 1..Len(wire), HeardOf(n - 1)
  PROVE  HeardOf(n)
<1> DEFINE s == Heard[n - 1]
           t == Heard[n]
           e == wire[n]
<1>1. t = Seen(s, e) /\ n - 1 \in Nat /\ e \in Events
  <2>1. e \in Events
    BY DEF SessionInv, MachineOK
  <2> QED
    BY <2>1, HeardDefined
<1>2. /\ s \in [phase : Phases, saw : BOOLEAN, control : BOOLEAN, ended : BOOLEAN,
                 stopped : BOOLEAN, failed : BOOLEAN]
      /\ s.phase \in {phase, "Running", "Paused", "BusyUnowned"}
      /\ ~s.failed /\ ~s.stopped => \A j \in 1..(n - 1) : wire[j] # "Stopped"
      /\ ~s.failed /\ s.ended => /\ owned /\ ~s.stopped
                                 /\ \E i \in 1..(n - 1) : wire[i] = "Idle"
  BY DEF HeardOf
<1>3. owned \in BOOLEAN
  BY DEF SessionInv, SessionOK
<1>4. /\ t \in [phase : Phases, saw : BOOLEAN, control : BOOLEAN, ended : BOOLEAN,
                 stopped : BOOLEAN, failed : BOOLEAN]
      /\ t.phase \in {s.phase, "Running", "Paused", "BusyUnowned"}
      /\ ~t.failed => ~s.failed
      /\ ~t.failed /\ ~t.stopped => ~s.stopped /\ e # "Stopped"
      /\ ~t.failed /\ t.ended => /\ owned /\ ~t.stopped
                                 /\ s.ended \/ e = "Idle"
  <2>1. {"Running", "Paused", "BusyUnowned"} \subseteq Phases
    BY DEF Phases, ActivePhases, JobPhases
  <2> HIDE DEF s, t, e
  <2>2. CASE s.failed
    <3>1. t = s
      BY <1>1, <2>2 DEF Seen
    <3> QED
      BY <1>2, <2>2, <3>1
  <2>3. CASE ~s.failed /\ e = "Alarm"
    <3>1. t = [s EXCEPT !.failed = TRUE]
      BY <1>1, <2>3 DEF Seen
    <3> QED
      BY <1>2, <2>3, <3>1
  <2>4. CASE ~s.failed /\ e = "Awaiting"
    <3>1. t = [s EXCEPT !.failed = ~owned]
      BY <1>1, <2>4 DEF Seen
    <3> QED
      BY <1>2, <1>3, <2>4, <3>1
  <2>5. CASE ~s.failed /\ e = "Stopped"
    <3>1. t = [s EXCEPT !.stopped = TRUE, !.ended = FALSE]
      BY <1>1, <2>5 DEF Seen
    <3> QED
      BY <1>2, <2>5, <3>1
  <2>6. CASE ~s.failed /\ e = "Idle"
    <3>1. t = [s EXCEPT !.ended = s.saw /\ owned /\ ~s.stopped]
      BY <1>1, <2>6 DEF Seen
    <3> QED
      BY <1>2, <1>3, <2>6, <3>1
  <2>7. CASE ~s.failed /\ e = "Running"
    <3>1. \/ t = [s EXCEPT !.ended = FALSE, !.saw = TRUE, !.phase = "Running", !.control = FALSE]
          \/ t = [s EXCEPT !.ended = FALSE, !.phase = "BusyUnowned"]
      BY <1>1, <2>7 DEF Seen
    <3> QED
      BY <1>2, <2>1, <2>7, <3>1
  <2>8. CASE ~s.failed /\ e = "Paused"
    <3>1. \/ t = [s EXCEPT !.phase = "Paused", !.control = FALSE]
          \/ t = [s EXCEPT !.phase = "BusyUnowned"]
      BY <1>1, <2>8 DEF Seen
    <3> QED
      BY <1>2, <2>1, <2>8, <3>1
  <2> QED
    BY <1>1, <2>2, <2>3, <2>4, <2>5, <2>6, <2>7, <2>8 DEF Events
<1>5. ~t.failed /\ ~t.stopped => \A j \in 1..n : wire[j] # "Stopped"
  <2>1. \A j \in 1..n : j \in 1..(n - 1) \/ j = n
    OBVIOUS
  <2> QED
    BY <1>2, <1>4, <2>1
<1>6. ~t.failed /\ t.ended => \E i \in 1..n : wire[i] = "Idle"
  <2>1. n \in 1..n /\ \A i \in 1..(n - 1) : i \in 1..n
    OBVIOUS
  <2> QED
    BY <1>2, <1>4, <2>1
<1> QED
  BY <1>2, <1>4, <1>5, <1>6 DEF HeardOf

LEMMA HeardTells ==
  ASSUME SessionInv, NEW n \in 0..Len(wire)
  PROVE  HeardOf(n)
<1> DEFINE T == {i \in 0..n : ~HeardOf(i)}
<1> SUFFICES ASSUME T # {} PROVE FALSE
  OBVIOUS
<1>1. PICK i \in T : \A j \in T : i <= j
  <2>1. T \subseteq Nat
    OBVIOUS
  <2> QED
    BY <2>1, LeastNumber
<1>2. CASE i = 0
  <2>1. Heard[0] = Unheard
    BY HeardDefined
  <2>2. phase \in Phases /\ saw_owned_running \in BOOLEAN /\ control \in BOOLEAN
    BY DEF SessionInv, SessionOK
  <2>3. HeardOf(0)
    BY <2>1, <2>2 DEF HeardOf, Unheard
  <2> QED
    BY <1>1, <1>2, <2>3
<1>3. CASE i # 0
  <2>1. i \in Nat /\ i \in 1..Len(wire) /\ i - 1 \in 0..n /\ ~(i <= i - 1)
    <3>1. Len(wire) \in Nat
      BY LenProperties DEF SessionInv, MachineOK
    <3> QED
      BY <1>3, <3>1
  <2>2. HeardOf(i - 1)
    BY <1>1, <2>1
  <2> QED
    BY <1>1, <2>1, <2>2, SeenAdds
<1> QED
  BY <1>2, <1>3

(***************************************************************************)
(* Operations.                                                             *)
(***************************************************************************)

\* Where an operation begins.
LEMMA OpValue ==
  ASSUME NEW kind, NEW step
  PROVE  /\ Op(kind, step).kind = kind /\ Op(kind, step).step = step
         /\ kind \in Polls \cup Stops \cup {"none"} /\ step \in Steps => Op(kind, step) \in Operations
<1>1. Op(kind, step).kind = kind /\ Op(kind, step).step = step
  BY DEF Op, NoOp
<1>2. 0 \in 0..STOP_CONFIRM_ATTEMPTS
  BY XToolD1Assumption
<1>3. ASSUME kind \in Polls \cup Stops \cup {"none"}, step \in Steps
      PROVE  Op(kind, step) \in Operations
  BY <1>2, <1>3 DEF Op, NoOp, Operations
<1> QED
  BY <1>1, <1>3

LEMMA NoOpValue ==
  /\ NoOp.kind = "none" /\ NoOp.step = "none" /\ NoOp \in Operations
  BY XToolD1Assumption DEF NoOp, Operations, Steps

\* The phases, told apart.
LEMMA PhasesDiffer ==
  /\ OverPhases \cap ActivePhases = {} /\ JobPhases \subseteq ActivePhases
  /\ {"BusyUnowned", "RecoveryRequired", "Disconnected"} \cap (OverPhases \cup ActivePhases) = {}
  /\ Phases = OverPhases \cup ActivePhases \cup {"BusyUnowned", "RecoveryRequired", "Disconnected"}
  BY DEF Phases, OverPhases, ActivePhases, JobPhases

\* An operation that is over, or that begins to stop.
Rested ==
  \/ op' = NoOp
  \/ conn' /\ \E kind \in Stops \ {"close"} : op' = Op(kind, "stop")

LEMMA RestedKeeps ==
  ASSUME Rested, conn' \in BOOLEAN, ~conn' => ~owned', phase' = "Disconnected" => ~owned',
         ~(owned' /\ phase' \in OverPhases)
  PROVE  /\ ShapeInv' /\ OwnedInv' /\ StopInv'
         /\ op'.step \in {"none", "stop"} /\ op'.kind \notin {"connect", "close"}
<1>1. CASE op' = NoOp
  <2>1. op'.kind = "none" /\ op'.step = "none" /\ op' \in Operations
    BY <1>1, NoOpValue
  <2> QED
    BY <1>1, <2>1 DEF ShapeInv, OwnedInv, StopInv, PollSteps, UploadSteps, StopSteps, Sending, Sent
<1>2. CASE conn' /\ \E kind \in Stops \ {"close"} : op' = Op(kind, "stop")
  <2>1. PICK kind \in Stops \ {"close"} : op' = Op(kind, "stop")
    BY <1>2
  <2>2. op'.kind = kind /\ op'.step = "stop" /\ op' \in Operations
    BY <2>1, OpValue DEF Steps, StopSteps
  <2>3. kind \notin {"connect", "none"}
    BY DEF Stops
  <2> QED
    BY <1>2, <2>2, <2>3
       DEF ShapeInv, OwnedInv, StopInv, PollSteps, UploadSteps, StopSteps, Sending, Sent
<1> QED
  BY <1>1, <1>2 DEF Rested

\* An operation that begins to poll.
LEMMA TakeKeeps ==
  ASSUME NEW kind \in Polls \ {"connect"}, op' = Op(kind, "take"), conn' = TRUE,
         phase' = "Disconnected" => ~owned', ~(owned' /\ phase' \in OverPhases)
  PROVE  ShapeInv' /\ OwnedInv' /\ StopInv' /\ op'.step = "take"
<1>1. op'.kind = kind /\ op'.step = "take" /\ op' \in Operations
  BY OpValue DEF Steps, PollSteps
<1>2. kind \notin {"connect", "none", "close", "estop"}
  BY DEF Polls
<1> QED
  BY <1>1, <1>2 DEF ShapeInv, OwnedInv, StopInv, PollSteps, UploadSteps, StopSteps, Sending, Sent

\* A poll that fails.
LEMMA PollFailsKeeps ==
  ASSUME SessionInv, op.step \in PollSteps \cup {"state"}, NEW rest, PollFails(rest),
         owned' \in BOOLEAN, owned' => owned
  PROVE  /\ ShapeInv' /\ OwnedInv' /\ StopInv' /\ op'.step \in {"none", "stop"}
         /\ phase' \in {"Disconnected", "RecoveryRequired"}
         /\ phase' = "Disconnected" => ~owned'
         /\ UNCHANGED <<conn, endpoint, job, frame, starts>>
         /\ \/ wire' = rest /\ UNCHANGED channel
            \/ wire' = <<>> /\ channel' = "failed"
<1>1. /\ conn \in BOOLEAN /\ (~conn => ~owned) /\ op.kind \in Polls
      /\ (op.kind = "connect" <=> ~conn)
  BY DEF SessionInv, SessionOK, OwnedInv, ShapeInv, PollSteps, Polls
<1>2. /\ phase' = IF op.kind = "connect" THEN "Disconnected" ELSE "RecoveryRequired"
      /\ UNCHANGED <<conn, endpoint, job, frame, starts>>
      /\ \/ wire' = rest /\ UNCHANGED channel
         \/ wire' = <<>> /\ channel' = "failed"
  <2>1. IF op.kind = "connect" THEN channel' = "failed" /\ wire' = <<>>
        ELSE wire' = rest /\ UNCHANGED channel
    BY DEF PollFails
  <2> QED
    BY <2>1 DEF PollFails
<1>3. /\ phase' \in {"Disconnected", "RecoveryRequired"} /\ phase' \notin OverPhases
      /\ phase' = "Disconnected" => ~owned'
      /\ ~conn' => ~owned'
  BY <1>1, <1>2 DEF OverPhases
<1>4. Rested
  <2>1. {"tick", "lost", "unwind"} \subseteq Stops \ {"close"}
    BY DEF Stops
  <2>2. CASE op.kind = "tick"
    <3>1. op' = Op("tick", "stop")
      BY <2>2 DEF PollFails
    <3> QED
      BY <1>1, <1>2, <2>1, <2>2, <3>1 DEF Rested
  <2>3. CASE op.kind = "idle"
    <3>1. op' = Op("lost", "stop") \/ op' = NoOp
      BY <2>3 DEF PollFails
    <3> QED
      BY <1>1, <1>2, <2>1, <2>3, <3>1 DEF Rested
  <2>4. CASE op.kind \in {"upload", "ready"}
    <3>1. op' = Op("unwind", "stop") \/ op' = NoOp
      BY <2>4 DEF PollFails, Undone
    <3> QED
      BY <1>1, <1>2, <2>1, <2>4, <3>1 DEF Rested
  <2>5. CASE op.kind = "connect"
    <3>1. op' = NoOp
      BY <2>5 DEF PollFails
    <3> QED
      BY <3>1 DEF Rested
  <2> QED
    BY <1>1, <2>2, <2>3, <2>4, <2>5 DEF Polls
<1> QED
  BY <1>1, <1>2, <1>3, <1>4, RestedKeeps

\* A poll that ends.
LEMMA PollEndsKeeps ==
  ASSUME SessionInv, op.step \in PollSteps, NEW p \in Phases, PollEnds(p),
         owned' \in BOOLEAN, owned' => owned, p = "Disconnected" => ~owned',
         ~(owned' /\ p \in OverPhases)
  PROVE  /\ ShapeInv' /\ OwnedInv' /\ StopInv' /\ phase' = p
         /\ op'.step \in {"none", "stop", "take", "barrier"}
         /\ conn' \in BOOLEAN /\ endpoint' \in BOOLEAN /\ UNCHANGED <<channel, frame>>
         /\ job' \in JobPhases \cup {"none"} /\ (job' # "none" => conn')
         /\ \/ starts' = starts
            \/ starts < MaxStarts /\ starts' = starts + 1
<1>1. /\ conn \in BOOLEAN /\ (~conn => ~owned) /\ op.kind \in Polls
      /\ (op.kind = "connect" <=> ~conn) /\ endpoint \in BOOLEAN
      /\ job \in JobPhases \cup {"none"} /\ (job # "none" => conn)
  BY DEF SessionInv, SessionOK, OwnedInv, ShapeInv, PollSteps, Polls
<1>2. phase' = p /\ UNCHANGED <<channel, frame>>
  BY DEF PollEnds
<1>3. {"tick", "unwind"} \subseteq Stops \ {"close"}
  BY DEF Stops
<1>9. /\ phase' = "Disconnected" => ~owned'
      /\ ~(owned' /\ phase' \in OverPhases)
  BY <1>2
<1>10. ASSUME Rested, conn' \in BOOLEAN, conn => conn'
       PROVE  ShapeInv' /\ OwnedInv' /\ StopInv' /\ op'.step \in {"none", "stop"}
  <2>1. ~conn' => ~owned'
    BY <1>1, <1>10
  <2> QED
    BY <1>9, <1>10, <2>1, RestedKeeps
<1>4. CASE op.kind = "connect"
  <2>1. conn' = TRUE /\ endpoint' = TRUE /\ op' = NoOp /\ UNCHANGED <<job, starts>>
    BY <1>4 DEF PollEnds
  <2>2. Rested
    BY <2>1 DEF Rested
  <2> QED
    BY <1>1, <1>2, <2>1, <2>2, <1>10
<1>5. CASE op.kind = "upload"
  <2>1. /\ op' = IF p \in OverPhases THEN Op("upload", "barrier") ELSE Undone(owned')
        /\ UNCHANGED <<conn, endpoint, job, starts>>
    BY <1>5 DEF PollEnds
  <2>2. CASE p \in OverPhases
    <3>1. op' = Op("upload", "barrier")
      BY <2>1, <2>2
    <3>2. op'.kind = "upload" /\ op'.step = "barrier" /\ op' \in Operations
      BY <3>1, OpValue DEF Steps, UploadSteps, Polls
    <3>3. ShapeInv' /\ OwnedInv' /\ StopInv'
      BY <1>1, <1>2, <1>5, <2>1, <2>2, <3>2
         DEF ShapeInv, OwnedInv, StopInv, PollSteps, UploadSteps, StopSteps, Sending, Sent
    <3> QED
      BY <1>1, <1>2, <2>1, <3>2, <3>3
  <2>3. CASE p \notin OverPhases
    <3>1. Rested
      BY <1>1, <1>3, <1>5, <2>1, <2>3 DEF Rested, Undone
    <3> QED
      BY <1>1, <1>2, <2>1, <3>1, <1>10
  <2> QED
    BY <2>2, <2>3
<1>6. CASE op.kind = "ready"
  <2>1. /\ op' = IF op.interrupted THEN Op("unwind", "stop") ELSE NoOp
        /\ job' = IF op.interrupted THEN "none" ELSE "ReadyToRun"
        /\ UNCHANGED <<conn, endpoint, starts>>
    BY <1>6 DEF PollEnds
  <2>2. Rested
    BY <1>1, <1>3, <1>6, <2>1 DEF Rested
  <2>3. job' \in JobPhases \cup {"none"}
    BY <2>1 DEF JobPhases
  <2> QED
    BY <1>1, <1>2, <1>6, <2>1, <2>2, <2>3, <1>10
<1>7. CASE op.kind = "tick"
  <2>1. /\ job' = CASE p \in JobPhases -> p
                    [] p \in {"Completed", "Stopped"} -> "none"
                    [] OTHER -> job
        /\ UNCHANGED <<conn, endpoint>>
    BY <1>7 DEF PollEnds
  <2>2. \/ /\ op' = IF p \in {"RecoveryRequired", "BusyUnowned"} THEN Op("tick", "stop") ELSE NoOp
           /\ UNCHANGED starts
        \/ op' = Op("upload", "take") /\ starts < MaxStarts /\ starts' = starts + 1
    BY <1>7 DEF PollEnds
  <2>3. job' \in JobPhases \cup {"none"} /\ conn = TRUE
    BY <1>1, <1>7, <2>1
  <2>4. CASE op' = Op("upload", "take")
    <3>1. ShapeInv' /\ OwnedInv' /\ StopInv' /\ op'.step = "take"
      <4>1. "upload" \in Polls \ {"connect"}
        BY DEF Polls
      <4>2. conn' = TRUE
        BY <2>1, <2>3
      <4> QED
        BY <1>9, <2>4, <4>1, <4>2, TakeKeeps
    <3> QED
      BY <1>1, <1>2, <2>1, <2>2, <2>3, <3>1
  <2>5. CASE Rested /\ UNCHANGED starts
    BY <1>1, <1>2, <2>1, <2>3, <2>5, <1>10
  <2>6. (Rested /\ UNCHANGED starts) \/ op' = Op("upload", "take")
    BY <1>3, <2>1, <2>2, <2>3 DEF Rested
  <2> QED
    BY <2>4, <2>5, <2>6
<1>8. CASE op.kind = "idle"
  <2>1. op' = NoOp /\ UNCHANGED <<conn, endpoint, job, starts>>
    BY <1>8 DEF PollEnds
  <2>2. Rested
    BY <2>1 DEF Rested
  <2> QED
    BY <1>1, <1>2, <2>1, <2>2, <1>10
<1> QED
  BY <1>1, <1>4, <1>5, <1>6, <1>7, <1>8 DEF Polls

\* A stop that ends or fails leaves nothing owned but in recovery.
LEMMA StopEndsKeeps ==
  ASSUME SessionInv, op.step \in StopSteps, StopDone \/ StopFails
  PROVE  /\ ShapeInv' /\ OwnedInv' /\ StopInv'
         /\ conn' \in BOOLEAN /\ endpoint' \in BOOLEAN /\ owned' \in BOOLEAN
         /\ saw_owned_running' \in BOOLEAN /\ control' \in BOOLEAN /\ transition' \in BOOLEAN
         /\ phase' \in {"Disconnected", "Stopped", "RecoveryRequired"}
         /\ job' \in JobPhases \cup {"none"} /\ (job' # "none" => conn')
         /\ op'.step \in {"none", "stop"}
         /\ \/ UNCHANGED <<channel, wire>>
            \/ channel' = "failed" /\ wire' = <<>>
         /\ ~(owned' /\ phase' # "RecoveryRequired")
<1>1. /\ op.kind \in Stops /\ conn = TRUE /\ endpoint \in BOOLEAN /\ owned \in BOOLEAN
      /\ saw_owned_running \in BOOLEAN /\ control \in BOOLEAN /\ transition \in BOOLEAN
      /\ job \in JobPhases \cup {"none"} /\ (phase = "Disconnected" => ~owned)
      /\ (op.kind = "close" => ~owned)
  <2>1. op.kind \in Stops
    BY DEF SessionInv, ShapeInv
  <2>2. op.kind \notin {"none", "connect"}
    BY <2>1 DEF Stops
  <2> QED
    BY <2>1, <2>2 DEF SessionInv, SessionOK, ShapeInv, OwnedInv
<1>2. ASSUME Dropped, op' = NoOp, job' = "none", endpoint' = (endpoint /\ op.kind # "disconnect")
      PROVE  /\ ShapeInv' /\ OwnedInv' /\ StopInv'
             /\ conn' \in BOOLEAN /\ endpoint' \in BOOLEAN /\ owned' \in BOOLEAN
             /\ saw_owned_running' \in BOOLEAN /\ control' \in BOOLEAN /\ transition' \in BOOLEAN
             /\ phase' \in {"Disconnected", "Stopped", "RecoveryRequired"}
             /\ job' \in JobPhases \cup {"none"} /\ (job' # "none" => conn')
             /\ op'.step \in {"none", "stop"}
             /\ \/ UNCHANGED <<channel, wire>>
                \/ channel' = "failed" /\ wire' = <<>>
             /\ ~(owned' /\ phase' # "RecoveryRequired")
  <2>1. Rested
    BY <1>2 DEF Rested
  <2>2. /\ conn' = FALSE /\ phase' = "Disconnected" /\ owned' = FALSE
        /\ saw_owned_running' = FALSE /\ control' = FALSE /\ transition' = FALSE
        /\ channel' = "failed" /\ wire' = <<>>
    BY <1>2 DEF Dropped
  <2>3. ShapeInv' /\ OwnedInv' /\ StopInv' /\ op'.step \in {"none", "stop"}
    BY <2>1, <2>2, RestedKeeps
  <2> QED
    BY <1>1, <1>2, <2>2, <2>3
<1>3. CASE StopDone /\ op.kind \in {"disconnect", "lost", "drop", "close"}
  BY <1>2, <1>3 DEF StopDone
<1>4. CASE StopDone /\ op.kind = "shutdown"
  <2>1. /\ phase' = "Stopped" /\ owned' = FALSE /\ control' = FALSE /\ op' = Op("close", "stop")
        /\ UNCHANGED <<conn, channel, wire, saw_owned_running, transition, endpoint, job>>
    BY <1>4 DEF StopDone, Kept
  <2>2. op'.kind = "close" /\ op'.step = "stop" /\ op' \in Operations
    BY <2>1, OpValue DEF Steps, StopSteps, Stops
  <2>3. ShapeInv' /\ OwnedInv' /\ StopInv'
    BY <1>1, <2>1, <2>2
       DEF ShapeInv, OwnedInv, StopInv, PollSteps, UploadSteps, StopSteps, Sending, Sent, Stops
  <2> QED
    BY <1>1, <2>1, <2>2, <2>3
<1>5. CASE StopDone /\ op.kind \notin {"disconnect", "lost", "drop", "close", "shutdown"}
  <2>1. /\ phase' = "Stopped" /\ owned' = FALSE /\ control' = FALSE /\ op' = NoOp
        /\ job' = "none"
        /\ UNCHANGED <<conn, channel, wire, saw_owned_running, transition, endpoint>>
    BY <1>5 DEF StopDone, Kept
  <2>2. Rested
    BY <2>1 DEF Rested
  <2>3. ShapeInv' /\ OwnedInv' /\ StopInv' /\ op'.step \in {"none", "stop"}
    BY <1>1, <2>1, <2>2, RestedKeeps
  <2> QED
    BY <1>1, <2>1, <2>3
<1>6. CASE StopFails /\ op.kind \in {"disconnect", "lost", "drop"}
  BY <1>2, <1>6 DEF StopFails
<1>7. CASE StopFails /\ op.kind \notin {"disconnect", "lost", "drop"}
  <2>1. /\ phase' = IF op.kind = "close" \/ phase = "Disconnected" THEN "Disconnected"
                    ELSE "RecoveryRequired"
        /\ op' = Op("drop", "stop") \/ op' = NoOp
        /\ job' \in {job, "none"}
        /\ UNCHANGED <<conn, channel, wire, saw_owned_running, transition, endpoint, owned, control>>
    BY <1>7 DEF StopFails, Kept
  <2>2. Rested
    BY <1>1, <2>1 DEF Rested, Stops
  <2>3. phase' \notin OverPhases /\ (phase' = "Disconnected" => ~owned')
    BY <1>1, <2>1 DEF OverPhases
  <2>4. ShapeInv' /\ OwnedInv' /\ StopInv' /\ op'.step \in {"none", "stop"}
    BY <1>1, <2>1, <2>2, <2>3, RestedKeeps
  <2> QED
    BY <1>1, <2>1, <2>3, <2>4
<1> QED
  BY <1>3, <1>4, <1>5, <1>6, <1>7

(***************************************************************************)
(* What is known of the machine.                                           *)
(***************************************************************************)

\* An end of our program was read.
EndRead == op.step = "read" /\ op.ended /\ ~op.stopped
\* Nothing else completes a job.
NewlyCompleted == phase' = "Completed" => phase = "Completed" \/ EndRead

\* A step that follows the machine no further.
LEMMA UnfollowedKeeps ==
  ASSUME DataInv, fate = "ran" => fate' = "ran", foreign => foreign',
         op'.step \notin Transfer \cup {"recheck", "read"}, ~Followed',
         NewlyCompleted, phase' = "Completed" => op.step \notin Sent
  PROVE  DataInv'
<1>1. UploadInv'
  BY DEF UploadInv, Transfer
<1>2. TraceInv'
  BY DEF TraceInv
<1>3. CompletedInv'
  BY DEF CompletedInv, DataInv, NewlyCompleted, EndRead
<1> QED
  BY <1>1, <1>2, <1>3 DEF DataInv

\* A step that goes on to follow it.
LEMMA DataKeeps ==
  ASSUME DataInv, TraceEffect, UploadEffect \/ op'.step \notin Transfer,
         Followed' => Followed, Followed' /\ Stopped => Stopped',
         op'.step \in Transfer => op.step \in Transfer,
         op'.step = "synchronize" => op.step = "synchronize",
         phase' = "Completed" /\ op.step \in Sent => op'.step \in Sent,
         EndRead' => EndRead, NewlyCompleted
  PROVE  DataInv'
<1>1. UploadInv'
  <2>1. CASE UploadEffect
    BY <2>1 DEF UploadInv, UploadEffect, TraceEffect, DataInv
  <2>2. CASE op'.step \notin Transfer
    BY <2>2 DEF UploadInv, Transfer
  <2> QED
    BY <2>1, <2>2
<1>2. TraceInv'
  <2> SUFFICES ASSUME Followed', ~foreign'
               PROVE  Placed' /\ (Ended(wire)' /\ ~Stopped' => fate' = "ran")
    BY DEF TraceInv
  <2>1. Placed /\ (Ended(wire) /\ ~Stopped => fate = "ran")
    BY DEF DataInv, TraceInv, TraceEffect
  <2>2. Placed' /\ (Ended(wire') => Ended(wire) \/ fate' = "ran")
    BY <2>1 DEF TraceEffect
  <2>3. ASSUME Ended(wire'), ~Stopped' PROVE fate' = "ran"
    BY <2>1, <2>2, <2>3 DEF TraceEffect
  <2> QED
    BY <2>2, <2>3 DEF Ended
<1>3. CompletedInv'
  <2>1. EndRead => fate = "ran" \/ foreign
    BY DEF DataInv, CompletedInv, EndRead
  <2>2. ASSUME phase' = "Completed", op'.step \notin Sent PROVE fate' = "ran" \/ foreign'
    BY <2>1, <2>2 DEF DataInv, CompletedInv, TraceEffect, NewlyCompleted
  <2>3. EndRead' => fate' = "ran" \/ foreign'
    BY <2>1 DEF TraceEffect
  <2> QED
    BY <2>2, <2>3 DEF CompletedInv, EndRead
<1> QED
  BY <1>1, <1>2, <1>3 DEF DataInv

\* The session and its operation stay where they are.
LEMMA SessionStays ==
  ASSUME RuntimeInv, MachineEffect, UNCHANGED <<owned, phase>>,
         op'.step = op.step, op'.ended = op.ended, op'.stopped = op.stopped
  PROVE  DataInv' /\ NewlyCompleted
<1>1. (Followed' <=> Followed) /\ (Stopped' <=> Stopped) /\ (EndRead' <=> EndRead)
  BY DEF Followed, Stopped, EndRead
<1>2. NewlyCompleted
  BY DEF NewlyCompleted
<1> QED
  BY <1>1, <1>2, DataKeeps DEF RuntimeInv, MachineEffect

\* A machine that nobody touches while its events are read, or dropped with the channel.
LEMMA ChannelKeeps ==
  ASSUME MachineOK, UNCHANGED <<machine, program, file, fate, foreign>>,
         \/ UNCHANGED <<channel, wire>>
         \/ channel' = "failed" /\ wire' = <<>>
  PROVE  MachineEffect
<1>1. CASE UNCHANGED <<channel, wire>>
  BY <1>1, NothingMoves DEF machineVars
<1>2. CASE channel' = "failed" /\ wire' = <<>>
  BY <1>2, Told DEF MachineEffect, TraceEffect, UploadEffect, MachineOK, Placed
<1> QED
  BY <1>1, <1>2

\* The events that are left of the wire.
LEMMA RestOf ==
  ASSUME MachineOK, NEW n \in 0..Len(wire)
  PROVE  /\ SubSeq(wire, n + 1, Len(wire)) \in Seq(Events)
         /\ channel = "failed" => SubSeq(wire, n + 1, Len(wire)) = <<>>
         /\ (\A j \in 1..n : wire[j] # "Stopped") /\ Ended(SubSeq(wire, n + 1, Len(wire)))
              => Ended(wire)
         /\ Len(wire) \in Nat
<1> DEFINE rest == SubSeq(wire, n + 1, Len(wire))
<1>1. Len(wire) \in Nat /\ wire \in Seq(Events) /\ n \in Nat /\ n <= Len(wire)
  BY LenProperties DEF MachineOK
<1>2. /\ rest \in Seq(Events) /\ Len(rest) = Len(wire) - n
      /\ \A i \in 1..Len(rest) : rest[i] = wire[n + i]
  <2> DEFINE m == n + 1
             l == Len(wire)
  <2>1. /\ m \in Int /\ l \in Int /\ l - m + 1 = l - n
        /\ l - n = (IF m <= l THEN l - m + 1 ELSE 0)
        /\ \A i \in Int : m + i - 1 = n + i
    BY <1>1
  <2>2. \A i \in m..l : wire[i] \in Events
    <3>1. \A i \in m..l : i \in 1..l
      BY <1>1
    <3> QED
      BY <1>1, <3>1
  <2> HIDE DEF m, l
  <2>3. /\ SubSeq(wire, m, l) \in Seq(Events)
        /\ Len(SubSeq(wire, m, l)) = l - n
        /\ \A i \in 1..(l - n) : SubSeq(wire, m, l)[i] = wire[n + i]
    BY <2>1, <2>2, SubSeqProperties
  <2> QED
    BY <2>3 DEF m, l
<1>3. channel = "failed" => rest = <<>>
  <2> SUFFICES ASSUME channel = "failed" PROVE rest = <<>>
    OBVIOUS
  <2>1. wire = <<>> /\ Len(wire) = 0
    BY DEF MachineOK
  <2>2. Len(rest) = 0
    BY <1>1, <1>2, <2>1
  <2> QED
    BY <1>2, <2>2, EmptySeq
<1>4. ASSUME \A j \in 1..n : wire[j] # "Stopped", Ended(rest) PROVE Ended(wire)
  <2>1. PICK i \in 1..Len(rest) : rest[i] = "Idle" /\ \A j \in 1..i : rest[j] # "Stopped"
    BY <1>4 DEF Ended
  <2>2. n + i \in 1..Len(wire) /\ wire[n + i] = "Idle"
    BY <1>1, <1>2, <2>1
  <2>3. ASSUME NEW j \in 1..(n + i) PROVE wire[j] # "Stopped"
    <3>1. CASE j <= n
      BY <1>1, <1>4, <3>1
    <3>2. CASE ~(j <= n)
      <4>1. j - n \in 1..i /\ j - n \in 1..Len(rest) /\ n + (j - n) = j
        BY <1>1, <1>2, <3>2
      <4> QED
        BY <1>2, <2>1, <4>1
    <3> QED
      BY <3>1, <3>2
  <2> QED
    BY <2>2, <2>3 DEF Ended
<1> QED
  BY <1>1, <1>2, <1>3, <1>4

(***************************************************************************)
(* Polling.                                                                *)
(***************************************************************************)

LEMMA TakesEventsKeeps ==
  ASSUME RuntimeInv, NEW n \in 0..Len(wire), TakesEvents(n)
  PROVE  RuntimeInv' /\ NewlyCompleted
<1> DEFINE rest == SubSeq(wire, n + 1, Len(wire))
           s == Heard[n]
<1>1. MachineOK /\ CountsOK /\ SessionOK /\ ShapeInv /\ OwnedInv /\ SessionInv /\ DataInv
  BY DEF RuntimeInv, SessionInv
<1>2. /\ op.step = "take" /\ op.step \in PollSteps /\ op.step \in PollSteps \cup {"state"}
      /\ op.step \notin Sending /\ op.step \notin Sent
      /\ UNCHANGED <<machine, program, file, fate, foreign, mishaps, transition, estop,
                     presses, idle_since_estop, owned>>
  BY DEF TakesEvents, PollSteps, Sending, Sent
<1>3. /\ rest \in Seq(Events) /\ (channel = "failed" => rest = <<>>)
      /\ (\A j \in 1..n : wire[j] # "Stopped") /\ Ended(rest) => Ended(wire)
  BY <1>1, RestOf
<1>4. HeardOf(n)
  BY <1>1, HeardTells
<1>5. /\ owned' \in BOOLEAN /\ (owned' => owned) /\ phase \in Phases
      /\ ~(owned' /\ phase \in OverPhases) /\ (phase = "Disconnected" => ~owned')
      /\ saw_owned_running \in BOOLEAN /\ control \in BOOLEAN
  BY <1>1, <1>2 DEF SessionOK, OwnedInv
<1>6. ASSUME PollFails(rest), saw_owned_running' \in BOOLEAN, control' \in BOOLEAN
      PROVE  RuntimeInv' /\ NewlyCompleted
  <2>1. /\ ShapeInv' /\ OwnedInv' /\ StopInv' /\ op'.step \in {"none", "stop"}
        /\ phase' \in {"Disconnected", "RecoveryRequired"}
        /\ UNCHANGED <<conn, endpoint, job, frame, starts>>
        /\ \/ wire' = rest /\ UNCHANGED channel
           \/ wire' = <<>> /\ channel' = "failed"
    BY <1>1, <1>2, <1>5, <1>6, PollFailsKeeps
  <2>2. MachineOK' /\ CountsOK'
    BY <1>1, <1>2, <1>3, <2>1, Told DEF MachineOK, CountsOK
  <2>3. SessionOK'
    BY <1>1, <1>2, <1>6, <2>1 DEF SessionOK, Phases
  <2>4. ~Followed' /\ phase' # "Completed"
    BY <2>1, PhasesDiffer DEF Followed
  <2>5. NewlyCompleted /\ DataInv'
    <3>1. NewlyCompleted
      BY <2>4 DEF NewlyCompleted
    <3>2. op'.step \notin Transfer \cup {"recheck", "read"}
      BY <2>1 DEF Transfer
    <3> QED
      BY <1>1, <1>2, <2>4, <3>1, <3>2, UnfollowedKeeps
  <2> QED
    BY <2>1, <2>2, <2>3, <2>5 DEF RuntimeInv, SessionInv
<1>7. ASSUME PollEnds(phase), phase \in {"Disconnected", "RecoveryRequired"},
             UNCHANGED <<saw_owned_running, control>>, wire' \in {wire, rest}
      PROVE  RuntimeInv' /\ NewlyCompleted
  <2>1. /\ ShapeInv' /\ OwnedInv' /\ StopInv' /\ phase' = phase
        /\ op'.step \in {"none", "stop", "take", "barrier"}
        /\ conn' \in BOOLEAN /\ endpoint' \in BOOLEAN /\ UNCHANGED <<channel, frame>>
        /\ job' \in JobPhases \cup {"none"} /\ (job' # "none" => conn')
        /\ \/ starts' = starts
           \/ starts < MaxStarts /\ starts' = starts + 1
    BY <1>1, <1>2, <1>5, <1>7, PollEndsKeeps
  <2>2. MachineOK'
    BY <1>1, <1>2, <1>3, <1>7, <2>1 DEF MachineOK
  <2>3. CountsOK' /\ SessionOK'
    BY <1>1, <1>2, <1>5, <1>7, <2>1, PressCounted DEF CountsOK, SessionOK
  <2>4. ~Followed' /\ phase' # "Completed"
    BY <1>7, <2>1, PhasesDiffer DEF Followed
  <2>5. NewlyCompleted /\ DataInv'
    <3>1. NewlyCompleted
      BY <2>4 DEF NewlyCompleted
    <3>2. op'.step \notin Transfer \cup {"recheck", "read"}
      BY <2>1 DEF Transfer
    <3> QED
      BY <1>1, <1>2, <2>4, <3>1, <3>2, UnfollowedKeeps
  <2> QED
    BY <2>1, <2>2, <2>3, <2>5 DEF RuntimeInv, SessionInv
<1>8. ASSUME phase \notin {"Disconnected", "RecoveryRequired"},
             saw_owned_running' = s.saw, control' = s.control,
             ~s.failed, wire' = rest, phase' = s.phase,
             op' = [op EXCEPT !.step = "read", !.ended = s.ended, !.stopped = s.stopped],
             UNCHANGED <<conn, endpoint, channel, job, frame, starts>>
      PROVE  RuntimeInv' /\ NewlyCompleted
  <2>1. /\ s \in [phase : Phases, saw : BOOLEAN, control : BOOLEAN, ended : BOOLEAN,
                   stopped : BOOLEAN, failed : BOOLEAN]
        /\ s.phase \in {phase, "Running", "Paused", "BusyUnowned"}
        /\ ~s.stopped => \A j \in 1..n : wire[j] # "Stopped"
        /\ s.ended => owned /\ ~s.stopped /\ \E i \in 1..n : wire[i] = "Idle"
    BY <1>4, <1>8 DEF HeardOf
  <2> HIDE DEF s, rest
  <2>2. /\ op' \in Operations /\ op'.step = "read" /\ op'.kind = op.kind
        /\ op'.ended = s.ended /\ op'.stopped = s.stopped
    BY <1>1, <1>8, <2>1 DEF ShapeInv, Operations, Steps, PollSteps
  <2>3. /\ {"Running", "Paused"} \cap OverPhases = {} /\ "BusyUnowned" \notin OverPhases
        /\ {"Running", "Paused", "BusyUnowned"} \cap {"Disconnected", "Completed"} = {}
    BY DEF OverPhases
  <2>4. ShapeInv' /\ StopInv'
    BY <1>1, <1>2, <1>8, <2>2
       DEF ShapeInv, StopInv, PollSteps, UploadSteps, StopSteps, Sending, Sent, NoOp
  <2>5. OwnedInv'
    BY <1>1, <1>2, <1>5, <1>8, <2>1, <2>2, <2>3 DEF OwnedInv, Sending, Sent
  <2>6. MachineOK' /\ CountsOK' /\ SessionOK'
    BY <1>1, <1>2, <1>3, <1>8, <2>1 DEF MachineOK, CountsOK, SessionOK
  <2>7. NewlyCompleted
    BY <1>8, <2>1, <2>3 DEF NewlyCompleted
  <2>8. Followed' => Followed
    BY <1>1, <1>2, <1>5, <1>8, <2>2, PhasesDiffer DEF Followed, SessionOK
  <2>9. TraceInv'
    <3> SUFFICES ASSUME Followed', ~foreign'
                 PROVE  Placed' /\ (Ended(wire') /\ ~op'.stopped => fate' = "ran")
      BY <2>2 DEF TraceInv, Stopped
    <3>1. Placed /\ (Ended(wire) => fate = "ran")
      BY <1>1, <1>2, <2>8 DEF DataInv, TraceInv, Stopped
    <3> QED
      BY <1>2, <1>3, <1>8, <2>1, <2>2, <3>1 DEF Placed
  <2>10. CompletedInv'
    <3>1. ASSUME phase' = "Completed" PROVE fate' = "ran" \/ foreign'
      <4>1. phase = "Completed"
        BY <1>8, <2>1, <2>3, <3>1
      <4> QED
        BY <1>1, <1>2, <4>1 DEF DataInv, CompletedInv
    <3>2. ASSUME op'.ended PROVE fate' = "ran" \/ foreign'
      <4>1. PICK i \in 1..n : wire[i] = "Idle"
        BY <2>1, <2>2, <3>2
      <4>2. \A j \in 1..i : wire[j] # "Stopped"
        BY <2>1, <2>2, <3>2, <4>1
      <4>3. i \in 1..Len(wire)
        BY <1>1, RestOf, <4>1
      <4>4. Ended(wire)
        BY <4>1, <4>2, <4>3 DEF Ended
      <4>5. Followed
        <5>1. owned /\ phase \notin OverPhases
          BY <1>2, <1>5, <2>1, <2>2, <3>2
        <5> QED
          BY <1>5, <1>8, <5>1, PhasesDiffer DEF Followed
      <4> QED
        BY <1>1, <1>2, <4>4, <4>5 DEF DataInv, TraceInv, Stopped
    <3> QED
      BY <3>1, <3>2 DEF CompletedInv
  <2>11. UploadInv'
    BY <2>2 DEF UploadInv, Transfer
  <2> QED
    BY <2>4, <2>5, <2>6, <2>7, <2>9, <2>10, <2>11 DEF RuntimeInv, SessionInv, DataInv
<1>9. CASE phase = "Disconnected"
  <2>1. PollEnds(phase) /\ UNCHANGED <<saw_owned_running, control, wire>>
    BY <1>9 DEF TakesEvents
  <2> QED
    BY <1>7, <1>9, <2>1
<1>10. CASE phase # "Disconnected" /\ ChannelLost
  <2>1. PollFails(rest) /\ UNCHANGED <<saw_owned_running, control>>
    BY <1>10 DEF TakesEvents
  <2> QED
    BY <1>5, <1>6, <2>1
<1>11. CASE phase = "RecoveryRequired" /\ ~ChannelLost
  <2>1. PollEnds(phase) /\ UNCHANGED <<saw_owned_running, control>> /\ wire' = rest
    BY <1>11 DEF TakesEvents
  <2> QED
    BY <1>7, <1>11, <2>1
<1>12. CASE phase \notin {"Disconnected", "RecoveryRequired"} /\ ~ChannelLost
  <2>1. /\ saw_owned_running' = s.saw /\ control' = s.control
        /\ IF s.failed THEN PollFails(rest)
           ELSE /\ wire' = rest /\ phase' = s.phase
                /\ op' = [op EXCEPT !.step = "read", !.ended = s.ended, !.stopped = s.stopped]
                /\ UNCHANGED <<conn, endpoint, channel, job, frame, starts>>
    BY <1>12 DEF TakesEvents
  <2>2. s.saw \in BOOLEAN /\ s.control \in BOOLEAN /\ s.failed \in BOOLEAN
    BY <1>4 DEF HeardOf
  <2>3. CASE s.failed
    BY <1>6, <2>1, <2>2, <2>3
  <2>4. CASE ~s.failed
    BY <1>8, <1>12, <2>1, <2>4
  <2> QED
    BY <2>2, <2>3, <2>4
<1> QED
  BY <1>9, <1>10, <1>11, <1>12

LEMMA PollReadsKeeps ==
  ASSUME RuntimeInv, NEW late \in BOOLEAN, PollReads(late)
  PROVE  RuntimeInv' /\ NewlyCompleted
<1>1. MachineOK /\ CountsOK /\ SessionOK /\ ShapeInv /\ OwnedInv /\ SessionInv /\ DataInv
  BY DEF RuntimeInv, SessionInv
<1>2. /\ op.step = "read" /\ op.step \in PollSteps /\ op.step \in PollSteps \cup {"state"}
      /\ op.step \notin Sending /\ op.step \notin Sent
      /\ UNCHANGED <<saw_owned_running, control, estop, presses>>
  BY DEF PollReads, PollSteps, Sending, Sent
<1> DEFINE over == op.stopped \/ op.ended
<1>3. PICK state \in ReadsAs, told \in BOOLEAN :
        LET p == IF over THEN (IF op.stopped THEN "Stopped" ELSE "Completed") ELSE StateAfter(state)
            awaiting == IF p = "ReadyToRun" THEN state = "Busy"
                        ELSE p \in ActivePhases /\ state = "Idle"
        IN
        /\ IF told THEN Reads(state) ELSE Fault("lost") /\ Heeds(state)
        /\ IF state = "lost" \/ (over /\ state = "Busy")
           THEN UNCHANGED <<owned, transition>> /\ PollFails(wire)
           ELSE /\ owned' = (owned /\ ~over)
                /\ transition' = awaiting
                /\ IF (late /\ ((awaiting /\ transition) \/ control)) \/ ~told
                   THEN PollFails(wire)
                   ELSE PollEnds(p) /\ UNCHANGED wire
  BY DEF PollReads
<1> DEFINE p == IF over THEN (IF op.stopped THEN "Stopped" ELSE "Completed") ELSE StateAfter(state)
<1>4. /\ mishaps' \in 0..MaxMishaps /\ UNCHANGED <<machine, program, file, fate, foreign>>
      /\ idle_since_estop' = (idle_since_estop \/ state = "Idle")
  <2>1. CASE told
    BY <1>1, <1>3, <2>1, ReadEffect
  <2>2. CASE ~told
    <3>1. Fault("lost") /\ Heeds(state)
      BY <1>3, <2>2
    <3> QED
      BY <1>1, <3>1, MishapCounted DEF Heeds
  <2> QED
    BY <2>1, <2>2
<1>5. /\ owned \in BOOLEAN /\ transition \in BOOLEAN /\ idle_since_estop' \in BOOLEAN
      /\ ~(owned /\ phase \in OverPhases) /\ (phase = "Disconnected" => ~owned) /\ phase \in Phases
      /\ op.stopped \in BOOLEAN /\ op.ended \in BOOLEAN
  BY <1>1, <1>2, <1>4 DEF SessionOK, OwnedInv, ShapeInv, Operations
<1>6. owned' \in BOOLEAN /\ transition' \in BOOLEAN /\ (owned' => owned)
  <2>1. CASE state = "lost" \/ (over /\ state = "Busy")
    BY <1>3, <1>5, <2>1
  <2>2. CASE ~(state = "lost" \/ (over /\ state = "Busy"))
    <3>1. owned' = (owned /\ ~over)
      BY <1>3, <2>2
    <3>2. transition' = (IF p = "ReadyToRun" THEN state = "Busy"
                         ELSE p \in ActivePhases /\ state = "Idle")
      BY <1>3, <2>2
    <3> HIDE DEF p
    <3> QED
      BY <1>5, <3>1, <3>2
  <2> QED
    BY <2>1, <2>2
<1>7. CASE PollFails(wire)
  <2>1. /\ ShapeInv' /\ OwnedInv' /\ StopInv' /\ op'.step \in {"none", "stop"}
        /\ phase' \in {"Disconnected", "RecoveryRequired"}
        /\ UNCHANGED <<conn, endpoint, job, frame, starts>>
        /\ \/ wire' = wire /\ UNCHANGED channel
           \/ wire' = <<>> /\ channel' = "failed"
    BY <1>1, <1>2, <1>6, <1>7, PollFailsKeeps
  <2>2. MachineOK' /\ CountsOK'
    BY <1>1, <1>2, <1>4, <2>1, Told DEF MachineOK, CountsOK
  <2>3. SessionOK'
    BY <1>1, <1>2, <1>5, <1>6, <2>1 DEF SessionOK, Phases
  <2>4. ~Followed' /\ phase' # "Completed"
    BY <2>1, PhasesDiffer DEF Followed
  <2>5. NewlyCompleted /\ DataInv'
    <3>1. NewlyCompleted
      BY <2>4 DEF NewlyCompleted
    <3>2. op'.step \notin Transfer \cup {"recheck", "read"}
      BY <2>1 DEF Transfer
    <3> QED
      BY <1>1, <1>4, <2>4, <3>1, <3>2, UnfollowedKeeps
  <2> QED
    BY <2>1, <2>2, <2>3, <2>5 DEF RuntimeInv, SessionInv
<1>8. CASE PollEnds(p) /\ UNCHANGED wire /\ owned' = (owned /\ ~over)
  <2>1. /\ p \in Phases /\ ~(owned' /\ p \in OverPhases) /\ (p = "Disconnected" => ~owned')
        /\ owned' => ~over /\ p = phase
        /\ p = "Completed" => phase = "Completed" \/ EndRead
    <3>1. CASE over
      <4>1. p \in {"Stopped", "Completed"} /\ (p = "Completed" => EndRead) /\ owned' = FALSE
        BY <1>2, <1>5, <1>8, <3>1 DEF EndRead
      <4>2. {"Stopped", "Completed"} \subseteq OverPhases /\ "Disconnected" \notin OverPhases
        BY DEF OverPhases
      <4> QED
        BY <4>1, <4>2, PhasesDiffer
    <3>2. CASE ~over
      <4>1. p = StateAfter(state) /\ owned' = owned
        BY <1>5, <1>8, <3>2
      <4>2. CASE owned
        <5>1. StateAfter(state) = phase
          BY <4>2 DEF StateAfter
        <5> QED
          BY <1>5, <3>2, <4>1, <4>2, <5>1
      <4>3. CASE ~owned
        <5>1. StateAfter(state) \in {phase, "Ready", "BusyUnowned"}
          BY <4>3 DEF StateAfter
        <5>2. {"Ready", "BusyUnowned"} \subseteq Phases
          BY DEF Phases, OverPhases
        <5> QED
          BY <1>5, <3>2, <4>1, <4>3, <5>1, <5>2
      <4> QED
        BY <4>2, <4>3
    <3> QED
      BY <3>1, <3>2
  <2> HIDE DEF p
  <2>2. /\ ShapeInv' /\ OwnedInv' /\ StopInv' /\ phase' = p
        /\ op'.step \in {"none", "stop", "take", "barrier"}
        /\ conn' \in BOOLEAN /\ endpoint' \in BOOLEAN /\ UNCHANGED <<channel, frame>>
        /\ job' \in JobPhases \cup {"none"} /\ (job' # "none" => conn')
        /\ \/ starts' = starts
           \/ starts < MaxStarts /\ starts' = starts + 1
    BY <1>1, <1>2, <1>6, <1>8, <2>1, PollEndsKeeps
  <2>3. MachineOK' /\ MachineEffect
    <3>1. MachineEffect
      BY <1>1, <1>4, <1>8, <2>2, ChannelKeeps
    <3> QED
      BY <3>1 DEF MachineEffect, TraceEffect
  <2>4. CountsOK' /\ SessionOK'
    BY <1>1, <1>2, <1>4, <1>5, <1>6, <2>1, <2>2, PressCounted DEF CountsOK, SessionOK
  <2>5. NewlyCompleted
    BY <2>1, <2>2 DEF NewlyCompleted
  <2>6. (Followed' => Followed) /\ ~(Followed' /\ Stopped)
    BY <1>2, <1>6, <2>1, <2>2 DEF Followed, Stopped
  <2>7. op'.step \notin Transfer /\ op'.step # "synchronize" /\ ~EndRead'
    BY <2>2 DEF Transfer, EndRead
  <2>8. DataInv'
    BY <1>1, <1>2, <2>3, <2>5, <2>6, <2>7, DataKeeps DEF MachineEffect
  <2> QED
    BY <2>2, <2>3, <2>4, <2>5, <2>8 DEF RuntimeInv, SessionInv
<1>9. PollFails(wire) \/ (PollEnds(p) /\ UNCHANGED wire /\ owned' = (owned /\ ~over))
  BY <1>3
<1> QED
  BY <1>7, <1>8, <1>9

LEMMA BeginKeeps ==
  ASSUME RuntimeInv, Tick \/ IdlePoll
  PROVE  RuntimeInv' /\ NewlyCompleted
<1>1. MachineOK /\ CountsOK /\ SessionOK /\ ShapeInv /\ OwnedInv /\ SessionInv /\ DataInv
  BY DEF RuntimeInv, SessionInv
<1>2. conn = TRUE
  BY <1>1 DEF Tick, IdlePoll, SessionOK
<1>3. PICK kind \in {"tick", "idle"} : Begin(kind)
  BY DEF Tick, IdlePoll
<1>4. /\ op = NoOp /\ op' = Op(kind, "take")
      /\ UNCHANGED <<machine, program, file, wire, fate, foreign, channel, mishaps, conn,
                     endpoint, phase, owned, saw_owned_running, control, transition, job, frame,
                     estop, starts, presses, idle_since_estop>>
  BY <1>3 DEF Begin, machineVars, sessionVars, counts
<1>5. op.step = "none"
  BY <1>4, NoOpValue
<1>6. ShapeInv' /\ OwnedInv' /\ StopInv' /\ op'.step = "take"
  <2>1. kind \in Polls \ {"connect"}
    BY DEF Polls
  <2>2. (phase = "Disconnected" => ~owned) /\ ~(owned /\ phase \in OverPhases)
    BY <1>1, <1>5 DEF OwnedInv, Sending, Sent
  <2> QED
    BY <1>2, <1>4, <2>1, <2>2, TakeKeeps
<1>7. MachineOK' /\ CountsOK' /\ SessionOK'
  BY <1>1, <1>4 DEF MachineOK, CountsOK, SessionOK
<1>8. DataInv' /\ NewlyCompleted
  <2>1. MachineEffect
    BY <1>1, <1>4, ChannelKeeps
  <2>2. NewlyCompleted
    BY <1>4 DEF NewlyCompleted
  <2>3. (Followed' => Followed) /\ ~Stopped /\ ~EndRead' /\ op.step \notin Sent
    BY <1>4, <1>5, <1>6 DEF Followed, Stopped, EndRead, Sent
  <2>4. op'.step \notin Transfer /\ op'.step # "synchronize"
    BY <1>6 DEF Transfer
  <2> QED
    BY <1>1, <2>1, <2>2, <2>3, <2>4, DataKeeps DEF MachineEffect
<1> QED
  BY <1>6, <1>7, <1>8 DEF RuntimeInv, SessionInv

(***************************************************************************)
(* Connecting.                                                             *)
(***************************************************************************)

\* An operation goes on to another step.
LEMMA GoesValue ==
  ASSUME ShapeInv, NEW step \in Steps, GoesTo(step)
  PROVE  /\ op' \in Operations /\ op'.step = step /\ op'.kind = op.kind
         /\ op'.ended = op.ended /\ op'.stopped = op.stopped
  BY DEF ShapeInv, GoesTo, Operations

LEMMA ConnectKeeps ==
  ASSUME RuntimeInv, Connect
  PROVE  RuntimeInv' /\ NewlyCompleted
<1>1. MachineOK /\ CountsOK /\ SessionOK /\ ShapeInv /\ OwnedInv /\ SessionInv /\ DataInv
  BY DEF RuntimeInv, SessionInv
<1>2. /\ conn = FALSE /\ op = NoOp /\ Press /\ channel' = "open" /\ wire' = <<>>
      /\ op' = Op("connect", "state")
      /\ UNCHANGED <<machine, program, file, fate, foreign, mishaps, conn, endpoint, phase, owned,
                     saw_owned_running, control, transition, job, idle_since_estop, frame, estop>>
  BY <1>1 DEF Connect, Outside, sessionVars, SessionOK
<1>3. op.step = "none" /\ op'.kind = "connect" /\ op'.step = "state" /\ op' \in Operations
  BY <1>2, NoOpValue, OpValue DEF Steps, Polls
<1>4. owned = FALSE
  BY <1>1, <1>2 DEF OwnedInv, SessionOK
<1>5. ShapeInv' /\ OwnedInv' /\ StopInv'
  BY <1>2, <1>3, <1>4
     DEF ShapeInv, OwnedInv, StopInv, PollSteps, UploadSteps, StopSteps, Sending, Sent
<1>6. MachineOK' /\ CountsOK' /\ SessionOK'
  BY <1>1, <1>2, Told, PressCounted DEF MachineOK, CountsOK, SessionOK
<1>7. NewlyCompleted
  BY <1>2 DEF NewlyCompleted
<1>8. DataInv'
  <2>1. ~Followed' /\ op.step \notin Sent /\ op'.step \notin Transfer \cup {"recheck", "read"}
    BY <1>2, <1>3, <1>4 DEF Followed, Sent, Transfer
  <2> QED
    BY <1>1, <1>2, <1>7, <2>1, UnfollowedKeeps
<1> QED
  BY <1>5, <1>6, <1>7, <1>8 DEF RuntimeInv, SessionInv

LEMMA ConnectReadsKeeps ==
  ASSUME RuntimeInv, ConnectReads
  PROVE  RuntimeInv' /\ NewlyCompleted
<1>1. MachineOK /\ CountsOK /\ SessionOK /\ ShapeInv /\ OwnedInv /\ SessionInv /\ DataInv
  BY DEF RuntimeInv, SessionInv
<1>2. /\ op.step = "state" /\ op.step \in PollSteps \cup {"state"} /\ op.step \notin Sent
      /\ UNCHANGED <<owned, saw_owned_running, control, transition, estop, presses>>
  BY DEF ConnectReads, Sent
<1>3. op.kind = "connect" /\ conn = FALSE /\ owned = FALSE
  BY <1>1, <1>2 DEF ShapeInv, OwnedInv, SessionOK
<1>4. PICK state \in ReadsAs :
        /\ Reads(state)
        /\ IF state = "lost"
           THEN PollFails(wire)
           ELSE /\ phase' = IF state = "Idle" THEN "Ready" ELSE "BusyUnowned"
                /\ GoesTo("take") /\ UNCHANGED <<conn, endpoint, channel, wire, job, frame, starts>>
  BY DEF ConnectReads
<1>5. /\ mishaps' \in 0..MaxMishaps /\ UNCHANGED <<machine, program, file, fate, foreign>>
      /\ idle_since_estop' = (idle_since_estop \/ state = "Idle")
  BY <1>1, <1>4, ReadEffect
<1>6. CASE state = "lost"
  <2>1. PollFails(wire) /\ owned' \in BOOLEAN /\ (owned' => owned)
    BY <1>2, <1>3, <1>4, <1>6
  <2>2. /\ ShapeInv' /\ OwnedInv' /\ StopInv' /\ op'.step \in {"none", "stop"}
        /\ phase' \in {"Disconnected", "RecoveryRequired"}
        /\ UNCHANGED <<conn, endpoint, job, frame, starts>>
        /\ \/ wire' = wire /\ UNCHANGED channel
           \/ wire' = <<>> /\ channel' = "failed"
    BY <1>1, <1>2, <2>1, PollFailsKeeps
  <2>3. MachineOK' /\ CountsOK' /\ SessionOK'
    <3>1. MachineOK' /\ CountsOK'
      BY <1>1, <1>2, <1>5, <2>2, Told DEF MachineOK, CountsOK
    <3>2. phase' \in Phases
      BY <2>2, PhasesDiffer
    <3> QED
      BY <1>1, <1>2, <1>5, <2>2, <3>1, <3>2 DEF SessionOK
  <2>4. phase' # "Completed" /\ ~Followed' /\ op'.step \notin Transfer \cup {"recheck", "read"}
    BY <1>2, <1>3, <2>2 DEF Followed, Transfer
  <2>5. NewlyCompleted /\ DataInv'
    <3>1. NewlyCompleted
      BY <2>4 DEF NewlyCompleted
    <3> QED
      BY <1>1, <1>2, <1>5, <2>4, <3>1, UnfollowedKeeps
  <2> QED
    BY <2>2, <2>3, <2>5 DEF RuntimeInv, SessionInv
<1>7. CASE state # "lost"
  <2>1. /\ phase' \in {"Ready", "BusyUnowned"} /\ GoesTo("take")
        /\ UNCHANGED <<conn, endpoint, channel, wire, job, frame, starts>>
    BY <1>4, <1>7
  <2>2. op' \in Operations /\ op'.step = "take" /\ op'.kind = "connect"
    BY <1>1, <1>3, <2>1, GoesValue DEF Steps, PollSteps
  <2>3. ShapeInv' /\ OwnedInv' /\ StopInv'
    BY <1>2, <1>3, <2>1, <2>2
       DEF ShapeInv, OwnedInv, StopInv, PollSteps, UploadSteps, StopSteps, Sending, Sent, Polls
  <2>4. MachineOK' /\ CountsOK' /\ SessionOK'
    BY <1>1, <1>2, <1>5, <2>1 DEF MachineOK, CountsOK, SessionOK, Phases, OverPhases
  <2>5. phase' # "Completed" /\ ~Followed' /\ op'.step \notin Transfer \cup {"recheck", "read"}
    BY <1>2, <1>3, <2>1, <2>2 DEF Followed, Transfer
  <2>6. NewlyCompleted /\ DataInv'
    <3>1. NewlyCompleted
      BY <2>5 DEF NewlyCompleted
    <3> QED
      BY <1>1, <1>2, <1>5, <2>5, <3>1, UnfollowedKeeps
  <2> QED
    BY <2>3, <2>4, <2>6 DEF RuntimeInv, SessionInv
<1> QED
  BY <1>6, <1>7

(***************************************************************************)
(* Uploading.                                                              *)
(***************************************************************************)

LEMMA StartKeeps ==
  ASSUME RuntimeInv, NEW is_frame \in BOOLEAN, Start(is_frame)
  PROVE  RuntimeInv' /\ NewlyCompleted
<1>1. MachineOK /\ CountsOK /\ SessionOK /\ ShapeInv /\ OwnedInv /\ SessionInv /\ DataInv
  BY DEF RuntimeInv, SessionInv
<1>2. /\ conn = TRUE /\ op = NoOp /\ op' = Op("upload", "take") /\ frame' = is_frame
      /\ starts < MaxStarts /\ starts' = starts + 1
      /\ UNCHANGED <<machine, program, file, wire, fate, foreign, channel, mishaps, conn,
                     endpoint, phase, owned, saw_owned_running, control, transition, job,
                     estop, presses, idle_since_estop>>
  BY <1>1 DEF Start, machineVars, sessionVars, SessionOK
<1>3. op.step = "none"
  BY <1>2, NoOpValue
<1>4. ShapeInv' /\ OwnedInv' /\ StopInv' /\ op'.step = "take"
  <2>1. "upload" \in Polls \ {"connect"}
    BY DEF Polls
  <2>2. (phase = "Disconnected" => ~owned) /\ ~(owned /\ phase \in OverPhases)
    BY <1>1, <1>3 DEF OwnedInv, Sending, Sent
  <2> QED
    BY <1>2, <2>1, <2>2, TakeKeeps
<1>5. MachineOK' /\ CountsOK' /\ SessionOK'
  BY <1>1, <1>2, PressCounted DEF MachineOK, CountsOK, SessionOK
<1>6. DataInv' /\ NewlyCompleted
  <2>1. MachineEffect
    BY <1>1, <1>2, ChannelKeeps
  <2>2. NewlyCompleted
    BY <1>2 DEF NewlyCompleted
  <2>3. (Followed' => Followed) /\ ~Stopped /\ ~EndRead' /\ op.step \notin Sent
    BY <1>2, <1>3, <1>4 DEF Followed, Stopped, EndRead, Sent
  <2>4. op'.step \notin Transfer /\ op'.step # "synchronize"
    BY <1>4 DEF Transfer
  <2> QED
    BY <1>1, <2>1, <2>2, <2>3, <2>4, DataKeeps DEF MachineEffect
<1> QED
  BY <1>4, <1>5, <1>6 DEF RuntimeInv, SessionInv

\* An upload has a session that is over, and one of its own once it sends a file.
LEMMA UploadShape ==
  ASSUME SessionInv, op.step \in UploadSteps
  PROVE  /\ op.kind = "upload" /\ conn = TRUE /\ phase \in OverPhases
         /\ op.step \in Sending => owned = TRUE
         /\ op.step \notin Sending => owned = FALSE
<1>1. op.kind = "upload" /\ conn = TRUE
  BY DEF SessionInv, SessionOK, ShapeInv
<1>2. phase \in OverPhases /\ (owned <=> op.step \in Sending) /\ owned \in BOOLEAN
  BY DEF SessionInv, SessionOK, OwnedInv, UploadSteps
<1> QED
  BY <1>1, <1>2

\* It goes on to its next step.
LEMMA UploadGoes ==
  ASSUME SessionInv, op.step \in UploadSteps, NEW step \in UploadSteps, GoesTo(step),
         UNCHANGED <<conn, phase>>, step \in Sending => owned' = TRUE, step \notin Sending => owned' = FALSE
  PROVE  /\ ShapeInv' /\ OwnedInv' /\ StopInv' /\ op'.step = step
         /\ step # "recheck" => ~Followed'
<1>1. op.kind = "upload" /\ conn = TRUE /\ phase \in OverPhases /\ phase # "Disconnected"
  BY UploadShape, PhasesDiffer
<1>2. op' \in Operations /\ op'.step = step /\ op'.kind = "upload"
  BY <1>1, GoesValue DEF SessionInv, Steps
<1>3. step \notin {"none", "state"} \cup PollSteps \cup StopSteps
  BY DEF UploadSteps, Sending, Sent, PollSteps, StopSteps
<1>4. ShapeInv' /\ OwnedInv' /\ StopInv'
  BY <1>1, <1>2, <1>3 DEF ShapeInv, OwnedInv, StopInv, StopSteps, Sending, Sent
<1> QED
  BY <1>1, <1>2, <1>4, PhasesDiffer DEF Followed

\* It fails, with its file pending or before.
LEMMA NothingFollowed ==
  ASSUME op'.step \notin Transfer \cup {"recheck", "read"}, ~Followed', phase' # "Completed"
  PROVE  DataInv' /\ NewlyCompleted
  BY DEF DataInv, UploadInv, TraceInv, CompletedInv, NewlyCompleted, Transfer

LEMMA UploadFailsKeeps ==
  ASSUME SessionInv, op.step \in UploadSteps, UploadFails, UNCHANGED conn, owned' \in BOOLEAN
  PROVE  /\ ShapeInv' /\ OwnedInv' /\ StopInv' /\ DataInv' /\ NewlyCompleted
         /\ phase' = "RecoveryRequired"
<1>1. op' = Op("unwind", "stop") /\ phase' = "RecoveryRequired" /\ conn' = TRUE
  BY UploadShape DEF UploadFails
<1>2. Rested
  BY <1>1 DEF Rested, Stops
<1>3. ShapeInv' /\ OwnedInv' /\ StopInv' /\ op'.step \in {"none", "stop"}
  BY <1>1, <1>2, PhasesDiffer, RestedKeeps
<1>4. op'.step \notin Transfer \cup {"recheck", "read"} /\ ~Followed' /\ phase' # "Completed"
  BY <1>1, <1>3, PhasesDiffer DEF Transfer, Followed
<1> QED
  BY <1>1, <1>3, <1>4, NothingFollowed

LEMMA RefusedKeeps ==
  ASSUME SessionInv, op.step \in {"barrier", "check"}, NEW p \in {phase, "BusyUnowned"}, Refused(p),
         UNCHANGED conn, DataInv, UNCHANGED <<fate, foreign>>
  PROVE  /\ ShapeInv' /\ OwnedInv' /\ StopInv' /\ DataInv' /\ NewlyCompleted
         /\ phase' \in Phases /\ UNCHANGED <<owned, saw_owned_running, transition>>
<1>1. op.step \in UploadSteps /\ op.step \notin Sending /\ op.step \notin Sent
  BY DEF UploadSteps, Sending, Sent
<1>2. owned = FALSE /\ conn = TRUE /\ phase \in OverPhases
  BY <1>1, UploadShape
<1>3. op' = NoOp /\ phase' = p /\ UNCHANGED <<owned, saw_owned_running, transition>>
  BY <1>2 DEF Refused, Undone
<1>4. Rested /\ phase' \in Phases
  BY <1>2, <1>3, PhasesDiffer DEF Rested
<1>5. ShapeInv' /\ OwnedInv' /\ StopInv' /\ op'.step \in {"none", "stop"}
  BY <1>2, <1>3, <1>4, RestedKeeps
<1>6. op'.step \notin Transfer \cup {"recheck", "read"} /\ ~Followed'
  BY <1>2, <1>3, <1>5 DEF Transfer, Followed
<1>7. NewlyCompleted
  BY <1>3 DEF NewlyCompleted
<1>8. DataInv'
  BY <1>1, <1>6, <1>7, UnfollowedKeeps
<1> QED
  BY <1>3, <1>4, <1>5, <1>7, <1>8

LEMMA SynchronizesKeeps ==
  ASSUME RuntimeInv, Synchronizes
  PROVE  RuntimeInv' /\ NewlyCompleted
<1>1. MachineOK /\ CountsOK /\ SessionOK /\ ShapeInv /\ OwnedInv /\ SessionInv /\ DataInv
  BY DEF RuntimeInv, SessionInv
<1>2. /\ op.step = "barrier" /\ op.step \in {"barrier", "check"} /\ op.step \in UploadSteps
      /\ op.step \notin Sending /\ op.step \notin Sent
      /\ UNCHANGED <<conn, endpoint, control, job, frame, estop, starts, presses, channel,
                     idle_since_estop>>
  BY DEF Synchronizes, Uploading, counts, UploadSteps, Sending, Sent
<1>3. /\ UNCHANGED <<machine, program, file, fate, foreign>>
      /\ wire' \in {wire, <<>>}
      /\ UNCHANGED mishaps \/ Fault("lost")
  BY DEF Synchronizes, machineVars, AllTaken
<1>4. MachineOK' /\ CountsOK'
  BY <1>1, <1>2, <1>3, MishapCounted, Told DEF MachineOK, CountsOK
<1>5. \/ \E p \in {phase, "BusyUnowned"} : Refused(p)
      \/ GoesTo("check") /\ UNCHANGED <<phase, owned, saw_owned_running, transition>>
  BY DEF Synchronizes
<1>6. CASE \E p \in {phase, "BusyUnowned"} : Refused(p)
  <2>1. PICK p \in {phase, "BusyUnowned"} : Refused(p)
    BY <1>6
  <2>2. /\ ShapeInv' /\ OwnedInv' /\ StopInv' /\ DataInv' /\ NewlyCompleted
        /\ phase' \in Phases /\ UNCHANGED <<owned, saw_owned_running, transition>>
    BY <1>1, <1>2, <1>3, <2>1, RefusedKeeps
  <2>3. SessionOK'
    BY <1>1, <1>2, <2>2 DEF SessionOK
  <2> QED
    BY <1>4, <2>2, <2>3 DEF RuntimeInv, SessionInv
<1>7. CASE GoesTo("check") /\ UNCHANGED <<phase, owned, saw_owned_running, transition>>
  <2>1. owned = FALSE
    BY <1>1, <1>2, UploadShape
  <2>2. ShapeInv' /\ OwnedInv' /\ StopInv' /\ op'.step = "check"
    <3>1. "check" \in UploadSteps /\ "check" \notin Sending
      BY DEF UploadSteps, Sending, Sent
    <3> QED
      BY <1>1, <1>2, <1>7, <2>1, <3>1, UploadGoes
  <2>3. SessionOK'
    BY <1>1, <1>2, <1>7 DEF SessionOK
  <2>4. NewlyCompleted
    BY <1>7 DEF NewlyCompleted
  <2>5. DataInv'
    <3>1. ~Followed' /\ op'.step \notin Transfer \cup {"recheck", "read"}
      BY <1>7, <2>1, <2>2 DEF Followed, Transfer
    <3> QED
      BY <1>1, <1>2, <1>3, <2>4, <3>1, UnfollowedKeeps
  <2> QED
    BY <1>4, <2>2, <2>3, <2>4, <2>5 DEF RuntimeInv, SessionInv
<1> QED
  BY <1>5, <1>6, <1>7

LEMMA ChecksIdleKeeps ==
  ASSUME RuntimeInv, ChecksIdle
  PROVE  RuntimeInv' /\ NewlyCompleted
<1>1. MachineOK /\ CountsOK /\ SessionOK /\ ShapeInv /\ OwnedInv /\ SessionInv /\ DataInv
  BY DEF RuntimeInv, SessionInv
<1>2. /\ op.step = "check" /\ op.step \in {"barrier", "check"} /\ op.step \in UploadSteps
      /\ op.step \notin Sending /\ op.step \notin Sent
      /\ UNCHANGED <<conn, endpoint, control, job, frame, estop, starts, presses, channel, wire>>
  BY DEF ChecksIdle, Uploading, counts, UploadSteps, Sending, Sent
<1>3. PICK state \in ReadsAs :
        /\ Reads(state)
        /\ CASE state = "Idle" -> GoesTo("post") /\ Owns /\ UNCHANGED phase
             [] state = "Busy" -> Refused("BusyUnowned")
             [] OTHER -> Refused(phase)
  BY DEF ChecksIdle
<1>4. /\ mishaps' \in 0..MaxMishaps /\ UNCHANGED <<machine, program, file, fate, foreign>>
      /\ state = "Idle" => machine = "Idle"
      /\ idle_since_estop' = (idle_since_estop \/ state = "Idle")
  BY <1>1, <1>3, ReadEffect
<1>5. MachineOK' /\ CountsOK'
  BY <1>1, <1>2, <1>4 DEF MachineOK, CountsOK
<1>6. CASE state # "Idle"
  <2>1. PICK p \in {phase, "BusyUnowned"} : Refused(p)
    BY <1>3, <1>6
  <2>2. /\ ShapeInv' /\ OwnedInv' /\ StopInv' /\ DataInv' /\ NewlyCompleted
        /\ phase' \in Phases /\ UNCHANGED <<owned, saw_owned_running, transition>>
    BY <1>1, <1>2, <1>4, <2>1, RefusedKeeps
  <2>3. SessionOK'
    BY <1>1, <1>2, <1>4, <2>2 DEF SessionOK
  <2> QED
    BY <1>5, <2>2, <2>3 DEF RuntimeInv, SessionInv
<1>7. CASE state = "Idle"
  <2>1. /\ GoesTo("post") /\ owned' = TRUE /\ transition' = FALSE /\ saw_owned_running' = FALSE
        /\ UNCHANGED phase
    BY <1>3, <1>7 DEF Owns
  <2>2. /\ ShapeInv' /\ OwnedInv' /\ StopInv' /\ op'.step = "post" /\ ~Followed'
    <3>1. "post" \in UploadSteps /\ "post" \in Sending /\ "post" # "recheck"
      BY DEF UploadSteps, Sending
    <3> QED
      BY <1>1, <1>2, <2>1, <3>1, UploadGoes
  <2>3. SessionOK'
    BY <1>1, <1>2, <1>4, <2>1 DEF SessionOK
  <2>4. NewlyCompleted
    BY <2>1 DEF NewlyCompleted
  <2>5. UploadInv' /\ TraceInv'
    BY <1>4, <1>7, <2>2 DEF UploadInv, TraceInv
  <2>6. CompletedInv'
    BY <1>1, <1>2, <1>4, <2>1, <2>2 DEF DataInv, CompletedInv
  <2> QED
    BY <1>5, <2>2, <2>3, <2>4, <2>5, <2>6 DEF RuntimeInv, SessionInv, DataInv
<1> QED
  BY <1>6, <1>7

\* Posting: what was stored before is of an earlier upload from now on, and a program that
\* runs by now has told of it.
LEMMA PostsKeeps ==
  ASSUME RuntimeInv, Posts
  PROVE  RuntimeInv' /\ NewlyCompleted
<1>1. MachineOK /\ CountsOK /\ SessionOK /\ ShapeInv /\ OwnedInv /\ SessionInv /\ DataInv
  BY DEF RuntimeInv, SessionInv
<1>2. /\ op.step = "post" /\ op.step \in UploadSteps /\ op.step \in Sending
      /\ op.step \in Transfer
      /\ UNCHANGED <<conn, endpoint, control, job, frame, estop, starts, presses, channel,
                     owned, saw_owned_running, transition, idle_since_estop>>
  BY DEF Posts, Uploading, counts, UploadSteps, Sending, Transfer
<1> DEFINE Earlier(p) == IF p = "ours" THEN "old" ELSE p
           Carried(stored) ==
             /\ file' = IF stored THEN "ours" ELSE Earlier(file)
             /\ program' = Earlier(program)
             /\ fate' = "waiting" /\ foreign' = (program = "other")
             /\ IF stored THEN Tells(<<"Awaiting">>) ELSE UNCHANGED wire
             /\ UNCHANGED machine
<1>3. /\ \E stored \in BOOLEAN : Carried(stored)
      /\ UNCHANGED mishaps \/ Fault("unstored") \/ Fault("unanswered") \/ Fault("lost")
      /\ (GoesTo("readback") /\ UNCHANGED phase) \/ UploadFails
  BY DEF Posts
<1>4. PICK stored \in BOOLEAN : Carried(stored)
  BY <1>3
<1>5. /\ wire' \in Seq(Events) /\ (channel' = "failed" => wire' = <<>>)
      /\ Moved(wire) => Moved(wire')
  <2>1. CASE stored
    <3>1. Tells(<<"Awaiting">>) /\ <<"Awaiting">> \in Seq(Events)
      BY <1>4, <2>1, Told DEF Events
    <3> QED
      BY <1>1, <1>2, <3>1, TellsEffect
  <2>2. CASE ~stored
    BY <1>1, <1>2, <1>4, <2>2 DEF MachineOK
  <2> QED
    BY <2>1, <2>2
<1>6. MachineOK' /\ CountsOK'
  <2>1. /\ file' \in Programs \cup {"none"} /\ program' \in Programs \cup {"none"}
        /\ program' = "none" <=> program = "none"
    BY <1>1, <1>4 DEF MachineOK, Programs
  <2> QED
    BY <1>1, <1>2, <1>3, <1>4, <1>5, <2>1, MishapCounted DEF MachineOK, CountsOK
<1>7. owned = TRUE /\ phase \in Phases
  BY <1>1, <1>2, UploadShape DEF SessionOK
<1>8. CASE UploadFails
  <2>1. /\ ShapeInv' /\ OwnedInv' /\ StopInv' /\ DataInv' /\ NewlyCompleted
        /\ phase' = "RecoveryRequired"
    BY <1>1, <1>2, <1>7, <1>8, UploadFailsKeeps
  <2>2. SessionOK'
    BY <1>1, <1>2, <2>1, PhasesDiffer DEF SessionOK
  <2> QED
    BY <1>6, <2>1, <2>2 DEF RuntimeInv, SessionInv
<1>9. CASE GoesTo("readback") /\ UNCHANGED phase
  <2>1. ShapeInv' /\ OwnedInv' /\ StopInv' /\ op'.step = "readback" /\ ~Followed'
    <3>1. "readback" \in UploadSteps /\ "readback" \in Sending /\ "readback" # "recheck"
      BY DEF UploadSteps, Sending, Sent
    <3> QED
      BY <1>1, <1>2, <1>7, <1>9, <3>1, UploadGoes
  <2>2. SessionOK'
    BY <1>1, <1>2, <1>9 DEF SessionOK
  <2>3. NewlyCompleted
    BY <1>9 DEF NewlyCompleted
  <2>4. UploadInv'
    <3>1. channel = "open" => machine = "Idle" \/ Moved(wire)
      BY <1>1, <1>2 DEF DataInv, UploadInv
    <3> QED
      BY <1>2, <1>4, <1>5, <2>1, <3>1 DEF UploadInv, Moved
  <2>5. TraceInv' /\ CompletedInv'
    BY <2>1 DEF TraceInv, CompletedInv, Sent
  <2> QED
    BY <1>6, <2>1, <2>2, <2>3, <2>4, <2>5 DEF RuntimeInv, SessionInv, DataInv
<1> QED
  BY <1>3, <1>8, <1>9

LEMMA ReadsBackKeeps ==
  ASSUME RuntimeInv, ReadsBack
  PROVE  RuntimeInv' /\ NewlyCompleted
<1>1. MachineOK /\ CountsOK /\ SessionOK /\ ShapeInv /\ OwnedInv /\ SessionInv /\ DataInv
  BY DEF RuntimeInv, SessionInv
<1>2. /\ op.step = "readback" /\ op.step \in UploadSteps /\ op.step \in Sending
      /\ op.step \in Transfer
      /\ UNCHANGED <<machine, program, file, wire, fate, foreign, conn, endpoint, control, job,
                     frame, estop, starts, presses, channel, owned, saw_owned_running,
                     transition, idle_since_estop>>
      /\ UNCHANGED mishaps \/ Fault("lost")
      /\ (GoesTo("synchronize") /\ UNCHANGED phase /\ file = "ours") \/ UploadFails
  BY DEF ReadsBack, Verified, Uploading, counts, machineVars, UploadSteps, Sending, Sent, Transfer
<1>3. MachineOK' /\ CountsOK'
  BY <1>1, <1>2, MishapCounted DEF MachineOK, CountsOK
<1>4. owned = TRUE
  BY <1>1, <1>2, UploadShape
<1>5. CASE UploadFails
  <2>1. /\ ShapeInv' /\ OwnedInv' /\ StopInv' /\ DataInv' /\ NewlyCompleted
        /\ phase' = "RecoveryRequired"
    BY <1>1, <1>2, <1>4, <1>5, UploadFailsKeeps
  <2>2. SessionOK'
    BY <1>1, <1>2, <2>1, PhasesDiffer DEF SessionOK
  <2> QED
    BY <1>3, <2>1, <2>2 DEF RuntimeInv, SessionInv
<1>6. CASE GoesTo("synchronize") /\ UNCHANGED phase /\ file = "ours"
  <2>1. ShapeInv' /\ OwnedInv' /\ StopInv' /\ op'.step = "synchronize" /\ ~Followed'
    <3>1. "synchronize" \in UploadSteps /\ "synchronize" \in Sending /\ "synchronize" # "recheck"
      BY DEF UploadSteps, Sending, Sent
    <3> QED
      BY <1>1, <1>2, <1>4, <1>6, <3>1, UploadGoes
  <2>2. SessionOK'
    BY <1>1, <1>2, <1>6 DEF SessionOK
  <2>3. NewlyCompleted
    BY <1>6 DEF NewlyCompleted
  <2>4. UploadInv'
    BY <1>1, <1>2, <1>6, <2>1 DEF DataInv, UploadInv, Moved
  <2>5. TraceInv' /\ CompletedInv'
    BY <2>1 DEF TraceInv, CompletedInv, Sent
  <2> QED
    BY <1>3, <2>1, <2>2, <2>3, <2>4, <2>5 DEF RuntimeInv, SessionInv, DataInv
<1> QED
  BY <1>2, <1>5, <1>6

\* The second synchronisation finds a machine at rest with the file that was verified.
LEMMA SynchronizesAgainKeeps ==
  ASSUME RuntimeInv, SynchronizesAgain
  PROVE  RuntimeInv' /\ NewlyCompleted
<1>1. MachineOK /\ CountsOK /\ SessionOK /\ ShapeInv /\ OwnedInv /\ SessionInv /\ DataInv
  BY DEF RuntimeInv, SessionInv
<1>2. /\ op.step = "synchronize" /\ op.step \in UploadSteps /\ op.step \in Sending
      /\ op.step \in Transfer
      /\ UNCHANGED <<machine, program, file, fate, foreign, conn, endpoint, control, job,
                     frame, estop, starts, presses, channel, owned, saw_owned_running,
                     transition, idle_since_estop>>
      /\ wire' \in {wire, <<>>}
      /\ UNCHANGED mishaps \/ Fault("lost")
  BY DEF SynchronizesAgain, AllTaken, Uploading, counts, machineVars, UploadSteps, Sending, Sent,
         Transfer
<1>3. MachineOK' /\ CountsOK'
  BY <1>1, <1>2, MishapCounted, Told DEF MachineOK, CountsOK
<1>4. owned = TRUE /\ phase \in OverPhases
  BY <1>1, <1>2, UploadShape
<1>5. \/ UploadFails
      \/ /\ channel = "open" /\ wire' = <<>> /\ ToSet(wire) \subseteq {"Idle", "Awaiting"}
         /\ GoesTo("recheck") /\ UNCHANGED phase
  BY DEF SynchronizesAgain, AllTaken
<1>6. CASE UploadFails
  <2>1. /\ ShapeInv' /\ OwnedInv' /\ StopInv' /\ DataInv' /\ NewlyCompleted
        /\ phase' = "RecoveryRequired"
    BY <1>1, <1>2, <1>4, <1>6, UploadFailsKeeps
  <2>2. SessionOK'
    BY <1>1, <1>2, <2>1, PhasesDiffer DEF SessionOK
  <2> QED
    BY <1>3, <2>1, <2>2 DEF RuntimeInv, SessionInv
<1>7. CASE /\ channel = "open" /\ wire' = <<>> /\ ToSet(wire) \subseteq {"Idle", "Awaiting"}
           /\ GoesTo("recheck") /\ UNCHANGED phase
  <2>1. ShapeInv' /\ OwnedInv' /\ StopInv' /\ op'.step = "recheck"
    <3>1. "recheck" \in UploadSteps /\ "recheck" \in Sending
      BY DEF UploadSteps, Sending, Sent
    <3> QED
      BY <1>1, <1>2, <1>4, <1>7, <3>1, UploadGoes
  <2>2. SessionOK'
    BY <1>1, <1>2, <1>7 DEF SessionOK
  <2>3. NewlyCompleted
    BY <1>7 DEF NewlyCompleted
  <2>4. ~Moved(wire)
    <3>1. \A i \in 1..Len(wire) : wire[i] \in ToSet(wire)
      BY DEF ToSet
    <3> QED
      BY <1>7, <3>1 DEF Moved
  <2>5. program = "none" /\ (file = "ours" \/ foreign)
    <3>1. machine = "Idle"
      BY <1>1, <1>2, <1>7, <2>4 DEF DataInv, UploadInv
    <3> QED
      BY <1>1, <1>2, <3>1 DEF DataInv, UploadInv, MachineOK
  <2>6. TraceInv'
    BY <1>2, <1>7, <2>5, Told DEF TraceInv, Placed, Ended
  <2>7. UploadInv' /\ CompletedInv'
    BY <2>1 DEF UploadInv, CompletedInv, Transfer, Sent
  <2> QED
    BY <1>3, <2>1, <2>2, <2>3, <2>6, <2>7 DEF RuntimeInv, SessionInv, DataInv
<1> QED
  BY <1>5, <1>6, <1>7

LEMMA BecomesReadyKeeps ==
  ASSUME RuntimeInv, BecomesReady
  PROVE  RuntimeInv' /\ NewlyCompleted
<1>1. MachineOK /\ CountsOK /\ SessionOK /\ ShapeInv /\ OwnedInv /\ SessionInv /\ DataInv
  BY DEF RuntimeInv, SessionInv
<1>2. /\ op.step = "recheck" /\ op.step \in UploadSteps /\ op.step \in Sending
      /\ UNCHANGED <<conn, endpoint, control, job, frame, estop, starts, presses, channel, wire,
                     owned, saw_owned_running, transition>>
  BY DEF BecomesReady, Uploading, counts, UploadSteps, Sending, Sent
<1>3. PICK state \in ReadsAs :
        /\ Reads(state)
        /\ IF state = "Idle"
           THEN /\ phase' = "ReadyToRun"
                /\ op' = [op EXCEPT !.kind = "ready", !.step = "take"]
           ELSE UploadFails
  BY DEF BecomesReady
<1>4. /\ mishaps' \in 0..MaxMishaps /\ UNCHANGED <<machine, program, file, fate, foreign>>
      /\ idle_since_estop' = (idle_since_estop \/ state = "Idle")
  BY <1>1, <1>3, ReadEffect
<1>5. MachineOK' /\ CountsOK'
  BY <1>1, <1>2, <1>4 DEF MachineOK, CountsOK
<1>6. owned = TRUE /\ conn = TRUE /\ op.kind = "upload"
  BY <1>1, <1>2, UploadShape
<1>7. CASE state # "Idle"
  <2>1. /\ ShapeInv' /\ OwnedInv' /\ StopInv' /\ DataInv' /\ NewlyCompleted
        /\ phase' = "RecoveryRequired"
    BY <1>1, <1>2, <1>3, <1>6, <1>7, UploadFailsKeeps
  <2>2. SessionOK'
    BY <1>1, <1>2, <1>4, <2>1, PhasesDiffer DEF SessionOK
  <2> QED
    BY <1>5, <2>1, <2>2 DEF RuntimeInv, SessionInv
<1>8. CASE state = "Idle"
  <2>1. phase' = "ReadyToRun" /\ op' = [op EXCEPT !.kind = "ready", !.step = "take"]
    BY <1>3, <1>8
  <2>2. op' \in Operations /\ op'.kind = "ready" /\ op'.step = "take"
    BY <1>1, <2>1 DEF ShapeInv, Operations, Steps, PollSteps, Polls
  <2>3. "ReadyToRun" \in ActivePhases /\ "ReadyToRun" \in Phases /\ "ReadyToRun" \notin OverPhases
    BY DEF ActivePhases, JobPhases, Phases, OverPhases
  <2>4. ShapeInv' /\ OwnedInv' /\ StopInv'
    BY <1>2, <1>6, <2>1, <2>2, <2>3
       DEF ShapeInv, OwnedInv, StopInv, PollSteps, UploadSteps, StopSteps, Sending, Sent, Polls
  <2>5. SessionOK'
    BY <1>1, <1>2, <1>4, <2>1, <2>3 DEF SessionOK
  <2>6. NewlyCompleted
    BY <2>1 DEF NewlyCompleted
  <2>7. DataInv'
    <3>1. MachineEffect
      BY <1>1, <1>2, <1>4, ChannelKeeps
    <3>2. Followed /\ ~Stopped /\ ~EndRead' /\ phase' # "Completed"
      BY <1>2, <1>6, <2>1, <2>2 DEF Followed, Stopped, EndRead
    <3>3. op'.step \notin Transfer /\ op'.step # "synchronize"
      BY <2>2 DEF Transfer
    <3> QED
      BY <1>1, <2>6, <3>1, <3>2, <3>3, DataKeeps DEF MachineEffect
  <2> QED
    BY <1>5, <2>4, <2>5, <2>6, <2>7 DEF RuntimeInv, SessionInv
<1> QED
  BY <1>7, <1>8

(***************************************************************************)
(* The machine and its channel.                                            *)
(***************************************************************************)

LEMMA MachineStepKeeps ==
  ASSUME RuntimeInv, MachineStep
  PROVE  RuntimeInv' /\ NewlyCompleted
<1>1. MachineOK /\ CountsOK /\ SessionOK /\ ShapeInv /\ OwnedInv /\ StopInv
  BY DEF RuntimeInv, SessionInv
<1>2. UNCHANGED <<conn, endpoint, phase, owned, saw_owned_running, control, transition, job,
                  frame, op, estop, starts, presses, idle_since_estop>>
  BY DEF MachineStep, ButtonStarts, ButtonPausesOrResumes, ButtonStopsOrAlarm, UsedByOthers,
         PowerCycles, Finishes, ByHand, Program, sessionVars, counts
<1>3. MachineEffect /\ CountsOK'
  BY <1>1, MachineMoves
<1>4. SessionOK' /\ ShapeInv' /\ OwnedInv' /\ StopInv'
  BY <1>1, <1>2 DEF SessionOK, ShapeInv, OwnedInv, StopInv
<1>5. DataInv' /\ NewlyCompleted
  BY <1>2, <1>3, SessionStays
<1>6. MachineOK'
  BY <1>3 DEF MachineEffect, TraceEffect
<1> QED
  BY <1>3, <1>4, <1>5, <1>6 DEF RuntimeInv, SessionInv

LEMMA ChannelFailsKeeps ==
  ASSUME RuntimeInv, ChannelFails
  PROVE  RuntimeInv' /\ NewlyCompleted
<1>1. MachineOK /\ CountsOK /\ SessionOK /\ ShapeInv /\ OwnedInv /\ StopInv
  BY DEF RuntimeInv, SessionInv
<1>2. /\ channel' = "failed" /\ wire' = <<>> /\ Fault("closed")
      /\ UNCHANGED <<machine, program, file, fate, foreign, conn, endpoint, phase, owned,
                     saw_owned_running, control, transition, job, frame, op, estop, starts,
                     presses, idle_since_estop>>
  BY DEF ChannelFails, sessionVars, counts
<1>3. MachineEffect
  BY <1>1, <1>2, ChannelKeeps
<1>4. MachineOK' /\ CountsOK'
  <2>1. mishaps' \in 0..MaxMishaps
    BY <1>1, <1>2, MishapCounted
  <2> QED
    BY <1>1, <1>2, <1>3, <2>1 DEF CountsOK, MachineEffect, TraceEffect
<1>5. SessionOK' /\ ShapeInv' /\ OwnedInv' /\ StopInv'
  BY <1>1, <1>2 DEF SessionOK, ShapeInv, OwnedInv, StopInv
<1>6. DataInv' /\ NewlyCompleted
  BY <1>2, <1>3, SessionStays
<1> QED
  BY <1>4, <1>5, <1>6 DEF RuntimeInv, SessionInv

(***************************************************************************)
(* Pausing.                                                                *)
(***************************************************************************)

LEMMA AsksKeeps ==
  ASSUME RuntimeInv, Pause \/ Resume
  PROVE  RuntimeInv' /\ NewlyCompleted
<1>1. MachineOK /\ CountsOK /\ SessionOK /\ ShapeInv /\ OwnedInv /\ StopInv /\ DataInv
  BY DEF RuntimeInv, SessionInv
<1>2. PICK answer \in Answers :
        /\ Sends(PausesOnRequest, answer) \/ Sends(ResumesOnRequest, answer)
        /\ IF answer = "ok"
           THEN phase' \in {"PauseRequested", "ResumeRequested"} /\ control' = TRUE
           ELSE phase' = "RecoveryRequired" /\ UNCHANGED control
  BY DEF Pause, Resume, Asks
<1>3. /\ op = NoOp /\ phase \in {"Running", "Paused"} /\ (Press \/ UNCHANGED counts)
      /\ UNCHANGED <<channel, conn, endpoint, owned, saw_owned_running, transition, job, op,
                     idle_since_estop, frame, estop>>
  BY DEF Pause, Resume, Asks, Outside
<1>4. MachineEffect /\ mishaps' \in 0..MaxMishaps
  BY <1>1, <1>2, <1>3, SendEffect
<1>5. MachineOK' /\ CountsOK'
  <2>1. starts' \in 0..MaxStarts /\ presses' \in 0..MaxPresses
    BY <1>1, <1>3, PressCounted
  <2> QED
    BY <1>4, <2>1 DEF CountsOK, MachineEffect, TraceEffect
<1>6. /\ phase' \in Phases /\ phase' \notin OverPhases /\ phase' # "Disconnected"
      /\ phase' # "Completed" /\ phase \in ActivePhases
  BY <1>2, <1>3 DEF Phases, OverPhases, ActivePhases, JobPhases
<1>7. op.step = "none" /\ op'.step = "none" /\ op' = op
  BY <1>3, NoOpValue
<1>8. SessionOK' /\ ShapeInv' /\ OwnedInv' /\ StopInv'
  <2>1. control' \in BOOLEAN
    BY <1>1, <1>2 DEF SessionOK
  <2>2. SessionOK'
    BY <1>1, <1>3, <1>6, <2>1 DEF SessionOK
  <2>3. ShapeInv' /\ StopInv'
    BY <1>1, <1>3 DEF ShapeInv, StopInv
  <2>4. OwnedInv'
    BY <1>1, <1>3, <1>6, <1>7 DEF OwnedInv, Sending, Sent
  <2> QED
    BY <2>2, <2>3, <2>4
<1>9. NewlyCompleted
  BY <1>6 DEF NewlyCompleted
<1>10. DataInv'
  <2>1. Followed' => Followed
    BY <1>3, <1>6 DEF Followed
  <2>2. ~Stopped /\ ~EndRead' /\ op'.step \notin Transfer /\ op'.step # "synchronize"
    BY <1>7 DEF Stopped, EndRead, Transfer
  <2> QED
    BY <1>1, <1>4, <1>6, <1>9, <2>1, <2>2, DataKeeps DEF MachineEffect
<1> QED
  BY <1>5, <1>8, <1>9, <1>10 DEF RuntimeInv, SessionInv

(***************************************************************************)
(* Stopping.                                                               *)
(***************************************************************************)

\* A stop that goes on to its next request leaves its session as it is.
LEMMA StopGoes ==
  ASSUME RuntimeInv, op.step \in StopSteps, op' \in Operations, op'.step \in StopSteps,
         op'.kind = op.kind, TraceEffect,
         UNCHANGED <<conn, endpoint, phase, owned, saw_owned_running, control, transition, job,
                     frame, estop>>,
         idle_since_estop' \in BOOLEAN,
         op'.step \in {"file", "delete"} =>
           idle_since_estop' \/ (op.step \in {"file", "delete"} /\ UNCHANGED idle_since_estop)
  PROVE  SessionOK' /\ ShapeInv' /\ OwnedInv' /\ StopInv' /\ DataInv' /\ NewlyCompleted
<1>1. SessionOK /\ ShapeInv /\ OwnedInv /\ StopInv /\ DataInv
  BY DEF RuntimeInv, SessionInv
<1>2. op.kind \in Stops /\ op.kind # "none" /\ op.kind # "connect"
  BY <1>1 DEF ShapeInv, Stops
<1>3. /\ op.step \notin Sending /\ op'.step \notin {"barrier", "check"} \cup Sending
      /\ op'.step \notin {"none", "state"} \cup PollSteps \cup UploadSteps
  BY DEF StopSteps, Sending, Sent, PollSteps, UploadSteps
<1>4. SessionOK' /\ ShapeInv' /\ OwnedInv' /\ StopInv'
  BY <1>1, <1>2, <1>3 DEF SessionOK, ShapeInv, OwnedInv, StopInv
<1>5. NewlyCompleted
  BY DEF NewlyCompleted
<1>6. DataInv'
  <2>1. /\ op.step \notin Sent \cup {"read", "recheck"}
        /\ op'.step \notin Transfer \cup {"read", "recheck"}
    BY DEF StopSteps, Sent, Transfer
  <2>2. (Followed' => Followed) /\ ~Stopped /\ ~EndRead' /\ op'.step # "synchronize"
    BY <2>1 DEF Followed, Stopped, EndRead, Transfer
  <2> QED
    BY <1>1, <1>5, <2>1, <2>2, DataKeeps
<1> QED
  BY <1>4, <1>5, <1>6

\* One that ends follows the machine no further.
LEMMA StopOver ==
  ASSUME RuntimeInv, op.step \in StopSteps, StopDone \/ StopFails, UNCHANGED <<frame, estop>>,
         idle_since_estop' \in BOOLEAN
  PROVE  /\ SessionOK' /\ ShapeInv' /\ OwnedInv' /\ StopInv' /\ DataInv' /\ NewlyCompleted
         /\ \/ UNCHANGED <<channel, wire>>
            \/ channel' = "failed" /\ wire' = <<>>
<1>1. SessionOK /\ SessionInv
  BY DEF RuntimeInv, SessionInv
<1>2. /\ ShapeInv' /\ OwnedInv' /\ StopInv'
      /\ conn' \in BOOLEAN /\ endpoint' \in BOOLEAN /\ owned' \in BOOLEAN
      /\ saw_owned_running' \in BOOLEAN /\ control' \in BOOLEAN /\ transition' \in BOOLEAN
      /\ phase' \in {"Disconnected", "Stopped", "RecoveryRequired"}
      /\ job' \in JobPhases \cup {"none"} /\ (job' # "none" => conn')
      /\ op'.step \in {"none", "stop"}
      /\ \/ UNCHANGED <<channel, wire>>
         \/ channel' = "failed" /\ wire' = <<>>
      /\ ~(owned' /\ phase' # "RecoveryRequired")
  BY <1>1, StopEndsKeeps
<1>3. SessionOK'
  <2>1. phase' \in Phases
    BY <1>2 DEF Phases, OverPhases
  <2> QED
    BY <1>1, <1>2, <2>1 DEF SessionOK
<1>4. DataInv' /\ NewlyCompleted
  <2>1. op'.step \notin Transfer \cup {"recheck", "read"} /\ phase' # "Completed"
    BY <1>2 DEF Transfer
  <2>2. ~Followed'
    BY <1>2, PhasesDiffer DEF Followed
  <2> QED
    BY <2>1, <2>2, NothingFollowed
<1> QED
  BY <1>2, <1>3, <1>4

LEMMA SendsStopKeeps ==
  ASSUME RuntimeInv, SendsStop
  PROVE  RuntimeInv' /\ NewlyCompleted
<1>1. MachineOK /\ CountsOK /\ SessionOK /\ ShapeInv
  BY DEF RuntimeInv, SessionInv
<1>2. /\ op.step = "stop" /\ op.step \in StopSteps /\ idle_since_estop' \in BOOLEAN
      /\ UNCHANGED <<frame, estop, starts, presses, idle_since_estop>>
  BY <1>1 DEF SendsStop, Stopping, counts, StopSteps, SessionOK
<1>3. CASE phase = "Disconnected"
  <2>1. StopFails /\ UNCHANGED <<machine, program, file, fate, foreign, mishaps>>
    BY <1>3 DEF SendsStop
  <2>2. /\ SessionOK' /\ ShapeInv' /\ OwnedInv' /\ StopInv' /\ DataInv' /\ NewlyCompleted
        /\ \/ UNCHANGED <<channel, wire>>
           \/ channel' = "failed" /\ wire' = <<>>
    BY <1>2, <2>1, StopOver
  <2>3. MachineOK' /\ CountsOK'
    BY <1>1, <1>2, <2>1, <2>2, Told DEF MachineOK, CountsOK
  <2> QED
    BY <2>2, <2>3 DEF RuntimeInv, SessionInv
<1>4. CASE phase # "Disconnected"
  <2>1. PICK answer \in Answers : Sends(Halts, answer)
    BY <1>4 DEF SendsStop
  <2>2. /\ GoesTo("off")
        /\ UNCHANGED <<channel, conn, endpoint, phase, owned, saw_owned_running, control,
                       transition, job>>
    BY <1>4 DEF SendsStop, sessionVars
  <2>3. MachineEffect /\ mishaps' \in 0..MaxMishaps
    BY <1>1, <2>1, <2>2, SendEffect
  <2>4. op' \in Operations /\ op'.step = "off" /\ op'.kind = op.kind /\ op'.step \in StopSteps
    BY <1>1, <2>2, GoesValue DEF Steps, StopSteps
  <2>5. SessionOK' /\ ShapeInv' /\ OwnedInv' /\ StopInv' /\ DataInv' /\ NewlyCompleted
    BY <1>2, <2>2, <2>3, <2>4, StopGoes DEF MachineEffect
  <2>6. MachineOK' /\ CountsOK'
    BY <1>1, <1>2, <2>3 DEF MachineEffect, TraceEffect, CountsOK
  <2> QED
    BY <2>5, <2>6 DEF RuntimeInv, SessionInv
<1> QED
  BY <1>3, <1>4

LEMMA SendsOffKeeps ==
  ASSUME RuntimeInv, SendsOff
  PROVE  RuntimeInv' /\ NewlyCompleted
<1>1. MachineOK /\ CountsOK /\ SessionOK /\ ShapeInv
  BY DEF RuntimeInv, SessionInv
<1>2. /\ op.step = "off" /\ op.step \in StopSteps /\ idle_since_estop' \in BOOLEAN
      /\ UNCHANGED <<frame, estop, starts, presses, idle_since_estop>>
  BY <1>1 DEF SendsOff, Stopping, counts, StopSteps, SessionOK
<1>3. /\ UNCHANGED <<machine, program, file, fate, foreign>>
      /\ UNCHANGED mishaps \/ Fault("lost") \/ Fault("unanswered")
      /\ \/ /\ op' = [op EXCEPT !.step = "confirm", !.attempt = 1]
            /\ UNCHANGED <<channel, wire, conn, endpoint, phase, owned, saw_owned_running,
                           control, transition, job>>
         \/ StopFails
  BY DEF SendsOff, Sends, machineVars, sessionVars
<1>4. CountsOK'
  BY <1>1, <1>2, <1>3, MishapCounted DEF CountsOK
<1>5. CASE StopFails
  <2>1. /\ SessionOK' /\ ShapeInv' /\ OwnedInv' /\ StopInv' /\ DataInv' /\ NewlyCompleted
        /\ \/ UNCHANGED <<channel, wire>>
           \/ channel' = "failed" /\ wire' = <<>>
    BY <1>2, <1>5, StopOver
  <2>2. MachineOK'
    BY <1>1, <1>3, <2>1, Told DEF MachineOK
  <2> QED
    BY <1>4, <2>1, <2>2 DEF RuntimeInv, SessionInv
<1>6. CASE /\ op' = [op EXCEPT !.step = "confirm", !.attempt = 1]
           /\ UNCHANGED <<channel, wire, conn, endpoint, phase, owned, saw_owned_running,
                          control, transition, job>>
  <2>1. 1 \in 0..STOP_CONFIRM_ATTEMPTS
    BY XToolD1Assumption
  <2>2. op' \in Operations /\ op'.step = "confirm" /\ op'.kind = op.kind /\ op'.step \in StopSteps
    BY <1>1, <1>6, <2>1 DEF ShapeInv, Operations, Steps, StopSteps
  <2>3. MachineEffect
    BY <1>1, <1>3, <1>6, ChannelKeeps
  <2>4. SessionOK' /\ ShapeInv' /\ OwnedInv' /\ StopInv' /\ DataInv' /\ NewlyCompleted
    BY <1>2, <1>6, <2>2, <2>3, StopGoes DEF MachineEffect
  <2>5. MachineOK'
    BY <2>3 DEF MachineEffect, TraceEffect
  <2> QED
    BY <1>4, <2>4, <2>5 DEF RuntimeInv, SessionInv
<1> QED
  BY <1>3, <1>5, <1>6

LEMMA ConfirmsStopKeeps ==
  ASSUME RuntimeInv, ConfirmsStop
  PROVE  RuntimeInv' /\ NewlyCompleted
<1>1. MachineOK /\ CountsOK /\ SessionOK /\ ShapeInv
  BY DEF RuntimeInv, SessionInv
<1>2. op.step = "confirm" /\ op.step \in StopSteps /\ UNCHANGED <<frame, estop, starts, presses>>
  BY DEF ConfirmsStop, Stopping, counts, StopSteps
<1> DEFINE Goes ==
             UNCHANGED <<channel, wire, conn, endpoint, phase, owned, saw_owned_running, control,
                         transition, job>>
<1>3. PICK state \in ReadsAs :
        /\ Reads(state)
        /\ \/ state = "Idle" /\ GoesTo("file") /\ Goes
           \/ StopDone \/ StopFails
           \/ /\ op.attempt < STOP_CONFIRM_ATTEMPTS /\ op' = [op EXCEPT !.attempt = @ + 1]
              /\ Goes
  <2>1. PICK state \in ReadsAs :
          /\ Reads(state)
          /\ CASE state = "Idle" /\ owned ->
                    GoesTo("file") /\ UNCHANGED <<channel, wire, sessionVars, job>>
               [] state = "Idle" /\ ~owned -> StopDone
               [] state = "Busy" /\ op.attempt < STOP_CONFIRM_ATTEMPTS ->
                    op' = [op EXCEPT !.attempt = @ + 1] /\ UNCHANGED <<channel, wire, sessionVars, job>>
               [] OTHER -> StopFails
    BY DEF ConfirmsStop
  <2> QED
    BY <2>1 DEF sessionVars
<1>4. /\ mishaps' \in 0..MaxMishaps /\ UNCHANGED <<machine, program, file, fate, foreign>>
      /\ idle_since_estop' = (idle_since_estop \/ state = "Idle")
  BY <1>1, <1>3, ReadEffect
<1>5. CountsOK' /\ idle_since_estop' \in BOOLEAN
  BY <1>1, <1>2, <1>4 DEF CountsOK, SessionOK
<1>6. CASE StopDone \/ StopFails
  <2>1. /\ SessionOK' /\ ShapeInv' /\ OwnedInv' /\ StopInv' /\ DataInv' /\ NewlyCompleted
        /\ \/ UNCHANGED <<channel, wire>>
           \/ channel' = "failed" /\ wire' = <<>>
    BY <1>2, <1>5, <1>6, StopOver
  <2>2. MachineOK'
    BY <1>1, <1>4, <2>1, Told DEF MachineOK
  <2> QED
    BY <1>5, <2>1, <2>2 DEF RuntimeInv, SessionInv
<1>7. ASSUME Goes, op' \in Operations, op'.step \in StopSteps, op'.kind = op.kind,
             op'.step \in {"file", "delete"} => idle_since_estop'
      PROVE  RuntimeInv' /\ NewlyCompleted
  <2>1. MachineEffect
    BY <1>1, <1>4, <1>7, ChannelKeeps
  <2>2. SessionOK' /\ ShapeInv' /\ OwnedInv' /\ StopInv' /\ DataInv' /\ NewlyCompleted
    BY <1>2, <1>5, <1>7, <2>1, StopGoes DEF MachineEffect
  <2>3. MachineOK'
    BY <2>1 DEF MachineEffect, TraceEffect
  <2> QED
    BY <1>5, <2>2, <2>3 DEF RuntimeInv, SessionInv
<1>8. CASE state = "Idle" /\ GoesTo("file") /\ Goes
  <2>1. op' \in Operations /\ op'.step = "file" /\ op'.kind = op.kind /\ op'.step \in StopSteps
    BY <1>1, <1>8, GoesValue DEF Steps, StopSteps
  <2> QED
    BY <1>4, <1>7, <1>8, <2>1
<1>9. CASE /\ op.attempt < STOP_CONFIRM_ATTEMPTS /\ op' = [op EXCEPT !.attempt = @ + 1]
           /\ Goes
  <2>1. op.attempt + 1 \in 0..STOP_CONFIRM_ATTEMPTS
    BY <1>1, <1>9, XToolD1Assumption DEF ShapeInv, Operations
  <2>2. op' \in Operations /\ op'.step = "confirm" /\ op'.kind = op.kind
    BY <1>1, <1>2, <1>9, <2>1 DEF ShapeInv, Operations
  <2> QED
    BY <1>2, <1>7, <1>9, <2>2
<1> QED
  BY <1>3, <1>6, <1>8, <1>9

LEMMA ChecksFileKeeps ==
  ASSUME RuntimeInv, ChecksFile
  PROVE  RuntimeInv' /\ NewlyCompleted
<1>1. MachineOK /\ CountsOK /\ SessionOK /\ ShapeInv
  BY DEF RuntimeInv, SessionInv
<1>2. /\ op.step = "file" /\ op.step \in StopSteps /\ idle_since_estop' \in BOOLEAN
      /\ UNCHANGED <<machine, program, file, fate, foreign, frame, estop, starts, presses,
                     idle_since_estop>>
  BY <1>1 DEF ChecksFile, Stopping, counts, StopSteps, SessionOK
<1>3. /\ UNCHANGED mishaps \/ Fault("lost")
      /\ \/ StopDone \/ StopFails
         \/ /\ GoesTo("delete")
            /\ UNCHANGED <<channel, wire, conn, endpoint, phase, owned, saw_owned_running,
                           control, transition, job>>
  BY DEF ChecksFile, sessionVars
<1>4. CountsOK'
  BY <1>1, <1>2, <1>3, MishapCounted DEF CountsOK
<1>5. CASE StopDone \/ StopFails
  <2>1. /\ SessionOK' /\ ShapeInv' /\ OwnedInv' /\ StopInv' /\ DataInv' /\ NewlyCompleted
        /\ \/ UNCHANGED <<channel, wire>>
           \/ channel' = "failed" /\ wire' = <<>>
    BY <1>2, <1>5, StopOver
  <2>2. MachineOK'
    BY <1>1, <1>2, <2>1, Told DEF MachineOK
  <2> QED
    BY <1>4, <2>1, <2>2 DEF RuntimeInv, SessionInv
<1>6. CASE /\ GoesTo("delete")
           /\ UNCHANGED <<channel, wire, conn, endpoint, phase, owned, saw_owned_running,
                          control, transition, job>>
  <2>1. op' \in Operations /\ op'.step = "delete" /\ op'.kind = op.kind /\ op'.step \in StopSteps
    BY <1>1, <1>6, GoesValue DEF Steps, StopSteps
  <2>2. MachineEffect
    BY <1>1, <1>2, <1>6, ChannelKeeps
  <2>3. SessionOK' /\ ShapeInv' /\ OwnedInv' /\ StopInv' /\ DataInv' /\ NewlyCompleted
    BY <1>2, <1>6, <2>1, <2>2, StopGoes DEF MachineEffect
  <2>4. MachineOK'
    BY <2>2 DEF MachineEffect, TraceEffect
  <2> QED
    BY <1>4, <2>3, <2>4 DEF RuntimeInv, SessionInv
<1> QED
  BY <1>3, <1>5, <1>6

LEMMA DeletesFileKeeps ==
  ASSUME RuntimeInv, DeletesFile
  PROVE  RuntimeInv' /\ NewlyCompleted
<1>1. MachineOK /\ CountsOK /\ SessionOK
  BY DEF RuntimeInv, SessionInv
<1>2. /\ op.step = "delete" /\ op.step \in StopSteps /\ idle_since_estop' \in BOOLEAN
      /\ UNCHANGED <<machine, program, fate, foreign, frame, estop, starts, presses,
                     idle_since_estop>>
      /\ file' \in {file, "none"} /\ (StopDone \/ StopFails)
      /\ UNCHANGED mishaps \/ Fault("unanswered") \/ Fault("lost")
  BY <1>1 DEF DeletesFile, Stopping, counts, StopSteps, SessionOK
<1>3. /\ SessionOK' /\ ShapeInv' /\ OwnedInv' /\ StopInv' /\ DataInv' /\ NewlyCompleted
      /\ \/ UNCHANGED <<channel, wire>>
         \/ channel' = "failed" /\ wire' = <<>>
  BY <1>2, StopOver
<1>4. MachineOK' /\ CountsOK'
  BY <1>1, <1>2, <1>3, Told, MishapCounted DEF MachineOK, CountsOK
<1> QED
  BY <1>3, <1>4 DEF RuntimeInv, SessionInv

(***************************************************************************)
(* What is pressed in the program.                                         *)
(***************************************************************************)

LEMMA PressesKeeps ==
  ASSUME RuntimeInv, Cancel \/ Disconnect \/ Shutdown
  PROVE  RuntimeInv' /\ NewlyCompleted
<1>1. MachineOK /\ CountsOK /\ SessionOK /\ OwnedInv /\ DataInv
  BY DEF RuntimeInv, SessionInv
<1>2. PICK kind \in {"cancel", "disconnect", "shutdown"} : Presses(kind)
  BY DEF Cancel, Disconnect, Shutdown
<1>3. /\ conn = TRUE /\ op = NoOp /\ Press /\ op' = Op(kind, "stop") /\ job' \in {job, "none"}
      /\ UNCHANGED <<machine, program, file, wire, fate, foreign, channel, mishaps, conn,
                     endpoint, phase, owned, saw_owned_running, control, transition, frame,
                     estop, idle_since_estop>>
  BY <1>1, <1>2
     DEF Presses, Cancel, Disconnect, Shutdown, Outside, machineVars, sessionVars, SessionOK
<1>4. op.step = "none"
  BY <1>3, NoOpValue
<1>5. ShapeInv' /\ OwnedInv' /\ StopInv' /\ op'.step \in {"none", "stop"}
  <2>1. Rested
    BY <1>3 DEF Rested, Stops
  <2>2. ~(owned /\ phase \in OverPhases) /\ (phase = "Disconnected" => ~owned)
    BY <1>1, <1>4 DEF OwnedInv, Sending, Sent
  <2> QED
    BY <1>1, <1>3, <2>1, <2>2, RestedKeeps DEF SessionOK
<1>6. MachineOK' /\ CountsOK' /\ SessionOK'
  <2>1. starts' \in 0..MaxStarts /\ presses' \in 0..MaxPresses
    BY <1>1, <1>3, PressCounted
  <2> QED
    BY <1>1, <1>3, <2>1 DEF MachineOK, CountsOK, SessionOK
<1>7. NewlyCompleted
  BY <1>3 DEF NewlyCompleted
<1>8. DataInv'
  <2>1. MachineEffect
    BY <1>1, <1>3, ChannelKeeps
  <2>2. (Followed' => Followed) /\ ~Stopped /\ ~EndRead' /\ op.step \notin Sent
    BY <1>3, <1>4, <1>5 DEF Followed, Stopped, EndRead, Sent
  <2>3. op'.step \notin Transfer /\ op'.step # "synchronize"
    BY <1>5 DEF Transfer
  <2> QED
    BY <1>1, <1>7, <2>1, <2>2, <2>3, DataKeeps DEF MachineEffect
<1> QED
  BY <1>5, <1>6, <1>7, <1>8 DEF RuntimeInv, SessionInv

LEMMA EmergencyStopKeeps ==
  ASSUME RuntimeInv, EmergencyStop
  PROVE  RuntimeInv' /\ NewlyCompleted
<1>1. MachineOK /\ CountsOK /\ SessionOK /\ ShapeInv /\ OwnedInv
  BY DEF RuntimeInv, SessionInv
<1>2. /\ Press /\ estop' = TRUE /\ idle_since_estop' = FALSE
      /\ op' = IF op.kind \in {"upload", "ready"} THEN [op EXCEPT !.interrupted = TRUE] ELSE op
      /\ UNCHANGED <<channel, conn, endpoint, phase, owned, saw_owned_running, control,
                     transition, job, frame>>
  BY DEF EmergencyStop, sessionVars
<1>3. MachineEffect /\ mishaps' \in 0..MaxMishaps
  <2>1. CASE endpoint
    <3>1. PICK answer \in Answers : Sends(Halts, answer)
      BY <2>1 DEF EmergencyStop
    <3> QED
      BY <1>1, <1>2, <3>1, SendEffect
  <2>2. CASE ~endpoint
    <3>1. UNCHANGED machineVars /\ UNCHANGED mishaps
      BY <2>2 DEF EmergencyStop
    <3> QED
      BY <1>1, <1>2, <3>1, NothingMoves, MishapCounted
  <2> QED
    BY <2>1, <2>2
<1>4. /\ op' \in Operations /\ op'.kind = op.kind /\ op'.step = op.step
      /\ op'.ended = op.ended /\ op'.stopped = op.stopped
      /\ op.kind = "none" => op' = op
  BY <1>1, <1>2 DEF ShapeInv, Operations
<1>5. MachineOK' /\ CountsOK' /\ SessionOK'
  <2>1. starts' \in 0..MaxStarts /\ presses' \in 0..MaxPresses
    BY <1>1, <1>2, PressCounted
  <2> QED
    BY <1>1, <1>2, <1>3, <2>1 DEF MachineEffect, TraceEffect, CountsOK, SessionOK
<1>6. ShapeInv' /\ OwnedInv' /\ StopInv'
  <2>1. op.step = "none" => op.kind = "none"
    BY <1>1, NoOpValue DEF ShapeInv
  <2> QED
    BY <1>1, <1>2, <1>4, <2>1 DEF ShapeInv, OwnedInv, StopInv
<1>7. DataInv' /\ NewlyCompleted
  BY <1>2, <1>3, <1>4, SessionStays
<1> QED
  BY <1>5, <1>6, <1>7 DEF RuntimeInv, SessionInv

\* Its turn: there is no session any more, or it is stopped.
LEMMA EmergencyTurnKeeps ==
  ASSUME RuntimeInv, EmergencyStopTooLate \/ EmergencyStopProceeds
  PROVE  RuntimeInv' /\ NewlyCompleted
<1>1. MachineOK /\ CountsOK /\ SessionOK /\ OwnedInv /\ DataInv
  BY DEF RuntimeInv, SessionInv
<1>2. /\ op = NoOp /\ estop' = FALSE
      /\ op' = NoOp \/ (conn /\ op' = Op("estop", "stop"))
      /\ UNCHANGED <<machine, program, file, wire, fate, foreign, channel, mishaps, conn,
                     endpoint, phase, owned, saw_owned_running, control, transition, job, frame,
                     starts, presses, idle_since_estop>>
  BY DEF EmergencyStopTooLate, EmergencyStopProceeds, machineVars, sessionVars, counts
<1>3. op.step = "none"
  BY <1>2, NoOpValue
<1>4. ShapeInv' /\ OwnedInv' /\ StopInv' /\ op'.step \in {"none", "stop"}
  <2>1. Rested
    BY <1>2 DEF Rested, Stops
  <2>2. ~(owned /\ phase \in OverPhases) /\ (phase = "Disconnected" => ~owned) /\ (~conn => ~owned)
    BY <1>1, <1>3 DEF OwnedInv, Sending, Sent
  <2> QED
    BY <1>1, <1>2, <2>1, <2>2, RestedKeeps DEF SessionOK
<1>5. MachineOK' /\ CountsOK' /\ SessionOK'
  <2>1. MachineOK' /\ CountsOK'
    BY <1>1, <1>2 DEF MachineOK, CountsOK
  <2>2. SessionOK'
    BY <1>1, <1>2 DEF SessionOK
  <2> QED
    BY <2>1, <2>2
<1>6. NewlyCompleted
  BY <1>2 DEF NewlyCompleted
<1>7. DataInv'
  <2>1. MachineEffect
    BY <1>1, <1>2, ChannelKeeps
  <2>2. (Followed' => Followed) /\ ~Stopped /\ ~EndRead' /\ op.step \notin Sent
    BY <1>2, <1>3, <1>4 DEF Followed, Stopped, EndRead, Sent
  <2>3. op'.step \notin Transfer /\ op'.step # "synchronize"
    BY <1>4 DEF Transfer
  <2> QED
    BY <1>1, <1>6, <2>1, <2>2, <2>3, DataKeeps DEF MachineEffect
<1> QED
  BY <1>4, <1>5, <1>6, <1>7 DEF RuntimeInv, SessionInv

(***************************************************************************)
(* The invariant is inductive.                                             *)
(***************************************************************************)

LEMMA InitRuntimeInv ==
  ASSUME Init
  PROVE  RuntimeInv
<1>1. 0 \in 0..MaxMishaps /\ 0 \in 0..MaxStarts /\ 0 \in 0..MaxPresses
  BY XToolD1Assumption
<1>2. MachineOK /\ CountsOK /\ SessionOK
  BY <1>1, Told DEF Init, MachineOK, CountsOK, SessionOK, Phases
<1>3. op = NoOp /\ op.kind = "none" /\ op.step = "none" /\ op \in Operations /\ ~owned
  BY NoOpValue DEF Init
<1>4. ShapeInv /\ OwnedInv /\ StopInv
  BY <1>3 DEF ShapeInv, OwnedInv, StopInv, PollSteps, UploadSteps, StopSteps, Sending, Sent
<1>5. DataInv
  BY <1>3 DEF Init, DataInv, UploadInv, TraceInv, CompletedInv, Transfer, Followed
<1> QED
  BY <1>2, <1>4, <1>5 DEF RuntimeInv, SessionInv

LEMMA NextRuntimeInv ==
  ASSUME RuntimeInv, [Next]_vars
  PROVE  RuntimeInv' /\ NewlyCompleted
<1>1. CASE SessionStep
  BY <1>1, TakesEventsKeeps, PollReadsKeeps, ConnectReadsKeeps, SynchronizesKeeps,
     ChecksIdleKeeps, PostsKeeps, ReadsBackKeeps, SynchronizesAgainKeeps, BecomesReadyKeeps,
     SendsStopKeeps, SendsOffKeeps, ConfirmsStopKeeps, ChecksFileKeeps, DeletesFileKeeps
     DEF SessionStep
<1>2. CASE UNCHANGED vars
  <2>1. UNCHANGED <<machine, program, file, wire, fate, foreign, channel, mishaps, conn,
                    endpoint, phase, owned, saw_owned_running, control, transition, job, frame,
                    op, estop, starts, presses, idle_since_estop>>
    BY <1>2 DEF vars, machineVars, sessionVars, counts
  <2>2. MachineOK' /\ CountsOK' /\ SessionOK' /\ ShapeInv' /\ OwnedInv' /\ StopInv'
    BY <2>1 DEF RuntimeInv, SessionInv, MachineOK, CountsOK, SessionOK, ShapeInv, OwnedInv, StopInv
  <2>3. MachineEffect
    BY <2>1, ChannelKeeps DEF RuntimeInv, SessionInv
  <2> QED
    BY <2>1, <2>2, <2>3, SessionStays DEF RuntimeInv, SessionInv
<1>3. CASE Next /\ ~SessionStep
  BY <1>3, MachineStepKeeps, ChannelFailsKeeps, BeginKeeps, ConnectKeeps, StartKeeps, AsksKeeps,
     PressesKeeps, EmergencyStopKeeps, EmergencyTurnKeeps
     DEF Next
<1> QED
  BY <1>1, <1>2, <1>3

(***************************************************************************)
(* What follows of it.                                                     *)
(***************************************************************************)

LEMMA TypesFollow == RuntimeInv => TypeOK
<1> SUFFICES ASSUME RuntimeInv PROVE TypeOK
  OBVIOUS
<1>1. MachineOK /\ CountsOK /\ SessionOK /\ op \in Operations
  BY DEF RuntimeInv, SessionInv, ShapeInv
<1>2. op.kind \in Polls \cup Stops \cup {"none"} /\ op.attempt \in 0..STOP_CONFIRM_ATTEMPTS
  BY <1>1 DEF Operations
<1> QED
  BY <1>1, <1>2 DEF TypeOK, MachineOK, CountsOK, SessionOK

LEMMA CompletionKnown ==
  ASSUME RuntimeInv, NewlyCompleted, Completes
  PROVE  fate = "ran" \/ foreign
<1>1. CompletedInv /\ op.step = "read" /\ op.step \notin Sent
  BY DEF RuntimeInv, DataInv, Completes, Sent
<1> QED
  BY <1>1 DEF NewlyCompleted, Completes, CompletedInv, EndRead

\* The session's stop of an Emergency Stop: it ends with the session at its disposal only
\* where an idle state was read.
LEMMA StopConfirmed ==
  ASSUME RuntimeInv, [Next]_vars, op.kind = "estop", ~estop, op' = NoOp
  PROVE  idle_since_estop'
<1>1. MachineOK /\ CountsOK /\ ShapeInv /\ StopInv
  BY DEF RuntimeInv, SessionInv
<1>2. op.step \in StopSteps /\ op # NoOp /\ op.kind \notin Polls \cup {"none", "connect"}
  <2>1. op.kind \notin Polls \cup {"none", "connect", "upload"}
    BY DEF Polls
  <2>2. op # NoOp
    BY <2>1, NoOpValue
  <2> QED
    BY <1>1, <2>1, <2>2 DEF ShapeInv, Operations, Steps
<1>3. op'.kind = "none" /\ op'.step = "none"
  BY NoOpValue
<1>4. ~StopFails
  <2>1. StopFails => op' = Op("drop", "stop")
    BY DEF StopFails
  <2> QED
    BY <1>3, <2>1, OpValue
<1>5. \A step \in StopSteps : ~GoesTo(step)
  <2>1. StopSteps \subseteq Steps /\ "none" \notin StopSteps
    BY DEF Steps, StopSteps
  <2> QED
    BY <1>1, <1>3, <2>1, GoesValue
<1>6. CASE SendsStop
  BY <1>4, <1>5, <1>6 DEF SendsStop, StopSteps
<1>7. CASE SendsOff
  <2>1. [op EXCEPT !.step = "confirm", !.attempt = 1].step = "confirm"
    BY <1>1 DEF ShapeInv, Operations
  <2> QED
    BY <1>3, <1>4, <1>7, <2>1 DEF SendsOff
<1>8. CASE ConfirmsStop
  <2>1. [op EXCEPT !.attempt = @ + 1].kind = "estop"
    BY <1>1 DEF ShapeInv, Operations
  <2>2. PICK state \in ReadsAs : Reads(state) /\ state = "Idle"
    BY <1>3, <1>4, <1>8, <2>1 DEF ConfirmsStop
  <2> QED
    BY <1>1, <2>2, ReadEffect
<1>9. CASE ChecksFile \/ DeletesFile
  BY <1>1, <1>9 DEF ChecksFile, DeletesFile, StopInv
<1>10. CASE UNCHANGED op
  BY <1>2, <1>10
<1>11. CASE op.step \notin StopSteps \/ op = NoOp
  BY <1>2, <1>11
<1>12. CASE EmergencyStop
  BY <1>2, <1>12, <1>10 DEF EmergencyStop, Polls
<1>13. (MachineStep \/ ChannelFails \/ UNCHANGED vars) => UNCHANGED op
  BY DEF MachineStep, ButtonStarts, ButtonPausesOrResumes, ButtonStopsOrAlarm, UsedByOthers,
         PowerCycles, Finishes, ByHand, Program, ChannelFails, vars
<1>14. Tick \/ IdlePoll \/ Connect \/ (\E is_frame \in BOOLEAN : Start(is_frame)) \/ Pause
         \/ Resume \/ Cancel \/ Disconnect \/ Shutdown \/ EmergencyStopTooLate
         \/ EmergencyStopProceeds => op = NoOp
  BY DEF Tick, IdlePoll, Begin, Connect, Start, Pause, Resume, Asks, Cancel, Disconnect, Shutdown,
         Presses, EmergencyStopTooLate, EmergencyStopProceeds
<1>15. (\E n \in 0..Len(wire) : TakesEvents(n)) \/ (\E late \in BOOLEAN : PollReads(late))
         \/ ConnectReads \/ Synchronizes \/ ChecksIdle \/ Posts \/ ReadsBack \/ SynchronizesAgain
         \/ BecomesReady => op.step \notin StopSteps
  BY DEF TakesEvents, PollReads, ConnectReads, Synchronizes, ChecksIdle, Posts, ReadsBack,
         SynchronizesAgain, BecomesReady, StopSteps
<1> QED
  BY <1>6, <1>7, <1>8, <1>9, <1>10, <1>11, <1>12, <1>13, <1>14, <1>15 DEF Next, SessionStep

\* An Emergency Stop that waits for the session is not over by anything that another
\* operation does.
LEMMA EmergencyWaits ==
  ASSUME [Next]_vars, estop, ~estop', conn
  PROVE  op' = Op("estop", "stop")
<1>1. CASE SessionStep
  <2>1. UNCHANGED estop
    BY <1>1
       DEF SessionStep, TakesEvents, PollReads, ConnectReads, Synchronizes, ChecksIdle, Posts,
           ReadsBack, SynchronizesAgain, BecomesReady, Uploading, SendsStop, SendsOff,
           ConfirmsStop, ChecksFile, DeletesFile, Stopping
  <2> QED
    BY <2>1
<1>2. CASE MachineStep \/ ChannelFails \/ UNCHANGED vars
  <2>1. UNCHANGED estop
    BY <1>2
       DEF MachineStep, ButtonStarts, ButtonPausesOrResumes, ButtonStopsOrAlarm, UsedByOthers,
           PowerCycles, Finishes, ByHand, Program, ChannelFails, vars
  <2> QED
    BY <2>1
<1>3. CASE Tick \/ IdlePoll \/ Connect \/ (\E is_frame \in BOOLEAN : Start(is_frame)) \/ Pause
             \/ Resume \/ Cancel \/ Disconnect \/ Shutdown
  <2>1. UNCHANGED estop
    BY <1>3
       DEF Tick, IdlePoll, Begin, Connect, Start, Pause, Resume, Asks, Cancel, Disconnect,
           Shutdown, Presses, Outside
  <2> QED
    BY <2>1
<1>4. CASE EmergencyStop \/ EmergencyStopTooLate \/ EmergencyStopProceeds
  BY <1>4 DEF EmergencyStop, EmergencyStopTooLate, EmergencyStopProceeds
<1> QED
  BY <1>1, <1>2, <1>3, <1>4 DEF Next

\* The types: what the service and the runtime hold of the machine stays in its range, no
\* job is held without a session, and a channel that failed carries no event.
THEOREM D1TypeCorrect == Spec => []TypeOK
<1>1. Init => RuntimeInv
  BY InitRuntimeInv
<1>2. RuntimeInv /\ [Next]_vars => RuntimeInv'
  BY NextRuntimeInv
<1>3. RuntimeInv => TypeOK
  BY TypesFollow
<1> QED
  BY <1>1, <1>2, <1>3, PTL DEF Spec

\* A tick reports a job Completed only after the machine ran the file of the last upload
\* whole, unless another application was at the machine: whatever events were late, lost
\* with their channel or told by people at the machine (d1_runtime.rs, poll_inner).
THEOREM D1CompletedWasRun == Spec => CompletedMeansRan
<1>1. Init => RuntimeInv
  BY InitRuntimeInv
<1>2. RuntimeInv /\ [Next]_vars => RuntimeInv'
  BY NextRuntimeInv
<1>3. RuntimeInv /\ [Next]_vars => [Completes => fate = "ran" \/ foreign]_vars
  BY NextRuntimeInv, CompletionKnown
<1> QED
  BY <1>1, <1>2, <1>3, PTL DEF Spec, CompletedMeansRan

\* An Emergency Stop that leaves the session connected has read an idle state since it
\* began: neither its own first stop, whose answer may be lost, nor what was last seen of
\* the machine ends it (ops/machine.rs, emergency_stop; d1_runtime.rs, stop).
THEOREM StopWasConfirmed == Spec => StopIsConfirmed
<1>1. Init => RuntimeInv
  BY InitRuntimeInv
<1>2. RuntimeInv /\ [Next]_vars => RuntimeInv'
  BY NextRuntimeInv
<1>3. RuntimeInv /\ [Next]_vars => [EmergencyStopSucceeds => idle_since_estop']_vars
  <2> SUFFICES ASSUME RuntimeInv, [Next]_vars, EmergencyStopSucceeds PROVE idle_since_estop'
    OBVIOUS
  <2>1. conn /\ op' = NoOp /\ ~estop' /\ (op.kind = "estop" \/ estop)
    BY DEF EmergencyStopSucceeds
  <2>2. op' # Op("estop", "stop")
    BY <2>1, NoOpValue, OpValue
  <2>3. ~estop
    BY <2>1, <2>2, EmergencyWaits
  <2> QED
    BY <2>1, <2>3, StopConfirmed
<1> QED
  BY <1>1, <1>2, <1>3, PTL DEF Spec, StopIsConfirmed
=============================================================================
