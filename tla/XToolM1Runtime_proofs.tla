----------------------- MODULE XToolM1Runtime_proofs -----------------------
(***************************************************************************)
(* What the xTool M1 driver guarantees for any number of starts, presses,  *)
(* hands at the machine and failed requests: that a job reported Completed *)
(* was run or stopped, that a stop reported as successful was confirmed,   *)
(* and that no file is sent over a job that may be running.                *)
(***************************************************************************)
EXTENDS XToolM1Runtime, TLAPS

(***************************************************************************)
(* The invariant.                                                          *)
(***************************************************************************)

Phases == STOPPABLE_PHASES \cup OverPhases \cup {"Disconnected"}
StopKinds == {"cancel", "estop", "shutdown"}

\* An operation in progress has a session, and an upload a session with no job.
OpInv ==
  /\ op \in [kind : {"none", "upload"} \cup StopKinds, attempt : 0..STOP_CONFIRM_ATTEMPTS]
  /\ op.kind = "none" => op = NoOp
  /\ op # NoOp => conn
  /\ op.kind = "upload" => job = "none" /\ phase \in OverPhases

\* A machine that halts was stopped; one whose session says it has our job has it, or
\* had it until it was run whole or cut short.
MachineInv ==
  /\ halting => machine \notin Idle \cup {"Error"} /\ cut
  /\ phase \in OwnPhases =>
       ran \/ cut \/ (ours /\ machine \in {"ReadyToRun", "Working", "Paused", "Error"})

\* What says that no job runs has seen the machine idle since the last upload, and
\* since an Emergency Stop that found a job began.
SeenInv ==
  /\ phase \in OverPhases => idle_since_upload
  /\ estop /\ estop_job /\ phase \in OverPhases => idle_since_estop

RuntimeInv == TypeOK /\ OpInv /\ MachineInv /\ SeenInv

(***************************************************************************)
(* Requests.                                                               *)
(***************************************************************************)

\* A fault is one of those that may happen.
LEMMA FaultCounted ==
  ASSUME TypeOK, \/ UNCHANGED faults
                 \/ \E kind \in {"lost", "unanswered", "refused", "Unknown", "Error"} : Fault(kind)
  PROVE  faults' \in 0..MaxFaults
<1>1. MaxFaults \in Nat /\ faults \in 0..MaxFaults
  BY XToolM1Assumption DEF TypeOK
<1>2. faults' = faults \/ (faults < MaxFaults /\ faults' = faults + 1)
  BY DEF Fault
<1> QED
  BY <1>1, <1>2

\* A read tells of the machine and changes nothing but that it may fail it.
LEMMA ReadEffect ==
  ASSUME RuntimeInv, NEW s, Reads(s)
  PROVE  /\ faults' \in 0..MaxFaults /\ UNCHANGED <<ours, ran, cut, estop_job>>
         /\ \/ UNCHANGED <<machine, halting>>
            \/ machine' = "Error" /\ halting' = FALSE
         /\ s \in Idle => machine = s /\ idle_since_upload' /\ idle_since_estop'
         /\ idle_since_upload => idle_since_upload'
         /\ idle_since_estop => idle_since_estop'
         /\ idle_since_upload' \in BOOLEAN /\ idle_since_estop' \in BOOLEAN
<1>1. faults' \in 0..MaxFaults
  <2>1. UNCHANGED faults \/ Fault("lost") \/ Fault("Unknown") \/ Fault("Error")
    BY DEF Reads
  <2> QED
    BY <2>1, FaultCounted DEF RuntimeInv
<1>2. /\ UNCHANGED <<ours, ran, cut, estop_job>>
      /\ \/ UNCHANGED <<machine, halting>>
         \/ machine' = "Error" /\ halting' = FALSE
      /\ s \in Idle => machine = s
  BY DEF Reads, machineVars, Idle
<1>3. /\ idle_since_upload' = (idle_since_upload \/ s \in Idle)
      /\ idle_since_estop' = (idle_since_estop \/ s \in Idle)
  BY DEF Reads
<1> QED
  BY <1>1, <1>2, <1>3

\* A request leaves the machine as it is, or makes it do what was asked: a stop is
\* remembered, and a file replaces another only on a machine at rest.
LEMMA SendEffect ==
  ASSUME RuntimeInv, NEW action \in {"stop", "pause", "start", "upload", "setprintToolType"},
         NEW answer \in Answers, Sends(action, answer)
  PROVE  /\ faults' \in 0..MaxFaults
         /\ action = "upload" =>
              \/ UNCHANGED machineVars /\ answer # "ok"
              \/ /\ machine \in Idle /\ ~halting
                 /\ machine' = "ReadyToRun" /\ ours' = TRUE /\ ran' = FALSE /\ cut' = FALSE
                 /\ halting' = FALSE
         /\ action # "upload" =>
              /\ UNCHANGED <<ours, ran>>
              /\ \/ UNCHANGED <<machine, halting, cut>>
                 \/ /\ machine \notin Idle \cup {"Error"} /\ UNCHANGED machine
                    /\ halting' = TRUE /\ cut' = TRUE
                 \/ /\ machine \in {"Working", "Paused"} /\ machine' \in {"Working", "Paused"}
                    /\ UNCHANGED <<halting, cut>>
<1>1. faults' \in 0..MaxFaults
  <2>1. UNCHANGED faults \/ Fault("lost") \/ Fault("unanswered") \/ Fault("refused")
    BY DEF Sends
  <2> QED
    BY <2>1, FaultCounted DEF RuntimeInv
<1>2. \/ UNCHANGED machineVars /\ answer # "ok"
      \/ Takes(action) /\ ~(action = "upload" /\ machine \notin Idle)
  BY DEF Sends
<1>3. halting => machine \notin Idle
  BY DEF RuntimeInv, MachineInv
<1>4. halting \in BOOLEAN
  BY DEF RuntimeInv, TypeOK
<1>5. ASSUME action = "upload"
      PROVE  \/ UNCHANGED machineVars /\ answer # "ok"
             \/ /\ machine \in Idle /\ ~halting
                /\ machine' = "ReadyToRun" /\ ours' = TRUE /\ ran' = FALSE /\ cut' = FALSE
                /\ halting' = FALSE
  <2>1. CASE UNCHANGED machineVars /\ answer # "ok"
    BY <2>1
  <2>2. CASE Takes(action) /\ machine \in Idle
    <3>1. /\ machine' = "ReadyToRun" /\ ours' = TRUE /\ ran' = FALSE /\ cut' = FALSE
          /\ UNCHANGED halting
      BY <1>5, <2>2 DEF Takes
    <3> QED
      BY <1>3, <1>4, <2>2, <3>1
  <2> QED
    BY <1>2, <1>5, <2>1, <2>2
<1>6. ASSUME action # "upload"
      PROVE  /\ UNCHANGED <<ours, ran>>
             /\ \/ UNCHANGED <<machine, halting, cut>>
                \/ /\ machine \notin Idle \cup {"Error"} /\ UNCHANGED machine
                   /\ halting' = TRUE /\ cut' = TRUE
                \/ /\ machine \in {"Working", "Paused"} /\ machine' \in {"Working", "Paused"}
                   /\ UNCHANGED <<halting, cut>>
  <2>1. CASE UNCHANGED machineVars
    BY <2>1 DEF machineVars
  <2>2. CASE Takes(action)
    BY <1>6, <2>2 DEF Takes, machineVars
  <2> QED
    BY <1>2, <2>1, <2>2
<1> QED
  BY <1>1, <1>5, <1>6

(***************************************************************************)
(* The machine.                                                            *)
(***************************************************************************)

\* What the machine and the people at it do leaves the program as it is.
LEMMA MachineMoves ==
  ASSUME RuntimeInv, MachineStep
  PROVE  RuntimeInv'
<1> USE DEF RuntimeInv
<1>1. /\ machine \in Statuses /\ hands \in 0..MaxHands /\ MaxHands \in Nat
      /\ ours \in BOOLEAN /\ ran \in BOOLEAN /\ halting \in BOOLEAN /\ cut \in BOOLEAN
  BY XToolM1Assumption DEF TypeOK
<1>2. UNCHANGED <<faults, conn, endpoint, phase, job, polls_failing, op, estop, counts, seen>>
  BY DEF MachineStep, ButtonStarts, LidOpensOrCloses, ButtonStops, PowerCycles, UsedByOthers,
         Finishes, Halts, ByHand, Machine
<1>3. hands' \in 0..MaxHands
  <2>1. hands' = hands \/ (hands < MaxHands /\ hands' = hands + 1)
    BY DEF MachineStep, ButtonStarts, LidOpensOrCloses, ButtonStops, PowerCycles, UsedByOthers,
           Finishes, Halts, ByHand
  <2> QED
    BY <1>1, <2>1
<1>4. /\ machine' \in Statuses
      /\ ours' \in BOOLEAN /\ ran' \in BOOLEAN /\ halting' \in BOOLEAN /\ cut' \in BOOLEAN
  BY <1>1 DEF MachineStep, ButtonStarts, LidOpensOrCloses, ButtonStops, PowerCycles,
              UsedByOthers, Finishes, Halts, Statuses, Idle
<1>5. TypeOK'
  BY <1>2, <1>3, <1>4 DEF TypeOK, counts, seen
<1>6. OpInv' /\ SeenInv'
  BY <1>2 DEF OpInv, SeenInv, seen
<1>7. phase' = phase
  BY <1>2
<1>8. MachineInv'
  <2>1. CASE ButtonStarts \/ LidOpensOrCloses
    BY <1>7, <2>1 DEF ButtonStarts, LidOpensOrCloses, MachineInv, Idle
  <2>2. CASE ButtonStops \/ PowerCycles
    BY <1>7, <2>2 DEF ButtonStops, PowerCycles, MachineInv
  <2>3. CASE UsedByOthers
    BY <1>7, <2>3 DEF UsedByOthers, MachineInv, Idle
  <2>4. CASE Finishes
    BY <1>7, <2>4 DEF Finishes, MachineInv, Idle
  <2>5. CASE Halts
    BY <1>7, <2>5 DEF Halts, MachineInv
  <2> QED
    BY <2>1, <2>2, <2>3, <2>4, <2>5 DEF MachineStep
<1> QED
  BY <1>5, <1>6, <1>8

(***************************************************************************)
(* The program.                                                            *)
(***************************************************************************)

\* What a program's step leaves in order when its parts are.
Counted ==
  /\ faults' \in 0..MaxFaults /\ hands' = hands
  /\ starts' \in 0..MaxStarts /\ presses' \in 0..MaxPresses

LEMMA PressCounted ==
  ASSUME RuntimeInv, \/ UNCHANGED counts \/ Press
                     \/ starts < MaxStarts /\ starts' = starts + 1 /\ UNCHANGED presses
  PROVE  starts' \in 0..MaxStarts /\ presses' \in 0..MaxPresses
<1>1. /\ starts \in 0..MaxStarts /\ presses \in 0..MaxPresses
      /\ MaxStarts \in Nat /\ MaxPresses \in Nat
  BY XToolM1Assumption DEF RuntimeInv, TypeOK
<1>2. \/ starts' = starts /\ presses' = presses
      \/ starts' = starts /\ presses < MaxPresses /\ presses' = presses + 1
      \/ starts < MaxStarts /\ starts' = starts + 1 /\ presses' = presses
  BY DEF counts, Press
<1> QED
  BY <1>1, <1>2

\* Where a stop ends, and what it leaves: over, given up, or open.
LEMMA StopEnds ==
  ASSUME RuntimeInv, conn, phase \in STOPPABLE_PHASES, NEW kind \in StopKinds,
         NEW recovery \in BOOLEAN, StopFails(kind, recovery)
  PROVE  /\ op' = NoOp /\ conn' \in BOOLEAN /\ polls_failing' \in BOOLEAN
         /\ phase' \in Phases \ OverPhases
         /\ conn' <=> phase' # "Disconnected"
         /\ phase' \in OwnPhases => phase \in OwnPhases
         /\ job' \in OwnPhases \cup {"none"}
         /\ job' # "none" => phase' \in OwnPhases \cup {"RecoveryRequired"}
<1>1. /\ job \in OwnPhases \cup {"none"} /\ polls_failing \in BOOLEAN /\ phase # "Disconnected"
      /\ job # "none" => phase \in OwnPhases \cup {"RecoveryRequired"}
      /\ conn \in BOOLEAN /\ phase \in Phases
  <2>1. "Disconnected" \notin STOPPABLE_PHASES
    BY DEF STOPPABLE_PHASES, OwnPhases
  <2> QED
    BY <2>1 DEF RuntimeInv, TypeOK, Phases
<1>2. OwnPhases \cap OverPhases = {} /\ "RecoveryRequired" \notin OwnPhases \cup OverPhases
      /\ "Disconnected" \notin OwnPhases \cup OverPhases /\ "BusyUnowned" \notin OverPhases
      /\ "RecoveryRequired" \in Phases /\ "Disconnected" \in Phases
  BY DEF OwnPhases, OverPhases, Phases, STOPPABLE_PHASES
<1>3. phase \notin OverPhases
  BY <1>2 DEF STOPPABLE_PHASES
<1>4. CASE kind = "estop"
  BY <1>1, <1>2, <1>4 DEF StopFails, Dropped, JobOver
<1>5. CASE kind = "cancel"
  BY <1>1, <1>2, <1>3, <1>5 DEF StopFails
<1>6. CASE kind = "shutdown"
  <2>1. /\ op' = NoOp /\ conn' = conn /\ job' = "none" /\ polls_failing' = FALSE
        /\ phase' = IF recovery THEN "RecoveryRequired" ELSE phase
    BY <1>6 DEF StopFails, JobOver
  <2>2. phase' \in {"RecoveryRequired", phase}
    BY <2>1
  <2> QED
    BY <1>1, <1>2, <1>3, <2>1, <2>2
<1> QED
  BY <1>4, <1>5, <1>6 DEF StopKinds

\* The phases, told apart.
LEMMA PhasesDiffer ==
  /\ OwnPhases \cap OverPhases = {}
  /\ OwnPhases \subseteq Phases /\ OverPhases \subseteq Phases
  /\ {"RecoveryRequired", "BusyUnowned", "Disconnected"}
       \subseteq Phases \ (OwnPhases \cup OverPhases)
  /\ "Disconnected" \notin STOPPABLE_PHASES \cup OverPhases
  /\ STOPPABLE_PHASES \cap OverPhases = {}
  /\ {"ReadyToRun", "Running", "Paused"} \subseteq OwnPhases
  /\ {"Ready", "Completed", "Stopped"} \subseteq OverPhases
  BY DEF OwnPhases, OverPhases, Phases, STOPPABLE_PHASES

\* A step of the program keeps the invariant when it keeps its parts: the session and
\* its phase agree, the job fits the phase, the machine holds what the phase says, and a
\* phase that is newly over was seen to be.
LEMMA ProgramStep ==
  ASSUME RuntimeInv,
         UNCHANGED hands, faults' \in 0..MaxFaults,
         starts' \in 0..MaxStarts, presses' \in 0..MaxPresses,
         machine' \in Statuses, ours' \in BOOLEAN, ran' \in BOOLEAN, halting' \in BOOLEAN,
         cut' \in BOOLEAN, conn' \in BOOLEAN, endpoint' \in BOOLEAN,
         polls_failing' \in BOOLEAN, estop' \in BOOLEAN, idle_since_upload' \in BOOLEAN,
         idle_since_estop' \in BOOLEAN, estop_job' \in BOOLEAN,
         phase' \in Phases, conn' <=> phase' # "Disconnected",
         job' \in OwnPhases \cup {"none"},
         job' # "none" => phase' \in OwnPhases \cup {"RecoveryRequired"},
         OpInv', MachineInv', SeenInv'
  PROVE  RuntimeInv'
<1>1. /\ hands' \in 0..MaxHands
  BY DEF RuntimeInv, TypeOK
<1>2. op'.kind \in {"none", "upload", "cancel", "estop", "shutdown"}
      /\ op'.attempt \in 0..STOP_CONFIRM_ATTEMPTS
  BY DEF OpInv, StopKinds
<1>3. TypeOK'
  BY <1>1, <1>2 DEF TypeOK, Phases
<1> QED
  BY <1>3 DEF RuntimeInv

\* The types, one by one.
LEMMA RuntimeTypes ==
  ASSUME RuntimeInv
  PROVE  /\ machine \in Statuses /\ ours \in BOOLEAN /\ ran \in BOOLEAN /\ halting \in BOOLEAN
         /\ cut \in BOOLEAN /\ conn \in BOOLEAN /\ endpoint \in BOOLEAN
         /\ polls_failing \in BOOLEAN /\ estop \in BOOLEAN /\ idle_since_upload \in BOOLEAN
         /\ idle_since_estop \in BOOLEAN /\ estop_job \in BOOLEAN
         /\ phase \in Phases /\ (conn <=> phase # "Disconnected")
         /\ job \in OwnPhases \cup {"none"}
         /\ job # "none" => phase \in OwnPhases \cup {"RecoveryRequired"}
         /\ faults \in 0..MaxFaults /\ OpInv /\ MachineInv /\ SeenInv
  BY DEF RuntimeInv, TypeOK, Phases

\* A session that idles: no operation is under way.
LEMMA NoOpType == NoOp \in [kind : {"none", "upload"} \cup StopKinds, attempt : 0..STOP_CONFIRM_ATTEMPTS]
  BY XToolM1Assumption DEF NoOp

\* A machine that tells a status, or is failed by the read, keeps what the phase says.
LEMMA ReadKeepsMachine ==
  ASSUME RuntimeInv, NEW s, Reads(s), phase' \in OwnPhases => phase \in OwnPhases
  PROVE  MachineInv' /\ machine' \in Statuses /\ halting' \in BOOLEAN
<1>1. MachineInv /\ machine \in Statuses /\ halting \in BOOLEAN
  BY RuntimeTypes
<1>2. /\ UNCHANGED <<ours, ran, cut>>
      /\ \/ UNCHANGED <<machine, halting>>
         \/ machine' = "Error" /\ halting' = FALSE
  BY ReadEffect
<1>3. CASE UNCHANGED <<machine, halting>>
  BY <1>1, <1>2, <1>3 DEF MachineInv
<1>4. CASE machine' = "Error" /\ halting' = FALSE
  <2>1. phase' \in OwnPhases => ran \/ cut \/ ours
    BY <1>1 DEF MachineInv
  <2> QED
    BY <1>2, <1>4, <2>1 DEF MachineInv, Statuses
<1> QED
  BY <1>2, <1>3, <1>4

\* So does one that is asked for anything but to take a file.
LEMMA SendKeepsMachine ==
  ASSUME RuntimeInv, NEW action \in {"stop", "pause", "start", "setprintToolType"},
         NEW answer \in Answers, Sends(action, answer), phase' \in OwnPhases => phase \in OwnPhases
  PROVE  /\ MachineInv' /\ machine' \in Statuses /\ faults' \in 0..MaxFaults
         /\ halting' \in BOOLEAN /\ cut' \in BOOLEAN /\ UNCHANGED <<ours, ran>>
<1>1. MachineInv /\ machine \in Statuses /\ halting \in BOOLEAN /\ cut \in BOOLEAN
  BY RuntimeTypes
<1>2. /\ UNCHANGED <<ours, ran>> /\ faults' \in 0..MaxFaults
      /\ \/ UNCHANGED <<machine, halting, cut>>
         \/ /\ machine \notin Idle \cup {"Error"} /\ UNCHANGED machine
            /\ halting' = TRUE /\ cut' = TRUE
         \/ /\ machine \in {"Working", "Paused"} /\ machine' \in {"Working", "Paused"}
            /\ UNCHANGED <<halting, cut>>
  <2>1. action \in {"stop", "pause", "start", "upload", "setprintToolType"} /\ action # "upload"
    OBVIOUS
  <2> QED
    BY <2>1, SendEffect
<1>3. CASE UNCHANGED <<machine, halting, cut>>
  BY <1>1, <1>2, <1>3 DEF MachineInv
<1>4. CASE machine \notin Idle \cup {"Error"} /\ UNCHANGED machine /\ halting' = TRUE /\ cut' = TRUE
  BY <1>1, <1>2, <1>4 DEF MachineInv
<1>5. CASE /\ machine \in {"Working", "Paused"} /\ machine' \in {"Working", "Paused"}
           /\ UNCHANGED <<halting, cut>>
  BY <1>1, <1>2, <1>5 DEF MachineInv, Idle, Statuses
<1> QED
  BY <1>2, <1>3, <1>4, <1>5

\* A poll.
LEMMA TickKeeps ==
  ASSUME RuntimeInv, Tick
  PROVE  RuntimeInv' /\ (Completes => ran \/ cut)
<1>0. PICK s \in ReadsAs : Reads(s) /\ IF s = "lost" THEN PollFails ELSE PollSucceeds(s)
  BY DEF Tick
<1>1. /\ job # "none" /\ op = NoOp /\ UNCHANGED <<hands, endpoint, op, estop, counts>>
  BY DEF Tick
<1>2. /\ conn = TRUE /\ phase \in OwnPhases \cup {"RecoveryRequired"}
      /\ starts' \in 0..MaxStarts /\ presses' \in 0..MaxPresses
  BY <1>1, RuntimeTypes, PhasesDiffer, PressCounted
<1>3. /\ faults' \in 0..MaxFaults /\ UNCHANGED <<ours, ran, cut, estop_job>>
      /\ s \in Idle => machine = s /\ idle_since_upload' /\ idle_since_estop'
      /\ idle_since_upload => idle_since_upload'
      /\ idle_since_estop => idle_since_estop'
      /\ idle_since_upload' \in BOOLEAN /\ idle_since_estop' \in BOOLEAN
  BY <1>0, ReadEffect
<1>4. \/ /\ conn' = TRUE /\ phase' \in OwnPhases \cup {"RecoveryRequired"}
         /\ phase' \in OwnPhases => phase \in OwnPhases
         /\ job' \in OwnPhases \cup {"none"}
         /\ polls_failing' \in BOOLEAN
      \/ /\ conn' = FALSE /\ phase' = "Disconnected" /\ job' = "none" /\ polls_failing' = FALSE
      \/ /\ conn' = TRUE /\ phase' = "Completed" /\ s \in Idle /\ phase \in OwnPhases
         /\ job' = "none" /\ polls_failing' = FALSE
  <2>1. CASE s = "lost"
    BY <1>0, <1>2, <2>1, RuntimeTypes DEF PollFails, JobOver, Dropped
  <2>2. CASE s # "lost"
    <3>1. PollSucceeds(s)
      BY <1>0, <2>2
    <3>2. \/ phase' \in OwnPhases \cup {"RecoveryRequired"} /\ (phase' \in OwnPhases => phase \in OwnPhases)
          \/ phase' = "Completed" /\ s \in Idle /\ phase \in OwnPhases
      BY <1>2, <3>1 DEF PollSucceeds, AppliedStatus, Ended, OwnPhases, OverPhases
    <3>3. conn' = conn
      BY <3>1 DEF PollSucceeds
    <3>4. CASE s = "Unknown"
      <4>1. polls_failing' = TRUE /\ job' = job
        BY <3>1, <3>4 DEF PollSucceeds
      <4>2. phase' = "RecoveryRequired"
        BY <1>2, <3>1, <3>4
           DEF PollSucceeds, AppliedStatus, Ended, Idle, OwnPhases, OverPhases
      <4> QED
        BY <1>2, <3>3, <4>1, <4>2, RuntimeTypes, PhasesDiffer
    <3>5. CASE s # "Unknown" /\ phase' \in OwnPhases
      <4>1. job' = phase' /\ polls_failing' = FALSE
        BY <3>1, <3>5 DEF PollSucceeds
      <4> QED
        BY <1>2, <3>2, <3>3, <3>5, <4>1, PhasesDiffer
    <3>6. CASE s # "Unknown" /\ phase' \notin OwnPhases
      <4>1. job' = "none" /\ polls_failing' = FALSE
        BY <3>1, <3>6 DEF PollSucceeds, JobOver
      <4> QED
        BY <1>2, <3>2, <3>3, <3>6, <4>1
    <3> QED
      BY <3>4, <3>5, <3>6
  <2> QED
    BY <2>1, <2>2
<1>5. phase' \in OwnPhases => phase \in OwnPhases
  BY <1>4, PhasesDiffer
<1>6. MachineInv' /\ machine' \in Statuses /\ halting' \in BOOLEAN
  BY <1>0, <1>5, ReadKeepsMachine
<1>7. OpInv'
  BY <1>1, RuntimeTypes DEF OpInv, NoOp
<1>8. phase' \in OverPhases => idle_since_upload' /\ idle_since_estop'
  BY <1>3, <1>4, PhasesDiffer
<1>9. SeenInv'
  BY <1>8 DEF SeenInv
<1>10. /\ conn' \in BOOLEAN /\ phase' \in Phases /\ (conn' <=> phase' # "Disconnected")
       /\ job' \in OwnPhases \cup {"none"} /\ polls_failing' \in BOOLEAN
       /\ job' # "none" => phase' \in OwnPhases \cup {"RecoveryRequired"}
  BY <1>4, PhasesDiffer
<1>11. RuntimeInv'
  <2>1. /\ ours' \in BOOLEAN /\ ran' \in BOOLEAN /\ cut' \in BOOLEAN /\ endpoint' \in BOOLEAN
        /\ estop' \in BOOLEAN /\ estop_job' \in BOOLEAN /\ UNCHANGED hands
    BY <1>1, <1>3, RuntimeTypes
  <2> QED
    BY <1>2, <1>3, <1>6, <1>7, <1>9, <1>10, <2>1, ProgramStep
<1>12. Completes => ran \/ cut
  <2> SUFFICES ASSUME phase' = "Completed" PROVE ran \/ cut
    BY DEF Completes
  <2>1. machine \in Idle /\ phase \in OwnPhases
    BY <1>3, <1>4, PhasesDiffer
  <2> QED
    BY <2>1, RuntimeTypes DEF MachineInv, Idle
<1> QED
  BY <1>11, <1>12
\* A session opens in the phase its first status says.
LEMMA ConnectKeeps ==
  ASSUME RuntimeInv, Connect
  PROVE  RuntimeInv'
<1>0. PICK s \in Statuses :
         /\ Reads(s)
         /\ phase' = CASE s \in Idle -> "Ready"
                       [] s = "Error" -> "RecoveryRequired"
                       [] OTHER -> "BusyUnowned"
  BY DEF Connect
<1>1. /\ ~conn /\ conn' = TRUE /\ endpoint' = TRUE /\ Press
      /\ UNCHANGED <<hands, job, polls_failing, op, estop>>
  BY DEF Connect
<1>2. job = "none" /\ op = NoOp
  <2>1. phase = "Disconnected"
    BY <1>1, RuntimeTypes
  <2> QED
    BY <1>1, <2>1, RuntimeTypes, PhasesDiffer DEF OpInv
<1>3. /\ faults' \in 0..MaxFaults /\ UNCHANGED <<ours, ran, cut, estop_job>>
      /\ s \in Idle => idle_since_upload' /\ idle_since_estop'
      /\ idle_since_upload' \in BOOLEAN /\ idle_since_estop' \in BOOLEAN
  BY <1>0, ReadEffect
<1>4. \/ phase' = "Ready" /\ s \in Idle
      \/ phase' \in {"RecoveryRequired", "BusyUnowned"}
  BY <1>0 DEF Idle
<1>5. MachineInv' /\ machine' \in Statuses /\ halting' \in BOOLEAN
  <2>1. phase' \notin OwnPhases
    BY <1>4, PhasesDiffer
  <2> QED
    BY <1>0, <2>1, ReadKeepsMachine
<1>6. OpInv'
  BY <1>1, <1>2, NoOpType DEF OpInv, NoOp
<1>7. SeenInv'
  BY <1>3, <1>4, PhasesDiffer DEF SeenInv
<1>8. /\ phase' \in Phases /\ phase' # "Disconnected"
      /\ starts' \in 0..MaxStarts /\ presses' \in 0..MaxPresses
  BY <1>1, <1>4, PhasesDiffer, PressCounted
<1>9. /\ ours' \in BOOLEAN /\ ran' \in BOOLEAN /\ cut' \in BOOLEAN /\ estop' \in BOOLEAN
      /\ estop_job' \in BOOLEAN /\ polls_failing' \in BOOLEAN /\ job' = "none"
  BY <1>1, <1>2, <1>3, RuntimeTypes
<1> QED
  BY <1>1, <1>3, <1>5, <1>6, <1>7, <1>8, <1>9, ProgramStep

\* A session that ends takes its job along.
LEMMA DisconnectKeeps ==
  ASSUME RuntimeInv, Disconnect
  PROVE  RuntimeInv'
<1>1. /\ op = NoOp /\ conn' = FALSE /\ phase' = "Disconnected" /\ job' = "none"
      /\ polls_failing' = FALSE /\ endpoint' = FALSE /\ Press
      /\ UNCHANGED <<machineVars, hands, faults, op, estop, seen>>
  BY DEF Disconnect, Dropped, JobOver
<1>2. phase' \in Phases \ (OwnPhases \cup OverPhases)
  BY <1>1, PhasesDiffer
<1>3. UNCHANGED <<machine, ours, ran, halting, cut, idle_since_upload, idle_since_estop,
                  estop_job>>
  BY <1>1 DEF machineVars, seen
<1>4. MachineInv'
  BY <1>2, <1>3, RuntimeTypes DEF MachineInv
<1>5. OpInv' /\ SeenInv'
  BY <1>1, <1>2, NoOpType DEF OpInv, NoOp, SeenInv
<1>6. starts' \in 0..MaxStarts /\ presses' \in 0..MaxPresses
  BY <1>1, PressCounted
<1>7. /\ ours' \in BOOLEAN /\ ran' \in BOOLEAN /\ cut' \in BOOLEAN /\ estop' \in BOOLEAN
      /\ estop_job' \in BOOLEAN /\ machine' \in Statuses /\ halting' \in BOOLEAN
      /\ idle_since_upload' \in BOOLEAN /\ idle_since_estop' \in BOOLEAN
      /\ faults' \in 0..MaxFaults
  BY <1>1, <1>3, RuntimeTypes
<1> QED
  BY <1>1, <1>2, <1>4, <1>5, <1>6, <1>7, ProgramStep

\* A job that starts has the session to itself; the machine has nothing of it yet.
LEMMA StartKeeps ==
  ASSUME RuntimeInv, Start
  PROVE  RuntimeInv'
<1>0. PICK answer \in Answers :
         /\ Sends("setprintToolType", answer)
         /\ op' = IF answer = "ok" THEN [NoOp EXCEPT !.kind = "upload"] ELSE NoOp
  BY DEF Start
<1>1. /\ conn /\ job = "none" /\ phase \in OverPhases
      /\ starts < MaxStarts /\ starts' = starts + 1 /\ UNCHANGED presses
      /\ UNCHANGED <<hands, conn, endpoint, phase, job, polls_failing, estop, seen>>
  BY DEF Start
<1>2. /\ MachineInv' /\ machine' \in Statuses /\ faults' \in 0..MaxFaults
      /\ halting' \in BOOLEAN /\ cut' \in BOOLEAN /\ UNCHANGED <<ours, ran>>
  <2>1. phase' \in OwnPhases => phase \in OwnPhases
    BY <1>1
  <2> QED
    BY <1>0, <2>1, SendKeepsMachine
<1>3. OpInv'
  <2>1. CASE answer = "ok"
    <3>1. op' = [kind |-> "upload", attempt |-> 0]
      BY <1>0, <2>1 DEF NoOp
    <3> QED
      BY <1>1, <3>1, XToolM1Assumption DEF OpInv
  <2>2. CASE answer # "ok"
    <3>1. op' = NoOp
      BY <1>0, <2>2
    <3> QED
      BY <3>1, NoOpType DEF OpInv, NoOp
  <2> QED
    BY <2>1, <2>2
<1>4. SeenInv'
  BY <1>1, RuntimeTypes DEF SeenInv, seen
<1>5. starts' \in 0..MaxStarts /\ presses' \in 0..MaxPresses
  BY <1>1, PressCounted
<1>6. /\ ours' \in BOOLEAN /\ ran' \in BOOLEAN /\ estop' \in BOOLEAN
      /\ estop_job' \in BOOLEAN /\ conn' \in BOOLEAN /\ endpoint' \in BOOLEAN
      /\ polls_failing' \in BOOLEAN
      /\ idle_since_upload' \in BOOLEAN /\ idle_since_estop' \in BOOLEAN
      /\ phase' \in Phases /\ (conn' <=> phase' # "Disconnected") /\ job' = "none"
  BY <1>1, <1>2, RuntimeTypes DEF seen
<1> QED
  BY <1>1, <1>2, <1>3, <1>4, <1>5, <1>6, ProgramStep

\* A file that is sent is the machine's, or may be; it finds the machine at rest.
LEMMA UploadKeeps ==
  ASSUME RuntimeInv, Upload
  PROVE  RuntimeInv' /\ idle_since_upload
<1>0. PICK answer \in Answers :
         /\ Sends("upload", answer)
         /\ phase' = IF answer = "ok" THEN "ReadyToRun" ELSE "RecoveryRequired"
         /\ job' = IF answer = "ok" THEN "ReadyToRun" ELSE "none"
  BY DEF Upload
<1>1. /\ op.kind = "upload" /\ idle_since_upload' = FALSE /\ op' = NoOp
      /\ UNCHANGED <<hands, conn, endpoint, polls_failing, estop, counts, idle_since_estop,
                     estop_job>>
  BY DEF Upload
<1>2. conn /\ phase \in OverPhases
  <2>1. op # NoOp
    BY <1>1 DEF NoOp
  <2> QED
    BY <1>1, <2>1, RuntimeTypes DEF OpInv
<1>3. /\ faults' \in 0..MaxFaults
      /\ \/ UNCHANGED machineVars /\ answer # "ok"
         \/ /\ machine' = "ReadyToRun" /\ ours' = TRUE /\ ran' = FALSE /\ cut' = FALSE
            /\ halting' = FALSE
  BY <1>0, SendEffect
<1>4. \/ answer = "ok" /\ phase' = "ReadyToRun" /\ job' = "ReadyToRun"
      \/ answer # "ok" /\ phase' = "RecoveryRequired" /\ job' = "none"
  BY <1>0
<1>5. /\ MachineInv' /\ machine' \in Statuses /\ ours' \in BOOLEAN /\ ran' \in BOOLEAN
      /\ halting' \in BOOLEAN /\ cut' \in BOOLEAN
  <2>1. CASE UNCHANGED machineVars /\ answer # "ok"
    <3>1. phase' \notin OwnPhases
      BY <1>4, <2>1, PhasesDiffer
    <3>2. UNCHANGED <<machine, ours, ran, halting, cut>>
      BY <2>1 DEF machineVars
    <3> QED
      BY <3>1, <3>2, RuntimeTypes DEF MachineInv
  <2>2. CASE /\ machine' = "ReadyToRun" /\ ours' = TRUE /\ ran' = FALSE /\ cut' = FALSE
             /\ halting' = FALSE
    BY <2>2 DEF MachineInv, Statuses
  <2> QED
    BY <1>3, <2>1, <2>2
<1>6. OpInv'
  BY <1>1, NoOpType DEF OpInv, NoOp
<1>7. SeenInv'
  BY <1>4, PhasesDiffer DEF SeenInv
<1>8. /\ phase' \in Phases /\ (conn' <=> phase' # "Disconnected")
      /\ job' \in OwnPhases \cup {"none"}
      /\ job' # "none" => phase' \in OwnPhases \cup {"RecoveryRequired"}
  BY <1>1, <1>2, <1>4, PhasesDiffer
<1>9. starts' \in 0..MaxStarts /\ presses' \in 0..MaxPresses
  BY <1>1, PressCounted
<1>10. /\ estop' \in BOOLEAN /\ estop_job' \in BOOLEAN /\ conn' \in BOOLEAN
       /\ endpoint' \in BOOLEAN /\ polls_failing' \in BOOLEAN
       /\ idle_since_upload' \in BOOLEAN /\ idle_since_estop' \in BOOLEAN
  BY <1>1, RuntimeTypes
<1>11. RuntimeInv'
  BY <1>1, <1>3, <1>5, <1>6, <1>7, <1>8, <1>9, <1>10, ProgramStep
<1>12. idle_since_upload
  BY <1>2, RuntimeTypes DEF SeenInv
<1> QED
  BY <1>11, <1>12

\* A pause or a resume that gets no answer leaves the job in recovery.
LEMMA AskKeeps ==
  ASSUME RuntimeInv, NEW action \in {"pause", "start"}, NEW from \in OwnPhases,
         NEW to \in OwnPhases, Asks(action, from, to)
  PROVE  RuntimeInv'
<1>0. PICK answer \in Answers :
         /\ Sends(action, answer)
         /\ phase' = CASE answer = "ok" -> to
                       [] answer = "lost" -> "RecoveryRequired"
                       [] OTHER -> phase
         /\ job' = IF answer = "ok" THEN to ELSE job
  BY DEF Asks
<1>1. /\ job # "none" /\ op = NoOp /\ phase = from /\ Press
      /\ UNCHANGED <<conn, polls_failing, op, seen>> /\ UNCHANGED <<hands, endpoint, estop>>
  BY DEF Asks, Session
<1>2. /\ phase' \in OwnPhases \cup {"RecoveryRequired"} /\ job' \in OwnPhases
      /\ conn' = TRUE
  <2>1. phase \in OwnPhases /\ job \in OwnPhases /\ conn
    BY <1>1, RuntimeTypes, PhasesDiffer
  <2>2. phase' \in {to, "RecoveryRequired", phase} /\ job' \in {to, job}
    BY <1>0
  <2> QED
    BY <1>1, <2>1, <2>2
<1>3. /\ MachineInv' /\ machine' \in Statuses /\ faults' \in 0..MaxFaults
      /\ halting' \in BOOLEAN /\ cut' \in BOOLEAN /\ UNCHANGED <<ours, ran>>
  <2>1. phase' \in OwnPhases => phase \in OwnPhases
    BY <1>1
  <2> QED
    BY <1>0, <2>1, SendKeepsMachine
<1>4. OpInv'
  BY <1>1, NoOpType DEF OpInv, NoOp
<1>5. SeenInv'
  BY <1>2, PhasesDiffer DEF SeenInv
<1>6. starts' \in 0..MaxStarts /\ presses' \in 0..MaxPresses
  BY <1>1, PressCounted
<1>7. /\ ours' \in BOOLEAN /\ ran' \in BOOLEAN /\ estop' \in BOOLEAN
      /\ estop_job' \in BOOLEAN /\ endpoint' \in BOOLEAN /\ polls_failing' \in BOOLEAN
      /\ idle_since_upload' \in BOOLEAN /\ idle_since_estop' \in BOOLEAN
  BY <1>1, <1>3, RuntimeTypes DEF seen
<1>8. phase' \in Phases /\ phase' # "Disconnected"
  BY <1>2, PhasesDiffer
<1> QED
  BY <1>1, <1>2, <1>3, <1>4, <1>5, <1>6, <1>7, <1>8, ProgramStep

\* A stop that is sent waits for its confirmation, or has failed.
LEMMA SendsStopKeeps ==
  ASSUME RuntimeInv, conn, op = NoOp, NEW kind \in StopKinds, SendsStop(kind),
         UNCHANGED <<hands, endpoint>>, estop' \in BOOLEAN, UNCHANGED counts \/ Press
  PROVE  RuntimeInv' /\ ~Completes
<1>0. PICK answer \in Answers :
         /\ Sends("stop", answer)
         /\ IF answer = "ok"
            THEN op' = [kind |-> kind, attempt |-> 1] /\ UNCHANGED <<conn, phase, job, polls_failing>>
            ELSE StopFails(kind, answer = "lost")
  BY DEF SendsStop
<1>1. phase \in STOPPABLE_PHASES /\ UNCHANGED seen
  BY DEF SendsStop
<1>2. phase \notin OverPhases
  BY <1>1, PhasesDiffer
<1>3. /\ op' \in {NoOp, [kind |-> kind, attempt |-> 1]}
      /\ op' # NoOp => conn'
      /\ conn' \in BOOLEAN /\ polls_failing' \in BOOLEAN
      /\ phase' \in Phases \ OverPhases
      /\ conn' <=> phase' # "Disconnected"
      /\ phase' \in OwnPhases => phase \in OwnPhases
      /\ job' \in OwnPhases \cup {"none"}
      /\ job' # "none" => phase' \in OwnPhases \cup {"RecoveryRequired"}
  <2>1. CASE answer = "ok"
    <3>1. op' = [kind |-> kind, attempt |-> 1] /\ UNCHANGED <<conn, phase, job, polls_failing>>
      BY <1>0, <2>1
    <3> QED
      BY <1>2, <3>1, RuntimeTypes
  <2>2. CASE answer # "ok"
    <3>1. StopFails(kind, answer = "lost") /\ (answer = "lost") \in BOOLEAN
      BY <1>0, <2>2
    <3> QED
      BY <1>1, <3>1, StopEnds
  <2> QED
    BY <2>1, <2>2
<1>4. /\ MachineInv' /\ machine' \in Statuses /\ faults' \in 0..MaxFaults
      /\ halting' \in BOOLEAN /\ cut' \in BOOLEAN /\ UNCHANGED <<ours, ran>>
  BY <1>0, <1>3, SendKeepsMachine
<1>5. OpInv'
  <2>1. [kind |-> kind, attempt |-> 1] \in
          [kind : {"none", "upload"} \cup StopKinds, attempt : 0..STOP_CONFIRM_ATTEMPTS]
    BY XToolM1Assumption
  <2>2. kind # "none" /\ kind # "upload"
    BY DEF StopKinds
  <2>3. CASE op' = NoOp
    BY <2>3, NoOpType DEF OpInv, NoOp
  <2>4. CASE op' = [kind |-> kind, attempt |-> 1]
    <3>1. op'.kind = kind /\ op' # NoOp
      BY <2>2, <2>4 DEF NoOp
    <3> QED
      BY <1>3, <2>1, <2>2, <2>4, <3>1 DEF OpInv
  <2> QED
    BY <1>3, <2>3, <2>4
<1>6. SeenInv'
  BY <1>3 DEF SeenInv
<1>7. starts' \in 0..MaxStarts /\ presses' \in 0..MaxPresses
  BY PressCounted
<1>8. /\ ours' \in BOOLEAN /\ ran' \in BOOLEAN
      /\ estop_job' \in BOOLEAN /\ endpoint' \in BOOLEAN
      /\ idle_since_upload' \in BOOLEAN /\ idle_since_estop' \in BOOLEAN
  BY <1>1, <1>4, RuntimeTypes DEF seen
<1>9. RuntimeInv'
  BY <1>3, <1>4, <1>5, <1>6, <1>7, <1>8, ProgramStep
<1>10. ~Completes
  BY <1>3 DEF Completes, OverPhases
<1> QED
  BY <1>9, <1>10

\* A stop that waits ends with an idle status, with its last read, or goes on.
LEMMA ConfirmsStopKeeps ==
  ASSUME RuntimeInv, ConfirmsStop
  PROVE  RuntimeInv' /\ ~Completes /\ (op' = NoOp /\ op.kind = "estop" /\ conn' => idle_since_estop')
<1>0. PICK s \in ReadsAs :
         /\ Reads(s)
         /\ \/ Confirmed(s) /\ StopSucceeds
            \/ /\ ~Confirmed(s) /\ s # "lost" /\ op.attempt < STOP_CONFIRM_ATTEMPTS
               /\ op' = [op EXCEPT !.attempt = @ + 1]
               /\ UNCHANGED <<conn, phase, job, polls_failing>>
            \/ /\ ~Confirmed(s)
               /\ s = "lost" \/ op.attempt = STOP_CONFIRM_ATTEMPTS
               /\ StopFails(op.kind, TRUE)
  BY DEF ConfirmsStop
<1>1. op.kind \in StopKinds /\ UNCHANGED counts /\ UNCHANGED <<hands, endpoint, estop>>
  BY DEF ConfirmsStop, StopKinds, Session
<1>2. op # NoOp /\ conn = TRUE
  <2>1. op.kind # "none"
    BY <1>1 DEF StopKinds
  <2> QED
    BY <2>1, RuntimeTypes DEF OpInv, NoOp
<1>3. /\ faults' \in 0..MaxFaults /\ UNCHANGED <<ours, ran, cut, estop_job>>
      /\ s \in Idle => idle_since_upload' /\ idle_since_estop'
      /\ idle_since_upload => idle_since_upload'
      /\ idle_since_estop => idle_since_estop'
      /\ idle_since_upload' \in BOOLEAN /\ idle_since_estop' \in BOOLEAN
  BY <1>0, ReadEffect
<1>4. \/ /\ s \in Idle /\ op' = NoOp /\ job' = "none" /\ polls_failing' = FALSE
         /\ \/ conn' = FALSE /\ phase' = "Disconnected"
            \/ conn' = TRUE /\ phase' = "Stopped"
      \/ /\ op' = [op EXCEPT !.attempt = @ + 1] /\ op.attempt < STOP_CONFIRM_ATTEMPTS
         /\ UNCHANGED <<conn, phase, job, polls_failing>>
      \/ /\ op' = NoOp /\ job' \in {job, "none"} /\ polls_failing' \in {polls_failing, FALSE}
         /\ \/ conn' = FALSE /\ phase' = "Disconnected" /\ job' = "none"
            \/ op.kind # "estop" /\ conn' = TRUE /\ phase' = "RecoveryRequired"
  <2>1. CASE Confirmed(s) /\ StopSucceeds
    BY <1>2, <2>1 DEF Confirmed, StopSucceeds, JobOver, Dropped
  <2>2. CASE /\ op' = [op EXCEPT !.attempt = @ + 1] /\ op.attempt < STOP_CONFIRM_ATTEMPTS
             /\ UNCHANGED <<conn, phase, job, polls_failing>>
    BY <2>2
  <2>3. CASE StopFails(op.kind, TRUE)
    <3>1. CASE op.kind = "estop"
      BY <2>3, <3>1 DEF StopFails, JobOver, Dropped
    <3>2. CASE op.kind # "estop"
      <4>1. /\ op' = NoOp /\ phase' = "RecoveryRequired" /\ conn' = conn
            /\ \/ UNCHANGED <<job, polls_failing>>
               \/ job' = "none" /\ polls_failing' = FALSE
        BY <2>3, <3>2 DEF StopFails, JobOver
      <4> QED
        BY <1>2, <3>2, <4>1
    <3> QED
      BY <3>1, <3>2
  <2> QED
    BY <1>0, <2>1, <2>2, <2>3
<1>5. /\ conn' \in BOOLEAN /\ polls_failing' \in BOOLEAN
      /\ phase' \in Phases
      /\ (conn' <=> phase' # "Disconnected")
      /\ phase' \in OwnPhases => phase \in OwnPhases
      /\ phase' \in OverPhases => phase \in OverPhases \/ s \in Idle
      /\ job' \in OwnPhases \cup {"none"}
      /\ job' # "none" => phase' \in OwnPhases \cup {"RecoveryRequired"}
  <2>1. CASE UNCHANGED <<conn, phase, job, polls_failing>>
    BY <2>1, RuntimeTypes
  <2>2. CASE conn' = FALSE /\ phase' = "Disconnected" /\ job' = "none"
    <3>1. polls_failing' \in BOOLEAN
      BY <1>4, RuntimeTypes
    <3> QED
      BY <2>2, <3>1, PhasesDiffer
  <2>3. CASE conn' = TRUE /\ phase' = "Stopped" /\ s \in Idle /\ job' = "none" /\ polls_failing' = FALSE
    BY <2>3, PhasesDiffer
  <2>4. CASE conn' = TRUE /\ phase' = "RecoveryRequired"
    <3>1. job' \in OwnPhases \cup {"none"} /\ polls_failing' \in BOOLEAN
      BY <1>4, RuntimeTypes
    <3> QED
      BY <2>4, <3>1, PhasesDiffer
  <2> QED
    BY <1>4, <2>1, <2>2, <2>3, <2>4
<1>6. MachineInv' /\ machine' \in Statuses /\ halting' \in BOOLEAN
  BY <1>0, <1>5, ReadKeepsMachine
<1>7. OpInv'
  <2>1. op \in [kind : {"none", "upload"} \cup StopKinds, attempt : 0..STOP_CONFIRM_ATTEMPTS]
    BY RuntimeTypes DEF OpInv
  <2>2. CASE op' = NoOp
    BY <2>2, NoOpType DEF OpInv, NoOp
  <2>3. CASE /\ op' = [op EXCEPT !.attempt = @ + 1] /\ op.attempt < STOP_CONFIRM_ATTEMPTS
             /\ conn' = conn
    <3>1. op.attempt + 1 \in 0..STOP_CONFIRM_ATTEMPTS
      BY <2>1, <2>3, XToolM1Assumption
    <3>2. op' \in [kind : {"none", "upload"} \cup StopKinds, attempt : 0..STOP_CONFIRM_ATTEMPTS]
      BY <2>1, <2>3, <3>1
    <3>3. op'.kind = op.kind
      BY <2>1, <2>3
    <3>4. op'.kind # "none" /\ op'.kind # "upload"
      BY <1>1, <3>3 DEF StopKinds
    <3> QED
      BY <1>2, <2>3, <3>2, <3>4 DEF OpInv
  <2> QED
    BY <1>4, <2>2, <2>3
<1>8. SeenInv'
  BY <1>1, <1>3, <1>5, RuntimeTypes DEF SeenInv
<1>9. starts' \in 0..MaxStarts /\ presses' \in 0..MaxPresses
  BY <1>1, PressCounted
<1>10. /\ ours' \in BOOLEAN /\ ran' \in BOOLEAN /\ cut' \in BOOLEAN /\ estop' \in BOOLEAN
       /\ estop_job' \in BOOLEAN /\ endpoint' \in BOOLEAN
  BY <1>1, <1>3, RuntimeTypes
<1>11. RuntimeInv'
  BY <1>1, <1>3, <1>5, <1>6, <1>7, <1>8, <1>9, <1>10, ProgramStep
<1>12. ~Completes
  BY <1>4 DEF Completes
<1>13. ASSUME op' = NoOp, op.kind = "estop", conn' PROVE idle_since_estop'
  <2>1. op' # [op EXCEPT !.attempt = @ + 1]
    <3>1. op \in [kind : {"none", "upload"} \cup StopKinds, attempt : 0..STOP_CONFIRM_ATTEMPTS]
      BY RuntimeTypes DEF OpInv
    <3>2. [op EXCEPT !.attempt = @ + 1].kind = op.kind
      BY <3>1
    <3> QED
      BY <1>13, <3>2 DEF NoOp
  <2> QED
    BY <1>3, <1>4, <1>13, <2>1
<1> QED
  BY <1>11, <1>12, <1>13

\* Shutdown stops what runs, and leaves otherwise.
LEMMA ShutdownKeeps ==
  ASSUME RuntimeInv, Shutdown
  PROVE  RuntimeInv' /\ ~Completes
<1>1. conn /\ op = NoOp /\ Press /\ UNCHANGED <<hands, endpoint, estop>>
  BY DEF Shutdown, Session
<1>2. CASE phase \in OverPhases
  <2>1. /\ conn' = FALSE /\ phase' = "Disconnected" /\ job' = "none" /\ polls_failing' = FALSE
        /\ UNCHANGED <<machine, ours, ran, halting, cut, faults, op, idle_since_upload,
                       idle_since_estop, estop_job>>
    BY <1>2 DEF Shutdown, Dropped, JobOver, machineVars, seen
  <2>2. phase' \in Phases \ (OwnPhases \cup OverPhases)
    BY <2>1, PhasesDiffer
  <2>3. MachineInv' /\ SeenInv'
    BY <2>1, <2>2, RuntimeTypes DEF MachineInv, SeenInv
  <2>4. OpInv'
    BY <1>1, <2>1, NoOpType DEF OpInv, NoOp
  <2>5. starts' \in 0..MaxStarts /\ presses' \in 0..MaxPresses
    BY <1>1, PressCounted
  <2>6. /\ ours' \in BOOLEAN /\ ran' \in BOOLEAN /\ cut' \in BOOLEAN /\ estop' \in BOOLEAN
        /\ estop_job' \in BOOLEAN /\ machine' \in Statuses /\ halting' \in BOOLEAN
        /\ idle_since_upload' \in BOOLEAN /\ idle_since_estop' \in BOOLEAN
        /\ faults' \in 0..MaxFaults /\ endpoint' \in BOOLEAN
    BY <1>1, <2>1, RuntimeTypes
  <2>7. RuntimeInv'
    BY <1>1, <2>1, <2>2, <2>3, <2>4, <2>5, <2>6, ProgramStep
  <2> QED
    BY <2>1, <2>7 DEF Completes
<1>3. CASE phase \notin OverPhases
  <2>1. SendsStop("shutdown") /\ "shutdown" \in StopKinds /\ estop' \in BOOLEAN
    BY <1>1, <1>3, RuntimeTypes DEF Shutdown, StopKinds
  <2> QED
    BY <1>1, <2>1, SendsStopKeeps
<1> QED
  BY <1>2, <1>3

\* An Emergency Stop that begins may stop the machine, and waits.
LEMMA EmergencyStopKeeps ==
  ASSUME RuntimeInv, EmergencyStop
  PROVE  RuntimeInv'
<1>1. /\ Press /\ estop' = TRUE /\ idle_since_estop' = FALSE /\ estop_job' = (job # "none")
      /\ UNCHANGED <<hands, conn, endpoint, phase, job, polls_failing, op, idle_since_upload>>
  BY DEF EmergencyStop
<1>2. /\ MachineInv' /\ machine' \in Statuses /\ faults' \in 0..MaxFaults
      /\ halting' \in BOOLEAN /\ cut' \in BOOLEAN /\ UNCHANGED <<ours, ran>>
  <2>1. CASE endpoint
    <3>1. PICK answer \in Answers : Sends("stop", answer)
      BY <2>1 DEF EmergencyStop
    <3> QED
      BY <1>1, <3>1, SendKeepsMachine
  <2>2. CASE ~endpoint
    <3>1. UNCHANGED <<machine, ours, ran, halting, cut, faults>>
      BY <2>2 DEF EmergencyStop, machineVars
    <3> QED
      BY <1>1, <3>1, RuntimeTypes DEF MachineInv
  <2> QED
    BY <2>1, <2>2
<1>3. OpInv'
  BY <1>1, RuntimeTypes DEF OpInv
<1>4. SeenInv'
  <2>1. estop_job' => phase' \notin OverPhases
    BY <1>1, RuntimeTypes, PhasesDiffer
  <2> QED
    BY <1>1, <2>1, RuntimeTypes DEF SeenInv
<1>5. starts' \in 0..MaxStarts /\ presses' \in 0..MaxPresses
  BY <1>1, PressCounted
<1>6. /\ ours' \in BOOLEAN /\ ran' \in BOOLEAN /\ estop' \in BOOLEAN
      /\ conn' \in BOOLEAN /\ endpoint' \in BOOLEAN /\ polls_failing' \in BOOLEAN
      /\ idle_since_upload' \in BOOLEAN /\ idle_since_estop' \in BOOLEAN
      /\ phase' \in Phases /\ (conn' <=> phase' # "Disconnected")
      /\ job' \in OwnPhases \cup {"none"}
      /\ job' # "none" => phase' \in OwnPhases \cup {"RecoveryRequired"}
  BY <1>1, <1>2, RuntimeTypes
<1>7. estop_job' \in BOOLEAN
  BY <1>1
<1> QED
  BY <1>1, <1>2, <1>3, <1>4, <1>5, <1>6, <1>7, ProgramStep

\* An Emergency Stop with no job to stop ends where it began to wait.
LEMMA EmergencyStopEnds ==
  ASSUME RuntimeInv, EmergencyStopTooLate \/ EmergencyStopIdle
  PROVE  RuntimeInv' /\ (EmergencyStopIdle /\ estop_job => idle_since_estop')
<1>1. /\ estop /\ estop' = FALSE /\ op = NoOp
      /\ UNCHANGED <<machineVars, hands, faults, conn, endpoint, phase, op, counts, seen>>
      /\ \/ UNCHANGED <<job, polls_failing>>
         \/ job' = "none" /\ polls_failing' = FALSE
  BY DEF EmergencyStopTooLate, EmergencyStopIdle, JobOver
<1>2. UNCHANGED <<machine, ours, ran, halting, cut, idle_since_upload, idle_since_estop,
                  estop_job>>
  BY <1>1 DEF machineVars, seen
<1>3. OpInv' /\ MachineInv' /\ SeenInv'
  <2>1. OpInv'
    BY <1>1, NoOpType DEF OpInv, NoOp
  <2>2. MachineInv'
    BY <1>1, <1>2, RuntimeTypes DEF MachineInv
  <2>3. SeenInv'
    BY <1>1, <1>2, RuntimeTypes DEF SeenInv
  <2> QED
    BY <2>1, <2>2, <2>3
<1>4. starts' \in 0..MaxStarts /\ presses' \in 0..MaxPresses
  BY <1>1, PressCounted
<1>5. /\ machine' \in Statuses /\ faults' \in 0..MaxFaults /\ halting' \in BOOLEAN
      /\ cut' \in BOOLEAN /\ ours' \in BOOLEAN /\ ran' \in BOOLEAN /\ estop' \in BOOLEAN
      /\ estop_job' \in BOOLEAN /\ conn' \in BOOLEAN /\ endpoint' \in BOOLEAN
      /\ idle_since_upload' \in BOOLEAN /\ idle_since_estop' \in BOOLEAN
      /\ phase' \in Phases /\ (conn' <=> phase' # "Disconnected")
  BY <1>1, <1>2, RuntimeTypes
<1>6. /\ polls_failing' \in BOOLEAN /\ job' \in OwnPhases \cup {"none"}
      /\ job' # "none" => phase' \in OwnPhases \cup {"RecoveryRequired"}
  BY <1>1, RuntimeTypes
<1>7. RuntimeInv'
  BY <1>1, <1>3, <1>4, <1>5, <1>6, ProgramStep
<1>8. ASSUME EmergencyStopIdle, estop_job PROVE idle_since_estop'
  BY <1>1, <1>2, <1>8, RuntimeTypes DEF EmergencyStopIdle, SeenInv
<1> QED
  BY <1>7, <1>8

(***************************************************************************)
(* The specification.                                                      *)
(***************************************************************************)

\* Nobody is connected and nothing was sent.
LEMMA RuntimeInit == Init => RuntimeInv
<1> SUFFICES ASSUME Init PROVE RuntimeInv
  OBVIOUS
<1>1. 0 \in 0..MaxHands /\ 0 \in 0..MaxFaults /\ 0 \in 0..MaxStarts /\ 0 \in 0..MaxPresses
      /\ 0 \in 0..STOP_CONFIRM_ATTEMPTS
  BY XToolM1Assumption
<1>2. TypeOK
  BY <1>1 DEF Init, TypeOK, Statuses, Idle, STOPPABLE_PHASES, OverPhases, OwnPhases, NoOp
<1>3. OpInv
  BY NoOpType DEF Init, OpInv, NoOp
<1>4. MachineInv /\ SeenInv
  BY DEF Init, MachineInv, SeenInv, OwnPhases, OverPhases
<1> QED
  BY <1>2, <1>3, <1>4 DEF RuntimeInv

\* Every step keeps the invariant; the two endings a user is told of are what they say.
LEMMA RuntimeStep ==
  ASSUME RuntimeInv, [Next]_vars
  PROVE  /\ RuntimeInv'
         /\ Completes => ran \/ cut
         /\ EmergencyStopSucceeds /\ estop_job => idle_since_estop'
         /\ Upload => idle_since_upload
<1>1. Upload => idle_since_upload
  BY UploadKeeps
<1>2. EmergencyStopIdle /\ estop_job => idle_since_estop'
  BY EmergencyStopEnds
<1>3. op.kind = "estop" => op # NoOp
  BY DEF NoOp
<1>4. CASE MachineStep
  <2>1. UNCHANGED <<phase, op>>
    BY <1>4 DEF MachineStep, ButtonStarts, LidOpensOrCloses, ButtonStops, PowerCycles,
                UsedByOthers, Finishes, Halts, ByHand, Machine
  <2> QED
    BY <1>1, <1>2, <1>3, <1>4, <2>1, MachineMoves DEF Completes, EmergencyStopSucceeds
<1>5. CASE Tick
  <2>1. op = NoOp
    BY <1>5 DEF Tick
  <2> QED
    BY <1>1, <1>2, <1>3, <1>5, <2>1, TickKeeps DEF EmergencyStopSucceeds
<1>6. CASE Connect
  <2>1. ~conn /\ UNCHANGED op
    BY <1>6 DEF Connect
  <2>2. job = "none"
    BY <2>1, RuntimeTypes, PhasesDiffer
  <2> QED
    BY <1>1, <1>2, <1>3, <1>6, <2>1, <2>2, ConnectKeeps DEF Completes, EmergencyStopSucceeds
<1>7. CASE Disconnect
  <2>1. op = NoOp /\ phase' = "Disconnected"
    BY <1>7 DEF Disconnect, Dropped
  <2> QED
    BY <1>1, <1>2, <1>3, <1>7, <2>1, DisconnectKeeps DEF Completes, EmergencyStopSucceeds
<1>8. CASE Start
  <2>1. op = NoOp /\ UNCHANGED phase
    BY <1>8 DEF Start
  <2> QED
    BY <1>1, <1>2, <1>3, <1>8, <2>1, StartKeeps DEF Completes, EmergencyStopSucceeds
<1>9. CASE Upload
  <2>1. op.kind = "upload" /\ phase' \in {"ReadyToRun", "RecoveryRequired"}
    BY <1>9 DEF Upload
  <2> QED
    BY <1>1, <1>2, <1>9, <2>1, UploadKeeps DEF Completes, EmergencyStopSucceeds
<1>10. CASE Pause \/ Resume
  <2>1. /\ op = NoOp
        /\ \/ Asks("pause", "Running", "Paused")
           \/ Asks("start", "Paused", "Running")
    BY <1>10 DEF Pause, Resume, Asks
  <2>2. RuntimeInv'
    BY <2>1, AskKeeps, PhasesDiffer
  <2>3. phase' # "Completed" \/ phase' = phase
    BY <1>10 DEF Pause, Resume, Asks
  <2> QED
    BY <1>1, <1>2, <1>3, <2>1, <2>2, <2>3 DEF Completes, EmergencyStopSucceeds
<1>11. CASE Cancel
  <2>1. /\ job # "none" /\ op = NoOp /\ Press /\ SendsStop("cancel")
        /\ UNCHANGED <<hands, endpoint, estop>>
    BY <1>11 DEF Cancel, Session
  <2>2. conn /\ "cancel" \in StopKinds /\ estop' \in BOOLEAN
    BY <2>1, RuntimeTypes, PhasesDiffer DEF StopKinds
  <2>3. RuntimeInv' /\ ~Completes
    BY <2>1, <2>2, SendsStopKeeps
  <2> QED
    BY <1>1, <1>2, <1>3, <2>1, <2>3 DEF EmergencyStopSucceeds
<1>12. CASE Shutdown
  <2>1. op = NoOp
    BY <1>12 DEF Shutdown
  <2> QED
    BY <1>1, <1>2, <1>3, <1>12, <2>1, ShutdownKeeps DEF EmergencyStopSucceeds
<1>13. CASE ConfirmsStop
  BY <1>1, <1>2, <1>13, ConfirmsStopKeeps DEF EmergencyStopSucceeds
<1>14. CASE EmergencyStop
  <2>1. UNCHANGED <<op, phase>>
    BY <1>14 DEF EmergencyStop
  <2> QED
    BY <1>1, <1>2, <1>3, <1>14, <2>1, EmergencyStopKeeps DEF Completes, EmergencyStopSucceeds
<1>15. CASE EmergencyStopTooLate \/ EmergencyStopIdle
  <2>1. op = NoOp /\ UNCHANGED phase
    BY <1>15 DEF EmergencyStopTooLate, EmergencyStopIdle
  <2> QED
    BY <1>1, <1>2, <1>3, <1>15, <2>1, EmergencyStopEnds DEF Completes, EmergencyStopSucceeds
<1>16. CASE EmergencyStopSends
  <2>1. /\ conn /\ op = NoOp /\ estop' = FALSE /\ SendsStop("estop")
        /\ UNCHANGED <<hands, endpoint, counts>> /\ "estop" \in StopKinds
    BY <1>16 DEF EmergencyStopSends, StopKinds
  <2>2. RuntimeInv' /\ ~Completes
    BY <2>1, SendsStopKeeps
  <2> QED
    BY <1>1, <1>2, <1>3, <2>1, <2>2 DEF EmergencyStopSucceeds
<1>17. CASE UNCHANGED vars
  <2>1. UNCHANGED <<machine, ours, ran, halting, cut, hands, faults, conn, endpoint, phase, job,
                    polls_failing, op, estop, starts, presses, idle_since_upload,
                    idle_since_estop, estop_job>>
    BY <1>17 DEF vars, machineVars, counts, seen
  <2>2. RuntimeInv'
    BY <2>1 DEF RuntimeInv, TypeOK, OpInv, MachineInv, SeenInv
  <2> QED
    BY <1>1, <1>2, <1>3, <2>1, <2>2 DEF Completes, EmergencyStopSucceeds
<1> QED
  BY <1>4, <1>5, <1>6, <1>7, <1>8, <1>9, <1>10, <1>11, <1>12, <1>13, <1>14, <1>15, <1>16,
     <1>17 DEF Next

\* The invariant holds in every behaviour.
LEMMA RuntimeInvariant == Spec => []RuntimeInv
<1>1. RuntimeInv /\ [Next]_vars => RuntimeInv'
  BY RuntimeStep
<1> QED
  BY <1>1, RuntimeInit, PTL DEF Spec

\* Every variable keeps its type, and a session its phase and its job.
THEOREM M1TypeCorrect == Spec => []TypeOK
<1>1. RuntimeInv => TypeOK
  BY DEF RuntimeInv
<1> QED
  BY <1>1, RuntimeInvariant, PTL

\* A job that is reported Completed was run whole by the machine, or cut short by a stop
\* or the machine's button, whatever requests were lost (poll, runtime.rs).
THEOREM CompletedWasRun == Spec => CompletedMeansRan
<1>1. RuntimeInv /\ [Next]_vars => [Completes => ran \/ cut]_vars
  BY RuntimeStep
<1> QED
  BY <1>1, RuntimeInvariant, PTL DEF Spec, CompletedMeansRan

\* An Emergency Stop that began with a job and reports success has seen the machine idle
\* since (emergency_stop, runtime.rs and machine.rs).
THEOREM StopWasConfirmed == Spec => StopIsConfirmed
<1>1. RuntimeInv /\ [Next]_vars => [EmergencyStopSucceeds /\ estop_job => idle_since_estop']_vars
  BY RuntimeStep
<1> QED
  BY <1>1, RuntimeInvariant, PTL DEF Spec, StopIsConfirmed

\* No file is sent to a machine that was not seen idle since the last one (upload,
\* runtime.rs).
THEOREM UploadsFindIdleMachine == Spec => NoUploadOverJob
<1>1. RuntimeInv /\ [Next]_vars => [Upload => idle_since_upload]_vars
  BY RuntimeStep
<1> QED
  BY <1>1, RuntimeInvariant, PTL DEF Spec, NoUploadOverJob

=============================================================================
