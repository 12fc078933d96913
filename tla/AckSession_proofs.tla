-------------------------- MODULE AckSession_proofs --------------------------
(***************************************************************************)
(* What the acknowledged drivers guarantee for every job, every dialect,   *)
(* every planner and every fault: exact accounts, halted failures, and a   *)
(* completion that means what it says.                                     *)
(***************************************************************************)
EXTENDS AckSession, SequenceTheorems, TLAPS

(***************************************************************************)
(* Types.                                                                  *)
(***************************************************************************)

LEMMA ConstantType ==
  /\ PlannerCap \in Nat \ {0} /\ MaxFaults \in Nat
  /\ MAX_LINES_PER_TICK \in Nat \ {0} /\ ConfigQueries \in Nat
  /\ MaxConnects \in Nat /\ MaxStarts \in Nat /\ MaxStops \in Nat
  BY LineControllerAssumption, AckSessionAssumption

Flow == [commands : Jobs \cup {<<>>}, next_index : Nat, acknowledged_lines : Nat,
         in_flight : BOOLEAN, cancelled : BOOLEAN, failed : BOOLEAN]

\* What an operation makes of the flow is a flow.
LEMMA FlowType ==
  /\ NoFlow \in Flow
  /\ \A commands \in Jobs : NewFlow(commands) \in Flow
  /\ flow \in Flow => MarkSent \in Flow /\ Acknowledge \in Flow /\ Failed \in Flow
  /\ \A f \in Flow : Cancelled(f) \in Flow
<1>1. NoFlow \in Flow
  BY DEF NoFlow, Flow
<1>2. \A commands \in Jobs : NewFlow(commands) \in Flow
  BY DEF NoFlow, NewFlow, Flow
<1>3. ASSUME flow \in Flow PROVE MarkSent \in Flow /\ Acknowledge \in Flow /\ Failed \in Flow
  <2>0. flow.next_index + 1 \in Nat /\ flow.acknowledged_lines + 1 \in Nat
    BY <1>3 DEF Flow
  <2>1. MarkSent \in Flow
    BY <1>3, <2>0, Zenon DEF MarkSent, Flow
  <2>2. Acknowledge \in Flow
    BY <1>3, <2>0, Zenon DEF Acknowledge, Flow
  <2>3. Failed \in Flow
    BY <1>3 DEF Failed, Flow
  <2> QED
    BY <2>1, <2>2, <2>3
<1>4. \A f \in Flow : Cancelled(f) \in Flow
  BY <1>1 DEF Cancelled, Flow
<1> QED
  BY <1>1, <1>2, <1>3, <1>4

\* The lines of a job are commands.
LEMMA LineType ==
  ASSUME TypeOK, LineReady
  PROVE  flow.commands[flow.next_index + 1] \in JobLine
<1>1. flow.commands \in Seq(JobLine) /\ flow.next_index + 1 \in 1..Len(flow.commands)
  BY AckSessionAssumption DEF TypeOK, LineReady, Total
<1> QED
  BY <1>1, ElementOfSeq

\* What is written arrives at the end of what the machine has to read.
LEMMA SendType ==
  ASSUME to_ctl \in Seq(Command), NEW command \in Command, Send(command) \/ TrySend(command)
  PROVE  to_ctl' \in Seq(Command)
  BY AppendProperties DEF Send, TrySend

LEMMA TypeInit == Init => TypeOK
<1> SUFFICES ASSUME Init PROVE TypeOK
  OBVIOUS
<1>1. beam \in BOOLEAN /\ halted \in BOOLEAN
  BY Zenon DEF Init, ControllerInit
<1>2. job \in BOOLEAN /\ progressed \in BOOLEAN /\ expired \in BOOLEAN
  BY Zenon DEF Init
<1>3. ControllerTypeOK
  BY <1>1, ConstantType, Len(<<>>) = 0 DEF Init, ControllerInit, ControllerTypeOK
<1>4. flow \in Flow /\ probe \in Probe
  BY FlowType DEF Init, NoProbe, Probe
<1> QED
  BY <1>2, <1>3, <1>4, ConstantType DEF Init, TypeOK, Flow

LEMMA TypeMachine == TypeOK /\ MachineStep => TypeOK'
<1> SUFFICES ASSUME TypeOK, MachineStep PROVE TypeOK'
  OBVIOUS
<1> USE DEF TypeOK, ControllerTypeOK, ctlVars
<1>1. UNCHANGED <<sesVars, counts>>
  BY DEF MachineStep
<1>2. ControllerTypeOK'
  <2>1. ASSUME Accept, CanTake
        PROVE  /\ to_ctl' \in Seq(Command) /\ planner' \in Seq(JobLine)
               /\ Len(planner') <= PlannerCap
               /\ UNCHANGED <<dialect, beam, halted, link>>
    <3>1. to_ctl # <<>> /\ to_ctl' = Tail(to_ctl) /\ UNCHANGED <<dialect, beam, halted, link>>
      BY <2>1 DEF Accept, CanTake
    <3>2. to_ctl' \in Seq(Command)
      BY <3>1, HeadTailProperties
    <3>3. CASE Head(to_ctl) \in JobLine \ {"M400"}
      <4>1. planner' = Append(planner, Head(to_ctl)) /\ Len(planner) < PlannerCap
        BY <2>1, <3>3 DEF Accept, CanTake
      <4>2. Len(planner) \in Nat
        BY LenProperties
      <4> QED
        BY <3>1, <3>2, <3>3, <4>1, <4>2, ConstantType, AppendProperties
    <3>4. CASE Head(to_ctl) \notin JobLine \ {"M400"}
      BY <2>1, <3>1, <3>2, <3>4 DEF Accept
    <3> QED
      BY <3>3, <3>4
  <2>2. CASE Take
    <3>1. from_ctl' \in Seq(Reply)
      <4>1. \A r \in {<<"info", "ok">>, <<"ok">>} : r \in Seq(Reply)
        <5>1. <<"info">> \in Seq(Reply) /\ <<"ok">> \in Seq(Reply)
          BY DEF Reply
        <5>2. <<"info", "ok">> = <<"info">> \o <<"ok">>
          OBVIOUS
        <5>3. <<"info">> \o <<"ok">> \in Seq(Reply)
          BY <5>1, ConcatProperties
        <5>4. <<"info", "ok">> \in Seq(Reply)
          BY <5>2, <5>3
        <5> QED
          BY <5>1, <5>4
      <4> QED
        BY <2>2, <4>1, ConcatProperties DEF Take
    <3> QED
      BY <2>1, <2>2, <3>1 DEF Take
  <2>3. CASE TakeLosingReply
    BY <2>1, <2>3, ConstantType DEF TakeLosingReply, Fault
  <2>4. CASE Refuse
    <3>1. from_ctl' \in Seq(Reply) /\ faults' \in 0..MaxFaults
      BY <2>4, ConstantType, AppendProperties DEF Refuse, Fault, Reply
    <3>2. to_ctl' \in Seq(Command)
      BY <2>4, HeadTailProperties DEF Refuse, CanTake
    <3> QED
      BY <2>4, <3>1, <3>2 DEF Refuse
  <2>5. CASE SayBusy
    BY <2>5 DEF SayBusy, Reply
  <2>6. CASE Execute
    <3>1. planner' \in Seq(JobLine) /\ Len(planner') <= PlannerCap
      BY <2>6, ConstantType, HeadTailProperties, LenProperties DEF Execute
    <3>2. beam' \in BOOLEAN
      BY <2>6 DEF Execute
    <3> QED
      BY <2>6, <3>1, <3>2 DEF Execute
  <2>7. CASE Halt
    <3>1. to_ctl' = <<>> /\ planner' = <<>> /\ UNCHANGED <<dialect, from_ctl, link, faults>>
      BY <2>7 DEF Halt
    <3>2. beam' \in BOOLEAN /\ halted' \in BOOLEAN
      BY <2>7, Zenon DEF Halt
    <3> QED
      BY <3>1, <3>2, ConstantType, Len(<<>>) = 0
  <2>8. CASE BreakLink
    BY <2>8, ConstantType DEF BreakLink, Fault
  <2> QED
    BY <2>2, <2>3, <2>4, <2>5, <2>6, <2>7, <2>8 DEF MachineStep, ControllerStep
<1> QED
  BY <1>1, <1>2 DEF sesVars, counts

\* What the session keeps apart from its flow and its counters is well typed.
LEMMA FailTickType ==
  ASSUME TypeOK, NEW f \in Flow, FailTick(f)
  PROVE  /\ flow' \in Flow /\ to_ctl' \in Seq(Command)
         /\ state' = "RecoveryRequired" /\ outcome' = "FailedRecoveryRequired"
         /\ pc' = "idle" /\ job' \in BOOLEAN /\ expired' \in BOOLEAN
<1>1. "M112" \in Command
  BY DEF Command
<1>2. to_ctl' \in Seq(Command)
  BY <1>1, SendType DEF FailTick, TypeOK, ControllerTypeOK
<1>3. job' \in BOOLEAN /\ expired' \in BOOLEAN
  BY Zenon DEF FailTick
<1> QED
  BY <1>2, <1>3, FlowType DEF FailTick

LEMMA ReadType ==
  ASSUME TypeOK, NEW reply \in Reply, Read(reply)
  PROVE  from_ctl' \in Seq(Reply)
  BY HeadTailProperties DEF Read, TypeOK, ControllerTypeOK

LEMMA ShutDownType ==
  ASSUME TypeOK, ShutDown
  PROVE  /\ flow' \in Flow /\ to_ctl' \in Seq(Command) /\ expired' \in BOOLEAN
         /\ outcome' \in {"CancelCommandSentRecoveryRequired", "FailedRecoveryRequired"}
<1>1. "M112" \in Command
  BY DEF Command
<1>2. to_ctl' \in Seq(Command)
  BY <1>1, SendType DEF ShutDown, TypeOK, ControllerTypeOK
<1>3. expired' \in BOOLEAN
  BY Zenon DEF ShutDown
<1> QED
  BY <1>2, <1>3, FlowType DEF ShutDown, TypeOK, Flow

\* What TypeOK says of the variables of the service's side.
SessionTypeOK ==
  /\ state \in {"Disconnected", "Validating", "Ready", "Running",
                "RecoveryRequired", "Error"}
  /\ probe \in Probe
  /\ flow \in Flow
  /\ outcome \in {"none", "Completed", "CancelCommandSentRecoveryRequired",
                  "FailedRecoveryRequired"}
  /\ pc \in {"idle", "probe", "send", "read"}
  /\ queries \in 0..(1 + ConfigQueries)
  /\ sent \in 0..MAX_LINES_PER_TICK

FlagsOK == job \in BOOLEAN /\ progressed \in BOOLEAN /\ expired \in BOOLEAN

CountsOK == connects \in 0..MaxConnects /\ starts \in 0..MaxStarts /\ stops \in 0..MaxStops

LEMMA TypeParts == TypeOK <=> ControllerTypeOK /\ SessionTypeOK /\ FlagsOK /\ CountsOK
<1>1. TypeOK => ControllerTypeOK /\ SessionTypeOK /\ FlagsOK /\ CountsOK
  BY DEF TypeOK, SessionTypeOK, FlagsOK, CountsOK, Flow
<1>2. ControllerTypeOK /\ SessionTypeOK /\ FlagsOK /\ CountsOK => TypeOK
  BY DEF TypeOK, SessionTypeOK, FlagsOK, CountsOK, Flow
<1> QED
  BY <1>1, <1>2

HostStep == ConnectionStep \/ StartJob \/ TickStep \/ StopStep \/ Expire

LEMMA TypeCounts == TypeOK /\ HostStep => CountsOK'
<1> SUFFICES ASSUME TypeOK, HostStep PROVE CountsOK'
  OBVIOUS
<1>1. /\ connects' \in {connects, connects + 1} /\ connects' <= MaxConnects
      /\ starts' \in {starts, starts + 1} /\ starts' <= MaxStarts
      /\ stops' \in {stops, stops + 1} /\ stops' <= MaxStops
  <2> USE ConstantType DEF TypeOK, counts
  <2>1. CASE ConnectionStep
    BY <2>1 DEF ConnectionStep, Connect, ConnectFails, ProbeIdentity, ProbeRead, ProbeEnds,
                Activate, DropFailedConnection
  <2>2. CASE StartJob
    BY <2>2 DEF StartJob
  <2>3. CASE TickStep
    BY <2>3 DEF TickStep, TickBegins, TickSends, TickReads, TickCannotRead, TickTurns
  <2>4. CASE StopStep
    BY <2>4 DEF StopStep, CancelJob, EmergencyStop, Disconnect, Stop
  <2>5. CASE Expire
    BY <2>5 DEF Expire
  <2> QED
    BY <2>1, <2>2, <2>3, <2>4, <2>5 DEF HostStep
<1> QED
  BY <1>1, ConstantType DEF CountsOK, TypeOK

LEMMA TypeConnection == TypeOK /\ ConnectionStep =>
                          ControllerTypeOK' /\ SessionTypeOK' /\ FlagsOK'
<1> SUFFICES ASSUME TypeOK, ConnectionStep
             PROVE  ControllerTypeOK' /\ SessionTypeOK' /\ FlagsOK'
  OBVIOUS
<1> USE TypeParts, ConstantType DEF SessionTypeOK, ControllerTypeOK, FlagsOK, ctlVars
<1>0. "M115" \in Command
  BY DEF Command
<1>1. CASE Connect
  <2>1. NoFlow \in Flow /\ NoProbe \in Probe
    BY FlowType DEF NoProbe, Probe
  <2>2. SessionTypeOK'
    BY <1>1, <2>1 DEF Connect
  <2>3. beam' \in BOOLEAN /\ halted' \in BOOLEAN /\ expired' \in BOOLEAN
    BY <1>1, Zenon DEF Connect
  <2>4. /\ to_ctl' \in Seq(Command) /\ from_ctl' \in Seq(Reply)
        /\ planner' \in Seq(JobLine) /\ Len(planner') <= PlannerCap
    <3>1. /\ to_ctl' = <<>> \/ to_ctl' = to_ctl
          /\ from_ctl' = <<>> \/ from_ctl' = from_ctl
          /\ planner' = <<>> \/ planner' = planner
      BY <1>1 DEF Connect, wires
    <3>2. /\ <<>> \in Seq(Command) /\ <<>> \in Seq(Reply) /\ <<>> \in Seq(JobLine)
          /\ Len(<<>>) = 0
      OBVIOUS
    <3>3. to_ctl' \in Seq(Command)
      BY <3>1, <3>2
    <3>4. from_ctl' \in Seq(Reply)
      BY <3>1, <3>2
    <3>5. planner' \in Seq(JobLine) /\ Len(planner') <= PlannerCap
      <4>1. CASE planner' = <<>>
        BY <3>2, <4>1
      <4>2. CASE planner' = planner
        BY <4>2
      <4> QED
        BY <3>1, <4>1, <4>2
    <3> QED
      BY <3>3, <3>4, <3>5
  <2>5. UNCHANGED <<dialect, faults>> /\ link' = "up"
    BY <1>1 DEF Connect
  <2>6. ControllerTypeOK'
    BY <2>3, <2>4, <2>5
  <2> QED
    BY <1>1, <2>2, <2>3, <2>6 DEF Connect
<1>2. CASE ConnectFails
  BY <1>2 DEF ConnectFails, Fault, wires, machine
<1>3. CASE ProbeIdentity
  <2>1. to_ctl' \in Seq(Command)
    BY <1>0, <1>3, SendType DEF ProbeIdentity
  <2>2. queries' \in 0..(1 + ConfigQueries) /\ pc' \in {pc, "probe"} /\ state' \in {state, "Error"}
    BY <1>3 DEF ProbeIdentity
  <2> QED
    BY <1>3, <2>1, <2>2 DEF ProbeIdentity, machine
<1>4. CASE ProbeRead
  <2>1. PICK reply \in Reply : Read(reply)
    BY <1>4 DEF ProbeRead
  <2>2. from_ctl' \in Seq(Reply)
    BY <2>1, ReadType
  <2>3. to_ctl' \in Seq(Command)
    BY <1>0, <1>4, SendType DEF ProbeRead
  <2>4. probe' \in Probe
    <3>1. probe.identified \in BOOLEAN /\ probe.outcome \in {"none", "succeeded", "failed"}
      BY DEF Probe
    <3>2. \A b \in BOOLEAN : [probe EXCEPT !.identified = b] \in Probe
      BY <3>1 DEF Probe
    <3>3. \A o \in {"succeeded", "failed"} : [probe EXCEPT !.outcome = o] \in Probe
      BY <3>1 DEF Probe
    <3>4. \A o \in {"succeeded", "failed"} : EndProbe(o) => probe' \in Probe
      BY <3>3 DEF EndProbe
    <3>5. ASSUME NEW r \in Reply, probe' = [probe EXCEPT !.identified = @ \/ r = "info"]
          PROVE  probe' \in Probe
      BY <3>1, <3>2, <3>5
    <3> QED
      BY <1>4, <3>4, <3>5 DEF ProbeRead
  <2>5. /\ state' \in {state, "Error"} /\ pc' \in {pc, "idle"}
        /\ queries' \in 0..(1 + ConfigQueries)
    BY <1>4 DEF ProbeRead, EndProbe
  <2> QED
    BY <1>4, <2>2, <2>3, <2>4, <2>5 DEF ProbeRead, machine
<1>5. CASE ProbeEnds
  <2>1. probe' \in Probe
    BY <1>5 DEF ProbeEnds, EndProbe, Probe
  <2>2. /\ state' \in {state, "Error"} /\ pc' = "idle" /\ queries' = 0
    BY <1>5 DEF ProbeEnds, EndProbe
  <2> QED
    BY <1>5, <2>1, <2>2 DEF ProbeEnds, wires, machine
<1>6. CASE Activate
  <2>1. NoFlow \in Flow /\ NoProbe \in Probe
    BY FlowType DEF NoProbe, Probe
  <2> QED
    BY <1>6, <2>1 DEF Activate
<1>7. CASE DropFailedConnection
  BY <1>7 DEF DropFailedConnection
<1> QED
  BY <1>1, <1>2, <1>3, <1>4, <1>5, <1>6, <1>7 DEF ConnectionStep

LEMMA TypeTick == TypeOK /\ TickStep => ControllerTypeOK' /\ SessionTypeOK' /\ FlagsOK'
<1> SUFFICES ASSUME TypeOK, TickStep
             PROVE  ControllerTypeOK' /\ SessionTypeOK' /\ FlagsOK'
  OBVIOUS
<1> USE TypeParts, ConstantType DEF SessionTypeOK, ControllerTypeOK, FlagsOK, ctlVars
<1>0. Failed \in Flow /\ flow \in Flow
  BY FlowType
<1>1. CASE TickBegins
  <2>1. CASE state = "Running" /\ expired
    <3>1. FailTick(Failed)
      BY <1>1, <2>1 DEF TickBegins
    <3>2. progressed' \in BOOLEAN
      BY <1>1, Zenon DEF TickBegins
    <3> QED
      BY <1>0, <1>1, <3>1, <3>2, FailTickType DEF TickBegins, machine
  <2>2. CASE ~(state = "Running" /\ expired)
    <3>1. progressed' \in BOOLEAN /\ job' \in BOOLEAN
      BY <1>1, <2>2, Zenon DEF TickBegins
    <3>2. UNCHANGED <<to_ctl, state, flow, outcome, expired>> /\ pc' \in {pc, "send"}
      BY <1>1, <2>2 DEF TickBegins
    <3> QED
      BY <1>1, <3>1, <3>2 DEF TickBegins, machine
  <2> QED
    BY <2>1, <2>2
<1>2. CASE TickSends
  <2>1. CASE Sends /\ link = "down"
    BY <1>0, <1>2, <2>1, FailTickType DEF TickSends, machine
  <2>2. CASE Sends /\ link # "down"
    <3>1. flow.commands[flow.next_index + 1] \in Command
      BY <2>2, LineType DEF Sends, Command
    <3>2. to_ctl' \in Seq(Command)
      BY <1>2, <2>2, <3>1, SendType DEF TickSends
    <3>3. sent' \in 0..MAX_LINES_PER_TICK /\ flow' \in Flow /\ pc' = "read"
          /\ UNCHANGED <<state, outcome, job>>
      BY <1>2, <2>2, FlowType DEF TickSends, Sends
    <3>4. progressed' \in BOOLEAN /\ expired' \in BOOLEAN
      <4>1. progressed' = Sends /\ expired' = FALSE
        BY <1>2, <2>2, Zenon DEF TickSends
      <4> QED
        BY <2>2, <4>1, Zenon
    <3> QED
      BY <1>2, <3>2, <3>3, <3>4 DEF TickSends, machine
  <2>3. CASE ~Sends
    <3>1. progressed' \in BOOLEAN
      <4>1. progressed' = Sends
        BY <1>2, <2>3, Zenon DEF TickSends
      <4>2. Sends = FALSE
        BY <2>3
      <4> QED
        BY <4>1, <4>2, Zenon
    <3> QED
      BY <1>2, <2>3, <3>1 DEF TickSends, machine
  <2> QED
    BY <2>1, <2>2, <2>3
<1>3. CASE TickReads
  <2>1. PICK reply \in Reply :
          /\ Read(reply)
          /\ IF Rejects(reply)
             THEN FailTick(Failed) /\ UNCHANGED progressed
             ELSE /\ flow' = IF reply = "ok" THEN Acknowledge ELSE flow
                  /\ expired' = (expired /\ reply \notin {"ok", "busy"})
                  /\ progressed' = TRUE
                  /\ UNCHANGED <<to_ctl, state, outcome, pc, job>>
    BY <1>3 DEF TickReads
  <2>2. from_ctl' \in Seq(Reply)
    BY <2>1, ReadType
  <2>3. CASE Rejects(reply)
    BY <1>0, <1>3, <2>1, <2>2, <2>3, FailTickType DEF TickReads, machine
  <2>4. CASE ~Rejects(reply)
    <3>1. expired' \in BOOLEAN /\ progressed' \in BOOLEAN
      BY <2>1, <2>4, Zenon
    <3>2. flow' \in Flow /\ UNCHANGED <<to_ctl, state, outcome, pc, job>>
      BY <1>0, <2>1, <2>4, FlowType
    <3> QED
      BY <1>3, <2>2, <3>1, <3>2 DEF TickReads, machine
  <2> QED
    BY <2>3, <2>4
<1>4. CASE TickCannotRead
  BY <1>0, <1>4, FailTickType DEF TickCannotRead, machine
<1>5. CASE TickTurns
  <2>1. job' \in BOOLEAN
    BY <1>5, Zenon DEF TickTurns
  <2>2. state' \in {state, "Ready"} /\ outcome' \in {outcome, "Completed"} /\ pc' \in {"send", "idle"}
    BY <1>5 DEF TickTurns
  <2> QED
    BY <1>5, <2>1, <2>2 DEF TickTurns
<1> QED
  BY <1>1, <1>2, <1>3, <1>4, <1>5 DEF TickStep

LEMMA TypeOthers == TypeOK /\ (StartJob \/ StopStep \/ Expire) =>
                      ControllerTypeOK' /\ SessionTypeOK' /\ FlagsOK'
<1> SUFFICES ASSUME TypeOK, StartJob \/ StopStep \/ Expire
             PROVE  ControllerTypeOK' /\ SessionTypeOK' /\ FlagsOK'
  OBVIOUS
<1> USE TypeParts, ConstantType DEF SessionTypeOK, ControllerTypeOK, FlagsOK, ctlVars
<1>0. NoFlow \in Flow /\ NoProbe \in Probe
  BY FlowType DEF NoProbe, Probe
<1>1. CASE StartJob
  <2>1. job' \in BOOLEAN /\ expired' \in BOOLEAN
    BY <1>1, Zenon DEF StartJob
  <2>2. flow' \in Flow
    BY <1>1, FlowType DEF StartJob
  <2> QED
    BY <1>1, <2>1, <2>2 DEF StartJob, wires, machine
<1>2. CASE CancelJob
  <2>1. job' \in BOOLEAN
    <3>1. job' = (link = "down") \/ job' = job
      BY <1>2, Zenon DEF CancelJob
    <3> QED
      BY <3>1, Zenon
  <2>2. CASE state = "Running"
    BY <1>2, <2>1, <2>2, ShutDownType DEF CancelJob, machine
  <2>3. CASE state # "Running"
    BY <1>2, <2>1, <2>3 DEF CancelJob, machine
  <2> QED
    BY <2>2, <2>3
<1>3. CASE EmergencyStop
  <2>1. job' \in BOOLEAN
    BY <1>3, Zenon DEF EmergencyStop
  <2>2. state' \in {"RecoveryRequired", "Disconnected"} /\ probe' \in {probe, NoProbe}
    BY <1>3 DEF EmergencyStop
  <2> QED
    BY <1>0, <1>3, <2>1, <2>2, ShutDownType DEF EmergencyStop, machine
<1>4. CASE Disconnect
  <2>1. job' \in BOOLEAN
    BY <1>4, Zenon DEF Disconnect
  <2>2. CASE job
    BY <1>0, <1>4, <2>1, <2>2, ShutDownType DEF Disconnect, machine
  <2>3. CASE ~job
    BY <1>0, <1>4, <2>1, <2>3 DEF Disconnect, machine
  <2> QED
    BY <2>2, <2>3
<1>5. CASE Expire
  <2>1. expired' \in BOOLEAN
    BY <1>5, Zenon DEF Expire
  <2> QED
    BY <1>5, <2>1 DEF Expire
<1> QED
  BY <1>1, <1>2, <1>3, <1>4, <1>5 DEF StopStep

LEMMA TypeStep == TypeOK /\ [Next]_vars => TypeOK'
<1> SUFFICES ASSUME TypeOK, [Next]_vars PROVE TypeOK'
  OBVIOUS
<1>1. CASE HostStep
  <2>1. ControllerTypeOK' /\ SessionTypeOK' /\ FlagsOK' /\ CountsOK'
    BY <1>1, TypeCounts, TypeConnection, TypeTick, TypeOthers DEF HostStep
  <2> QED
    BY <2>1 DEF TypeOK, SessionTypeOK, FlagsOK, CountsOK, Flow
<1>2. CASE MachineStep
  BY <1>2, TypeMachine
<1>3. CASE UNCHANGED vars
  BY <1>3 DEF vars, ctlVars, sesVars, counts, TypeOK, ControllerTypeOK
<1> QED
  BY <1>1, <1>2, <1>3 DEF Next, HostStep, Quiescent

\* Whatever the jobs, the dialect and the faults, the session and its flow are well
\* typed (MarlinSerialSession, SmoothiewareSerialSession, AcknowledgedLineFlow).
THEOREM TypeCorrect == Spec => []TypeOK
  BY TypeInit, TypeStep, PTL DEF Spec

(***************************************************************************)
(* The session and the flow.                                               *)
(***************************************************************************)

\* A session that runs has a job, is not cancelled or failed, and its flow stands
\* where the sent lines say; a tick or a probe is under way only where it may be.
SessionInv ==
  /\ pc \in {"send", "read"} => state = "Running"
  /\ pc = "probe" => state = "Validating"
  /\ state = "Running" =>
       /\ job
       /\ ~flow.cancelled /\ ~flow.failed
       /\ Contract(flow.commands)
       /\ flow.next_index <= Total
       /\ flow.next_index = flow.acknowledged_lines + (IF flow.in_flight THEN 1 ELSE 0)
  /\ state = "Validating" => outcome = "none"

LEMMA SessionInit == Init => SessionInv
  BY DEF Init, SessionInv

LEMMA SessionStep == TypeOK /\ SessionInv /\ [Next]_vars => SessionInv'
<1> SUFFICES ASSUME TypeOK, SessionInv, [Next]_vars PROVE SessionInv'
  OBVIOUS
<1> USE TypeParts DEF SessionInv, SessionTypeOK
<1>1. CASE StartJob
  <2>1. PICK commands \in Jobs : Contract(commands) /\ flow' = NewFlow(commands)
    BY <1>1 DEF StartJob
  <2>2. /\ flow'.commands = commands /\ flow'.next_index = 0 /\ flow'.acknowledged_lines = 0
        /\ flow'.in_flight = FALSE /\ flow'.cancelled = FALSE /\ flow'.failed = FALSE
    BY <2>1 DEF NewFlow, NoFlow
  <2>3. Contract(flow.commands)'
    BY <1>1, <2>1, <2>2 DEF StartJob, Contract
  <2>4. Len(commands) \in Nat
    BY AckSessionAssumption, LenProperties
  <2> QED
    BY <1>1, <2>2, <2>3, <2>4 DEF StartJob, Total
<1>2. CASE TickStep
  <2>1. CASE TickBegins
    <3>1. CASE FailTick(Failed)
      BY <3>1 DEF FailTick
    <3>2. CASE ~FailTick(Failed)
      BY <2>1, <3>2 DEF TickBegins, Total, ctlVars, Contract
    <3> QED
      BY <3>1, <3>2
  <2>2. CASE TickSends
    <3>1. CASE Sends /\ link = "down"
      BY <2>2, <3>1 DEF TickSends, FailTick
    <3>2. CASE Sends /\ link # "down"
      <4>1. flow' = MarkSent /\ pc' = "read" /\ UNCHANGED <<state, outcome, job, dialect>>
        BY <2>2, <3>2 DEF TickSends
      <4>2. /\ flow'.commands = flow.commands /\ flow'.next_index = flow.next_index + 1
            /\ flow'.acknowledged_lines = flow.acknowledged_lines /\ flow'.in_flight = TRUE
            /\ flow'.cancelled = flow.cancelled /\ flow'.failed = flow.failed
        BY <4>1 DEF MarkSent, Flow
      <4>3. flow.next_index \in Nat /\ Total \in Nat /\ flow.acknowledged_lines \in Nat
        BY AckSessionAssumption, LenProperties DEF Total, Flow
      <4>4. flow.next_index < Total /\ ~flow.in_flight
        BY <3>2 DEF Sends, LineReady
      <4> QED
        BY <2>2, <4>1, <4>2, <4>3, <4>4 DEF TickSends, Total, Contract
    <3>3. CASE ~Sends
      BY <2>2, <3>3 DEF TickSends, Total, Contract
    <3> QED
      BY <3>1, <3>2, <3>3
  <2>3. CASE TickReads
    <3>1. PICK reply \in Reply :
            /\ Read(reply)
            /\ IF Rejects(reply)
               THEN FailTick(Failed) /\ UNCHANGED progressed
               ELSE /\ flow' = IF reply = "ok" THEN Acknowledge ELSE flow
                    /\ UNCHANGED <<to_ctl, state, outcome, pc, job>>
      BY <2>3 DEF TickReads
    <3>2. CASE Rejects(reply)
      BY <3>1, <3>2 DEF FailTick
    <3>3. CASE ~Rejects(reply) /\ reply = "ok"
      <4>1. flow' = Acknowledge /\ flow.in_flight /\ UNCHANGED <<state, outcome, pc, job, dialect>>
        BY <2>3, <3>1, <3>3 DEF TickReads, Rejects
      <4>2. /\ flow'.commands = flow.commands /\ flow'.next_index = flow.next_index
            /\ flow'.acknowledged_lines = flow.acknowledged_lines + 1 /\ flow'.in_flight = FALSE
            /\ flow'.cancelled = flow.cancelled /\ flow'.failed = flow.failed
        BY <4>1 DEF Acknowledge, Flow
      <4>3. flow.acknowledged_lines \in Nat
        BY DEF Flow
      <4> QED
        BY <4>1, <4>2, <4>3 DEF Total, Contract
    <3>4. CASE ~Rejects(reply) /\ reply # "ok"
      BY <2>3, <3>1, <3>4 DEF TickReads, Total, Contract
    <3> QED
      BY <3>2, <3>3, <3>4
  <2>4. CASE TickCannotRead
    BY <2>4 DEF TickCannotRead, FailTick
  <2>5. CASE TickTurns
    BY <2>5 DEF TickTurns, ctlVars, Total, Contract
  <2> QED
    BY <1>2, <2>1, <2>2, <2>3, <2>4, <2>5 DEF TickStep
<1>3. CASE ConnectionStep
  <2>1. CASE Connect
    BY <2>1 DEF Connect
  <2>2. CASE ConnectFails
    BY <2>2 DEF ConnectFails
  <2>3. CASE ProbeIdentity
    BY <2>3 DEF ProbeIdentity
  <2>4. CASE ProbeRead
    BY <2>4 DEF ProbeRead, EndProbe
  <2>5. CASE ProbeEnds
    BY <2>5 DEF ProbeEnds, EndProbe
  <2>6. CASE Activate
    BY <2>6 DEF Activate
  <2>7. CASE DropFailedConnection
    BY <2>7 DEF DropFailedConnection
  <2> QED
    BY <1>3, <2>1, <2>2, <2>3, <2>4, <2>5, <2>6, <2>7 DEF ConnectionStep
<1>4. CASE StopStep
  <2>1. CASE CancelJob
    BY <2>1 DEF CancelJob, Stop
  <2>2. CASE EmergencyStop
    BY <2>2 DEF EmergencyStop, Stop
  <2>3. CASE Disconnect
    BY <2>3 DEF Disconnect
  <2> QED
    BY <1>4, <2>1, <2>2, <2>3 DEF StopStep
<1>5. CASE Expire
  BY <1>5 DEF Expire, ctlVars, Total, Contract
<1>6. CASE MachineStep
  <2>1. UNCHANGED <<state, flow, outcome, job, pc>>
    BY <1>6 DEF MachineStep, sesVars
  <2>2. UNCHANGED dialect
    BY <1>6 DEF MachineStep, ControllerStep, Take, TakeLosingReply, Refuse, SayBusy, Execute,
                Halt, BreakLink, Accept
  <2> QED
    BY <2>1, <2>2 DEF Total, Contract
<1>7. CASE UNCHANGED vars
  BY <1>7 DEF vars, ctlVars, sesVars, Total, Contract
<1> QED
  BY <1>1, <1>2, <1>3, <1>4, <1>5, <1>6, <1>7 DEF Next, Quiescent

LEMMA SessionCorrect == Spec => [](TypeOK /\ SessionInv)
  BY TypeInit, TypeStep, SessionInit, SessionStep, PTL DEF Spec

\* A session that closes on a running job has tried to halt the machine first: the
\* disconnect looks at the job the service holds, and a session never runs without
\* one (disconnect_machine, and the order in which start, cancel and tick write).
THEOREM ClosingIsNoStop == Spec => CloseIsNotStop
<1>1. TypeOK /\ SessionInv /\ [Next]_vars
        => [state = "Running" /\ state' = "Disconnected" => outcome' # "none"]_vars
  <2> SUFFICES ASSUME TypeOK, SessionInv, [Next]_vars, state = "Running",
                      state' = "Disconnected"
               PROVE  outcome' # "none"
    OBVIOUS
  <2>1. CASE StopStep
    BY <2>1 DEF StopStep, CancelJob, EmergencyStop, Disconnect, ShutDown, SessionInv
  <2>2. CASE TickStep
    BY <2>2 DEF TickStep, TickBegins, TickSends, TickReads, TickCannotRead, TickTurns, FailTick
  <2>3. CASE ConnectionStep
    BY <2>3 DEF ConnectionStep, Connect, ConnectFails, ProbeIdentity, ProbeRead, ProbeEnds,
                Activate, DropFailedConnection, SessionInv
  <2>4. CASE StartJob \/ Expire \/ MachineStep \/ Quiescent \/ UNCHANGED vars
    BY <2>4 DEF StartJob, Expire, MachineStep, Quiescent, vars, sesVars
  <2> QED
    BY <2>1, <2>2, <2>3, <2>4 DEF Next
<1> QED
  BY <1>1, SessionCorrect, PTL DEF Spec, CloseIsNotStop

(***************************************************************************)
(* Halting.                                                                *)
(***************************************************************************)

HaltSent == \E i \in 1..Len(to_ctl) : to_ctl[i] = "M112"

\* The states in which a session may write lines, and those it came by.
Open == {"Validating", "Ready", "Running"}

\* A session that needs recovery has halted its machine, or has tried to.
RecoveryInv == state = "RecoveryRequired" => halted \/ HaltSent \/ link = "down"

\* Writing a command adds it at the end.
LEMMA SendAppends ==
  ASSUME TypeOK, NEW command \in Command, Send(command)
  PROVE  /\ Len(to_ctl') = Len(to_ctl) + 1
         /\ to_ctl'[Len(to_ctl) + 1] = command
         /\ \A i \in 1..Len(to_ctl) : to_ctl'[i] = to_ctl[i]
         /\ Len(to_ctl) \in Nat
  BY AppendProperties, LenProperties DEF Send, TypeOK, ControllerTypeOK

\* The machine takes the command at the head, which is no halt.
LEMMA TakeRemoves ==
  ASSUME TypeOK, CanTake, to_ctl' = Tail(to_ctl)
  PROVE  /\ Len(to_ctl) \in Nat \ {0}
         /\ Len(to_ctl') = Len(to_ctl) - 1
         /\ to_ctl[1] = Head(to_ctl) /\ to_ctl[1] # "M112"
         /\ \A i \in 1..Len(to_ctl') : to_ctl'[i] = to_ctl[i + 1]
<1>1. to_ctl \in Seq(Command) /\ to_ctl # <<>>
  BY DEF TypeOK, ControllerTypeOK, CanTake
<1>2. Len(to_ctl) \in Nat \ {0} /\ to_ctl[1] = Head(to_ctl)
  BY <1>1, EmptySeq
<1> QED
  BY <1>1, <1>2, HeadTailProperties DEF CanTake

LEMMA WireUnchanged ==
  ASSUME to_ctl' = to_ctl
  PROVE  HaltSent' <=> HaltSent
  BY DEF HaltSent

\* A halt on its way stays there until the machine has halted.
LEMMA HaltStays ==
  TypeOK /\ HaltSent /\ MachineStep => HaltSent' \/ halted'
<1> SUFFICES ASSUME TypeOK, HaltSent, MachineStep PROVE HaltSent' \/ halted'
  OBVIOUS
<1>1. CASE Take \/ TakeLosingReply \/ Refuse
  <2>1. CanTake /\ to_ctl' = Tail(to_ctl)
    BY <1>1 DEF Take, TakeLosingReply, Refuse, Accept
  <2>2. PICK i \in 1..Len(to_ctl) : to_ctl[i] = "M112"
    BY DEF HaltSent
  <2>3. i - 1 \in 1..Len(to_ctl') /\ to_ctl'[i - 1] = "M112"
    BY <2>1, <2>2, TakeRemoves
  <2> QED
    BY <2>3 DEF HaltSent
<1>2. CASE SayBusy \/ Execute \/ BreakLink
  BY <1>2, WireUnchanged DEF SayBusy, Execute, BreakLink
<1>3. CASE Halt
  BY <1>3 DEF Halt
<1> QED
  BY <1>1, <1>2, <1>3 DEF MachineStep, ControllerStep

\* A write of the halt leaves it on its way, unless the link is down.
LEMMA TryHalt ==
  ASSUME TypeOK, TrySend("M112"), UNCHANGED link
  PROVE  HaltSent' \/ link' = "down"
<1>1. CASE link = "up"
  <2>1. Send("M112") /\ "M112" \in Command
    BY <1>1 DEF TrySend, Command
  <2>2. to_ctl'[Len(to_ctl')] = "M112" /\ Len(to_ctl') \in 1..Len(to_ctl')
    BY <2>1, SendAppends
  <2> QED
    BY <2>2 DEF HaltSent
<1>2. CASE link # "up"
  BY <1>2 DEF TypeOK, ControllerTypeOK
<1> QED
  BY <1>1, <1>2

LEMMA RecoveryStep ==
  TypeOK /\ SessionInv /\ RecoveryInv /\ [Next]_vars => RecoveryInv'
<1> SUFFICES ASSUME TypeOK, SessionInv, RecoveryInv, [Next]_vars,
                    state' = "RecoveryRequired"
             PROVE  halted' \/ HaltSent' \/ link' = "down"
  BY DEF RecoveryInv
<1>1. CASE MachineStep
  <2>1. state = "RecoveryRequired"
    BY <1>1 DEF MachineStep, sesVars
  <2>2. halted => halted'
    BY <1>1 DEF MachineStep, ControllerStep, Take, TakeLosingReply, Refuse, SayBusy, Execute,
                Halt, BreakLink, Accept
  <2>3. link = "down" => link' = "down"
    BY <1>1 DEF MachineStep, ControllerStep, Take, TakeLosingReply, Refuse, SayBusy, Execute,
                Halt, BreakLink, Accept
  <2> QED
    BY <1>1, <2>1, <2>2, <2>3, HaltStays DEF RecoveryInv
<1>2. ASSUME TrySend("M112"), UNCHANGED link PROVE HaltSent' \/ link' = "down"
  BY <1>2, TryHalt
<1>3. ASSUME UNCHANGED <<state, to_ctl, link, halted>>
      PROVE  halted' \/ HaltSent' \/ link' = "down"
  BY <1>3, WireUnchanged DEF RecoveryInv
<1>4. CASE ConnectionStep
  BY <1>4 DEF ConnectionStep, Connect, ConnectFails, ProbeIdentity, ProbeRead, ProbeEnds,
              EndProbe, Activate, DropFailedConnection, SessionInv
<1>5. CASE TickStep
  <2>1. \A f : FailTick(f) => TrySend("M112")
    BY DEF FailTick
  <2>2. UNCHANGED <<link, halted>>
    BY <1>5 DEF TickStep, TickBegins, TickSends, TickReads, TickCannotRead, TickTurns,
                machine, ctlVars
  <2>3. CASE \E f : FailTick(f)
    BY <1>2, <2>1, <2>2, <2>3
  <2>4. CASE TickSends /\ ~(\E f : FailTick(f))
    <3>1. state = "RecoveryRequired" /\ link = link'
      BY <2>2, <2>4 DEF TickSends
    <3>2. to_ctl' = to_ctl \/ (Sends /\ Send(flow.commands[flow.next_index + 1]))
      BY <2>4 DEF TickSends
    <3>3. HaltSent => HaltSent'
      <4>1. CASE to_ctl' = to_ctl
        BY <4>1, WireUnchanged
      <4>2. CASE Sends /\ Send(flow.commands[flow.next_index + 1])
        <5>1. flow.commands[flow.next_index + 1] \in Command
          BY <4>2, LineType DEF Sends, Command
        <5> QED
          BY <4>2, <5>1, SendAppends DEF HaltSent
      <4> QED
        BY <3>2, <4>1, <4>2
    <3> QED
      BY <2>2, <3>1, <3>3 DEF RecoveryInv
  <2>5. CASE (TickBegins \/ TickReads \/ TickCannotRead \/ TickTurns) /\ ~(\E f : FailTick(f))
    BY <1>3, <2>2, <2>5 DEF TickBegins, TickReads, TickCannotRead, TickTurns, ctlVars
  <2> QED
    BY <1>5, <2>3, <2>4, <2>5 DEF TickStep
<1>6. CASE StopStep
  <2>1. UNCHANGED <<link, halted>>
    BY <1>6 DEF StopStep, CancelJob, EmergencyStop, Disconnect, machine
  <2>2. CASE ShutDown
    BY <1>2, <2>1, <2>2 DEF ShutDown
  <2>3. CASE ~ShutDown
    BY <1>3, <1>6, <2>1, <2>3 DEF StopStep, CancelJob, EmergencyStop, Disconnect
  <2> QED
    BY <2>2, <2>3
<1>7. CASE StartJob \/ Expire \/ Quiescent \/ UNCHANGED vars
  BY <1>3, <1>7 DEF StartJob, Expire, Quiescent, vars, ctlVars, sesVars, wires, machine
<1> QED
  BY <1>1, <1>4, <1>5, <1>6, <1>7 DEF Next

\* However a job failed or was stopped, and whatever answers come late, a session that
\* requires recovery has halted its machine, or the halt is on its way, or the link
\* is broken (tick, emergency_shutdown).
THEOREM RecoveryHalts == Spec => []RecoveryIsHalted
<1>1. Init => RecoveryInv
  BY DEF Init, RecoveryInv
<1>2. TypeOK /\ RecoveryInv => RecoveryIsHalted
  BY LenProperties DEF TypeOK, ControllerTypeOK, RecoveryInv, RecoveryIsHalted, HaltSent
<1> QED
  BY <1>1, <1>2, RecoveryStep, SessionCorrect, PTL DEF Spec

\* An open session has written no halt, and behind a halt there is only another one.
OrderInv ==
  /\ state \in Open => ~HaltSent
  /\ \A i, j \in 1..Len(to_ctl) : i < j /\ to_ctl[i] = "M112" => to_ctl[j] = "M112"

\* What a session writes but for a halt: a query, or the next line of its job.
Written == {"M115"} \cup {command \in JobLine :
                            /\ state = "Running" /\ Sends
                            /\ command = flow.commands[flow.next_index + 1]}

LEMMA WrittenType == Written \subseteq Command \ {"M112"}
  BY DEF Written, Command, JobLine

\* What a step may do to the commands on their way, if a port is reopened clean.
LEMMA WireStep ==
  ASSUME CleanReopen, TypeOK, SessionInv, [Next]_vars
  PROVE  \/ to_ctl' = to_ctl /\ (state' \in Open => state \in Open)
         \/ to_ctl' = <<>>
         \/ CanTake /\ to_ctl' = Tail(to_ctl) /\ state' = state
         \/ Send("M112") /\ state' \notin Open
         \/ /\ state \in Open
            /\ \E command \in Written : Send(command)
<1> DEFINE Allowed ==
             \/ to_ctl' = to_ctl /\ (state' \in Open => state \in Open)
             \/ to_ctl' = <<>>
             \/ CanTake /\ to_ctl' = Tail(to_ctl) /\ state' = state
             \/ Send("M112") /\ state' \notin Open
             \/ /\ state \in Open
                /\ \E command \in Written : Send(command)
<1>1. ASSUME TrySend("M112"), state' \notin Open PROVE Allowed
  BY <1>1 DEF TrySend
<1>2. ASSUME ShutDown, state' \notin Open PROVE Allowed
  BY <1>1, <1>2 DEF ShutDown
<1>3. ASSUME NEW f, FailTick(f) PROVE Allowed
  BY <1>1, <1>3 DEF FailTick, Open
<1>4. CASE ConnectionStep
  <2>1. "M115" \in Written
    BY DEF Written
  <2>2. CASE Connect
    BY <2>2 DEF Connect
  <2>3. CASE ConnectFails \/ ProbeEnds \/ Activate \/ DropFailedConnection
    BY <2>3 DEF ConnectFails, ProbeEnds, EndProbe, Activate, DropFailedConnection, Open,
                wires, ctlVars
  <2>4. CASE ProbeIdentity
    BY <2>1, <2>4 DEF ProbeIdentity, Open
  <2>5. CASE ProbeRead
    <3>1. state = "Validating"
      BY <2>5 DEF ProbeRead, SessionInv
    <3>2. to_ctl' = to_ctl \/ Send("M115")
      BY <2>5 DEF ProbeRead
    <3> QED
      BY <2>1, <3>1, <3>2 DEF Open
  <2> QED
    BY <1>4, <2>2, <2>3, <2>4, <2>5 DEF ConnectionStep
<1>5. CASE StartJob
  BY <1>5 DEF StartJob, Open, wires
<1>6. CASE TickStep
  <2>1. CASE \E f : FailTick(f)
    BY <1>3, <2>1
  <2>2. CASE TickSends /\ ~(\E f : FailTick(f))
    <3>1. state = "Running"
      BY <2>2 DEF TickSends, SessionInv
    <3>2. to_ctl' = to_ctl \/ (Sends /\ Send(flow.commands[flow.next_index + 1]))
      BY <2>2 DEF TickSends
    <3>3. Sends => flow.commands[flow.next_index + 1] \in Written
      BY <3>1, LineType DEF Sends, Written
    <3> QED
      BY <3>1, <3>2, <3>3 DEF Open
  <2>3. CASE (TickBegins \/ TickReads \/ TickCannotRead \/ TickTurns) /\ ~(\E f : FailTick(f))
    BY <2>3 DEF TickBegins, TickReads, TickCannotRead, TickTurns, ctlVars, Open, SessionInv
  <2> QED
    BY <1>6, <2>1, <2>2, <2>3 DEF TickStep
<1>7. CASE StopStep
  <2>1. CASE ShutDown /\ state' \notin Open
    BY <1>2, <2>1
  <2>2. CASE ~(ShutDown /\ state' \notin Open)
    BY <1>7, <2>2 DEF StopStep, CancelJob, EmergencyStop, Disconnect, Open
  <2> QED
    BY <2>1, <2>2
<1>8. CASE Expire \/ Quiescent \/ UNCHANGED vars
  BY <1>8 DEF Expire, Quiescent, vars, ctlVars, sesVars
<1>9. CASE MachineStep
  <2>1. state' = state
    BY <1>9 DEF MachineStep, sesVars
  <2> QED
    BY <1>9, <2>1 DEF MachineStep, ControllerStep, Take, TakeLosingReply, Refuse, SayBusy,
                      Execute, Halt, BreakLink, Accept
<1> QED
  BY <1>4, <1>5, <1>6, <1>7, <1>8, <1>9 DEF Next

LEMMA OrderStep ==
  ASSUME CleanReopen, TypeOK, SessionInv, OrderInv, [Next]_vars
  PROVE  OrderInv'
<1> USE DEF OrderInv, HaltSent
<1>0. Len(to_ctl) \in Nat
  BY LenProperties DEF TypeOK, ControllerTypeOK
<1>1. CASE to_ctl' = to_ctl /\ (state' \in Open => state \in Open)
  BY <1>1
<1>2. CASE to_ctl' = <<>>
  BY <1>2, Len(<<>>) = 0
<1>3. CASE CanTake /\ to_ctl' = Tail(to_ctl) /\ state' = state
  <2>1. /\ Len(to_ctl') = Len(to_ctl) - 1
        /\ \A i \in 1..Len(to_ctl') : to_ctl'[i] = to_ctl[i + 1]
    BY <1>3, TakeRemoves
  <2>2. \A i \in 1..Len(to_ctl') : i + 1 \in 1..Len(to_ctl)
    BY <1>0, <2>1
  <2> QED
    BY <1>0, <1>3, <2>1, <2>2
<1>4. CASE Send("M112") /\ state' \notin Open
  <2>1. /\ Len(to_ctl') = Len(to_ctl) + 1
        /\ to_ctl'[Len(to_ctl) + 1] = "M112"
        /\ \A i \in 1..Len(to_ctl) : to_ctl'[i] = to_ctl[i]
    BY <1>4, SendAppends DEF Command
  <2> QED
    BY <1>0, <1>4, <2>1
<1>5. CASE state \in Open /\ \E command \in Written : Send(command)
  <2>1. PICK command \in Command \ {"M112"} : Send(command)
    BY <1>5, WrittenType
  <2>2. /\ Len(to_ctl') = Len(to_ctl) + 1
        /\ to_ctl'[Len(to_ctl) + 1] = command
        /\ \A i \in 1..Len(to_ctl) : to_ctl'[i] = to_ctl[i]
    BY <2>1, SendAppends
  <2> QED
    BY <1>0, <1>5, <2>1, <2>2
<1> QED
  BY <1>1, <1>2, <1>3, <1>4, <1>5, WireStep

\* When a port is reopened clean, no line of a job is ever written behind a halt: the
\* states that write lines are left with the halt, and entered with an empty wire.
THEOREM NothingBehindHalt ==
  ASSUME CleanReopen
  PROVE  Spec => []NothingFollowsHalt
<1>1. Init => OrderInv
  BY Len(<<>>) = 0 DEF Init, ControllerInit, OrderInv, HaltSent
<1>2. TypeOK /\ OrderInv => NothingFollowsHalt
  <2> SUFFICES ASSUME TypeOK, OrderInv PROVE NothingFollowsHalt
    OBVIOUS
  <2>1. DOMAIN to_ctl = 1..Len(to_ctl)
    BY LenProperties DEF TypeOK, ControllerTypeOK
  <2> QED
    BY <2>1 DEF OrderInv, NothingFollowsHalt, JobLine
<1>3. TypeOK /\ SessionInv /\ OrderInv /\ [Next]_vars => OrderInv'
  BY OrderStep
<1> QED
  BY <1>1, <1>2, <1>3, SessionCorrect, PTL DEF Spec

(***************************************************************************)
(* The account of the wire.                                                *)
(***************************************************************************)

\* Nothing is to be answered, or at most one thing is.
NothingDue == to_ctl = <<>> /\ \A i \in 1..Len(from_ctl) : from_ctl[i] \notin Answer
OneDue ==
  \/ Len(to_ctl) = 1 /\ \A i \in 1..Len(from_ctl) : from_ctl[i] \notin Answer
  \/ /\ to_ctl = <<>>
     /\ \A i, j \in 1..Len(from_ctl) :
          from_ctl[i] \in Answer /\ from_ctl[j] \in Answer => i = j

\* OneUnanswered starts from the probe, which leaves nothing behind it unless it fails.
WireInv ==
  /\ state = "Validating" /\ pc = "probe" => OneDue
  /\ state = "Validating" /\ pc # "probe" /\ probe.outcome # "failed" => NothingDue
  /\ state = "Ready" => NothingDue
  /\ state = "Running" /\ flow.in_flight => OneDue
  /\ state = "Running" /\ ~flow.in_flight => NothingDue

LEMMA ReadRemoves ==
  ASSUME TypeOK, NEW reply \in Reply, Read(reply)
  PROVE  /\ Len(from_ctl) \in Nat \ {0} /\ Len(from_ctl') = Len(from_ctl) - 1
         /\ from_ctl[1] = reply
         /\ \A i \in 1..Len(from_ctl') : from_ctl'[i] = from_ctl[i + 1]
<1>1. from_ctl \in Seq(Reply) /\ from_ctl # <<>>
  BY DEF TypeOK, ControllerTypeOK, Read
<1>2. Len(from_ctl) \in Nat \ {0} /\ from_ctl[1] = Head(from_ctl)
  BY <1>1, EmptySeq
<1> QED
  BY <1>1, <1>2, HeadTailProperties DEF Read

\* Reading an answer settles what is due; reading anything else leaves it.
LEMMA ReadSettles ==
  ASSUME TypeOK, NEW reply \in Reply, Read(reply), OneDue
  PROVE  /\ reply \in Answer =>
              to_ctl = <<>> /\ \A i \in 1..Len(from_ctl') : from_ctl'[i] \notin Answer
         /\ reply \notin Answer /\ to_ctl' = to_ctl => OneDue'
<1>1. /\ Len(from_ctl) \in Nat \ {0} /\ Len(from_ctl') = Len(from_ctl) - 1
      /\ from_ctl[1] = reply
      /\ \A i \in 1..Len(from_ctl') : from_ctl'[i] = from_ctl[i + 1]
  BY ReadRemoves
<1>2. \A i \in 1..Len(from_ctl') : i + 1 \in 1..Len(from_ctl) /\ i + 1 # 1
  BY <1>1
<1>3. ASSUME reply \in Answer
      PROVE  to_ctl = <<>> /\ \A i \in 1..Len(from_ctl') : from_ctl'[i] \notin Answer
  <2>1. 1 \in 1..Len(from_ctl) /\ from_ctl[1] \in Answer
    BY <1>1, <1>3
  <2> QED
    BY <1>1, <1>2, <2>1 DEF OneDue
<1>4. ASSUME to_ctl' = to_ctl PROVE OneDue'
  <2>1. CASE Len(to_ctl) = 1 /\ \A i \in 1..Len(from_ctl) : from_ctl[i] \notin Answer
    BY <1>1, <1>2, <1>4, <2>1 DEF OneDue
  <2>2. CASE /\ to_ctl = <<>>
             /\ \A i, j \in 1..Len(from_ctl) :
                  from_ctl[i] \in Answer /\ from_ctl[j] \in Answer => i = j
    <3>1. ASSUME NEW i \in 1..Len(from_ctl'), NEW j \in 1..Len(from_ctl'),
                 from_ctl'[i] \in Answer, from_ctl'[j] \in Answer
          PROVE  i = j
      <4>1. i + 1 = j + 1
        BY <1>1, <1>2, <2>2, <3>1
      <4> QED
        BY <4>1
    <3> QED
      BY <1>4, <2>2, <3>1 DEF OneDue
  <2> QED
    BY <2>1, <2>2 DEF OneDue
<1> QED
  BY <1>3, <1>4

\* While nothing is due, what is read is no answer.
LEMMA ReadQuiet ==
  ASSUME TypeOK, NEW reply \in Reply, Read(reply), NothingDue
  PROVE  /\ reply \notin Answer
         /\ to_ctl' = to_ctl => NothingDue'
<1>1. /\ Len(from_ctl) \in Nat \ {0} /\ Len(from_ctl') = Len(from_ctl) - 1
      /\ from_ctl[1] = reply
      /\ \A i \in 1..Len(from_ctl') : from_ctl'[i] = from_ctl[i + 1]
  BY ReadRemoves
<1> QED
  BY <1>1 DEF NothingDue

\* One command sent on a wire with nothing due.
LEMMA SendMakesDue ==
  ASSUME TypeOK, NEW command \in Command, Send(command), to_ctl = <<>>,
         \A i \in 1..Len(from_ctl') : from_ctl'[i] \notin Answer
  PROVE  OneDue'
  BY SendAppends, Len(<<>>) = 0 DEF OneDue

\* The machine answers what it takes, once, and says nothing else that counts.
LEMMA MachineAnswersOnce ==
  TypeOK /\ ~HaltSent /\ OneDue /\ MachineStep => OneDue'
<1> SUFFICES ASSUME TypeOK, ~HaltSent, OneDue, MachineStep PROVE OneDue'
  OBVIOUS
<1> USE DEF OneDue, Answer
<1>0. from_ctl \in Seq(Reply) /\ Len(from_ctl) \in Nat /\ to_ctl \in Seq(Command)
  BY LenProperties DEF TypeOK, ControllerTypeOK
<1>1. ASSUME CanTake, to_ctl' = Tail(to_ctl)
      PROVE  to_ctl' = <<>> /\ \A i \in 1..Len(from_ctl) : from_ctl[i] \notin Answer
  <2>1. Len(to_ctl) \in Nat \ {0} /\ Len(to_ctl') = Len(to_ctl) - 1
    BY <1>1, TakeRemoves
  <2>2. to_ctl # <<>>
    BY <2>1, Len(<<>>) = 0
  <2>3. Len(to_ctl) = 1 /\ \A i \in 1..Len(from_ctl) : from_ctl[i] \notin Answer
    BY <2>2
  <2>4. to_ctl' \in Seq(Command)
    BY <1>0, <1>1, <2>2, HeadTailProperties
  <2> QED
    BY <2>1, <2>3, <2>4, EmptySeq
<1>2. ASSUME NEW r \in Reply, from_ctl' = Append(from_ctl, r), to_ctl' = <<>>,
             \A i \in 1..Len(from_ctl) : from_ctl[i] \notin Answer
      PROVE  OneDue'
  <2>1. /\ Len(from_ctl') = Len(from_ctl) + 1
        /\ \A i \in 1..Len(from_ctl) : from_ctl'[i] = from_ctl[i]
    BY <1>0, <1>2, AppendProperties
  <2>2. \A i \in 1..Len(from_ctl') : from_ctl'[i] \in Answer => i = Len(from_ctl) + 1
    BY <1>0, <1>2, <2>1
  <2> QED
    BY <1>2, <2>2
<1>3. CASE Take
  <2>1. to_ctl' = <<>> /\ \A i \in 1..Len(from_ctl) : from_ctl[i] \notin Answer
    BY <1>1, <1>3 DEF Take, Accept
  <2>2. "ok" \in Reply /\ "info" \in Reply
    BY DEF Reply
  <2>3. CASE Head(to_ctl) # "M115"
    <3>1. from_ctl' = from_ctl \o <<"ok">>
      BY <1>3, <2>3 DEF Take
    <3>2. from_ctl' = Append(from_ctl, "ok")
      BY <1>0, <2>2, <3>1, AppendIsConcat
    <3> QED
      BY <1>2, <2>1, <2>2, <3>2
  <2>4. CASE Head(to_ctl) = "M115"
    <3> DEFINE said == Append(from_ctl, "info")
    <3>1. from_ctl' = from_ctl \o <<"info", "ok">>
      BY <1>3, <2>4 DEF Take
    <3>2. <<"info", "ok">> = <<"info">> \o <<"ok">>
      OBVIOUS
    <3>3. <<"info">> \in Seq(Reply) /\ <<"ok">> \in Seq(Reply)
      BY <2>2
    <3>4. from_ctl' = (from_ctl \o <<"info">>) \o <<"ok">>
      BY <1>0, <3>1, <3>2, <3>3, ConcatAssociative
    <3>5. said = from_ctl \o <<"info">> /\ said \in Seq(Reply)
      BY <1>0, <2>2, AppendIsConcat, AppendProperties
    <3>6. from_ctl' = Append(said, "ok")
      BY <2>2, <3>4, <3>5, AppendIsConcat
    <3>7. /\ Len(said) = Len(from_ctl) + 1
          /\ \A i \in 1..Len(from_ctl) : said[i] = from_ctl[i]
          /\ said[Len(from_ctl) + 1] = "info"
      BY <1>0, <2>2, AppendProperties
    <3> HIDE DEF said
    <3>8. /\ Len(from_ctl') = Len(said) + 1
          /\ \A i \in 1..Len(said) : from_ctl'[i] = said[i]
      BY <2>2, <3>5, <3>6, AppendProperties
    <3>9. \A i \in 1..Len(from_ctl') : from_ctl'[i] \in Answer => i = Len(said) + 1
      BY <1>0, <2>1, <3>7, <3>8
    <3> QED
      BY <2>1, <3>9
  <2> QED
    BY <2>3, <2>4
<1>4. CASE TakeLosingReply
  BY <1>1, <1>4 DEF TakeLosingReply, Accept
<1>5. CASE Refuse
  <2>1. to_ctl' = <<>> /\ \A i \in 1..Len(from_ctl) : from_ctl[i] \notin Answer
    BY <1>1, <1>5 DEF Refuse
  <2>2. \E r \in Reply : from_ctl' = Append(from_ctl, r)
    BY <1>5 DEF Refuse, Reply
  <2> QED
    BY <1>2, <2>1, <2>2
<1>6. CASE SayBusy
  <2>1. from_ctl' = <<"busy">> /\ to_ctl' = to_ctl /\ to_ctl # <<>>
    BY <1>6 DEF SayBusy
  <2>2. Len(from_ctl') = 1 /\ from_ctl'[1] = "busy"
    BY <2>1
  <2> QED
    BY <2>1, <2>2
<1>7. CASE Halt
  <2>1. \E i \in DOMAIN to_ctl : to_ctl[i] = "M112"
    BY <1>7 DEF Halt
  <2>2. FALSE
    BY <1>0, <2>1, LenProperties DEF HaltSent
  <2> QED
    BY <2>2
<1>8. CASE Execute \/ BreakLink
  BY <1>8 DEF Execute, BreakLink
<1> QED
  BY <1>3, <1>4, <1>5, <1>6, <1>7, <1>8 DEF MachineStep, ControllerStep

\* While nothing is due the machine says nothing.
LEMMA MachineIsQuiet ==
  TypeOK /\ NothingDue /\ MachineStep => NothingDue'
<1> SUFFICES ASSUME TypeOK, NothingDue, MachineStep PROVE NothingDue'
  OBVIOUS
<1>1. to_ctl = <<>> /\ DOMAIN to_ctl = {}
  BY DEF NothingDue
<1>2. CASE Execute \/ BreakLink
  BY <1>2 DEF Execute, BreakLink, NothingDue
<1>3. CASE ~(Execute \/ BreakLink)
  BY <1>1, <1>3 DEF MachineStep, ControllerStep, Take, TakeLosingReply, Refuse, SayBusy, Halt,
                    CanTake
<1> QED
  BY <1>2, <1>3

\* A probe that failed leaves a session in error, or the failure on record.
LEMMA ProbeFails ==
  ASSUME TypeOK, state = "Validating", EndProbe("failed")
  PROVE  pc' = "idle" /\ (state' = "Error" \/ (probe'.outcome = "failed" /\ state' = "Validating"))
<1>1. pc' = "idle"
  BY DEF EndProbe
<1>2. CASE ~IdentityQuery
  BY <1>1, <1>2 DEF EndProbe
<1>3. CASE IdentityQuery
  <2>1. probe' = [probe EXCEPT !.outcome = "failed"] /\ state' = "Validating"
    BY <1>3 DEF EndProbe
  <2>2. probe'.outcome = "failed"
    BY <2>1 DEF TypeOK, Probe
  <2> QED
    BY <1>1, <2>1, <2>2
<1> QED
  BY <1>2, <1>3

LEMMA WireCorrectStep ==
  ASSUME CleanReopen, TypeOK, SessionInv, OrderInv, WireInv, [Next]_vars
  PROVE  WireInv'
<1> USE DEF WireInv
<1>1. ASSUME state' \notin Open PROVE WireInv'
  BY <1>1 DEF Open
<1>2. ASSUME UNCHANGED <<to_ctl, from_ctl>>
      PROVE  (OneDue => OneDue') /\ (NothingDue => NothingDue')
  BY <1>2 DEF OneDue, NothingDue
<1>3. CASE Connect
  <2>1. to_ctl' = <<>> /\ from_ctl' = <<>>
    BY <1>3 DEF Connect
  <2>2. NothingDue'
    BY <2>1, Len(<<>>) = 0 DEF NothingDue
  <2> QED
    BY <1>3, <2>2 DEF Connect
<1>4. CASE ConnectFails
  BY <1>1, <1>4 DEF ConnectFails, Open
<1>5. CASE ProbeIdentity
  <2>1. CASE link = "up"
    <3>1. state = "Validating" /\ state' = "Validating" /\ pc' = "probe" /\ Send("M115")
          /\ UNCHANGED from_ctl /\ NothingDue
      BY <1>5, <2>1 DEF ProbeIdentity, NoProbe
    <3>2. OneDue'
      BY <3>1, SendMakesDue DEF NothingDue, Command
    <3> QED
      BY <3>1, <3>2
  <2>2. CASE link # "up"
    BY <1>1, <1>5, <2>2 DEF ProbeIdentity, Open
  <2> QED
    BY <2>1, <2>2
<1>6. CASE ProbeRead
  <2>1. state = "Validating" /\ pc = "probe" /\ OneDue
    BY <1>6 DEF ProbeRead, SessionInv
  <2>2. PICK reply \in Reply :
          /\ Read(reply)
          /\ \/ reply \in {"info", "busy"} /\ UNCHANGED <<to_ctl, state, pc>>
             \/ reply \in {"error", "resend"} /\ EndProbe("failed")
             \/ reply = "ok" /\ EndProbe("succeeded") /\ UNCHANGED to_ctl
             \/ reply = "ok" /\ Send("M115") /\ UNCHANGED <<state, pc>>
    BY <1>6 DEF ProbeRead
  <2>3. CASE reply \in {"info", "busy"} /\ UNCHANGED <<to_ctl, state, pc>>
    <3>1. OneDue'
      BY <2>1, <2>2, <2>3, ReadSettles DEF Answer
    <3> QED
      BY <2>1, <2>3, <3>1
  <2>4. CASE reply \in {"error", "resend"} /\ EndProbe("failed")
    <3>1. pc' = "idle" /\ (state' = "Error" \/ (probe'.outcome = "failed" /\ state' = "Validating"))
      BY <2>1, <2>4, ProbeFails
    <3> QED
      BY <3>1
  <2>5. CASE reply = "ok" /\ EndProbe("succeeded") /\ UNCHANGED to_ctl
    <3>1. NothingDue'
      BY <2>1, <2>2, <2>5, ReadSettles DEF Answer, NothingDue
    <3> QED
      BY <2>1, <2>5, <3>1 DEF EndProbe
  <2>6. CASE reply = "ok" /\ Send("M115") /\ UNCHANGED <<state, pc>>
    <3>1. to_ctl = <<>> /\ \A i \in 1..Len(from_ctl') : from_ctl'[i] \notin Answer
      BY <2>1, <2>2, <2>6, ReadSettles DEF Answer
    <3>2. OneDue'
      BY <2>6, <3>1, SendMakesDue DEF Command
    <3> QED
      BY <2>1, <2>6, <3>2
  <2> QED
    BY <2>2, <2>3, <2>4, <2>5, <2>6
<1>7. CASE ProbeEnds
  <2>1. state = "Validating"
    BY <1>7 DEF ProbeEnds, SessionInv
  <2>2. pc' = "idle" /\ (state' = "Error" \/ (probe'.outcome = "failed" /\ state' = "Validating"))
    <3>1. CASE EndProbe("failed")
      BY <2>1, <3>1, ProbeFails
    <3>2. CASE state' = "Error" /\ pc' = "idle"
      BY <3>2
    <3> QED
      BY <1>7, <3>1, <3>2 DEF ProbeEnds
  <2> QED
    BY <2>2
<1>8. CASE Activate
  <2>1. UNCHANGED <<to_ctl, from_ctl>> /\ state = "Validating" /\ pc = "idle"
    BY <1>8 DEF Activate, ctlVars
  <2>2. state' = "Disconnected" \/ (state' = "Ready" /\ probe.outcome = "succeeded")
    <3>1. CASE probe.outcome = "succeeded" /\ probe.identified
      BY <1>8, <3>1 DEF Activate
    <3>2. CASE ~(probe.outcome = "succeeded" /\ probe.identified)
      BY <1>8, <3>2 DEF Activate
    <3> QED
      BY <3>1, <3>2
  <2> QED
    BY <1>2, <2>1, <2>2
<1>9. CASE DropFailedConnection
  BY <1>1, <1>9 DEF DropFailedConnection, Open
<1>10. CASE StartJob
  <2>1. UNCHANGED <<to_ctl, from_ctl>> /\ state = "Ready" /\ state' = "Running"
    BY <1>10 DEF StartJob, wires
  <2>2. flow'.in_flight = FALSE
    BY <1>10 DEF StartJob, NewFlow, NoFlow
  <2> QED
    BY <1>2, <2>1, <2>2
<1>11. CASE TickStep
  <2>1. CASE \E f : FailTick(f)
    BY <1>1, <2>1 DEF FailTick, Open
  <2>2. CASE TickBegins /\ ~(\E f : FailTick(f))
    <3>1. UNCHANGED <<to_ctl, from_ctl, state, flow, probe>> /\ pc = "idle" /\ pc' \in {"idle", "send"}
      BY <2>2 DEF TickBegins
    <3> QED
      BY <1>2, <3>1
  <2>3. CASE TickSends /\ ~(\E f : FailTick(f))
    <3>0. state = "Running" /\ UNCHANGED <<state, from_ctl>>
      BY <2>3 DEF TickSends, SessionInv
    <3>1. CASE Sends
      <4>1. NothingDue
        BY <3>0, <3>1 DEF Sends, LineReady
      <4>2. Send(flow.commands[flow.next_index + 1]) /\ flow' = MarkSent
        BY <2>3, <3>1 DEF TickSends
      <4>3. flow.commands[flow.next_index + 1] \in Command
        BY <3>1, LineType DEF Sends, Command
      <4>4. OneDue'
        BY <3>0, <4>1, <4>2, <4>3, SendMakesDue DEF NothingDue
      <4>5. flow'.in_flight = TRUE
        BY <4>2, TypeParts DEF MarkSent, SessionTypeOK, Flow
      <4> QED
        BY <3>0, <4>4, <4>5
    <3>2. CASE ~Sends
      <4>1. UNCHANGED <<to_ctl, flow>>
        BY <2>3, <3>2 DEF TickSends
      <4> QED
        BY <1>2, <3>0, <4>1
    <3> QED
      BY <3>1, <3>2
  <2>4. CASE TickReads /\ ~(\E f : FailTick(f))
    <3>1. state = "Running" /\ state' = "Running"
      BY <2>4 DEF TickReads, SessionInv
    <3>2. PICK reply \in Reply :
            /\ Read(reply)
            /\ ~Rejects(reply)
            /\ flow' = IF reply = "ok" THEN Acknowledge ELSE flow
            /\ UNCHANGED to_ctl
      BY <2>4 DEF TickReads
    <3>3. CASE reply = "ok"
      <4>1. flow.in_flight
        BY <3>2, <3>3 DEF Rejects
      <4>2. NothingDue'
        BY <3>1, <3>2, <3>3, <4>1, ReadSettles DEF Answer, NothingDue
      <4>3. flow'.in_flight = FALSE
        BY <3>2, <3>3, TypeParts DEF Acknowledge, SessionTypeOK, Flow
      <4> QED
        BY <3>1, <4>2, <4>3
    <3>4. CASE reply # "ok"
      <4>1. reply \notin Answer
        BY <3>2, <3>4 DEF Answer, Rejects
      <4>2. CASE flow.in_flight
        BY <3>1, <3>2, <3>4, <4>1, <4>2, ReadSettles
      <4>3. CASE ~flow.in_flight
        BY <3>1, <3>2, <3>4, <4>3, ReadQuiet
      <4> QED
        BY <4>2, <4>3
    <3> QED
      BY <3>3, <3>4
  <2>5. CASE TickTurns
    <3>1. UNCHANGED <<to_ctl, from_ctl, flow>> /\ state = "Running"
      BY <2>5 DEF TickTurns, ctlVars, SessionInv
    <3>2. state' = "Running" \/ (state' = "Ready" /\ IsComplete)
      <4>1. CASE IsComplete
        BY <2>5, <4>1 DEF TickTurns
      <4>2. CASE ~IsComplete /\ progressed
        BY <2>5, <3>1, <4>2 DEF TickTurns
      <4>3. CASE ~IsComplete /\ ~progressed
        BY <2>5, <3>1, <4>3 DEF TickTurns
      <4> QED
        BY <4>1, <4>2, <4>3
    <3> QED
      BY <1>2, <3>1, <3>2 DEF IsComplete
  <2> QED
    BY <1>11, <2>1, <2>2, <2>3, <2>4, <2>5 DEF TickStep, TickCannotRead
<1>12. CASE StopStep
  <2>1. CASE state' \notin Open
    BY <1>1, <2>1
  <2>2. CASE state' \in Open
    <3>1. UNCHANGED <<to_ctl, from_ctl, state, flow, probe, pc>>
      BY <1>12, <2>2 DEF StopStep, CancelJob, EmergencyStop, Disconnect, Open
    <3> QED
      BY <1>2, <3>1
  <2> QED
    BY <2>1, <2>2
<1>13. CASE Expire \/ Quiescent \/ UNCHANGED vars
  <2>1. UNCHANGED <<to_ctl, from_ctl, state, flow, probe, pc>>
    BY <1>13 DEF Expire, Quiescent, vars, ctlVars, sesVars
  <2> QED
    BY <1>2, <2>1
<1>14. CASE MachineStep
  <2>1. UNCHANGED <<state, flow, probe, pc>>
    BY <1>14 DEF MachineStep, sesVars
  <2>2. state \in Open => (OneDue => OneDue') /\ (NothingDue => NothingDue')
    BY <1>14, MachineAnswersOnce, MachineIsQuiet DEF OrderInv
  <2> QED
    BY <2>1, <2>2 DEF Open
<1> QED
  BY <1>3, <1>4, <1>5, <1>6, <1>7, <1>8, <1>9, <1>10, <1>11, <1>12, <1>13, <1>14
     DEF Next, ConnectionStep

\* The two readings of what is due.
LEMMA DueReading ==
  ASSUME TypeOK
  PROVE  /\ NothingDue => Due = {}
         /\ OneDue => \A a, b \in Due : a = b
<1>1. DOMAIN to_ctl = 1..Len(to_ctl) /\ DOMAIN from_ctl = 1..Len(from_ctl)
  BY LenProperties DEF TypeOK, ControllerTypeOK
<1>2. ASSUME NEW d \in Due
      PROVE  \/ \E i \in 1..Len(to_ctl) : d = <<"command", i>>
             \/ \E i \in 1..Len(from_ctl) : d = <<"answer", i>> /\ from_ctl[i] \in Answer
  BY <1>1 DEF Due
<1>3. ASSUME NothingDue, NEW d \in Due PROVE FALSE
  <2>1. Len(to_ctl) = 0
    BY <1>3, Len(<<>>) = 0 DEF NothingDue
  <2> QED
    BY <1>2, <1>3, <2>1 DEF NothingDue
<1>4. ASSUME OneDue, NEW a \in Due, NEW b \in Due PROVE a = b
  <2>1. CASE Len(to_ctl) = 1 /\ \A i \in 1..Len(from_ctl) : from_ctl[i] \notin Answer
    <3>1. a = <<"command", 1>> /\ b = <<"command", 1>>
      BY <1>2, <2>1
    <3> QED
      BY <3>1
  <2>2. CASE /\ to_ctl = <<>>
             /\ \A i, j \in 1..Len(from_ctl) :
                  from_ctl[i] \in Answer /\ from_ctl[j] \in Answer => i = j
    <3>1. Len(to_ctl) = 0
      BY <2>2, Len(<<>>) = 0
    <3>2. PICK i \in 1..Len(from_ctl) : a = <<"answer", i>> /\ from_ctl[i] \in Answer
      BY <1>2, <3>1
    <3>3. PICK j \in 1..Len(from_ctl) : b = <<"answer", j>> /\ from_ctl[j] \in Answer
      BY <1>2, <3>1
    <3> QED
      BY <2>2, <3>2, <3>3
  <2> QED
    BY <1>4, <2>1, <2>2 DEF OneDue
<1> QED
  BY <1>3, <1>4

\* While a job runs the machine owes an answer for the line in flight and for no
\* other, and between jobs for nothing: whatever fails, the observe of
\* AcknowledgedLineFlow never counts an answer for the wrong line, on a port that
\* was opened with nothing unread or unanswered.
THEOREM AnswersAreCounted ==
  ASSUME CleanReopen
  PROVE  Spec => []OneUnanswered
<1>1. Init => OrderInv /\ WireInv
  BY Len(<<>>) = 0 DEF Init, ControllerInit, OrderInv, HaltSent, WireInv
<1>2. TypeOK /\ WireInv => OneUnanswered
  BY DueReading DEF WireInv, OneUnanswered
<1>3. TypeOK /\ SessionInv /\ OrderInv /\ WireInv /\ [Next]_vars => OrderInv' /\ WireInv'
  BY OrderStep, WireCorrectStep
<1> QED
  BY <1>1, <1>2, <1>3, SessionCorrect, PTL DEF Spec

(***************************************************************************)
(* Completion.                                                             *)
(***************************************************************************)

\* What the machine moves by itself: nothing, everything back to the start, or by one
\* of its own steps.
LEMMA MachineSide ==
  ASSUME [Next]_vars
  PROVE  /\ dialect' = dialect
         /\ \/ MachineStep
            \/ UNCHANGED <<planner, beam>>
            \/ planner' = <<>> /\ beam' = FALSE
<1> USE DEF ctlVars, machine, wires
<1>1. CASE ConnectionStep
  <2>1. CASE Connect
    BY <2>1 DEF Connect
  <2>2. CASE ~Connect
    BY <1>1, <2>2 DEF ConnectionStep, ConnectFails, ProbeIdentity, ProbeRead, ProbeEnds,
                      Activate, DropFailedConnection
  <2> QED
    BY <2>1, <2>2
<1>2. CASE TickStep
  BY <1>2 DEF TickStep, TickBegins, TickSends, TickReads, TickCannotRead, TickTurns
<1>3. CASE StartJob \/ StopStep \/ Expire \/ Quiescent \/ UNCHANGED vars
  BY <1>3 DEF StartJob, StopStep, CancelJob, EmergencyStop, Disconnect, Expire, Quiescent, vars
<1>4. CASE MachineStep
  BY <1>4 DEF MachineStep, ControllerStep, Take, TakeLosingReply, Refuse, SayBusy, Execute,
              Halt, BreakLink, Accept
<1> QED
  BY <1>1, <1>2, <1>3, <1>4 DEF Next

\* The machine's planner gives up its first command.
LEMMA ExecuteRemoves ==
  ASSUME TypeOK, Execute
  PROVE  /\ Len(planner) \in Nat \ {0} /\ Len(planner') = Len(planner) - 1
         /\ Head(planner) = planner[1]
         /\ \A i \in 1..Len(planner') : planner'[i] = planner[i + 1]
<1>1. planner \in Seq(JobLine) /\ planner # <<>> /\ planner' = Tail(planner)
  BY DEF TypeOK, ControllerTypeOK, Execute
<1> QED
  BY <1>1, HeadTailProperties, EmptySeq, LenProperties

\* The machine's planner takes a command from the head of what it was sent.
LEMMA AcceptPlans ==
  ASSUME TypeOK, CanTake, Accept
  PROVE  \/ planner' = planner /\ to_ctl[1] \notin JobLine \ {"M400"}
         \/ /\ to_ctl[1] \in JobLine \ {"M400"}
            /\ Len(planner') = Len(planner) + 1
            /\ planner'[Len(planner) + 1] = to_ctl[1]
            /\ \A i \in 1..Len(planner) : planner'[i] = planner[i]
<1>1. Head(to_ctl) = to_ctl[1]
  BY TakeRemoves DEF Accept
<1>2. planner \in Seq(JobLine)
  BY DEF TypeOK, ControllerTypeOK
<1>3. CASE to_ctl[1] \in JobLine \ {"M400"}
  BY <1>1, <1>2, <1>3, AppendProperties DEF Accept
<1> QED
  BY <1>1, <1>3 DEF Accept

\* Smoothieware's laser is never left on, because no job there may say fire.
FireInv ==
  dialect = "Smoothieware" =>
    /\ ~beam
    /\ \A i \in 1..Len(to_ctl) : to_ctl[i] # "fire"
    /\ \A i \in 1..Len(planner) : planner[i] # "fire"

LEMMA FireStep ==
  ASSUME CleanReopen, TypeOK, SessionInv, FireInv, [Next]_vars
  PROVE  FireInv'
<1> SUFFICES ASSUME dialect = "Smoothieware", dialect' = dialect,
                    ~beam,
                    \A i \in 1..Len(to_ctl) : to_ctl[i] # "fire",
                    \A i \in 1..Len(planner) : planner[i] # "fire"
             PROVE  /\ ~beam'
                    /\ \A i \in 1..Len(to_ctl') : to_ctl'[i] # "fire"
                    /\ \A i \in 1..Len(planner') : planner'[i] # "fire"
  BY MachineSide DEF FireInv
<1>0. Len(to_ctl) \in Nat /\ Len(planner) \in Nat
  BY LenProperties DEF TypeOK, ControllerTypeOK
<1>1. \A i \in 1..Len(to_ctl') : to_ctl'[i] # "fire"
  <2>1. CASE to_ctl' = to_ctl \/ to_ctl' = <<>>
    BY <2>1, Len(<<>>) = 0
  <2>2. CASE CanTake /\ to_ctl' = Tail(to_ctl)
    BY <1>0, <2>2, TakeRemoves
  <2>3. ASSUME NEW command \in Command, Send(command), command # "fire"
        PROVE  \A i \in 1..Len(to_ctl') : to_ctl'[i] # "fire"
    BY <1>0, <2>3, SendAppends
  <2>4. "M112" \in Command /\ "M112" # "fire"
    BY DEF Command
  <2>5. \A command \in Written : command \in Command /\ command # "fire"
    <3> SUFFICES ASSUME NEW command \in Written PROVE command # "fire"
      BY WrittenType
    <3>1. CASE command = "M115"
      BY <3>1
    <3>2. CASE /\ state = "Running" /\ Sends
               /\ command = flow.commands[flow.next_index + 1]
      <4>1. flow.commands \in Seq(JobLine) /\ flow.next_index + 1 \in 1..Len(flow.commands)
        BY <3>2, AckSessionAssumption DEF TypeOK, Sends, LineReady, Total
      <4>2. flow.next_index + 1 \in DOMAIN flow.commands
        BY <4>1, LenProperties
      <4> QED
        BY <3>2, <4>2 DEF SessionInv, Contract
    <3> QED
      BY <3>1, <3>2 DEF Written
  <2> QED
    BY <2>1, <2>2, <2>3, <2>4, <2>5, WireStep
<1>2. ~beam' /\ \A i \in 1..Len(planner') : planner'[i] # "fire"
  <2>1. CASE UNCHANGED <<planner, beam>>
    <3>1. ~beam'
      BY <2>1, Zenon
    <3> QED
      BY <2>1, <3>1
  <2>2. CASE planner' = <<>> /\ beam' = FALSE
    BY <2>2, Len(<<>>) = 0
  <2>3. CASE MachineStep
    <3>1. CASE Accept /\ CanTake
      <4>1. to_ctl[1] # "fire"
        BY <3>1, TakeRemoves DEF Accept
      <4>2. \A i \in 1..Len(planner') : planner'[i] # "fire"
        BY <1>0, <3>1, <4>1, AcceptPlans
      <4>3. ~beam'
        BY <3>1, Zenon DEF Accept
      <4> QED
        BY <4>2, <4>3
    <3>2. CASE Execute
      <4>1. planner[1] # "fire" /\ \A i \in 1..Len(planner') : planner'[i] # "fire"
        BY <1>0, <3>2, ExecuteRemoves
      <4>2. Head(planner) # LaserOn
        BY <3>2, <4>1, ExecuteRemoves DEF LaserOn
      <4>3. ~beam'
        BY <3>2, <4>2, Zenon DEF Execute
      <4> QED
        BY <4>1, <4>3
    <3>3. CASE Halt
      BY <3>3, Len(<<>>) = 0 DEF Halt
    <3>4. CASE Refuse \/ SayBusy \/ BreakLink
      <4>1. planner' = planner /\ beam' = beam
        BY <3>4 DEF Refuse, SayBusy, BreakLink
      <4>2. ~beam'
        BY <4>1, Zenon
      <4> QED
        BY <4>1, <4>2
    <3> QED
      BY <2>3, <3>1, <3>2, <3>3, <3>4 DEF MachineStep, ControllerStep, Take, TakeLosingReply
  <2> QED
    BY <2>1, <2>2, <2>3, MachineSide
<1> QED
  BY <1>1, <1>2

\* Of the running job, the lines the machine has taken.
Taken == IF to_ctl = <<>> THEN flow.next_index ELSE flow.next_index - 1

\* The machine has refused a line, and the session has yet to read so.
Refused == \E i \in 1..Len(from_ctl) : from_ctl[i] \in {"error", "resend"}

\* The laser will be off once the planner of a Marlin is empty.
EndsOff ==
  \/ \E i \in 1..Len(planner) :
       /\ planner[i] = "M5"
       /\ \A j \in (i + 1)..Len(planner) : planner[j] # "M3"
  \/ ~beam /\ \A j \in 1..Len(planner) : planner[j] # "M3"

\* A laser-off after the last laser-on of a job.
FinalOff(commands, off) ==
  /\ off \in 1..(Len(commands) - 1)
  /\ commands[off] = "M5"
  /\ \A i \in (off + 1)..(Len(commands) - 1) : commands[i] # "M3"

\* The machine has taken the final laser-off only if the laser will be off.
TurnsOff(off) == FinalOff(flow.commands, off) /\ (Taken >= off => EndsOff)

\* What the machine has been told of the running job, and what it will have done of
\* it when its planner is empty.
JobInv ==
  state = "Running" =>
    /\ to_ctl # <<>> => to_ctl[1] = flow.commands[flow.next_index]
    /\ \/ Refused
       \/ /\ Taken = Total => planner = <<>>
          /\ dialect # "Smoothieware" => \E off \in Nat : TurnsOff(off)

\* A completed job stays executed until the next one starts.
DoneInv ==
  state = "Ready" /\ outcome = "Completed" =>
    flow.next_index = Total /\ planner = <<>> /\ ~beam

LEMMA ExecuteKeepsOff ==
  ASSUME TypeOK, dialect # "Smoothieware", Execute, EndsOff
  PROVE  EndsOff'
<1>1. /\ Len(planner) \in Nat \ {0} /\ Len(planner') = Len(planner) - 1
      /\ Head(planner) = planner[1]
      /\ \A i \in 1..Len(planner') : planner'[i] = planner[i + 1]
  BY ExecuteRemoves
<1>2. beam' = (planner[1] = "M3" \/ (beam /\ planner[1] # "M5"))
  BY <1>1 DEF Execute, LaserOn
<1>3. ASSUME NEW i \in 1..Len(planner), planner[i] = "M5",
             \A j \in (i + 1)..Len(planner) : planner[j] # "M3"
      PROVE  EndsOff'
  <2>1. CASE i = 1
    <3>1. ~beam'
      BY <1>2, <1>3, <2>1, Zenon
    <3>2. \A j \in 1..Len(planner') : planner'[j] # "M3"
      BY <1>1, <1>3, <2>1
    <3> QED
      BY <3>1, <3>2 DEF EndsOff
  <2>2. CASE i # 1
    <3>1. i - 1 \in 1..Len(planner') /\ planner'[i - 1] = "M5"
      BY <1>1, <1>3, <2>2
    <3>2. \A j \in ((i - 1) + 1)..Len(planner') : planner'[j] # "M3"
      BY <1>1, <1>3
    <3> QED
      BY <3>1, <3>2 DEF EndsOff
  <2> QED
    BY <2>1, <2>2
<1>4. ASSUME ~beam, \A j \in 1..Len(planner) : planner[j] # "M3"
      PROVE  EndsOff'
  <2>1. planner[1] # "M3"
    BY <1>1, <1>4
  <2>2. ~beam'
    BY <1>2, <1>4, <2>1, Zenon
  <2>3. \A j \in 1..Len(planner') : planner'[j] # "M3"
    BY <1>1, <1>4
  <2> QED
    BY <2>2, <2>3 DEF EndsOff
<1> QED
  BY <1>3, <1>4 DEF EndsOff

LEMMA AcceptKeepsOff ==
  ASSUME TypeOK, CanTake, Accept, to_ctl[1] # "M3", EndsOff
  PROVE  EndsOff'
<1>0. Len(planner) \in Nat
  BY LenProperties DEF TypeOK, ControllerTypeOK
<1>1. beam' = beam
  BY DEF Accept
<1>2. CASE planner' = planner
  <2>1. ~beam => ~beam'
    BY <1>1, Zenon
  <2> QED
    BY <1>2, <2>1 DEF EndsOff
<1>3. CASE /\ Len(planner') = Len(planner) + 1
           /\ planner'[Len(planner) + 1] = to_ctl[1]
           /\ \A i \in 1..Len(planner) : planner'[i] = planner[i]
  <2>1. ASSUME NEW i \in 1..Len(planner), planner[i] = "M5",
               \A j \in (i + 1)..Len(planner) : planner[j] # "M3"
        PROVE  EndsOff'
    <3>1. i \in 1..Len(planner') /\ planner'[i] = "M5"
      BY <1>0, <1>3, <2>1
    <3>2. \A j \in (i + 1)..Len(planner') : planner'[j] # "M3"
      BY <1>0, <1>3, <2>1
    <3> QED
      BY <3>1, <3>2 DEF EndsOff
  <2>2. ASSUME ~beam, \A j \in 1..Len(planner) : planner[j] # "M3"
        PROVE  EndsOff'
    <3>1. ~beam'
      BY <1>1, <2>2, Zenon
    <3>2. \A j \in 1..Len(planner') : planner'[j] # "M3"
      BY <1>0, <1>3, <2>2
    <3> QED
      BY <3>1, <3>2 DEF EndsOff
  <2> QED
    BY <2>1, <2>2 DEF EndsOff
<1> QED
  BY <1>2, <1>3, AcceptPlans

LEMMA AcceptTurnsOff ==
  ASSUME TypeOK, CanTake, Accept, to_ctl[1] = "M5"
  PROVE  EndsOff'
<1>0. Len(planner) \in Nat
  BY LenProperties DEF TypeOK, ControllerTypeOK
<1>1. Len(planner') = Len(planner) + 1 /\ planner'[Len(planner) + 1] = "M5"
  BY AcceptPlans DEF JobLine
<1>2. Len(planner') \in 1..Len(planner') /\ planner'[Len(planner')] = "M5"
  BY <1>0, <1>1
<1>3. \A j \in (Len(planner') + 1)..Len(planner') : planner'[j] # "M3"
  BY <1>0, <1>1
<1> QED
  BY <1>2, <1>3 DEF EndsOff

\* The facts about a running job that the steps below rest on.
LEMMA RunningFacts ==
  ASSUME TypeOK, SessionInv, state = "Running"
  PROVE  /\ flow.next_index \in Nat /\ flow.acknowledged_lines \in Nat /\ Total \in Nat \ {0}
         /\ flow.commands[Total] = "M400"
         /\ dialect # "Smoothieware" => \E off \in Nat \ {0} : FinalOff(flow.commands, off)
         /\ flow.in_flight => flow.next_index = flow.acknowledged_lines + 1
         /\ ~flow.in_flight => flow.next_index = flow.acknowledged_lines
<1>1. flow.commands \in Seq(JobLine)
  BY AckSessionAssumption, EmptySeq DEF TypeOK
<1>2. Contract(flow.commands) /\ flow.commands # <<>> /\ flow.commands[Total] = "M400"
  BY DEF SessionInv, Contract, Barrier, Total
<1>3. Total \in Nat \ {0}
  BY <1>1, <1>2, LenProperties, EmptySeq DEF Total
<1>4. ASSUME dialect # "Smoothieware"
      PROVE  \E off \in Nat \ {0} : FinalOff(flow.commands, off)
  <2>1. OffIsFinal(flow.commands)
    BY <1>2, <1>4 DEF Contract
  <2>2. PICK off \in 1..(Len(flow.commands) - 1) :
          /\ flow.commands[off] = "M5"
          /\ \A i \in (off + 1)..(Len(flow.commands) - 1) : flow.commands[i] # "M3"
    BY <2>1 DEF OffIsFinal
  <2>3. off \in Nat \ {0}
    BY <1>3 DEF Total
  <2> QED
    BY <2>2, <2>3 DEF FinalOff
<1> QED
  BY <1>2, <1>3, <1>4 DEF TypeOK, SessionInv

\* The machine takes the line in flight.
LEMMA JobTaken ==
  ASSUME TypeOK, SessionInv, WireInv, JobInv, state = "Running", CanTake, Accept,
         UNCHANGED <<state, flow>>
  PROVE  JobInv'
<1>1. /\ Len(to_ctl) \in Nat \ {0} /\ Len(to_ctl') = Len(to_ctl) - 1
      /\ to_ctl[1] = Head(to_ctl)
  BY TakeRemoves DEF Accept
<1>2. to_ctl # <<>>
  BY <1>1, Len(<<>>) = 0
<1>3. flow.in_flight /\ Len(to_ctl) = 1 /\ ~Refused
  BY <1>2, Zenon DEF WireInv, OneDue, NothingDue, Answer, Refused
<1>4. to_ctl' = <<>>
  <2>1. to_ctl \in Seq(Command) /\ to_ctl' = Tail(to_ctl)
    BY DEF Accept, TypeOK, ControllerTypeOK
  <2>2. Tail(to_ctl) \in Seq(Command) /\ Len(to_ctl') = 0
    BY <1>1, <1>2, <1>3, <2>1, HeadTailProperties
  <2> QED
    BY <2>1, <2>2, EmptySeq
<1>5. /\ flow.next_index \in Nat \ {0} /\ Total \in Nat \ {0}
      /\ flow.commands[Total] = "M400"
  BY <1>3, RunningFacts
<1>6. to_ctl[1] = flow.commands[flow.next_index]
  BY <1>2 DEF JobInv
<1>7. Taken = flow.next_index - 1 /\ Taken' = flow.next_index /\ Total' = Total
  BY <1>2, <1>4 DEF Taken, Total
<1>8. Taken' = Total' => planner' = <<>>
  <2> SUFFICES ASSUME flow.next_index = Total PROVE planner' = <<>>
    BY <1>7
  <2>1. Head(to_ctl) = "M400"
    BY <1>1, <1>5, <1>6
  <2> QED
    BY <2>1 DEF CanTake, Accept
<1>9. ASSUME dialect # "Smoothieware" PROVE \E off \in Nat : TurnsOff(off)'
  <2>1. PICK off \in Nat : TurnsOff(off)
    BY <1>3, <1>9 DEF JobInv
  <2>2. FinalOff(flow.commands, off)'
    BY <2>1 DEF TurnsOff, FinalOff
  <2>3. ASSUME flow.next_index >= off PROVE EndsOff'
    <3>1. CASE flow.next_index = off
      <4>1. to_ctl[1] = "M5"
        BY <1>6, <2>1, <3>1 DEF TurnsOff, FinalOff
      <4> QED
        BY <4>1, AcceptTurnsOff
    <3>2. CASE flow.next_index # off
      <4>1. EndsOff
        BY <1>5, <1>7, <2>1, <2>3, <3>2 DEF TurnsOff
      <4>2. to_ctl[1] # "M3"
        <5>1. CASE flow.next_index = Total
          BY <1>5, <1>6, <5>1
        <5>2. CASE flow.next_index # Total
          <6>1. flow.next_index \in (off + 1)..(Len(flow.commands) - 1)
            BY <1>5, <2>3, <3>2, <5>2 DEF SessionInv, Total
          <6> QED
            BY <1>6, <2>1, <6>1 DEF TurnsOff, FinalOff
        <5> QED
          BY <5>1, <5>2
      <4> QED
        BY <4>1, <4>2, AcceptKeepsOff
    <3> QED
      BY <3>1, <3>2
  <2> QED
    BY <1>7, <2>2, <2>3 DEF TurnsOff
<1>10. dialect' = dialect
  BY DEF Accept
<1> QED
  BY <1>4, <1>8, <1>9, <1>10 DEF JobInv

\* The steps that leave the wire and the machine's side of the account alone.
LEMMA JobStays ==
  ASSUME JobInv, state = "Running", UNCHANGED <<dialect, to_ctl, from_ctl, flow, planner, beam>>
  PROVE  JobInv'
<1>1. (Taken' = Taken) /\ (Total' = Total) /\ (Refused' <=> Refused)
  BY DEF Taken, Total, Refused
<1>2. \A off \in Nat : TurnsOff(off) => TurnsOff(off)'
  <2>1. EndsOff => EndsOff'
    BY DEF EndsOff
  <2> QED
    BY <1>1, <2>1 DEF TurnsOff, FinalOff
<1> QED
  BY <1>1, <1>2 DEF JobInv

LEMMA JobMachine ==
  ASSUME TypeOK, SessionInv, OrderInv, WireInv, JobInv, state = "Running", MachineStep
  PROVE  JobInv'
<1>1. UNCHANGED <<state, flow>>
  BY DEF MachineStep, sesVars
<1>2. CASE Take \/ TakeLosingReply
  BY <1>1, <1>2, JobTaken DEF Take, TakeLosingReply
<1>3. CASE Refuse
  <2>1. /\ Len(to_ctl) \in Nat \ {0} /\ Len(to_ctl') = Len(to_ctl) - 1
    BY <1>3, TakeRemoves DEF Refuse
  <2>2. to_ctl # <<>>
    BY <2>1, Len(<<>>) = 0
  <2>3. Len(to_ctl) = 1
    BY <2>2, Zenon DEF WireInv, OneDue, NothingDue
  <2>4. to_ctl' = <<>>
    BY SMTT(30), <1>3, <2>1, <2>2, <2>3, HeadTailProperties, EmptySeq DEF Refuse, TypeOK, ControllerTypeOK
  <2>5. \E r \in {"error", "resend"} : from_ctl' = Append(from_ctl, r)
    BY <1>3 DEF Refuse
  <2>6. Refused'
    <3>1. PICK r \in {"error", "resend"} : from_ctl' = Append(from_ctl, r)
      BY <2>5
    <3>2. from_ctl \in Seq(Reply) /\ r \in Reply
      BY DEF TypeOK, ControllerTypeOK, Reply
    <3>3. Len(from_ctl') \in 1..Len(from_ctl') /\ from_ctl'[Len(from_ctl')] = r
      BY <3>1, <3>2, AppendProperties, LenProperties
    <3> QED
      BY <3>3 DEF Refused
  <2> QED
    BY <2>4, <2>6 DEF JobInv
<1>4. CASE SayBusy
  <2>1. UNCHANGED <<dialect, to_ctl, flow, planner, beam>> /\ from_ctl = <<>>
    BY <1>1, <1>4 DEF SayBusy
  <2>2. ~Refused
    BY <2>1, Len(<<>>) = 0 DEF Refused
  <2>3. Taken' = Taken /\ Total' = Total
    BY <2>1 DEF Taken, Total
  <2>4. \A off \in Nat : TurnsOff(off) => TurnsOff(off)'
    <3>1. EndsOff => EndsOff'
      BY <2>1 DEF EndsOff
    <3> QED
      BY <2>1, <2>3, <3>1 DEF TurnsOff, FinalOff
  <2> QED
    BY <2>1, <2>2, <2>3, <2>4 DEF JobInv
<1>5. CASE Execute
  <2>1. UNCHANGED <<dialect, to_ctl, from_ctl, flow>> /\ planner # <<>>
    BY <1>1, <1>5 DEF Execute
  <2>2. (Taken' = Taken) /\ (Total' = Total) /\ (Refused' <=> Refused)
    BY <2>1 DEF Taken, Total, Refused
  <2>3. ASSUME dialect # "Smoothieware", NEW off \in Nat, TurnsOff(off) PROVE TurnsOff(off)'
    <3>1. EndsOff => EndsOff'
      BY <1>5, <2>3, ExecuteKeepsOff
    <3> QED
      BY <2>1, <2>2, <2>3, <3>1 DEF TurnsOff, FinalOff
  <2> QED
    BY <2>1, <2>2, <2>3 DEF JobInv
<1>6. CASE Halt
  <2>1. HaltSent
    BY <1>6, LenProperties DEF Halt, HaltSent, TypeOK, ControllerTypeOK
  <2> QED
    BY <2>1 DEF OrderInv, Open
<1>7. CASE BreakLink
  BY <1>1, <1>7, JobStays DEF BreakLink
<1> QED
  BY <1>2, <1>3, <1>4, <1>5, <1>6, <1>7 DEF MachineStep, ControllerStep

\* A job starts on a wire that owes nothing.
LEMMA JobStarts ==
  ASSUME TypeOK, WireInv, StartJob
  PROVE  JobInv'
<1>1. PICK commands \in Jobs : Contract(commands) /\ flow' = NewFlow(commands)
  BY DEF StartJob
<1>2. flow'.commands = commands /\ flow'.next_index = 0
  BY <1>1 DEF NewFlow, NoFlow
<1>3. to_ctl' = <<>>
  BY DEF StartJob, WireInv, NothingDue, wires
<1>4. commands \in Seq(JobLine) /\ commands # <<>>
  BY <1>1, AckSessionAssumption DEF Contract, Barrier
<1>5. Taken' = 0 /\ Total' \in Nat \ {0}
  BY <1>2, <1>3, <1>4, LenProperties, EmptySeq DEF Taken, Total
<1>6. ASSUME dialect' # "Smoothieware" PROVE \E off \in Nat : TurnsOff(off)'
  <2>1. OffIsFinal(commands)
    BY <1>1, <1>6 DEF StartJob, Contract
  <2>2. PICK off \in 1..(Len(commands) - 1) : FinalOff(commands, off)
    BY <2>1 DEF OffIsFinal, FinalOff
  <2>3. off \in Nat \ {0} /\ FinalOff(flow'.commands, off)
    BY <1>2, <1>4, <2>2, LenProperties
  <2> QED
    BY <1>5, <2>3 DEF TurnsOff, FinalOff
<1> QED
  BY <1>3, <1>5, <1>6 DEF JobInv

\* The next line goes out.
LEMMA JobSends ==
  ASSUME TypeOK, SessionInv, WireInv, JobInv, TickSends, state' = "Running"
  PROVE  JobInv'
<1>1. state = "Running" /\ UNCHANGED <<dialect, from_ctl, planner, beam>>
  BY DEF TickSends, SessionInv, machine
<1>2. CASE Sends /\ link # "down"
  <2>1. Send(flow.commands[flow.next_index + 1]) /\ flow' = MarkSent
    BY <1>2 DEF TickSends
  <2>2. to_ctl = <<>> /\ flow.next_index < Total /\ ~Refused
    BY <1>1, <1>2 DEF Sends, LineReady, WireInv, NothingDue, Refused, Answer
  <2>3. flow.commands[flow.next_index + 1] \in Command
    BY <1>2, LineType DEF Sends, Command
  <2>4. /\ Len(to_ctl') = 1 /\ to_ctl'[1] = flow.commands[flow.next_index + 1]
    BY <2>1, <2>2, <2>3, SendAppends, Len(<<>>) = 0
  <2>5. to_ctl' # <<>>
    BY <2>4, Len(<<>>) = 0
  <2>6. flow'.commands = flow.commands /\ flow'.next_index = flow.next_index + 1
    BY <2>1, TypeParts DEF MarkSent, SessionTypeOK, Flow
  <2>7. flow.next_index \in Nat /\ Total \in Nat
    BY <1>1, RunningFacts
  <2>8. Taken' = Taken /\ Taken = flow.next_index /\ Total' = Total
    BY <2>2, <2>5, <2>6, <2>7 DEF Taken, Total
  <2>9. \A off \in Nat : TurnsOff(off) => TurnsOff(off)'
    <3>1. EndsOff => EndsOff'
      BY <1>1 DEF EndsOff
    <3> QED
      BY <2>6, <2>8, <3>1 DEF TurnsOff, FinalOff
  <2> QED
    BY <1>1, <2>2, <2>4, <2>6, <2>7, <2>8, <2>9 DEF JobInv
<1>3. CASE ~(Sends /\ link # "down")
  <2>1. ~Sends \/ state' # "Running"
    BY <1>3 DEF TickSends, FailTick, TypeOK, ControllerTypeOK
  <2>2. UNCHANGED <<to_ctl, flow>>
    BY <2>1 DEF TickSends
  <2> QED
    BY <1>1, <2>2, JobStays
<1> QED
  BY <1>2, <1>3

\* An answer is read that does not end the job.
LEMMA JobReads ==
  ASSUME TypeOK, SessionInv, JobInv, TickReads, state' = "Running"
  PROVE  JobInv'
<1>1. state = "Running" /\ UNCHANGED <<dialect, planner, beam>>
  BY DEF TickReads, SessionInv, machine
<1>2. PICK reply \in Reply :
        /\ Read(reply)
        /\ ~Rejects(reply)
        /\ flow' = IF reply = "ok" THEN Acknowledge ELSE flow
        /\ UNCHANGED to_ctl
  BY DEF TickReads, FailTick
<1>3. /\ Len(from_ctl) \in Nat \ {0} /\ Len(from_ctl') = Len(from_ctl) - 1
      /\ from_ctl[1] = reply
      /\ \A i \in 1..Len(from_ctl') : from_ctl'[i] = from_ctl[i + 1]
  BY <1>2, ReadRemoves
<1>4. ASSUME Refused PROVE Refused'
  <2>1. PICK i \in 1..Len(from_ctl) : from_ctl[i] \in {"error", "resend"}
    BY <1>4 DEF Refused
  <2>2. i # 1
    BY <1>2, <1>3, <2>1 DEF Rejects
  <2>3. i - 1 \in 1..Len(from_ctl') /\ from_ctl'[i - 1] = from_ctl[i]
    BY <1>3, <2>2
  <2> QED
    BY <2>1, <2>3 DEF Refused
<1>5. flow'.commands = flow.commands /\ flow'.next_index = flow.next_index
  BY <1>2, TypeParts DEF Acknowledge, SessionTypeOK, Flow
<1>6. Taken' = Taken /\ Total' = Total
  BY <1>2, <1>5 DEF Taken, Total
<1>7. \A off \in Nat : TurnsOff(off) => TurnsOff(off)'
  <2>1. EndsOff => EndsOff'
    BY <1>1 DEF EndsOff
  <2> QED
    BY <1>5, <1>6, <2>1 DEF TurnsOff, FinalOff
<1> QED
  BY <1>1, <1>2, <1>4, <1>5, <1>6, <1>7 DEF JobInv

LEMMA JobStep ==
  ASSUME TypeOK, SessionInv, OrderInv, WireInv, JobInv, [Next]_vars
  PROVE  JobInv'
<1> SUFFICES ASSUME state' = "Running" PROVE JobInv'
  BY DEF JobInv
<1>1. CASE StartJob
  BY <1>1, JobStarts
<1>2. CASE MachineStep
  <2>1. state = "Running"
    BY <1>2 DEF MachineStep, sesVars
  <2> QED
    BY <1>2, <2>1, JobMachine
<1>3. CASE TickSends
  BY <1>3, JobSends
<1>4. CASE TickReads
  BY <1>4, JobReads
<1>5. CASE TickBegins \/ TickCannotRead \/ TickTurns \/ StopStep \/ Expire \/ Quiescent
           \/ UNCHANGED vars
  <2>1. state = "Running" /\ UNCHANGED <<dialect, to_ctl, from_ctl, flow, planner, beam>>
    BY <1>5 DEF TickBegins, TickCannotRead, TickTurns, StopStep, CancelJob, EmergencyStop,
                Disconnect, Expire, Quiescent, FailTick, SessionInv, vars, ctlVars, sesVars,
                machine
  <2> QED
    BY <2>1, JobStays
<1>6. CASE ConnectionStep
  <2>1. state # "Running"
    BY <1>6 DEF ConnectionStep, Connect, ConnectFails, ProbeIdentity, ProbeRead, ProbeEnds,
                Activate, DropFailedConnection, SessionInv
  <2>2. state' \in {state, "Validating", "Ready", "Error", "Disconnected"}
    BY <1>6 DEF ConnectionStep, Connect, ConnectFails, ProbeIdentity, ProbeRead, ProbeEnds,
                EndProbe, Activate, DropFailedConnection
  <2> QED
    BY <2>1, <2>2
<1> QED
  BY <1>1, <1>2, <1>3, <1>4, <1>5, <1>6 DEF Next, TickStep

\* A tick that finds the job complete finds the machine at rest.
LEMMA CompletionIsDone ==
  ASSUME TypeOK, SessionInv, WireInv, JobInv, FireInv, state = "Running", IsComplete
  PROVE  flow.next_index = Total /\ planner = <<>> /\ ~beam
<1>1. NothingDue /\ flow.next_index = Total
  BY RunningFacts DEF WireInv, IsComplete
<1>2. ~Refused /\ Taken = Total
  BY <1>1 DEF NothingDue, Refused, Answer, Taken
<1>3. planner = <<>> /\ Len(planner) = 0
  BY <1>2, Len(<<>>) = 0 DEF JobInv
<1>4. CASE dialect = "Smoothieware"
  BY <1>1, <1>3, <1>4 DEF FireInv
<1>5. CASE dialect # "Smoothieware"
  <2>1. PICK off \in Nat : TurnsOff(off)
    BY <1>2, <1>5 DEF JobInv
  <2>2. Total \in Nat \ {0} /\ off < Total
    BY <2>1, RunningFacts DEF TurnsOff, FinalOff, Total
  <2>3. EndsOff
    BY <1>2, <2>1, <2>2 DEF TurnsOff
  <2> QED
    BY <1>1, <1>3, <2>3 DEF EndsOff
<1> QED
  BY <1>4, <1>5

LEMMA DoneStep ==
  ASSUME TypeOK, SessionInv, WireInv, JobInv, FireInv, DoneInv, [Next]_vars
  PROVE  DoneInv'
<1> SUFFICES ASSUME state' = "Ready", outcome' = "Completed"
             PROVE  flow'.next_index = Total' /\ planner' = <<>> /\ ~beam'
  BY DEF DoneInv
<1>1. ASSUME flow.next_index = Total, planner = <<>>, ~beam, UNCHANGED <<flow, planner, beam>>
      PROVE  flow'.next_index = Total' /\ planner' = <<>> /\ ~beam'
  <2>1. ~beam'
    BY <1>1, Zenon
  <2> QED
    BY <1>1, <2>1 DEF Total
<1>2. CASE TickStep
  <2>1. CASE \E f : FailTick(f)
    BY <2>1 DEF FailTick
  <2>2. CASE TickBegins /\ ~(\E f : FailTick(f))
    <3>1. UNCHANGED <<state, flow, planner, beam>>
      BY <2>2 DEF TickBegins, machine
    <3>2. state # "Running" /\ outcome = "Completed"
      BY <2>2, <3>1 DEF TickBegins
    <3> QED
      BY <1>1, <3>1, <3>2 DEF DoneInv
  <2>3. CASE (TickSends \/ TickReads \/ TickCannotRead) /\ ~(\E f : FailTick(f))
    <3>1. state = "Running" /\ state' = "Running"
      BY <2>3 DEF TickSends, TickReads, TickCannotRead, SessionInv
    <3> QED
      BY <3>1
  <2>4. CASE TickTurns
    <3>1. state = "Running" /\ UNCHANGED <<flow, planner, beam>>
      BY <2>4 DEF TickTurns, SessionInv, ctlVars
    <3>2. IsComplete
      BY <2>4, <3>1 DEF TickTurns
    <3> QED
      BY <1>1, <3>1, <3>2, CompletionIsDone
  <2> QED
    BY <1>2, <2>1, <2>2, <2>3, <2>4 DEF TickStep
<1>3. CASE MachineStep
  <2>1. UNCHANGED <<state, outcome, flow>>
    BY <1>3 DEF MachineStep, sesVars
  <2>2. flow.next_index = Total /\ planner = <<>> /\ ~beam /\ to_ctl = <<>>
    BY <2>1 DEF DoneInv, WireInv, NothingDue
  <2>3. DOMAIN to_ctl = {}
    BY <2>2
  <2>4. UNCHANGED <<planner, beam>>
    BY <1>3, <2>2, <2>3 DEF MachineStep, ControllerStep, Take, TakeLosingReply, Refuse, SayBusy,
                            Execute, Halt, BreakLink, CanTake
  <2> QED
    BY <1>1, <2>1, <2>2, <2>4
<1>4. CASE ConnectionStep
  <2>1. CASE Activate
    BY <2>1 DEF Activate, SessionInv
  <2>2. CASE ~Activate
    BY <1>4, <2>2 DEF ConnectionStep, Connect, ConnectFails, ProbeIdentity, ProbeRead, ProbeEnds,
                      EndProbe, DropFailedConnection, SessionInv
  <2> QED
    BY <2>1, <2>2
<1>5. CASE StartJob
  BY <1>5 DEF StartJob
<1>6. CASE StopStep \/ Expire \/ Quiescent \/ UNCHANGED vars
  <2>1. UNCHANGED <<state, outcome, flow, planner, beam>>
    <3>1. CASE CancelJob
      BY <3>1 DEF CancelJob, machine
    <3>2. CASE EmergencyStop \/ Disconnect
      BY <3>2 DEF EmergencyStop, Disconnect
    <3>3. CASE Expire \/ Quiescent \/ UNCHANGED vars
      BY <3>3 DEF Expire, Quiescent, vars, ctlVars, sesVars
    <3> QED
      BY <1>6, <3>1, <3>2, <3>3 DEF StopStep
  <2> QED
    BY <1>1, <2>1 DEF DoneInv
<1> QED
  BY <1>2, <1>3, <1>4, <1>5, <1>6 DEF Next

\* A job is reported as completed only when the machine has executed every line of it
\* and the laser is off: the last answer counted is M400's (AnswersAreCounted), the
\* firmware gives it with an empty planner, and the contract every job is checked
\* against (validate_job_completion_contract) puts no laser-on behind its final off.
THEOREM CompletionIsTrue ==
  ASSUME CleanReopen
  PROVE  Spec => []CompletedMeansDone
<1> DEFINE IInv == OrderInv /\ WireInv /\ FireInv /\ JobInv /\ DoneInv
<1>1. Init => IInv
  <2> SUFFICES ASSUME Init PROVE IInv
    OBVIOUS
  <2>1. ~beam
    BY Zenon DEF Init, ControllerInit
  <2> QED
    BY <2>1, Len(<<>>) = 0 DEF Init, ControllerInit, OrderInv, HaltSent, WireInv, FireInv, JobInv,
                               DoneInv
<1>2. WireInv /\ DoneInv => CompletedMeansDone
  BY DEF WireInv, NothingDue, DoneInv, CompletedMeansDone
<1>3. TypeOK /\ SessionInv /\ IInv /\ [Next]_vars => IInv'
  BY OrderStep, WireCorrectStep, FireStep, JobStep, DoneStep
<1>4. IInv => CompletedMeansDone
  BY <1>2
<1> HIDE DEF IInv
<1> QED
  BY <1>1, <1>3, <1>4, SessionCorrect, PTL DEF Spec

=============================================================================
