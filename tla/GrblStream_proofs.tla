-------------------------- MODULE GrblStream_proofs --------------------------
(***************************************************************************)
(* What GrblStream guarantees for every job, every window and every        *)
(* controller: type correctness, the exactness of the engine's byte        *)
(* account and that the firmware's receive buffer never overflows, that a  *)
(* coolant line is alone in flight and failures are reported, that         *)
(* Completed means executed, and that the whole implements JobPromise.     *)
(* At the end, what FrameGate guarantees about the frame a GRBL job must   *)
(* have had.                                                               *)
(***************************************************************************)
EXTENDS GrblStream, FrameGate, TLAPS

\* The constants a typing argument needs, without the quantified assumptions.
LEMMA ConstantType ==
  /\ N \in Nat \ {0}
  /\ RxSize \in Nat
  /\ MaxFaults \in Nat
  /\ GRBL_RX_BUFFER_SIZE \in Nat
  /\ IdleLimit \in Nat \ {0}
  /\ MaxPresses \in Nat
  /\ PlannerCap \in Nat \ {0}
  BY JobAssumption, FirmwareAssumption, WindowAssumption

\* Bytes up to a line are a number, and every line has at least one.
LEMMA OffsetType ==
  /\ \A i \in 0..N : Offset[i] \in Nat
  /\ \A i \in Line : Size(i) \in Nat \ {0}
  BY JobAssumption DEF Size, Line

\* A job about to start is well typed.
LEMMA TypeInit == Init => TypeOK
<1> SUFFICES ASSUME Init PROVE TypeOK
  OBVIOUS
<1> USE DEF Init, HostInit, ControllerInit, AtRest
<1>1. ControllerTypeOK
  <2>1. ControllerDataOK
    BY ConstantType DEF ControllerDataOK
  <2>2. ControllerFlagsOK
    BY Zenon DEF ControllerFlagsOK
  <2> QED
    BY <2>1, <2>2 DEF ControllerTypeOK
<1>2. HostTypeOK
  BY ConstantType DEF HostTypeOK, StatusReports, JobStates, SessionStates
<1>3. FlagsOK
  BY Zenon DEF FlagsOK
<1> QED
  BY <1>1, <1>2, <1>3 DEF TypeOK

\* Every step keeps the types of what the host keeps, flags apart.
LEMMA HostTypeStep == TypeOK /\ [Next]_vars => HostTypeOK'
<1> SUFFICES ASSUME TypeOK, [Next]_vars PROVE HostTypeOK'
  OBVIOUS
<1> USE DEF TypeOK, HostTypeOK, engineVars, sessionVars, desyncVars, jobVars,
        StatusReports, JobStates, SessionStates
<1>1. CASE Start
  BY <1>1, ConstantType DEF Start
<1>2. CASE TickBegin
  BY <1>2 DEF TickBegin
<1>3. CASE PollOk
  <2>1. sent_commands' \in Seq(Line) /\ bytes_in_flight' \in Nat
    <3>1. CASE failed \/ sent_commands = <<>>
      BY <1>3, <3>1 DEF PollOk
    <3>2. CASE ~(failed \/ sent_commands = <<>>)
      <4>1. Head(sent_commands) \in Line /\ sent_commands' = Tail(sent_commands)
        BY <1>3, <3>2 DEF PollOk
      <4>2. bytes_in_flight' \in Nat
        <5> DEFINE size == Size(Head(sent_commands))
        <5>1. size \in Nat
          BY <4>1, OffsetType
        <5>2. bytes_in_flight' = IF size <= bytes_in_flight
                                 THEN bytes_in_flight - size ELSE 0
          BY <1>3, <3>2 DEF PollOk
        <5> HIDE DEF size
        <5> QED
          BY <5>1, <5>2
      <4> QED
        BY <4>1, <4>2, <3>2
    <3> QED
      BY <3>1, <3>2
  <2>2. idle_timer' \in {"none", idle_timer} /\ idle_reports' \in {0, idle_reports}
    BY <1>3 DEF PollOk, ForgetDesync
  <2> QED
    BY <1>3, <2>1, <2>2, ConstantType DEF PollOk
<1>4. CASE PollStatus
  BY <1>4, ConstantType DEF PollStatus, TakeReply, ForgetDesync, ObserveStatus, Transition
<1>5. CASE PollFailure
  BY <1>5, ConstantType DEF PollFailure, TakeReply, ForgetDesync, ObserveStatus, Transition, Fail, LeaveFailed
<1>6. CASE PollDone
  BY <1>6 DEF PollDone
<1>7. CASE TransportError
  BY <1>7 DEF TransportError
<1>8. CASE SendLine
  BY <1>8, ConstantType, OffsetType DEF SendLine, UNCHANGEDController, Blocked, all_sent, Line
<1>9. CASE SpoolFails
  BY <1>9 DEF SpoolFails, Fault, Fail
<1>10. CASE SendDone
  BY <1>10 DEF SendDone
<1>11. CASE QueryStatus
  BY <1>11 DEF QueryStatus, Write, UNCHANGEDController
<1>12. CASE FailSilent
  BY <1>12 DEF FailSilent, Fail, LeaveFailed
<1>13. CASE SpindleStop
  BY <1>13 DEF SpindleStop, Write, UNCHANGEDController
<1>14. CASE FailDesync
  BY <1>14, ConstantType DEF FailDesync, Fail, LeaveFailed, CountedReports, CountedTimer
<1>15. CASE TickEnd
  <2>1. CountedReports \in 0..IdleLimit /\ CountedTimer \in {"none", "running", "elapsed"}
    BY ConstantType DEF CountedReports, CountedTimer
  <2>2. idle_reports' \in {0, idle_reports, CountedReports}
        /\ idle_timer' \in {"none", idle_timer, CountedTimer}
    BY <1>15 DEF TickEnd, ForgetDesync
  <2>3. idle_baseline' \in {"armed", idle_baseline}
    BY <1>15 DEF TickEnd
  <2>4. progress' \in {"Completed", progress} /\ session_state' \in {"Ready", session_state}
    BY <1>15 DEF TickEnd, Transition
  <2>5. pc' \in {"idle", "release"}
    BY <1>15 DEF TickEnd, LeaveFailed
  <2>6. UNCHANGED <<engineVars, last_status, status_wait, call, presses>>
    BY <1>15 DEF TickEnd
  <2> QED
    BY <2>1, <2>2, <2>3, <2>4, <2>5, <2>6, ConstantType
<1>16. CASE Pause
  BY <1>16, ConstantType DEF Pause, Press, Write, UNCHANGEDController, Transition, Fail
<1>17. CASE Resume
  BY <1>17, ConstantType DEF Resume, Press, Write, UNCHANGEDController, Transition
<1>18. CASE Cancel
  <2>1. presses' \in 0..MaxPresses
    BY <1>18, ConstantType DEF Cancel, Press
  <2>2. /\ session_state' \in {"WaitingForBanner", session_state}
        /\ status_wait' \in {"none", status_wait}
        /\ progress' \in {"Cancelled", progress}
    BY <1>18 DEF Cancel
  <2>3. UNCHANGED <<next_index, bytes_in_flight, sent_commands, last_status,
                    idle_timer, idle_reports, idle_baseline, pc, call>>
    BY <1>18 DEF Cancel
  <2> QED
    BY <2>1, <2>2, <2>3
<1>19. CASE Release
  BY <1>19 DEF Release, UNCHANGEDController
<1>20. CASE PollDue
  BY <1>20 DEF PollDue
<1>21. CASE StatusTimeout
  BY <1>21 DEF StatusTimeout
<1>22. CASE DelayElapses
  BY <1>22 DEF DelayElapses
<1>23. CASE BreakLink
  BY <1>23 DEF BreakLink, Fault
<1>24. CASE Controller
  BY <1>24 DEF Controller, hostVars
<1>25. CASE UNCHANGED vars
  BY <1>25 DEF vars, hostVars
<1> QED
  BY <1>1, <1>2, <1>3, <1>4, <1>5, <1>6, <1>7, <1>8, <1>9, <1>10, <1>11, <1>12,
     <1>13, <1>14, <1>15, <1>16, <1>17, <1>18, <1>19, <1>20, <1>21, <1>22, <1>23,
     <1>24, <1>25, Zenon DEF Next, Tick, Poll, Send, Finish, User, Clock,
     HostFault, Finished

\* Every step keeps the Boolean flags Boolean.
LEMMA FlagsTypeStep == TypeOK /\ [Next]_vars => FlagsOK'
<1> SUFFICES ASSUME TypeOK, [Next]_vars PROVE FlagsOK'
  OBVIOUS
<1> USE DEF TypeOK, FlagsOK, engineVars, sessionVars, desyncVars, jobVars
<1>1. CASE Start
  BY <1>1, Zenon DEF Start
<1>2. CASE TickBegin
  BY <1>2, Zenon DEF TickBegin
<1>3. CASE PollOk
  BY <1>3, Zenon DEF PollOk, TakeReply, ForgetDesync, Size, Line
<1>4. CASE PollStatus
  BY <1>4, Zenon DEF PollStatus, TakeReply, ForgetDesync, ObserveStatus, Transition
<1>5. CASE PollFailure
  BY <1>5, Zenon DEF PollFailure, TakeReply, ForgetDesync, ObserveStatus, Transition, Fail, LeaveFailed
<1>6. CASE PollDone
  BY <1>6, Zenon DEF PollDone
<1>7. CASE TransportError
  BY <1>7, Zenon DEF TransportError
<1>8. CASE SendLine
  BY <1>8, Zenon DEF SendLine, UNCHANGEDController, Blocked, all_sent, Size, Line, Quiet
<1>9. CASE SpoolFails
  BY <1>9, Zenon DEF SpoolFails, Fault, Fail
<1>10. CASE SendDone
  BY <1>10, Zenon DEF SendDone
<1>11. CASE QueryStatus
  BY <1>11, Zenon DEF QueryStatus, Write, UNCHANGEDController
<1>12. CASE FailSilent
  BY <1>12, Zenon DEF FailSilent, Fail, LeaveFailed
<1>13. CASE SpindleStop
  BY <1>13, Zenon DEF SpindleStop, Write, UNCHANGEDController
<1>14. CASE FailDesync
  BY <1>14, Zenon DEF FailDesync, Fail, LeaveFailed, CountedReports, CountedTimer
<1>15. CASE TickEnd
  BY <1>15, Zenon DEF TickEnd, ForgetDesync, CountedReports, CountedTimer, Transition, LeaveFailed
<1>16. CASE Pause
  BY <1>16, Zenon DEF Pause, Press, Write, UNCHANGEDController, Transition, Fail
<1>17. CASE Resume
  BY <1>17, Zenon DEF Resume, Press, Write, UNCHANGEDController, Transition
<1>18. CASE Cancel
  BY <1>18, Zenon DEF Cancel, Press, UNCHANGEDController
<1>19. CASE Release
  BY <1>19, Zenon DEF Release, UNCHANGEDController
<1>20. CASE PollDue
  BY <1>20, Zenon DEF PollDue
<1>21. CASE StatusTimeout
  BY <1>21, Zenon DEF StatusTimeout
<1>22. CASE DelayElapses
  BY <1>22, Zenon DEF DelayElapses
<1>23. CASE BreakLink
  BY <1>23, Zenon DEF BreakLink, Fault
<1>24. CASE Controller
  BY <1>24, Zenon DEF Controller, hostVars
<1>25. CASE UNCHANGED vars
  BY <1>25, Zenon DEF vars, hostVars
<1> QED
  BY <1>1, <1>2, <1>3, <1>4, <1>5, <1>6, <1>7, <1>8, <1>9, <1>10, <1>11, <1>12,
     <1>13, <1>14, <1>15, <1>16, <1>17, <1>18, <1>19, <1>20, <1>21, <1>22, <1>23,
     <1>24, <1>25, Zenon DEF Next, Tick, Poll, Send, Finish, User, Clock,
     HostFault, Finished

\* What an operation of the host may do to the controller's state: put typed
\* items on the wire, take the oldest reply, count a fault.
HostTouches ==
  /\ \/ wire' = wire
     \/ \E w \in Written : wire' = Append(wire, w)
     \/ \E v, w \in Written : wire' = wire \o <<v, w>>
     \/ \E u, v, w \in Written : wire' = wire \o <<u, v, w>>
  /\ replies' = replies \/ (replies # <<>> /\ replies' = Tail(replies))
  /\ faults' = faults \/ (faults < MaxFaults /\ faults' = faults + 1)
  /\ UNCHANGED <<received, consumed, planner, executed, mode, busy, asked, dark,
                 alive>>

HostNext == Start \/ Tick \/ User \/ Clock \/ HostFault \/ Finished

\* What a host step may do to the controller: write, and take a reply.
LEMMA HostTouchesOnly == TypeOK /\ HostNext => HostTouches
<1> SUFFICES ASSUME TypeOK, HostNext PROVE HostTouches
  OBVIOUS
<1>0. \A k \in WireKinds : [k |-> k, n |-> next_index] \in Written
  BY DEF TypeOK, HostTypeOK, Written
<1>1. CASE Start
  BY <1>1 DEF Start, ctlVars, HostTouches
<1>2. CASE TickBegin
  BY <1>2 DEF TickBegin, ctlVars, HostTouches
<1>3. CASE PollOk
  BY <1>3 DEF PollOk, TakeReply, HostTouches
<1>4. CASE PollStatus
  BY <1>4 DEF PollStatus, TakeReply, HostTouches
<1>5. CASE PollFailure
  BY <1>5 DEF PollFailure, TakeReply, HostTouches
<1>6. CASE PollDone
  BY <1>6 DEF PollDone, ctlVars, HostTouches
<1>7. CASE TransportError
  BY <1>7 DEF TransportError, ctlVars, HostTouches
<1>8. CASE SendLine
  <2>1. [k |-> "line", n |-> next_index + 1] \in Written
    BY <1>8, ConstantType
       DEF TypeOK, HostTypeOK, SendLine, Blocked, all_sent, Written, WireKinds
  <2> QED
    BY <2>1, <1>8 DEF SendLine, UNCHANGEDController, HostTouches
<1>9. CASE SpoolFails
  BY <1>9 DEF SpoolFails, Fault, HostTouches
<1>10. CASE SendDone
  BY <1>10 DEF SendDone, ctlVars, HostTouches
<1>11. CASE QueryStatus
  BY <1>11, <1>0 DEF QueryStatus, Write, UNCHANGEDController, ctlVars, HostTouches, WireKinds
<1>12. CASE FailSilent
  BY <1>12 DEF FailSilent, ctlVars, HostTouches
<1>13. CASE SpindleStop
  BY <1>13, <1>0 DEF SpindleStop, Write, UNCHANGEDController, ctlVars, HostTouches, WireKinds
<1>14. CASE FailDesync
  BY <1>14 DEF FailDesync, ctlVars, HostTouches
<1>15. CASE TickEnd
  BY <1>15 DEF TickEnd, ctlVars, HostTouches
<1>16. CASE Pause
  BY <1>16, <1>0 DEF Pause, Write, UNCHANGEDController, ctlVars, HostTouches, WireKinds
<1>17. CASE Resume
  BY <1>17, <1>0 DEF Resume, Write, UNCHANGEDController, HostTouches, WireKinds
<1>18. CASE Cancel
  <2>1. [k |-> "ctrl-x", n |-> next_index] \in Written
        /\ [k |-> "m5", n |-> next_index] \in Written
    BY <1>0 DEF WireKinds
  <2>2. /\ UNCHANGED <<replies, received, consumed, planner, executed, mode,
                       busy, asked, dark, alive, faults>>
        /\ \/ wire' = wire
           \/ wire' = wire \o <<[k |-> "ctrl-x", n |-> next_index],
                                [k |-> "m5", n |-> next_index],
                                [k |-> "ctrl-x", n |-> next_index]>>
    BY <1>18 DEF Cancel, UNCHANGEDController, ctlVars
  <2> QED
    BY <2>1, <2>2 DEF HostTouches
<1>19. CASE Release
  BY <1>19, <1>0 DEF Release, UNCHANGEDController, ctlVars, HostTouches, WireKinds
<1>20. CASE PollDue
  BY <1>20 DEF PollDue, ctlVars, HostTouches
<1>21. CASE StatusTimeout
  BY <1>21 DEF StatusTimeout, ctlVars, HostTouches
<1>22. CASE DelayElapses
  BY <1>22 DEF DelayElapses, ctlVars, HostTouches
<1>23. CASE BreakLink
  BY <1>23 DEF BreakLink, Fault, HostTouches
<1>24. CASE Finished
  BY <1>24 DEF Finished, vars, ctlVars, HostTouches
<1> QED
  BY <1>1, <1>2, <1>3, <1>4, <1>5, <1>6, <1>7, <1>8, <1>9, <1>10, <1>11, <1>12,
     <1>13, <1>14, <1>15, <1>16, <1>17, <1>18, <1>19, <1>20, <1>21, <1>22, <1>23,
     <1>24, Zenon DEF HostNext, Tick, Poll, Send, Finish, User, Clock, HostFault

\* The firmware sends well-typed replies.
LEMMA EmitTyped ==
  ASSUME NEW kind \in ReplyKinds, NEW n \in 0..N, replies \in Seq(Reply),
         Emit(kind, n)
  PROVE  replies' \in Seq(Reply)
  BY DEF Emit, Reply

\* What arrives at the firmware was written, and leaves the wire typed.
LEMMA ArrivesTyped ==
  ASSUME NEW kind, wire \in Seq(Written), Arrives(kind)
  PROVE  wire' \in Seq(Written) /\ Head(wire) \in Written /\ Head(wire).n \in 0..N
<1>1. wire # <<>> /\ wire' = Tail(wire)
  BY DEF Arrives
<1>2. wire' \in Seq(Written) /\ Head(wire) \in Written
  BY <1>1
<1> QED
  BY <1>2 DEF Written

\* Every step of the firmware keeps the types of its data.
LEMMA ControllerDataStep == ControllerDataOK /\ ControllerNext => ControllerDataOK'
<1> SUFFICES ASSUME ControllerDataOK, ControllerNext PROVE ControllerDataOK'
  OBVIOUS
<1> USE DEF ControllerDataOK
<1>0. /\ {"ok", "error", "ALARM", "banner"} \subseteq ReplyKinds
      /\ RunState \in ReplyKinds
  BY DEF ReplyKinds, StatusReports, RunState
<1>1. CASE DeliverLine
  BY <1>1, <1>0, ConstantType, ArrivesTyped DEF DeliverLine
<1>2. CASE DeliverM5
  BY <1>2, <1>0, ConstantType, ArrivesTyped, EmitTyped DEF DeliverM5
<1>3. CASE DeliverQuery
  BY <1>3, <1>0, ConstantType, ArrivesTyped DEF DeliverQuery
<1>4. CASE DeliverFeedHold
  BY <1>4, <1>0, ConstantType, ArrivesTyped DEF DeliverFeedHold
<1>5. CASE DeliverCycleStart
  BY <1>5, <1>0, ConstantType, ArrivesTyped DEF DeliverCycleStart
<1>6. CASE DeliverSpindleStop
  BY <1>6, <1>0, ConstantType, ArrivesTyped DEF DeliverSpindleStop
<1>7. CASE DeliverReset
  BY <1>7, <1>0, ConstantType, ArrivesTyped, EmitTyped DEF DeliverReset, Restarted
<1>8. CASE DeliverToDead
  BY <1>8, <1>0, ConstantType, ArrivesTyped DEF DeliverToDead
<1>9. CASE ParseMotion
  BY <1>9, <1>0, ConstantType, EmitTyped DEF ParseMotion, CanParse, Line
<1>10. CASE BeginWait
  BY <1>10, <1>0, ConstantType DEF BeginWait, CanParse
<1>11. CASE EndWait
  BY <1>11, <1>0, ConstantType, EmitTyped DEF EndWait, Line
<1>12. CASE Execute
  BY <1>12, <1>0, ConstantType DEF Execute, Line
<1>13. CASE Report
  BY <1>13, <1>0, ConstantType, EmitTyped DEF Report
<1>14. CASE RejectLine
  BY <1>14, <1>0, ConstantType, EmitTyped DEF RejectLine, Fault, CanParse
<1>15. CASE LoseOk
  BY <1>15, <1>0, ConstantType DEF LoseOk, Fault
<1>16. CASE TripAlarm
  BY <1>16, <1>0, ConstantType, EmitTyped DEF TripAlarm, Fault
<1>17. CASE PowerGlitch
  BY <1>17, <1>0, ConstantType, EmitTyped DEF PowerGlitch, Fault, Restarted
<1>18. CASE GoSilent
  BY <1>18, <1>0, ConstantType DEF GoSilent, Fault
<1> QED
  BY <1>1, <1>2, <1>3, <1>4, <1>5, <1>6, <1>7, <1>8, <1>9,
     <1>10, <1>11, <1>12, <1>13, <1>14, <1>15, <1>16, <1>17, <1>18, Zenon
     DEF ControllerNext, Deliver, Work, ControllerFault

\* Every step of the firmware keeps its flags Boolean.
LEMMA ControllerFlagsStep == ControllerFlagsOK /\ ControllerNext => ControllerFlagsOK'
<1> SUFFICES ASSUME ControllerFlagsOK, ControllerNext PROVE ControllerFlagsOK'
  OBVIOUS
<1> USE DEF ControllerFlagsOK
<1>1. CASE DeliverLine
  BY <1>1, Zenon DEF DeliverLine
<1>2. CASE DeliverM5
  BY <1>2, Zenon DEF DeliverM5
<1>3. CASE DeliverQuery
  BY <1>3, Zenon DEF DeliverQuery
<1>4. CASE DeliverFeedHold
  BY <1>4, Zenon DEF DeliverFeedHold
<1>5. CASE DeliverCycleStart
  BY <1>5, Zenon DEF DeliverCycleStart
<1>6. CASE DeliverSpindleStop
  BY <1>6, Zenon DEF DeliverSpindleStop
<1>7. CASE DeliverReset
  BY <1>7, Zenon DEF DeliverReset, Restarted
<1>8. CASE DeliverToDead
  BY <1>8, Zenon DEF DeliverToDead
<1>9. CASE ParseMotion
  BY <1>9, Zenon DEF ParseMotion
<1>10. CASE BeginWait
  BY <1>10, Zenon DEF BeginWait
<1>11. CASE EndWait
  BY <1>11, Zenon DEF EndWait
<1>12. CASE Execute
  BY <1>12, Zenon DEF Execute
<1>13. CASE Report
  BY <1>13, Zenon DEF Report
<1>14. CASE RejectLine
  BY <1>14, Zenon DEF RejectLine
<1>15. CASE LoseOk
  BY <1>15, Zenon DEF LoseOk
<1>16. CASE TripAlarm
  BY <1>16, Zenon DEF TripAlarm
<1>17. CASE PowerGlitch
  BY <1>17, Zenon DEF PowerGlitch, Restarted
<1>18. CASE GoSilent
  BY <1>18, Zenon DEF GoSilent
<1> QED
  BY <1>1, <1>2, <1>3, <1>4, <1>5, <1>6, <1>7, <1>8, <1>9,
     <1>10, <1>11, <1>12, <1>13, <1>14, <1>15, <1>16, <1>17, <1>18, Zenon
     DEF ControllerNext, Deliver, Work, ControllerFault

\* A host step keeps the controller well typed.
LEMMA HostKeepsController == TypeOK /\ HostTouches => ControllerTypeOK'
<1> SUFFICES ASSUME TypeOK, HostTouches PROVE ControllerTypeOK'
  OBVIOUS
<1> USE DEF TypeOK, ControllerTypeOK, HostTouches
<1>1. ControllerDataOK'
  <2>0. wire \in Seq(Written) /\ replies \in Seq(Reply)
    BY DEF ControllerDataOK
  <2>1. wire' \in Seq(Written)
    <3>1. CASE wire' = wire
      BY <2>0, <3>1
    <3>2. ASSUME NEW w \in Written, wire' = Append(wire, w)
          PROVE  wire' \in Seq(Written)
      BY <2>0, <3>2
    <3>3. ASSUME NEW v \in Written, NEW w \in Written, wire' = wire \o <<v, w>>
          PROVE  wire' \in Seq(Written)
      <4>1. <<v, w>> \in Seq(Written)
        OBVIOUS
      <4> QED
        BY <2>0, <3>3, <4>1
    <3>4. ASSUME NEW u \in Written, NEW v \in Written, NEW w \in Written,
                 wire' = wire \o <<u, v, w>>
          PROVE  wire' \in Seq(Written)
      <4>1. <<u, v, w>> \in Seq(Written)
        OBVIOUS
      <4> QED
        BY <2>0, <3>4, <4>1
    <3> QED
      BY <3>1, <3>2, <3>3, <3>4
  <2>2. replies' \in Seq(Reply)
    <3>1. CASE replies' = replies
      BY <2>0, <3>1
    <3>2. CASE replies # <<>> /\ replies' = Tail(replies)
      BY <2>0, <3>2
    <3> QED
      BY <3>1, <3>2
  <2>3. faults' \in 0..MaxFaults
    BY ConstantType DEF ControllerDataOK
  <2> QED
    BY <2>1, <2>2, <2>3 DEF ControllerDataOK
<1>2. ControllerFlagsOK'
  BY Zenon DEF ControllerFlagsOK
<1> QED
  BY <1>1, <1>2

\* Every step keeps TypeOK.
LEMMA TypeStep == TypeOK /\ [Next]_vars => TypeOK'
<1> SUFFICES ASSUME TypeOK, [Next]_vars PROVE ControllerTypeOK'
  BY HostTypeStep, FlagsTypeStep DEF TypeOK
<1>1. CASE HostNext
  BY <1>1, HostTouchesOnly, HostKeepsController
<1>2. CASE Controller
  BY <1>2, ControllerDataStep, ControllerFlagsStep DEF Controller, TypeOK, ControllerTypeOK
<1>3. CASE UNCHANGED vars
  <2>1. ControllerDataOK'
    BY <1>3 DEF TypeOK, ControllerTypeOK, ControllerDataOK, vars, ctlVars
  <2>2. ControllerFlagsOK'
    BY <1>3, Zenon DEF TypeOK, ControllerTypeOK, ControllerFlagsOK, vars, ctlVars
  <2> QED
    BY <2>1, <2>2 DEF ControllerTypeOK
<1> QED
  BY <1>1, <1>2, <1>3 DEF Next, HostNext

\* Every variable keeps its type, whatever the job, the window and the faults:
\* the account never leaves the naturals, the reply counter never passes its
\* limit.
THEOREM TypeCorrect == Spec => []TypeOK
  BY TypeInit, TypeStep, PTL DEF Spec

-----------------------------------------------------------------------------
(* The engine's account.  StreamInv is inductive together with TypeOK: the *)
(* window bounds what the firmware has not consumed because a line leaves  *)
(* the account only on an `ok', and every `ok' in flight is about a line   *)
(* the firmware consumed and the engine has not yet counted.               *)

\* The elements of a tail are those of the sequence, one place on.
LEMMA TailOf ==
  ASSUME NEW S, NEW s \in Seq(S), s # <<>>
  PROVE  /\ DOMAIN Tail(s) = 1..(Len(s) - 1)
         /\ Len(Tail(s)) = Len(s) - 1
         /\ \A p \in DOMAIN Tail(s) : p + 1 \in DOMAIN s /\ Tail(s)[p] = s[p + 1]
         /\ 1 \in DOMAIN s /\ Head(s) = s[1]
  OBVIOUS

\* The elements of a sequence and of what is appended to it.
LEMMA AppendOf ==
  ASSUME NEW S, NEW s \in Seq(S), NEW e
  PROVE  /\ DOMAIN Append(s, e) = 1..(Len(s) + 1)
         /\ Len(Append(s, e)) = Len(s) + 1
         /\ \A p \in DOMAIN s : Append(s, e)[p] = s[p]
         /\ \A p \in DOMAIN Append(s, e) : p \in DOMAIN s \/ p = Len(s) + 1
         /\ Append(s, e)[Len(s) + 1] = e
  OBVIOUS

\* Longer prefixes of the job have more bytes.
LEMMA OffsetMonotone ==
  /\ \A i, j \in 0..N : i <= j => Offset[i] <= Offset[j]
  /\ \A i \in 0..N : Offset[i] \in Nat
  /\ \A i \in 1..N : Size(i) = Offset[i] - Offset[i - 1]
  BY JobAssumption DEF Size

\* A job about to start has an empty, exact account.
LEMMA StreamInit == Init => StreamInv
<1> SUFFICES ASSUME Init PROVE StreamInv
  OBVIOUS
<1> USE DEF Init, HostInit, ControllerInit, AtRest
<1>1. AccountExact
  BY OffsetMonotone, ConstantType DEF AccountExact, AckPoint
<1>2. WireSorted
  BY DEF WireSorted
<1>3. OksSorted
  BY DEF OksSorted, AckPoint
<1>4. Offset[next_index] - Offset[consumed] <= GRBL_RX_BUFFER_SIZE
  BY OffsetMonotone, ConstantType
<1> QED
  BY <1>1, <1>2, <1>3, <1>4 DEF StreamInv

\* A step of the host that neither sends a line nor counts an `ok'.
QuietStep ==
  /\ UNCHANGED <<next_index, bytes_in_flight, sent_commands, received, consumed>>
  /\ \/ wire' = wire
     \/ \E kind \in WireKinds \ {"m5"} :
          wire' = Append(wire, [k |-> kind, n |-> next_index])
     \/ ~Attended' /\ wire' = wire \o <<[k |-> "ctrl-x", n |-> next_index],
                                         [k |-> "m5", n |-> next_index]>>
     \/ ~Attended' /\ wire' = wire \o <<[k |-> "ctrl-x", n |-> next_index],
                                         [k |-> "m5", n |-> next_index],
                                         [k |-> "ctrl-x", n |-> next_index]>>
  /\ replies' = replies \/ (replies # <<>> /\ replies' = Tail(replies))
  /\ Attended' => Attended
  /\ held' \/ pc' # "idle" => progress' # "Preparing"

\* A step that neither sends a line, takes an ok, nor lets the firmware move
\* keeps the account.
LEMMA QuietStepPreserves == TypeOK /\ StreamInv /\ QuietStep => StreamInv'
<1> SUFFICES ASSUME TypeOK, StreamInv, QuietStep PROVE StreamInv'
  OBVIOUS
<1>0. /\ next_index \in 0..N /\ received \in 0..N /\ consumed \in 0..N
      /\ wire \in Seq(Written) /\ replies \in Seq(Reply)
      /\ UNCHANGED <<next_index, bytes_in_flight, sent_commands, received, consumed>>
  BY DEF TypeOK, ControllerTypeOK, ControllerDataOK, HostTypeOK, QuietStep
<1>1. AccountExact'
  BY <1>0 DEF StreamInv, AccountExact, AckPoint
<1>2. WireSorted'
  <2>0. WireSorted
    BY DEF StreamInv
  <2>1. CASE wire' = wire
    BY <1>0, <2>0, <2>1 DEF WireSorted
  <2>2. ASSUME NEW kind, wire' = Append(wire, [k |-> kind, n |-> next_index])
        PROVE  WireSorted'
    BY <1>0, <2>0, <2>2, AppendOf DEF WireSorted
  <2>3. CASE wire' = wire \o <<[k |-> "ctrl-x", n |-> next_index],
                               [k |-> "m5", n |-> next_index]>>
    <3>1. /\ DOMAIN wire' = 1..(Len(wire) + 2)
          /\ \A p \in DOMAIN wire : wire'[p] = wire[p]
          /\ \A p \in DOMAIN wire' : p \in DOMAIN wire \/ wire'[p].n = next_index
      BY <1>0, <2>3
    <3> QED
      BY <1>0, <2>0, <3>1 DEF WireSorted
  <2>4. CASE wire' = wire \o <<[k |-> "ctrl-x", n |-> next_index],
                               [k |-> "m5", n |-> next_index],
                               [k |-> "ctrl-x", n |-> next_index]>>
    <3>1. /\ DOMAIN wire' = 1..(Len(wire) + 3)
          /\ \A p \in DOMAIN wire : wire'[p] = wire[p]
          /\ \A p \in DOMAIN wire' : p \in DOMAIN wire \/ wire'[p].n = next_index
      BY <1>0, <2>4
    <3> QED
      BY <1>0, <2>0, <3>1 DEF WireSorted
  <2> QED
    BY <2>1, <2>2, <2>3, <2>4 DEF QuietStep
<1>3. Attended' => OksSorted'
  <2> SUFFICES ASSUME Attended' PROVE OksSorted'
    OBVIOUS
  <2>0. OksSorted /\ AckPoint' = AckPoint
    BY <1>0 DEF StreamInv, QuietStep, AckPoint
  <2>1. \A p \in DOMAIN wire' : wire'[p].k # "m5"
    <3>1. CASE wire' = wire
      BY <2>0, <3>1 DEF OksSorted
    <3>2. ASSUME NEW kind \in WireKinds \ {"m5"},
                 wire' = Append(wire, [k |-> kind, n |-> next_index])
          PROVE  \A p \in DOMAIN wire' : wire'[p].k # "m5"
      BY <1>0, <2>0, <3>2, AppendOf DEF OksSorted
    <3> QED
      BY <3>1, <3>2 DEF QuietStep
  <2>2. CASE replies' = replies
    BY <1>0, <2>0, <2>1, <2>2 DEF OksSorted
  <2>3. CASE replies # <<>> /\ replies' = Tail(replies)
    BY <1>0, <2>0, <2>1, <2>3, TailOf DEF OksSorted
  <2> QED
    BY <2>2, <2>3 DEF QuietStep
<1>4. (held \/ pc # "idle" => progress # "Preparing")'
  BY DEF QuietStep
<1>5. (Offset[next_index] - Offset[consumed] <= GRBL_RX_BUFFER_SIZE)'
  BY <1>0 DEF StreamInv
<1> QED
  BY <1>1, <1>2, <1>3, <1>4, <1>5 DEF StreamInv

\* Every host step but SendLine and PollOk is such a step.
LEMMA HostIsQuiet ==
  TypeOK /\ StreamInv /\ HostNext => QuietStep \/ SendLine \/ PollOk
<1> SUFFICES ASSUME TypeOK, StreamInv, HostNext
             PROVE  QuietStep \/ SendLine \/ PollOk
  OBVIOUS
<1>0. held \/ pc # "idle" => progress # "Preparing"
  BY DEF StreamInv
<1> USE DEF QuietStep, Attended, WireKinds
<1>1. CASE Start
  BY <1>1, <1>0 DEF Start, ctlVars, engineVars
<1>2. CASE TickBegin
  BY <1>2, <1>0 DEF TickBegin, ctlVars, engineVars
<1>3. CASE PollStatus
  BY <1>3, <1>0 DEF PollStatus, TakeReply, engineVars
<1>4. CASE PollFailure
  BY <1>4, <1>0 DEF PollFailure, TakeReply, Fail, LeaveFailed
<1>5. CASE PollDone
  BY <1>5, <1>0 DEF PollDone, ctlVars, engineVars
<1>6. CASE TransportError
  BY <1>6, <1>0 DEF TransportError, ctlVars, engineVars
<1>7. CASE SpoolFails
  BY <1>7, <1>0 DEF SpoolFails, Fail
<1>8. CASE SendDone
  BY <1>8, <1>0 DEF SendDone, ctlVars, engineVars
<1>9. CASE QueryStatus
  BY <1>9, <1>0 DEF QueryStatus, Write, UNCHANGEDController, ctlVars, engineVars
<1>10. CASE FailSilent
  BY <1>10, <1>0 DEF FailSilent, Fail, LeaveFailed, ctlVars
<1>11. CASE SpindleStop
  BY <1>11, <1>0 DEF SpindleStop, Write, UNCHANGEDController, ctlVars, engineVars
<1>12. CASE FailDesync
  BY <1>12, <1>0 DEF FailDesync, Fail, LeaveFailed, ctlVars
<1>13. CASE TickEnd
  BY <1>13, <1>0 DEF TickEnd, LeaveFailed, ctlVars, engineVars
<1>14. CASE Pause
  BY <1>14, <1>0 DEF Pause, Press, Write, UNCHANGEDController, Fail, ctlVars
<1>15. CASE Resume
  BY <1>15, <1>0 DEF Resume, Press, Write, UNCHANGEDController
<1>16. CASE Cancel
  BY <1>16, <1>0 DEF Cancel, Press, UNCHANGEDController, ctlVars
<1>17. CASE Release
  BY <1>17, <1>0 DEF Release, UNCHANGEDController, ctlVars, engineVars
<1>18. CASE PollDue
  BY <1>18, <1>0 DEF PollDue, ctlVars, engineVars
<1>19. CASE StatusTimeout
  BY <1>19, <1>0 DEF StatusTimeout, ctlVars, engineVars
<1>20. CASE DelayElapses
  BY <1>20, <1>0 DEF DelayElapses, ctlVars, engineVars
<1>21. CASE BreakLink
  BY <1>21, <1>0 DEF BreakLink, engineVars
<1>22. CASE Finished
  BY <1>22, <1>0 DEF Finished, vars, hostVars, ctlVars, engineVars, jobVars
<1> QED
  BY <1>1, <1>2, <1>3, <1>4, <1>5, <1>6, <1>7, <1>8, <1>9, <1>10, <1>11, <1>12,
     <1>13, <1>14, <1>15, <1>16, <1>17, <1>18, <1>19, <1>20, <1>21, <1>22,
     Zenon DEF HostNext, Tick, Poll, Send, Finish, User, Clock, HostFault

\* send_tick keeps the account: the line it sends follows all others.
LEMMA SendLinePreserves == TypeOK /\ StreamInv /\ SendLine => StreamInv'
<1> SUFFICES ASSUME TypeOK, StreamInv, SendLine PROVE StreamInv'
  OBVIOUS
<1>0. /\ next_index \in 0..N /\ next_index < N /\ next_index' = next_index + 1
      /\ received \in 0..N /\ consumed \in 0..N
      /\ UNCHANGED <<received, consumed, replies, held, pc, progress>>
      /\ wire \in Seq(Written) /\ replies \in Seq(Reply)
      /\ sent_commands \in Seq(Line)
      /\ sent_commands' = Append(sent_commands, next_index + 1)
      /\ bytes_in_flight \in Nat
      /\ bytes_in_flight' = bytes_in_flight + Size(next_index + 1)
      /\ wire' = Append(wire, [k |-> "line", n |-> next_index + 1])
      /\ N \in Nat
  BY ConstantType
     DEF TypeOK, ControllerTypeOK, ControllerDataOK, HostTypeOK, SendLine,
         UNCHANGEDController, Blocked, all_sent, jobVars
<1>1. /\ AccountExact /\ WireSorted /\ OksSorted
  BY DEF StreamInv, SendLine, Attended
<1>2. Size(next_index + 1) = Offset[next_index + 1] - Offset[next_index]
  BY <1>0, OffsetMonotone
<1>3. AckPoint' = AckPoint
  BY <1>0, AppendOf DEF AckPoint
<1>4. AccountExact'
  <2>1. \A p \in DOMAIN sent_commands' : sent_commands'[p] = AckPoint + p
    <3> SUFFICES ASSUME NEW p \in DOMAIN sent_commands'
                 PROVE  sent_commands'[p] = AckPoint + p
      OBVIOUS
    <3>1. CASE p \in DOMAIN sent_commands
      BY <1>0, <1>1, <3>1, AppendOf DEF AccountExact
    <3>2. CASE p = Len(sent_commands) + 1
      BY <1>0, <3>2, AppendOf DEF AckPoint
    <3> QED
      BY <1>0, <3>1, <3>2, AppendOf
  <2>2. bytes_in_flight' = Offset[next_index'] - Offset[AckPoint]
    <3>1. AckPoint \in 0..N
      BY <1>0, <1>1 DEF AccountExact, AckPoint
    <3> QED
      BY <1>0, <1>1, <1>2, <3>1, OffsetMonotone DEF AccountExact
  <2> QED
    BY <1>1, <1>3, <2>1, <2>2 DEF AccountExact
<1>5. WireSorted'
  <2>1. \A p \in DOMAIN wire : wire'[p] = wire[p] /\ wire[p].n \in Nat
    <3>1. \A p \in DOMAIN wire : wire[p] \in Written
      BY <1>0
    <3> QED
      BY <1>0, <3>1, AppendOf DEF Written
  <2>2. \A p \in DOMAIN wire' :
          \/ p \in DOMAIN wire
          \/ p = Len(wire) + 1 /\ wire'[p].n = next_index + 1
    BY <1>0, AppendOf
  <2>3. \A p \in DOMAIN wire : p \in 1..Len(wire)
    BY <1>0
  <2>4. Len(wire) \in Nat /\ DOMAIN wire' = 1..(Len(wire) + 1)
    BY <1>0, AppendOf
  <2>5. \A p \in DOMAIN wire' : received <= wire'[p].n /\ wire'[p].n <= next_index + 1
    BY <1>0, <1>1, <2>1, <2>2 DEF WireSorted
  <2>6. \A p, q \in DOMAIN wire' : p < q => wire'[p].n <= wire'[q].n
    <3> SUFFICES ASSUME NEW p \in DOMAIN wire', NEW q \in DOMAIN wire', p < q
                 PROVE  wire'[p].n <= wire'[q].n
      OBVIOUS
    <3>1. p \in DOMAIN wire
      BY <2>2, <2>4
    <3>2. CASE q \in DOMAIN wire
      BY <1>1, <2>1, <3>1, <3>2 DEF WireSorted
    <3>3. CASE wire'[q].n = next_index + 1
      BY <1>0, <1>1, <2>1, <2>5, <3>1, <3>3 DEF WireSorted
    <3> QED
      BY <2>2, <3>2, <3>3
  <2> QED
    BY <1>0, <1>1, <2>5, <2>6 DEF WireSorted
<1>6. OksSorted'
  <2>1. \A p \in DOMAIN wire' : wire'[p].k # "m5"
    BY <1>0, <1>1, AppendOf DEF OksSorted
  <2> QED
    BY <1>0, <1>1, <1>3, <2>1 DEF OksSorted
<1>7. Offset[next_index'] - Offset[consumed'] <= GRBL_RX_BUFFER_SIZE
  <2>1. bytes_in_flight + Size(next_index + 1) <= GRBL_RX_BUFFER_SIZE
    BY <1>0, ConstantType, OffsetType DEF SendLine, Blocked, all_sent, Line
  <2>2. AckPoint \in 0..N /\ AckPoint <= consumed
    BY <1>0, <1>1 DEF AccountExact, OksSorted, AckPoint
  <2>3. Offset[AckPoint] <= Offset[consumed]
    BY <1>0, <2>2, OffsetMonotone
  <2>4. /\ Offset[AckPoint] \in Nat /\ Offset[consumed] \in Nat
        /\ Offset[next_index] \in Nat /\ Offset[next_index + 1] \in Nat
    BY <1>0, <2>2, OffsetMonotone
  <2>5. bytes_in_flight = Offset[next_index] - Offset[AckPoint]
    BY <1>1 DEF AccountExact
  <2>6. Size(next_index + 1) \in Nat
    BY <1>2, <1>0, OffsetType DEF Line
  <2>7. Offset[next_index + 1] - Offset[consumed] <= GRBL_RX_BUFFER_SIZE
    BY <1>2, <2>1, <2>3, <2>4, <2>5, <2>6, ConstantType
  <2> QED
    BY <1>0, <2>7
<1> QED
  BY <1>0, <1>4, <1>5, <1>6, <1>7 DEF StreamInv

\* handle_response keeps the account: an ok is that of the oldest line in flight.
LEMMA PollOkPreserves == TypeOK /\ StreamInv /\ PollOk => StreamInv'
<1> SUFFICES ASSUME TypeOK, StreamInv, PollOk PROVE StreamInv'
  OBVIOUS
<1>0. /\ next_index \in 0..N /\ received \in 0..N /\ consumed \in 0..N
      /\ UNCHANGED <<next_index, received, consumed, wire, held, pc, progress>>
      /\ replies \in Seq(Reply) /\ replies # <<>> /\ Head(replies).k = "ok"
      /\ replies' = Tail(replies)
      /\ sent_commands \in Seq(Line)
      /\ bytes_in_flight \in Nat
  BY DEF TypeOK, ControllerTypeOK, ControllerDataOK, HostTypeOK, PollOk,
         TakeReply, jobVars
<1>1. /\ AccountExact /\ WireSorted /\ OksSorted
  BY DEF StreamInv, PollOk, TakeReply, Attended
<1>2. AckPoint < Head(replies).n
  BY <1>0, <1>1, TailOf DEF OksSorted
<1>3. /\ sent_commands' \in {sent_commands, Tail(sent_commands)}
      /\ sent_commands' # sent_commands => sent_commands # <<>>
      /\ AckPoint' \in {AckPoint, AckPoint + 1}
      /\ AccountExact'
  <2>1. CASE failed \/ sent_commands = <<>>
    BY <1>0, <1>1, <2>1 DEF PollOk, AccountExact, AckPoint
  <2>2. CASE ~(failed \/ sent_commands = <<>>)
    <3>1. /\ sent_commands # <<>>
          /\ sent_commands' = Tail(sent_commands)
      BY <2>2 DEF PollOk
    <3>2. AckPoint \in 0..N /\ AckPoint + 1 \in 1..N /\ AckPoint + 1 <= next_index
      BY <1>0, <1>1, <3>1, ConstantType DEF AccountExact, AckPoint
    <3>3. Head(sent_commands) = AckPoint + 1
      BY <1>0, <1>1, <3>1, TailOf DEF AccountExact
    <3>4. /\ Size(AckPoint + 1) = Offset[AckPoint + 1] - Offset[AckPoint]
          /\ Offset[AckPoint + 1] \in Nat /\ Offset[AckPoint] \in Nat
          /\ Offset[next_index] \in Nat
          /\ Offset[AckPoint + 1] <= Offset[next_index]
      BY <1>0, <3>2, OffsetMonotone
    <3>5. bytes_in_flight = Offset[next_index] - Offset[AckPoint]
      BY <1>1 DEF AccountExact
    <3>6. bytes_in_flight' = IF Size(AckPoint + 1) <= bytes_in_flight
                             THEN bytes_in_flight - Size(AckPoint + 1) ELSE 0
      BY <2>2, <3>3 DEF PollOk
    <3>7. bytes_in_flight' = Offset[next_index] - Offset[AckPoint + 1]
      BY <3>4, <3>5, <3>6
    <3>8. AckPoint' = AckPoint + 1
      BY <1>0, <3>1, TailOf DEF AckPoint
    <3>9. \A p \in DOMAIN sent_commands' : sent_commands'[p] = AckPoint + 1 + p
      BY SMTT(30), <1>0, <1>1, <3>1, <3>2, TailOf DEF AccountExact
    <3> QED
      BY <1>0, <3>1, <3>2, <3>7, <3>8, <3>9 DEF AccountExact
  <2> QED
    BY <2>1, <2>2
<1>4. AckPoint' \in {AckPoint, AckPoint + 1} /\ AckPoint \in Nat
  BY <1>1, <1>3 DEF AccountExact
<1>5. WireSorted'
  BY <1>0, <1>1 DEF WireSorted
<1>6. OksSorted'
  <2>1. \A p \in DOMAIN replies' : p + 1 \in DOMAIN replies /\ replies'[p] = replies[p + 1]
    BY <1>0, TailOf
  <2>2. \A p \in DOMAIN replies : replies[p].n \in Nat
    <3>1. \A p \in DOMAIN replies : replies[p] \in Reply
      BY <1>0
    <3> QED
      BY <3>1, ConstantType DEF Reply
  <2>3. Head(replies) = replies[1] /\ 1 \in DOMAIN replies
    BY <1>0, TailOf
  <2>4. AckPoint' <= replies[1].n /\ replies[1].n <= consumed
    BY <1>0, <1>1, <1>2, <1>4, <2>2, <2>3 DEF OksSorted
  <2>5. \A p \in DOMAIN replies' :
          replies'[p].k = "ok" => AckPoint' < replies'[p].n /\ replies'[p].n <= consumed
    <3> SUFFICES ASSUME NEW p \in DOMAIN replies', replies'[p].k = "ok"
                 PROVE  AckPoint' < replies'[p].n /\ replies'[p].n <= consumed
      OBVIOUS
    <3>1. p \in Nat \ {0} /\ replies[p + 1].k = "ok" /\ p + 1 \in DOMAIN replies
      BY <1>0, <2>1, TailOf
    <3>2. replies[1].n < replies[p + 1].n
      BY <1>0, <1>1, <2>3, <3>1 DEF OksSorted
    <3>3. replies[p + 1].n <= consumed
      BY <1>1, <3>1 DEF OksSorted
    <3> QED
      BY <1>0, <1>4, <2>1, <2>2, <2>3, <2>4, <3>1, <3>2, <3>3
  <2>6. \A p, q \in DOMAIN replies' :
          p < q /\ replies'[p].k = "ok" /\ replies'[q].k = "ok"
            => replies'[p].n < replies'[q].n
    BY <1>0, <1>1, <2>1, TailOf DEF OksSorted
  <2>7. AckPoint' <= consumed
    BY <1>0, <1>4, <2>2, <2>3, <2>4
  <2> QED
    BY <1>0, <1>1, <2>5, <2>6, <2>7 DEF OksSorted
<1> QED
  BY <1>0, <1>3, <1>5, <1>6 DEF StreamInv

\* What any step of the firmware does to the lines it was handed.
FirmwareStep ==
  /\ \/ wire' = wire /\ received' = received
     \/ /\ wire # <<>>
        /\ wire' = Tail(wire)
        /\ received' \in {received, Head(wire).n}
  /\ \/ consumed' = consumed
     \/ consumed' = received
     \/ consumed < received /\ consumed' = consumed + 1
  /\ \/ replies' = replies
     \/ replies # <<>> /\ replies' = Tail(replies)
     \/ \E kind \in ReplyKinds \ {"ok"}, n \in 0..N : Emit(kind, n)
     \/ wire # <<>> /\ Head(wire).k = "m5" /\ Emit("ok", consumed)
     \/ consumed < received /\ consumed' = consumed + 1 /\ Emit("ok", consumed + 1)

\* What a step of the firmware may do to lines and replies.
LEMMA FirmwareStepOnly == TypeOK /\ ControllerNext => FirmwareStep
<1> SUFFICES ASSUME TypeOK, ControllerNext PROVE FirmwareStep
  OBVIOUS
<1>0. /\ {"error", "ALARM", "banner", RunState} \subseteq ReplyKinds \ {"ok"}
      /\ consumed \in 0..N /\ received \in 0..N
      /\ consumed < received => consumed + 1 \in 0..N
  BY ConstantType DEF ReplyKinds, StatusReports, RunState, TypeOK,
     ControllerTypeOK, ControllerDataOK
<1> USE DEF FirmwareStep
<1>1. CASE DeliverLine
  BY <1>1, <1>0 DEF DeliverLine, Arrives
<1>2. CASE DeliverM5
  BY <1>2, <1>0 DEF DeliverM5, Arrives
<1>3. CASE DeliverQuery
  BY <1>3, <1>0 DEF DeliverQuery, Arrives
<1>4. CASE DeliverFeedHold
  BY <1>4, <1>0 DEF DeliverFeedHold, Arrives
<1>5. CASE DeliverCycleStart
  BY <1>5, <1>0 DEF DeliverCycleStart, Arrives
<1>6. CASE DeliverSpindleStop
  BY <1>6, <1>0 DEF DeliverSpindleStop, Arrives
<1>7. CASE DeliverReset
  BY <1>7, <1>0 DEF DeliverReset, Arrives, Restarted
<1>8. CASE DeliverToDead
  BY <1>8, <1>0 DEF DeliverToDead
<1>9. CASE ParseMotion
  BY <1>9, <1>0 DEF ParseMotion, CanParse
<1>10. CASE BeginWait
  BY <1>10, <1>0 DEF BeginWait
<1>11. CASE EndWait
  BY <1>11, <1>0 DEF EndWait
<1>12. CASE Execute
  BY <1>12, <1>0 DEF Execute
<1>13. CASE Report
  BY <1>13, <1>0 DEF Report
<1>14. CASE RejectLine
  BY <1>14, <1>0 DEF RejectLine, CanParse
<1>15. CASE LoseOk
  BY <1>15, <1>0 DEF LoseOk
<1>16. CASE TripAlarm
  BY <1>16, <1>0 DEF TripAlarm
<1>17. CASE PowerGlitch
  BY <1>17, <1>0 DEF PowerGlitch, Restarted
<1>18. CASE GoSilent
  BY <1>18, <1>0 DEF GoSilent
<1> QED
  BY <1>1, <1>2, <1>3, <1>4, <1>5, <1>6, <1>7, <1>8, <1>9,
     <1>10, <1>11, <1>12, <1>13, <1>14, <1>15, <1>16, <1>17, <1>18, Zenon
     DEF ControllerNext, Deliver, Work, ControllerFault

\* The firmware keeps the account: it acknowledges lines in stream order.
LEMMA FirmwarePreserves ==
  TypeOK /\ StreamInv /\ FirmwareStep /\ UNCHANGED hostVars => StreamInv'
<1> SUFFICES ASSUME TypeOK, StreamInv, FirmwareStep, UNCHANGED hostVars
             PROVE  StreamInv'
  OBVIOUS
<1>0. /\ next_index \in 0..N /\ received \in 0..N /\ consumed \in 0..N
      /\ wire \in Seq(Written) /\ replies \in Seq(Reply)
      /\ UNCHANGED <<next_index, bytes_in_flight, sent_commands, held, pc, progress>>
      /\ N \in Nat
  BY ConstantType
     DEF TypeOK, ControllerTypeOK, ControllerDataOK, HostTypeOK, hostVars, engineVars
<1>1. AccountExact /\ WireSorted
  BY DEF StreamInv
<1>2. AccountExact' /\ AckPoint' = AckPoint
  BY <1>0, <1>1 DEF AccountExact, AckPoint
<1>3. consumed <= consumed' /\ consumed' <= received /\ consumed' \in 0..N
  BY <1>0, <1>1 DEF FirmwareStep, WireSorted
<1>4. WireSorted'
  <2>1. CASE wire' = wire /\ received' = received
    BY <1>0, <1>1, <1>3, <2>1 DEF WireSorted
  <2>2. CASE /\ wire # <<>> /\ wire' = Tail(wire)
             /\ received' \in {received, Head(wire).n}
    <3>1. Head(wire) = wire[1] /\ 1 \in DOMAIN wire
      BY <1>0, <2>2, TailOf
    <3>2. \A p \in DOMAIN wire' : p \in Nat \ {0} /\ p + 1 \in DOMAIN wire /\ wire'[p] = wire[p + 1]
      BY <1>0, <2>2, TailOf
    <3>3. \A p \in DOMAIN wire : wire[p].n \in Nat
      <4>1. \A p \in DOMAIN wire : wire[p] \in Written
        BY <1>0
      <4> QED
        BY <4>1, <1>0 DEF Written
    <3>4. received <= received' /\ received' <= next_index /\ received' \in Nat
      BY <1>0, <1>1, <2>2, <3>1, <3>3 DEF WireSorted
    <3>5. \A p \in DOMAIN wire' : wire[1].n <= wire'[p].n /\ received <= wire'[p].n
                                  /\ wire'[p].n <= next_index
      BY <1>1, <3>1, <3>2 DEF WireSorted
    <3>6. \A p \in DOMAIN wire' : received' <= wire'[p].n
      BY <2>2, <3>1, <3>5
    <3>7. \A p, q \in DOMAIN wire' : p < q => wire'[p].n <= wire'[q].n
      BY <1>1, <3>2 DEF WireSorted
    <3> QED
      BY <1>0, <1>3, <3>4, <3>5, <3>6, <3>7 DEF WireSorted
  <2> QED
    BY <2>1, <2>2 DEF FirmwareStep
<1>5. Attended' => OksSorted'
  <2> SUFFICES ASSUME Attended' PROVE OksSorted'
    OBVIOUS
  <2>0. OksSorted
    BY <1>0 DEF StreamInv, Attended
  <2>1. \A p \in DOMAIN wire' : wire'[p].k # "m5"
    BY <1>0, <2>0, TailOf DEF FirmwareStep, OksSorted
  <2>2. AckPoint' <= consumed' /\ AckPoint \in Nat
    BY <1>0, <1>1, <1>2, <1>3, <2>0 DEF OksSorted, AccountExact
  <2>3. \A p \in DOMAIN replies : replies[p].n \in Nat
    <3>1. \A p \in DOMAIN replies : replies[p] \in Reply
      BY <1>0
    <3> QED
      BY <3>1, <1>0 DEF Reply
  <2>4. CASE replies' = replies
    BY <1>0, <1>2, <1>3, <2>0, <2>1, <2>2, <2>3, <2>4 DEF OksSorted
  <2>5. CASE replies # <<>> /\ replies' = Tail(replies)
    <3>1. \A p \in DOMAIN replies' : p \in Nat /\ p + 1 \in DOMAIN replies /\ replies'[p] = replies[p + 1]
      BY <1>0, <2>5, TailOf
    <3> QED
      BY SMTT(30), <1>0, <1>2, <1>3, <2>0, <2>1, <2>2, <2>3, <3>1 DEF OksSorted
  <2>6. ASSUME NEW kind \in ReplyKinds \ {"ok"}, NEW n \in 0..N, Emit(kind, n)
        PROVE  OksSorted'
    <3>1. /\ \A p \in DOMAIN replies' : p \in DOMAIN replies \/ replies'[p].k # "ok"
          /\ \A p \in DOMAIN replies : replies'[p] = replies[p]
      BY <1>0, <2>6, AppendOf DEF Emit
    <3> QED
      BY SMTT(30), <1>0, <1>2, <1>3, <2>0, <2>1, <2>2, <2>3, <3>1 DEF OksSorted
  <2>7. ASSUME wire # <<>>, Head(wire).k = "m5" PROVE FALSE
    BY <1>0, <2>0, <2>7, TailOf DEF OksSorted
  <2>8. CASE consumed < received /\ consumed' = consumed + 1 /\ Emit("ok", consumed + 1)
    <3>1. /\ \A p \in DOMAIN replies' :
               p \in DOMAIN replies \/ (p = Len(replies) + 1 /\ replies'[p].n = consumed')
          /\ \A p \in DOMAIN replies : replies'[p] = replies[p] /\ p <= Len(replies)
          /\ Len(replies) \in Nat
          /\ DOMAIN replies' = 1..(Len(replies) + 1)
      BY <1>0, <2>8, AppendOf DEF Emit
    <3>2. \A p \in DOMAIN replies : replies[p].k = "ok" => replies[p].n < consumed'
      BY <1>0, <2>0, <2>3, <2>8 DEF OksSorted
    <3>3. \A p \in DOMAIN replies' :
            replies'[p].k = "ok" => AckPoint' < replies'[p].n /\ replies'[p].n <= consumed'
      BY <1>0, <1>2, <2>0, <2>2, <2>3, <2>8, <3>1, <3>2 DEF OksSorted
    <3>4. \A p, q \in DOMAIN replies' :
            p < q /\ replies'[p].k = "ok" /\ replies'[q].k = "ok"
              => replies'[p].n < replies'[q].n
      <4> SUFFICES ASSUME NEW p \in DOMAIN replies', NEW q \in DOMAIN replies', p < q,
                          replies'[p].k = "ok", replies'[q].k = "ok"
                   PROVE  replies'[p].n < replies'[q].n
        OBVIOUS
      <4>1. p \in DOMAIN replies
        BY <1>0, <3>1
      <4>2. CASE q \in DOMAIN replies
        BY <2>0, <3>1, <4>1, <4>2 DEF OksSorted
      <4>3. CASE replies'[q].n = consumed'
        BY <3>1, <3>2, <4>1, <4>3
      <4> QED
        BY <3>1, <4>2, <4>3
    <3> QED
      BY <2>1, <2>2, <3>3, <3>4 DEF OksSorted
  <2> QED
    BY <2>4, <2>5, <2>6, <2>7, <2>8 DEF FirmwareStep
<1>6. (Offset[next_index] - Offset[consumed] <= GRBL_RX_BUFFER_SIZE)'
  <2>1. /\ Offset[consumed] <= Offset[consumed']
        /\ Offset[consumed] \in Nat /\ Offset[consumed'] \in Nat
        /\ Offset[next_index] \in Nat
    BY <1>0, <1>3, OffsetMonotone
  <2>2. Offset[next_index] - Offset[consumed] <= GRBL_RX_BUFFER_SIZE
    BY DEF StreamInv
  <2>3. Offset[next_index] - Offset[consumed'] <= GRBL_RX_BUFFER_SIZE
    BY <2>1, <2>2, ConstantType
  <2> QED
    BY <1>0, <2>3
<1> QED
  BY <1>0, <1>2, <1>4, <1>5, <1>6 DEF StreamInv, Attended

\* Every step keeps the account: StreamInv is inductive under TypeOK.
LEMMA StreamStep == TypeOK /\ StreamInv /\ [Next]_vars => StreamInv'
<1> SUFFICES ASSUME TypeOK, StreamInv, [Next]_vars PROVE StreamInv'
  OBVIOUS
<1>1. CASE HostNext
  BY <1>1, HostIsQuiet, QuietStepPreserves, SendLinePreserves, PollOkPreserves
<1>2. CASE Controller
  BY <1>2, FirmwareStepOnly, FirmwarePreserves DEF Controller
<1>3. CASE UNCHANGED vars
  BY <1>3, FirmwarePreserves DEF vars, ctlVars, FirmwareStep
<1> QED
  BY <1>1, <1>2, <1>3 DEF Next, HostNext

\* The byte account is exact and the window covers every line the firmware has
\* not consumed, for every job and window and under every fault.
THEOREM AccountCorrect == Spec => []StreamInv
  BY TypeInit, TypeStep, StreamInit, StreamStep, PTL DEF Spec

\* The account bounds what the firmware has not consumed by the window.
LEMMA NoOverflowFollows == TypeOK /\ StreamInv => NoOverflow
<1> SUFFICES ASSUME TypeOK, StreamInv PROVE NoOverflow
  OBVIOUS
<1>1. /\ next_index \in 0..N /\ received \in 0..N /\ consumed \in 0..N
      /\ received <= next_index
      /\ Offset[next_index] - Offset[consumed] <= GRBL_RX_BUFFER_SIZE
  BY DEF TypeOK, ControllerTypeOK, ControllerDataOK, HostTypeOK, StreamInv, WireSorted
<1>2. /\ Offset[received] <= Offset[next_index]
      /\ Offset[received] \in Nat /\ Offset[consumed] \in Nat
      /\ Offset[next_index] \in Nat
  BY <1>1, OffsetMonotone
<1>3. GRBL_RX_BUFFER_SIZE <= RxSize
  BY WindowAssumption
<1> QED
  BY <1>1, <1>2, <1>3, ConstantType DEF NoOverflow, RxBytes

\* send_tick never makes the firmware's receive buffer overflow.
THEOREM NeverOverflows == Spec => []NoOverflow
<1>1. Spec => []TypeOK
  BY TypeCorrect
<1>2. Spec => []StreamInv
  BY AccountCorrect
<1> QED
  BY <1>1, <1>2, NoOverflowFollows, PTL

-----------------------------------------------------------------------------
(* The coolant barrier.                                                    *)

\* A window without bytes has no line in it.
LEMMA EmptyWindow ==
  ASSUME TypeOK, AccountExact, bytes_in_flight = 0
  PROVE  sent_commands = <<>>
<1>1. /\ next_index \in 0..N /\ sent_commands \in Seq(Line)
      /\ AckPoint \in 0..N /\ AckPoint <= next_index
      /\ Len(sent_commands) = next_index - AckPoint
  BY ConstantType DEF TypeOK, HostTypeOK, AccountExact, AckPoint
<1>2. SUFFICES ASSUME AckPoint < next_index PROVE FALSE
  <2>1. CASE AckPoint = next_index
    <3>1. Len(sent_commands) = 0
      BY <1>1, <2>1
    <3> QED
      BY <1>1, <3>1
  <2> QED
    BY <1>1, <2>1
<1> DEFINE i == AckPoint + 1
<1>3. i \in 1..N /\ i \in 0..N /\ i - 1 = AckPoint /\ i <= next_index
  BY <1>1, <1>2, ConstantType
<1> HIDE DEF i
<1>4. Offset[AckPoint] < Offset[i]
  <2>1. Offset[i - 1] < Offset[i]
    BY <1>3, JobAssumption
  <2> QED
    BY <1>3, <2>1
<1>5. /\ Offset[i] <= Offset[next_index]
      /\ Offset[AckPoint] \in Nat /\ Offset[i] \in Nat
      /\ Offset[next_index] \in Nat
  BY <1>1, <1>3, OffsetMonotone
<1> QED
  BY <1>4, <1>5 DEF AccountExact

\* Every step keeps a coolant line alone in flight.
LEMMA CoolantStep ==
  TypeOK /\ StreamInv /\ CoolantAlone /\ [Next]_vars => CoolantAlone'
<1> SUFFICES ASSUME TypeOK, StreamInv, CoolantAlone, [Next]_vars
             PROVE  CoolantAlone'
  OBVIOUS
<1>0. sent_commands \in Seq(Line) /\ AccountExact
  BY DEF TypeOK, HostTypeOK, StreamInv
<1>1. CASE sent_commands' = sent_commands
  BY <1>1 DEF CoolantAlone
<1>2. CASE SendLine
  <2>1. /\ sent_commands' = Append(sent_commands, next_index + 1)
        /\ ~AwaitsCoolantAck
        /\ next_index + 1 \in AirAssist => ~(bytes_in_flight > 0)
    BY <1>2 DEF SendLine, Blocked
  <2>2. CASE sent_commands = <<>>
    BY <1>0, <2>1, <2>2, AppendOf DEF CoolantAlone
  <2>3. CASE sent_commands # <<>>
    <3>1. next_index + 1 \notin AirAssist
      <4>1. bytes_in_flight # 0
        BY <1>0, <2>3, EmptyWindow
      <4> QED
        BY <2>1, <4>1 DEF TypeOK, HostTypeOK
    <3>2. Len(sent_commands) \in DOMAIN sent_commands
      BY <1>0, <2>3
    <3>3. \A p \in DOMAIN sent_commands : sent_commands[p] \notin AirAssist
      <4> SUFFICES ASSUME NEW p \in DOMAIN sent_commands, sent_commands[p] \in AirAssist
                   PROVE  FALSE
        OBVIOUS
      <4>1. Len(sent_commands) = 1
        BY DEF CoolantAlone
      <4>2. p = Len(sent_commands)
        BY <1>0, <4>1
      <4> QED
        BY <2>1, <2>3, <4>2 DEF AwaitsCoolantAck
    <3> QED
      BY <1>0, <2>1, <3>1, <3>3, AppendOf DEF CoolantAlone
  <2> QED
    BY <2>2, <2>3
<1>3. CASE PollOk
  <2>1. \/ sent_commands' = sent_commands
        \/ sent_commands # <<>> /\ sent_commands' = Tail(sent_commands)
    BY <1>3 DEF PollOk
  <2>2. CASE sent_commands # <<>> /\ sent_commands' = Tail(sent_commands)
    BY <1>0, <2>2, TailOf DEF CoolantAlone
  <2> QED
    BY <1>1, <2>1, <2>2
<1> QED
  <2>1. CASE HostNext
    BY <1>1, <1>2, <1>3, <2>1, HostIsQuiet DEF QuietStep
  <2>2. CASE ~HostNext
    BY <1>1, <2>2 DEF Next, HostNext, Controller, vars, hostVars, engineVars
  <2> QED
    BY <2>1, <2>2

\* A coolant line is never in flight together with another line.
THEOREM CoolantIsAlone == Spec => []CoolantAlone
<1>1. Init => CoolantAlone
  BY DEF Init, HostInit, CoolantAlone
<1>2. Spec => []TypeOK
  BY TypeCorrect
<1>3. Spec => []StreamInv
  BY AccountCorrect
<1> QED
  BY <1>1, <1>2, <1>3, CoolantStep, PTL DEF Spec

-----------------------------------------------------------------------------
(* Failures are reported.                                                  *)

\* FailureReported is not inductive: a failed job that was still ticked over a
\* working link could be resumed, or completed.  So a failed job is either on its
\* way out of the service, or its link is gone and nothing can be written.
FailureInv ==
  failed => /\ progress \in {"Failed", "Cancelled"}
            /\ held \/ pc # "idle" => pc = "release" \/ ~link

\* Every step keeps a failed job reported, and out of reach of a resume.
LEMMA FailureStep == FailureInv /\ [Next]_vars => FailureInv'
<1> SUFFICES ASSUME FailureInv, [Next]_vars PROVE FailureInv'
  OBVIOUS
<1> USE DEF FailureInv, engineVars, jobVars
<1>1. CASE Start
  BY <1>1, Zenon DEF Start
<1>2. CASE TickBegin
  BY <1>2, Zenon DEF TickBegin
<1>3. CASE PollOk
  BY <1>3, Zenon DEF PollOk
<1>4. CASE PollStatus
  BY <1>4, Zenon DEF PollStatus
<1>5. CASE PollFailure
  BY <1>5, Zenon DEF PollFailure, Fail, LeaveFailed
<1>6. CASE PollDone
  BY <1>6, Zenon DEF PollDone
<1>7. CASE TransportError
  BY <1>7, Zenon DEF TransportError
<1>8. CASE SendLine
  BY <1>8, Zenon DEF SendLine
<1>9. CASE SpoolFails
  BY <1>9, Zenon DEF SpoolFails, Fail
<1>10. CASE SendDone
  BY <1>10, Zenon DEF SendDone
<1>11. CASE QueryStatus
  BY <1>11, Zenon DEF QueryStatus
<1>12. CASE FailSilent
  BY <1>12, Zenon DEF FailSilent, Fail, LeaveFailed
<1>13. CASE SpindleStop
  BY <1>13, Zenon DEF SpindleStop
<1>14. CASE FailDesync
  BY <1>14, Zenon DEF FailDesync, Fail, LeaveFailed
<1>15. CASE TickEnd
  BY <1>15, Zenon DEF TickEnd, Completes, LeaveFailed
<1>16. CASE Pause
  BY <1>16, Zenon DEF Pause, Press, Fail
<1>17. CASE Resume
  BY <1>17, Zenon DEF Resume, Press
<1>18. CASE Cancel
  BY <1>18, Zenon DEF Cancel, Press
<1>19. CASE Release
  BY <1>19, Zenon DEF Release
<1>20. CASE PollDue
  BY <1>20, Zenon DEF PollDue
<1>21. CASE StatusTimeout
  BY <1>21, Zenon DEF StatusTimeout
<1>22. CASE DelayElapses
  BY <1>22, Zenon DEF DelayElapses
<1>23. CASE BreakLink
  BY <1>23, Zenon DEF BreakLink
<1>24. CASE Controller
  BY <1>24, Zenon DEF Controller, hostVars
<1>25. CASE UNCHANGED vars
  BY <1>25, Zenon DEF vars, hostVars
<1> QED
  BY <1>1, <1>2, <1>3, <1>4, <1>5, <1>6, <1>7, <1>8, <1>9, <1>10, <1>11, <1>12,
     <1>13, <1>14, <1>15, <1>16, <1>17, <1>18, <1>19, <1>20, <1>21, <1>22, <1>23,
     <1>24, <1>25, Zenon DEF Next, Tick, Poll, Send, Finish, User, Clock,
     HostFault, Finished

\* Whatever fails, and whatever is pressed afterwards, the job's state says so.
THEOREM FailuresAreReported == Spec => []FailureReported
<1>1. Init => FailureInv
  BY DEF Init, HostInit, FailureInv
<1>2. FailureInv => FailureReported
  BY DEF FailureInv, FailureReported
<1> QED
  BY <1>1, <1>2, FailureStep, PTL DEF Spec

-----------------------------------------------------------------------------
(* What the machine did with the lines it consumed.                        *)

\* Nothing the parser consumed is lost: it was executed, or it is planned, in
\* stream order.
Lossless ==
  /\ Len(executed) + Len(planner) = consumed
  /\ \A i \in DOMAIN executed : executed[i] = i
  /\ \A i \in DOMAIN planner : planner[i] = Len(executed) + i

\* The parser has consumed the whole job and no motion is left of it.
Drained == planner = <<>> /\ consumed = N

\* The replies that make an active job fail, status reports aside.
Failing == {"error", "ALARM", "banner"}

\* A line is lost only with a reply that fails the job.
LossIsTold ==
  Lossless \/ failed \/ \E q \in DOMAIN replies : replies[q].k \in Failing

\* An Idle report made after the last line was consumed says that all motion is
\* over, and that nothing was lost unless an earlier reply tells so.
IdleMeansDrained ==
  \A p \in DOMAIN replies :
    replies[p].k = "Idle" /\ replies[p].n = N
      => /\ Drained
         /\ \/ Lossless
            \/ failed
            \/ \E q \in DOMAIN replies : q < p /\ replies[q].k \in Failing

\* The parser waits on a delay only behind motion that is over.
WaitsAlone == busy # 0 => planner = <<>> /\ consumed < received /\ busy = consumed + 1

MotionInv == LossIsTold /\ IdleMeansDrained /\ WaitsAlone

\* Every reply on its way was made after the last line was consumed.
AllLate == \A p \in DOMAIN replies : replies[p].n = N

\* The completion baseline is taken after every earlier reply was read: the
\* reply loop emptied the input, and a line sent since is unacknowledged.
BaselineInv ==
  /\ Attended /\ idle_baseline # "none" => all_acknowledged /\ AllLate
  /\ pc \in {"query", "spindle", "check"} \/ (pc = "send" /\ call = "tick")
       => (all_acknowledged => AllLate)

\* The report a completion rests on, and the completion itself.
CompletionInv ==
  /\ idle_baseline = "fresh" /\ last_status = "Idle" => Drained /\ (Lossless \/ failed)
  /\ progress = "Completed" => Drained /\ Lossless

-----------------------------------------------------------------------------
(* The firmware's steps.                                                   *)

\* What the model's types say of the data these proofs are about.
LEMMA MotionType ==
  ASSUME TypeOK
  PROVE  /\ N \in Nat \ {0}
         /\ received \in 0..N /\ consumed \in 0..N /\ busy \in 0..N
         /\ next_index \in 0..N
         /\ wire \in Seq(Written)
         /\ replies \in Seq(Reply)
         /\ planner \in Seq(Line)
         /\ executed \in Seq(Line)
  BY ConstantType DEF TypeOK, ControllerTypeOK, ControllerDataOK, HostTypeOK

\* A motion that enters the planner is not lost.
LEMMA ParseLossless == TypeOK /\ Lossless /\ ParseMotion => Lossless'
<1> SUFFICES ASSUME TypeOK, Lossless, ParseMotion PROVE Lossless'
  OBVIOUS
<1>1. /\ consumed' = consumed + 1
      /\ planner' = Append(planner, consumed + 1)
      /\ executed' = executed
  BY DEF ParseMotion
<1>2. /\ Len(planner') = Len(planner) + 1
      /\ \A p \in DOMAIN planner : planner'[p] = planner[p]
      /\ \A p \in DOMAIN planner' : p \in DOMAIN planner \/ p = Len(planner) + 1
      /\ planner'[Len(planner) + 1] = consumed + 1
  BY <1>1, MotionType, AppendOf
<1>3. Len(executed) \in Nat /\ Len(planner) \in Nat /\ consumed \in Nat
  BY MotionType
<1>4. \A p \in DOMAIN planner' : planner'[p] = Len(executed) + p
  BY <1>2, <1>3 DEF Lossless
<1>5. Len(executed) + Len(planner') = consumed + 1
  BY <1>2, <1>3 DEF Lossless
<1> QED
  BY <1>1, <1>4, <1>5 DEF Lossless

\* Executing the oldest planned motion keeps stream order.
LEMMA ExecuteLossless == TypeOK /\ Lossless /\ Execute => Lossless'
<1> SUFFICES ASSUME TypeOK, Lossless, Execute PROVE Lossless'
  OBVIOUS
<1>1. /\ planner # <<>>
      /\ planner' = Tail(planner)
      /\ executed' = Append(executed, Head(planner))
      /\ consumed' = consumed
  BY DEF Execute
<1>2. /\ Len(executed') = Len(executed) + 1
      /\ \A p \in DOMAIN executed : executed'[p] = executed[p]
      /\ \A p \in DOMAIN executed' : p \in DOMAIN executed \/ p = Len(executed) + 1
      /\ executed'[Len(executed) + 1] = Head(planner)
  BY <1>1, MotionType, AppendOf
<1>3. /\ Len(planner') = Len(planner) - 1
      /\ \A p \in DOMAIN planner' :
           p \in Nat /\ p + 1 \in DOMAIN planner /\ planner'[p] = planner[p + 1]
      /\ 1 \in DOMAIN planner /\ Head(planner) = planner[1]
  BY <1>1, MotionType, TailOf
<1>4. Len(executed) \in Nat /\ Len(planner) \in Nat /\ consumed \in Nat
  BY MotionType
<1>5. Head(planner) = Len(executed) + 1
  BY <1>3 DEF Lossless
<1>6. \A p \in DOMAIN executed' : executed'[p] = p
  BY <1>2, <1>5 DEF Lossless
<1>7. \A p \in DOMAIN planner' : planner'[p] = Len(executed') + p
  BY <1>2, <1>3, <1>4 DEF Lossless
<1>8. Len(executed') + Len(planner') = consumed
  <2>1. Len(executed') = Len(executed) + 1 /\ Len(planner') = Len(planner) - 1
    BY <1>2, <1>3
  <2>2. Len(executed) + Len(planner) = consumed
    BY DEF Lossless
  <2> QED
    BY <1>4, <2>1, <2>2
<1> QED
  BY <1>1, <1>6, <1>7, <1>8 DEF Lossless

\* A delay that ends follows everything before it.
LEMMA WaitLossless == TypeOK /\ Lossless /\ WaitsAlone /\ EndWait => Lossless'
<1> SUFFICES ASSUME TypeOK, Lossless, WaitsAlone, EndWait PROVE Lossless'
  OBVIOUS
<1>1. /\ planner = <<>> /\ planner' = planner
      /\ busy = consumed + 1
      /\ executed' = Append(executed, busy)
      /\ consumed' = consumed + 1
  BY DEF EndWait, WaitsAlone
<1>2. /\ Len(executed') = Len(executed) + 1
      /\ \A p \in DOMAIN executed : executed'[p] = executed[p]
      /\ \A p \in DOMAIN executed' : p \in DOMAIN executed \/ p = Len(executed) + 1
      /\ executed'[Len(executed) + 1] = busy
  BY <1>1, MotionType, AppendOf
<1>3. Len(executed) \in Nat /\ Len(planner) = 0 /\ consumed \in Nat
  BY <1>1, MotionType
<1>4. Len(executed) = consumed
  BY <1>3 DEF Lossless
<1>5. \A p \in DOMAIN executed' : executed'[p] = p
  BY <1>1, <1>2, <1>4 DEF Lossless
<1> QED
  BY <1>1, <1>2, <1>3, <1>4, <1>5 DEF Lossless

\* What any step does to the record of losses and of Idle reports: it reads or
\* sends a reply, and what it sends is true of the state it leads to.
ReplyStep ==
  /\ failed => failed'
  /\ Drained => Drained'
  /\ Drained /\ Lossless => Lossless'
  /\ \/ /\ Lossless => Lossless'
        /\ replies' = replies
     \/ /\ Lossless => Lossless'
        /\ replies # <<>> /\ replies' = Tail(replies)
        /\ Head(replies).k \in Failing => failed'
     \/ /\ Lossless => Lossless'
        /\ \E kind, n : /\ Emit(kind, n)
                        /\ kind = "Idle" /\ n = N => Drained
     \/ \E kind, n : kind \in Failing /\ Emit(kind, n)

\* Such a step keeps every loss told, and Idle reports true.
LEMMA ReplyStepKeeps ==
  TypeOK /\ LossIsTold /\ IdleMeansDrained /\ ReplyStep => LossIsTold' /\ IdleMeansDrained'
<1> SUFFICES ASSUME TypeOK, LossIsTold, IdleMeansDrained, ReplyStep
             PROVE  LossIsTold' /\ IdleMeansDrained'
  OBVIOUS
<1>0. replies \in Seq(Reply)
  BY MotionType
<1>1. /\ failed => failed'
      /\ Drained => Drained'
      /\ Drained /\ Lossless => Lossless'
  BY DEF ReplyStep
<1>2. CASE (Lossless => Lossless') /\ replies' = replies
  BY <1>1, <1>2 DEF LossIsTold, IdleMeansDrained
<1>3. CASE /\ Lossless => Lossless'
           /\ replies # <<>> /\ replies' = Tail(replies)
           /\ Head(replies).k \in Failing => failed'
  <2>1. /\ \A p \in DOMAIN replies' :
             p \in Nat \ {0} /\ p + 1 \in DOMAIN replies /\ replies'[p] = replies[p + 1]
        /\ Head(replies) = replies[1] /\ DOMAIN replies = 1..Len(replies)
        /\ DOMAIN replies' = 1..(Len(replies) - 1) /\ Len(replies) \in Nat
    BY <1>0, <1>3, TailOf
  <2>2. ASSUME NEW q \in DOMAIN replies, replies[q].k \in Failing
        PROVE  failed' \/ (q - 1 \in DOMAIN replies' /\ replies'[q - 1].k \in Failing)
    <3>1. CASE q = 1
      BY <1>3, <2>1, <2>2, <3>1
    <3>2. CASE q # 1
      <4>1. q - 1 \in DOMAIN replies'
        BY <2>1, <3>2
      <4> QED
        BY <2>1, <2>2, <4>1
    <3> QED
      BY <3>1, <3>2
  <2>3. LossIsTold'
    BY <1>1, <1>3, <2>2 DEF LossIsTold
  <2>4. IdleMeansDrained'
    <3> SUFFICES ASSUME NEW p \in DOMAIN replies', replies'[p].k = "Idle", replies'[p].n = N
                 PROVE  /\ Drained'
                        /\ \/ Lossless'
                           \/ failed'
                           \/ \E q \in DOMAIN replies' : q < p /\ replies'[q].k \in Failing
      BY DEF IdleMeansDrained
    <3>1. /\ Drained
          /\ \/ Lossless
             \/ failed
             \/ \E q \in DOMAIN replies : q < p + 1 /\ replies[q].k \in Failing
      BY <2>1 DEF IdleMeansDrained
    <3>2. CASE Lossless \/ failed
      BY <1>1, <1>3, <3>1, <3>2
    <3>3. ASSUME NEW q \in DOMAIN replies, q < p + 1, replies[q].k \in Failing
          PROVE  failed' \/ \E r \in DOMAIN replies' : r < p /\ replies'[r].k \in Failing
      <4>1. q - 1 < p
        BY <2>1, <3>3
      <4> QED
        BY <2>2, <3>3, <4>1
    <3> QED
      BY <1>1, <3>1, <3>2, <3>3
  <2> QED
    BY <2>3, <2>4
<1>4. ASSUME NEW kind, NEW n, Emit(kind, n)
      PROVE  /\ \A p \in DOMAIN replies : p \in DOMAIN replies' /\ replies'[p] = replies[p]
             /\ \A p \in DOMAIN replies' :
                  p \in DOMAIN replies
                  \/ (/\ p = Len(replies) + 1
                      /\ replies'[p].k = kind /\ replies'[p].n = n
                      /\ \A q \in DOMAIN replies : q < p)
             /\ Len(replies) + 1 \in DOMAIN replies'
             /\ replies'[Len(replies) + 1].k = kind
  BY <1>0, <1>4, AppendOf DEF Emit
<1>5. ASSUME Lossless => Lossless', NEW kind, NEW n, Emit(kind, n),
             kind = "Idle" /\ n = N => Drained
      PROVE  LossIsTold' /\ IdleMeansDrained'
  <2>1. LossIsTold'
    BY <1>1, <1>4, <1>5 DEF LossIsTold
  <2>2. ASSUME NEW p \in DOMAIN replies', replies'[p].k = "Idle", replies'[p].n = N
        PROVE  /\ Drained'
               /\ \/ Lossless'
                  \/ failed'
                  \/ \E q \in DOMAIN replies' : q < p /\ replies'[q].k \in Failing
    <3>1. CASE p \in DOMAIN replies
      BY <1>1, <1>4, <1>5, <2>2, <3>1 DEF IdleMeansDrained
    <3>2. CASE p \notin DOMAIN replies
      <4>1. Drained /\ \A q \in DOMAIN replies : q < p
        BY <1>4, <1>5, <2>2, <3>2
      <4> QED
        BY <1>1, <1>4, <1>5, <4>1 DEF LossIsTold
    <3> QED
      BY <3>1, <3>2
  <2> QED
    BY <2>1, <2>2 DEF IdleMeansDrained
<1>6. ASSUME NEW kind \in Failing, NEW n, Emit(kind, n)
      PROVE  LossIsTold' /\ IdleMeansDrained'
  <2>1. LossIsTold'
    BY <1>4, <1>6 DEF LossIsTold
  <2>2. ASSUME NEW p \in DOMAIN replies', replies'[p].k = "Idle", replies'[p].n = N
        PROVE  /\ Drained'
               /\ \/ Lossless'
                  \/ failed'
                  \/ \E q \in DOMAIN replies' : q < p /\ replies'[q].k \in Failing
    <3>1. p \in DOMAIN replies
      BY <1>4, <1>6, <2>2 DEF Failing
    <3> QED
      BY <1>1, <1>4, <1>6, <2>2, <3>1 DEF IdleMeansDrained
  <2> QED
    BY <2>1, <2>2 DEF IdleMeansDrained
<1> QED
  BY <1>2, <1>3, <1>5, <1>6 DEF ReplyStep

\* A drained planner stays drained: nothing is left to parse or to execute.
LEMMA NothingLeft ==
  ASSUME TypeOK, StreamInv, Drained
  PROVE  received = N /\ next_index = N /\ ~(consumed < received)
  BY MotionType DEF StreamInv, WireSorted, Drained

\* A restart discards what the parser and the planner hold, and says so.
LEMMA RestartTells ==
  ASSUME TypeOK, StreamInv, Restarted, UNCHANGED <<executed, failed>>
  PROVE  ReplyStep
<1>1. /\ consumed' = received /\ planner' = <<>> /\ executed' = executed
      /\ Emit("banner", received)
  BY DEF Restarted
<1>2. Drained => received = consumed
  BY NothingLeft DEF Drained
<1>3. Drained => Drained' /\ UNCHANGED <<consumed, planner>>
  BY <1>1, <1>2 DEF Drained
<1>4. Drained /\ Lossless => Lossless'
  BY <1>1, <1>3 DEF Lossless
<1> QED
  BY <1>1, <1>3, <1>4 DEF ReplyStep, Failing

\* Every step of the firmware tells its losses, and its Idle reports are true.
LEMMA FirmwareReplies ==
  TypeOK /\ StreamInv /\ WaitsAlone /\ ControllerNext /\ failed' = failed => ReplyStep
<1> SUFFICES ASSUME TypeOK, StreamInv, WaitsAlone, ControllerNext, failed' = failed
             PROVE  ReplyStep
  OBVIOUS
<1>a. ASSUME UNCHANGED <<consumed, planner, executed, replies>>
      PROVE  ReplyStep
  BY <1>a DEF ReplyStep, Drained, Lossless
<1>b. ASSUME UNCHANGED <<consumed, planner, executed>>, NEW kind, NEW n, Emit(kind, n),
             kind = "Idle" /\ n = N => Drained
      PROVE  ReplyStep
  BY <1>b DEF ReplyStep, Drained, Lossless
<1>1. CASE DeliverLine
  BY <1>1, <1>a DEF DeliverLine
<1>2. CASE DeliverM5
  BY <1>2, <1>b DEF DeliverM5
<1>3. CASE DeliverQuery
  BY <1>3, <1>a DEF DeliverQuery
<1>4. CASE DeliverFeedHold
  BY <1>4, <1>a DEF DeliverFeedHold
<1>5. CASE DeliverCycleStart
  BY <1>5, <1>a DEF DeliverCycleStart
<1>6. CASE DeliverSpindleStop
  BY <1>6, <1>a DEF DeliverSpindleStop
<1>7. CASE DeliverReset
  BY <1>7, RestartTells DEF DeliverReset
<1>8. CASE DeliverToDead
  BY <1>8, <1>a DEF DeliverToDead
<1>9. CASE ParseMotion
  <2>1. consumed < received /\ Emit("ok", consumed + 1)
    BY <1>9 DEF ParseMotion, CanParse
  <2>2. ~Drained
    BY <2>1, NothingLeft
  <2> QED
    BY <1>9, <2>1, <2>2, ParseLossless DEF ReplyStep
<1>10. CASE BeginWait
  BY <1>10, <1>a DEF BeginWait
<1>11. CASE EndWait
  <2>1. consumed < received /\ Emit("ok", consumed + 1)
    BY <1>11 DEF EndWait
  <2>2. ~Drained
    BY <2>1, NothingLeft
  <2> QED
    BY <1>11, <2>1, <2>2, WaitLossless DEF ReplyStep
<1>12. CASE Execute
  <2>1. ~Drained /\ replies' = replies
    BY <1>12 DEF Execute, Drained
  <2> QED
    BY <1>12, <2>1, ExecuteLossless DEF ReplyStep
<1>13. CASE Report
  <2>1. RunState = "Idle" => planner = <<>>
    BY DEF RunState
  <2> QED
    BY <1>13, <1>b, <2>1 DEF Report, Drained
<1>14. CASE RejectLine
  <2>1. consumed < received /\ Emit("error", consumed + 1)
    BY <1>14 DEF RejectLine, CanParse
  <2>2. ~Drained
    BY <2>1, NothingLeft
  <2> QED
    BY <1>14, <2>1, <2>2 DEF ReplyStep, Failing
<1>15. CASE LoseOk
  BY <1>15 DEF LoseOk, ReplyStep, Drained, Lossless, Failing
<1>16. CASE TripAlarm
  BY <1>16 DEF TripAlarm, ReplyStep, Drained, Lossless, Failing
<1>17. CASE PowerGlitch
  BY <1>17, RestartTells DEF PowerGlitch
<1>18. CASE GoSilent
  BY <1>18, <1>a DEF GoSilent
<1> QED
  BY <1>1, <1>2, <1>3, <1>4, <1>5, <1>6, <1>7, <1>8, <1>9,
     <1>10, <1>11, <1>12, <1>13, <1>14, <1>15, <1>16, <1>17, <1>18, Zenon
     DEF ControllerNext, Deliver, Work, ControllerFault

\* Every step of the firmware starts a delay only behind motion that is over, and
\* puts no motion behind it.
LEMMA FirmwareWaits ==
  TypeOK /\ StreamInv /\ WaitsAlone /\ ControllerNext => WaitsAlone'
<1> SUFFICES ASSUME TypeOK, StreamInv, WaitsAlone, ControllerNext PROVE WaitsAlone'
  OBVIOUS
<1> USE DEF WaitsAlone
<1>0. received \in 0..N /\ consumed \in 0..N /\ busy \in 0..N /\ N \in Nat
  BY MotionType
<1>1. CASE DeliverLine
  <2>1. 1 \in DOMAIN wire /\ Head(wire) = wire[1] /\ wire[1] \in Written
    BY <1>1, MotionType, TailOf DEF DeliverLine, Arrives
  <2>2. received <= received' /\ received' \in 0..N
    BY <1>1, <2>1 DEF DeliverLine, StreamInv, WireSorted, Written
  <2> QED
    BY <1>0, <1>1, <2>2 DEF DeliverLine
<1>2. CASE DeliverM5
  BY <1>2 DEF DeliverM5
<1>3. CASE DeliverQuery
  BY <1>3 DEF DeliverQuery
<1>4. CASE DeliverFeedHold
  BY <1>4 DEF DeliverFeedHold
<1>5. CASE DeliverCycleStart
  BY <1>5 DEF DeliverCycleStart
<1>6. CASE DeliverSpindleStop
  BY <1>6 DEF DeliverSpindleStop
<1>7. CASE DeliverReset
  BY <1>7 DEF DeliverReset, Restarted
<1>8. CASE DeliverToDead
  BY <1>8 DEF DeliverToDead
<1>9. CASE ParseMotion
  BY <1>9 DEF ParseMotion, CanParse
<1>10. CASE BeginWait
  BY <1>10 DEF BeginWait, CanParse, Waits
<1>11. CASE EndWait
  BY <1>11 DEF EndWait
<1>12. CASE Execute
  BY <1>12 DEF Execute
<1>13. CASE Report
  BY <1>13 DEF Report
<1>14. CASE RejectLine
  BY <1>14 DEF RejectLine, CanParse
<1>15. CASE LoseOk
  BY <1>15 DEF LoseOk
<1>16. CASE TripAlarm
  BY <1>16 DEF TripAlarm
<1>17. CASE PowerGlitch
  BY <1>17 DEF PowerGlitch, Restarted
<1>18. CASE GoSilent
  BY <1>18 DEF GoSilent
<1> QED
  BY <1>1, <1>2, <1>3, <1>4, <1>5, <1>6, <1>7, <1>8, <1>9,
     <1>10, <1>11, <1>12, <1>13, <1>14, <1>15, <1>16, <1>17, <1>18, Zenon
     DEF ControllerNext, Deliver, Work, ControllerFault

\* A host step reads at most one reply, and a reply that fails a job fails it.
LEMMA HostReads ==
  TypeOK /\ HostNext =>
    /\ failed => failed'
    /\ \/ replies' = replies
       \/ /\ pc = "poll"
          /\ replies # <<>> /\ replies' = Tail(replies)
          /\ Head(replies).k \in Failing => failed'
<1> SUFFICES ASSUME TypeOK, HostNext
             PROVE  /\ failed => failed'
                    /\ \/ replies' = replies
                       \/ /\ pc = "poll"
                          /\ replies # <<>> /\ replies' = Tail(replies)
                          /\ Head(replies).k \in Failing => failed'
  OBVIOUS
<1> USE DEF engineVars, ctlVars, UNCHANGEDController, Fail
<1>1. CASE Start
  BY <1>1, Zenon DEF Start
<1>2. CASE TickBegin
  BY <1>2, Zenon DEF TickBegin
<1>3. CASE PollOk
  BY <1>3 DEF PollOk, TakeReply, Failing
<1>4. CASE PollStatus
  BY <1>4 DEF PollStatus, TakeReply, Failing, StatusReports
<1>5. CASE PollFailure
  BY <1>5 DEF PollFailure, TakeReply, Failing
<1>6. CASE PollDone
  BY <1>6, Zenon DEF PollDone
<1>7. CASE TransportError
  BY <1>7, Zenon DEF TransportError
<1>8. CASE SendLine
  BY <1>8, Zenon DEF SendLine
<1>9. CASE SpoolFails
  BY <1>9, Zenon DEF SpoolFails
<1>10. CASE SendDone
  BY <1>10, Zenon DEF SendDone
<1>11. CASE QueryStatus
  BY <1>11, Zenon DEF QueryStatus
<1>12. CASE FailSilent
  BY <1>12, Zenon DEF FailSilent
<1>13. CASE SpindleStop
  BY <1>13, Zenon DEF SpindleStop
<1>14. CASE FailDesync
  BY <1>14, Zenon DEF FailDesync
<1>15. CASE TickEnd
  BY <1>15, Zenon DEF TickEnd
<1>16. CASE Pause
  BY <1>16, Zenon DEF Pause
<1>17. CASE Resume
  BY <1>17, Zenon DEF Resume
<1>18. CASE Cancel
  BY <1>18, Zenon DEF Cancel
<1>19. CASE Release
  BY <1>19, Zenon DEF Release
<1>20. CASE PollDue
  BY <1>20, Zenon DEF PollDue
<1>21. CASE StatusTimeout
  BY <1>21, Zenon DEF StatusTimeout
<1>22. CASE DelayElapses
  BY <1>22, Zenon DEF DelayElapses
<1>23. CASE BreakLink
  BY <1>23, Zenon DEF BreakLink
<1>24. CASE Finished
  BY <1>24, Zenon DEF Finished, vars, hostVars
<1> QED
  BY <1>1, <1>2, <1>3, <1>4, <1>5, <1>6, <1>7, <1>8, <1>9, <1>10, <1>11, <1>12,
     <1>13, <1>14, <1>15, <1>16, <1>17, <1>18, <1>19, <1>20, <1>21, <1>22, <1>23,
     <1>24, Zenon DEF HostNext, Tick, Poll, Send, Finish, User, Clock, HostFault

\* Every step keeps what is known of losses, Idle reports and delays.
LEMMA MotionStep == TypeOK /\ StreamInv /\ MotionInv /\ [Next]_vars => MotionInv'
<1> SUFFICES ASSUME TypeOK, StreamInv, MotionInv, [Next]_vars PROVE MotionInv'
  OBVIOUS
<1> USE DEF MotionInv
<1>1. CASE HostNext
  <2>1. UNCHANGED <<received, consumed, planner, executed, busy>>
    BY <1>1, HostTouchesOnly DEF HostTouches
  <2>2. ReplyStep
    BY <1>1, <2>1, HostReads DEF ReplyStep, Drained, Lossless
  <2>3. WaitsAlone'
    BY <2>1 DEF WaitsAlone
  <2> QED
    BY <2>2, <2>3, ReplyStepKeeps
<1>2. CASE Controller
  <2>1. ControllerNext /\ failed' = failed
    BY <1>2 DEF Controller, hostVars, engineVars
  <2> QED
    BY <2>1, FirmwareReplies, FirmwareWaits, ReplyStepKeeps
<1>3. CASE UNCHANGED vars
  BY <1>3 DEF vars, ctlVars, hostVars, engineVars, LossIsTold, IdleMeansDrained,
              WaitsAlone, Lossless, Drained
<1> QED
  BY <1>1, <1>2, <1>3 DEF Next, HostNext

-----------------------------------------------------------------------------
(* The completion baseline.                                                *)

\* Once the whole job is acknowledged the firmware has consumed all of it.
LEMMA AcknowledgedIsConsumed ==
  ASSUME TypeOK, StreamInv, Attended, all_acknowledged
  PROVE  consumed = N /\ received = N
<1>1. AckPoint = next_index /\ next_index = N
  BY MotionType DEF AckPoint, all_acknowledged, all_sent
<1>2. OksSorted /\ WireSorted
  BY DEF StreamInv
<1> QED
  BY <1>1, <1>2, MotionType DEF OksSorted, WireSorted

\* What the firmware sends then is late: no line is left to consume.
LEMMA FirmwareLate ==
  ASSUME TypeOK, consumed = N, received = N, AllLate, ControllerNext
  PROVE  AllLate'
<1> USE DEF AllLate
<1>0. replies \in Seq(Reply) /\ N \in Nat
  BY MotionType
<1>a. ASSUME replies' = replies PROVE AllLate'
  BY <1>a
<1>b. ASSUME NEW kind, Emit(kind, N) PROVE AllLate'
  BY <1>0, <1>b, AppendOf DEF Emit
<1>1. CASE DeliverLine
  BY <1>1, <1>a DEF DeliverLine
<1>2. CASE DeliverM5
  BY <1>2, <1>b DEF DeliverM5
<1>3. CASE DeliverQuery
  BY <1>3, <1>a DEF DeliverQuery
<1>4. CASE DeliverFeedHold
  BY <1>4, <1>a DEF DeliverFeedHold
<1>5. CASE DeliverCycleStart
  BY <1>5, <1>a DEF DeliverCycleStart
<1>6. CASE DeliverSpindleStop
  BY <1>6, <1>a DEF DeliverSpindleStop
<1>7. CASE DeliverReset
  BY <1>7, <1>b DEF DeliverReset, Restarted
<1>8. CASE DeliverToDead
  BY <1>8, <1>a DEF DeliverToDead
<1>9. CASE ParseMotion
  BY <1>9, <1>0 DEF ParseMotion, CanParse
<1>10. CASE BeginWait
  BY <1>10, <1>a DEF BeginWait
<1>11. CASE EndWait
  BY <1>11, <1>0 DEF EndWait
<1>12. CASE Execute
  BY <1>12, <1>a DEF Execute
<1>13. CASE Report
  BY <1>13, <1>b DEF Report
<1>14. CASE RejectLine
  BY <1>14, <1>0 DEF RejectLine, CanParse
<1>15. CASE LoseOk
  BY <1>15, <1>0, TailOf DEF LoseOk
<1>16. CASE TripAlarm
  BY <1>16, <1>b DEF TripAlarm
<1>17. CASE PowerGlitch
  BY <1>17, <1>b DEF PowerGlitch, Restarted
<1>18. CASE GoSilent
  BY <1>18, <1>a DEF GoSilent
<1> QED
  BY <1>1, <1>2, <1>3, <1>4, <1>5, <1>6, <1>7, <1>8, <1>9,
     <1>10, <1>11, <1>12, <1>13, <1>14, <1>15, <1>16, <1>17, <1>18, Zenon
     DEF ControllerNext, Deliver, Work, ControllerFault

\* What a host step may do to the completion baseline: start afresh, take it once
\* everything is acknowledged, or learn that a report came after it.
BaselineStep ==
  \/ idle_baseline' = "none"
  \/ idle_baseline' = idle_baseline
  \/ idle_baseline # "none" /\ idle_baseline' = "fresh"
  \/ pc = "check" /\ all_acknowledged /\ idle_baseline' = "armed"

\* Where a step leads within a tick.
TickOrder ==
  \/ pc' \in {"idle", "poll", "release"}
  \/ pc' = pc /\ (pc = "send" => call' = call)
  \/ pc = "poll" /\ pc' = "send" /\ replies' = <<>>
  \/ call' = "start" /\ pc' = "send"
  \/ pc = "send" /\ call = "tick" /\ pc' = "query"
  \/ pc \in {"query", "spindle"} /\ pc' \in {"spindle", "check"}

\* Every host step treats the baseline, the tick and the account as described.
LEMMA HostBaseline ==
  TypeOK /\ StreamInv /\ HostNext =>
    /\ BaselineStep
    /\ TickOrder
    /\ Attended' => Attended
    /\ all_acknowledged' => all_acknowledged \/ pc' = "poll"
    /\ all_acknowledged => all_acknowledged'
<1> SUFFICES ASSUME TypeOK, StreamInv, HostNext
             PROVE  /\ BaselineStep
                    /\ TickOrder
                    /\ Attended' => Attended
                    /\ all_acknowledged' => all_acknowledged \/ pc' = "poll"
                    /\ all_acknowledged => all_acknowledged'
  OBVIOUS
<1> USE DEF BaselineStep, TickOrder, engineVars, jobVars
<1>0. ASSUME UNCHANGED <<next_index, sent_commands>>
      PROVE  all_acknowledged' <=> all_acknowledged
  BY <1>0 DEF all_acknowledged, all_sent
<1>1. CASE Start
  BY <1>1, <1>0 DEF Start, Attended
<1>2. CASE TickBegin
  BY <1>2, <1>0 DEF TickBegin, Attended
<1>3. CASE PollOk
  BY <1>3 DEF PollOk, TakeReply, Attended, all_acknowledged, all_sent
<1>4. CASE PollStatus
  BY <1>4, <1>0 DEF PollStatus, TakeReply, Attended
<1>5. CASE PollFailure
  BY <1>5, <1>0 DEF PollFailure, TakeReply, LeaveFailed, Fail, Attended
<1>6. CASE PollDone
  BY <1>6, <1>0 DEF PollDone, ctlVars, Attended
<1>7. CASE TransportError
  BY <1>7, <1>0 DEF TransportError, Attended
<1>8. CASE SendLine
  <2>1. ~all_sent /\ sent_commands' = Append(sent_commands, next_index + 1)
    BY <1>8 DEF SendLine, Blocked
  <2>2. sent_commands' # <<>>
    BY <2>1, AppendOf DEF TypeOK, HostTypeOK
  <2> QED
    BY <1>8, <2>1, <2>2 DEF SendLine, all_acknowledged, Attended
<1>9. CASE SpoolFails
  BY <1>9, <1>0 DEF SpoolFails, Fail, Attended
<1>10. CASE SendDone
  BY <1>10, <1>0 DEF SendDone, Attended, TypeOK, HostTypeOK
<1>11. CASE QueryStatus
  BY <1>11, <1>0 DEF QueryStatus, Attended
<1>12. CASE FailSilent
  BY <1>12, <1>0 DEF FailSilent, LeaveFailed, Fail, Attended
<1>13. CASE SpindleStop
  BY <1>13, <1>0 DEF SpindleStop, Attended
<1>14. CASE FailDesync
  BY <1>14, <1>0 DEF FailDesync, LeaveFailed, Fail, Attended
<1>15. CASE TickEnd
  BY <1>15, <1>0 DEF TickEnd, LeaveFailed, Attended
<1>16. CASE Pause
  BY <1>16, <1>0 DEF Pause, Press, Attended
<1>17. CASE Resume
  BY <1>17, <1>0 DEF Resume, Press, Attended
<1>18. CASE Cancel
  BY <1>18, <1>0 DEF Cancel, Press, Attended
<1>19. CASE Release
  BY <1>19, <1>0 DEF Release, Attended
<1>20. CASE PollDue
  BY <1>20, <1>0 DEF PollDue, Attended
<1>21. CASE StatusTimeout
  BY <1>21, <1>0 DEF StatusTimeout, Attended
<1>22. CASE DelayElapses
  BY <1>22, <1>0 DEF DelayElapses, Attended
<1>23. CASE BreakLink
  BY <1>23, <1>0 DEF BreakLink, Attended
<1>24. CASE Finished
  BY <1>24, <1>0 DEF Finished, vars, hostVars, Attended
<1> QED
  BY <1>1, <1>2, <1>3, <1>4, <1>5, <1>6, <1>7, <1>8, <1>9, <1>10, <1>11, <1>12,
     <1>13, <1>14, <1>15, <1>16, <1>17, <1>18, <1>19, <1>20, <1>21, <1>22, <1>23,
     <1>24, Zenon DEF HostNext, Tick, Poll, Send, Finish, User, Clock, HostFault

\* Every step keeps the baseline behind every reply made before it.
LEMMA BaselineStepKeeps ==
  TypeOK /\ StreamInv /\ BaselineInv /\ [Next]_vars => BaselineInv'
<1> SUFFICES ASSUME TypeOK, StreamInv, BaselineInv, [Next]_vars PROVE BaselineInv'
  OBVIOUS
<1>0. replies \in Seq(Reply)
  BY MotionType
<1>1. CASE HostNext
  <2>1. AllLate => AllLate'
    <3>1. replies' = replies \/ (replies # <<>> /\ replies' = Tail(replies))
      BY <1>1, HostReads
    <3> QED
      BY <1>0, <3>1, TailOf DEF AllLate
  <2>2. /\ BaselineStep
        /\ TickOrder
        /\ Attended' => Attended
        /\ all_acknowledged' => all_acknowledged \/ pc' = "poll"
        /\ all_acknowledged => all_acknowledged'
    BY <1>1, HostBaseline
  <2>3. replies' = <<>> => AllLate'
    BY DEF AllLate
  <2>4. Attended' /\ idle_baseline' # "none" => all_acknowledged' /\ AllLate'
    BY <2>1, <2>2 DEF BaselineInv, BaselineStep
  <2>5. pc' \in {"query", "spindle", "check"} \/ (pc' = "send" /\ call' = "tick")
          => (all_acknowledged' => AllLate')
    BY <2>1, <2>2, <2>3 DEF BaselineInv, TickOrder
  <2> QED
    BY <2>4, <2>5 DEF BaselineInv
<1>2. CASE Controller
  <2>1. /\ ControllerNext
        /\ UNCHANGED <<pc, call, held, progress, idle_baseline, next_index, sent_commands>>
    BY <1>2 DEF Controller, hostVars, engineVars, jobVars
  <2>2. Attended /\ all_acknowledged /\ AllLate => AllLate'
    BY <2>1, AcknowledgedIsConsumed, FirmwareLate
  <2>3. Attended' = Attended /\ all_acknowledged' = all_acknowledged
    BY <2>1 DEF Attended, all_acknowledged, all_sent
  <2>4. Attended' /\ idle_baseline' # "none" => all_acknowledged' /\ AllLate'
    BY <2>1, <2>2, <2>3 DEF BaselineInv
  <2>5. pc' \in {"query", "spindle", "check"} \/ (pc' = "send" /\ call' = "tick")
          => (all_acknowledged' => AllLate')
    <3> SUFFICES ASSUME pc' \in {"query", "spindle", "check", "send"},
                        pc' = "send" => call' = "tick", all_acknowledged'
                 PROVE  AllLate'
      OBVIOUS
    <3>1. Attended /\ all_acknowledged
      BY <2>1, <2>3 DEF Attended
    <3> QED
      BY <2>1, <2>2, <3>1 DEF BaselineInv
  <2> QED
    BY <2>4, <2>5 DEF BaselineInv
<1>3. CASE UNCHANGED vars
  BY <1>3 DEF vars, ctlVars, hostVars, engineVars, jobVars, BaselineInv, Attended,
              all_acknowledged, all_sent, AllLate
<1> QED
  BY <1>1, <1>2, <1>3 DEF Next, HostNext

\* A status report is believed only while a job is ticked; only the end of a tick
\* completes a job.
LEMMA CompletionFacts ==
  TypeOK /\ [Next]_vars =>
    /\ failed => failed'
    /\ \/ PollStatus
       \/ last_status' # "Idle"
       \/ /\ last_status' = last_status
          /\ idle_baseline' = "fresh" => idle_baseline = "fresh"
    /\ progress' = "Completed" =>
         \/ progress = "Completed"
         \/ idle_baseline = "fresh" /\ last_status = "Idle" /\ ~failed
<1> SUFFICES ASSUME TypeOK, [Next]_vars
             PROVE  /\ failed => failed'
                    /\ \/ PollStatus
                       \/ last_status' # "Idle"
                       \/ /\ last_status' = last_status
                          /\ idle_baseline' = "fresh" => idle_baseline = "fresh"
                    /\ progress' = "Completed" =>
                         \/ progress = "Completed"
                         \/ idle_baseline = "fresh" /\ last_status = "Idle" /\ ~failed
  OBVIOUS
<1> USE DEF engineVars, sessionVars, jobVars, Fail
<1>1. CASE Start
  BY <1>1 DEF Start
<1>2. CASE TickBegin
  BY <1>2, Zenon DEF TickBegin
<1>3. CASE PollOk
  BY <1>3, Zenon DEF PollOk
<1>4. CASE PollStatus
  BY <1>4, Zenon DEF PollStatus
<1>5. CASE PollFailure
  BY <1>5 DEF PollFailure, ObserveStatus
<1>6. CASE PollDone
  BY <1>6, Zenon DEF PollDone
<1>7. CASE TransportError
  BY <1>7, Zenon DEF TransportError
<1>8. CASE SendLine
  BY <1>8, Zenon DEF SendLine
<1>9. CASE SpoolFails
  BY <1>9 DEF SpoolFails
<1>10. CASE SendDone
  BY <1>10, Zenon DEF SendDone
<1>11. CASE QueryStatus
  BY <1>11, Zenon DEF QueryStatus
<1>12. CASE FailSilent
  BY <1>12 DEF FailSilent
<1>13. CASE SpindleStop
  BY <1>13, Zenon DEF SpindleStop
<1>14. CASE FailDesync
  BY <1>14 DEF FailDesync
<1>15. CASE TickEnd
  BY <1>15 DEF TickEnd, Completes
<1>16. CASE Pause
  BY <1>16 DEF Pause, Press
<1>17. CASE Resume
  BY <1>17 DEF Resume, Press
<1>18. CASE Cancel
  BY <1>18 DEF Cancel, Press
<1>19. CASE Release
  BY <1>19, Zenon DEF Release
<1>20. CASE PollDue
  BY <1>20, Zenon DEF PollDue
<1>21. CASE StatusTimeout
  BY <1>21, Zenon DEF StatusTimeout
<1>22. CASE DelayElapses
  BY <1>22, Zenon DEF DelayElapses
<1>23. CASE BreakLink
  BY <1>23, Zenon DEF BreakLink
<1>24. CASE Controller
  BY <1>24, Zenon DEF Controller, hostVars
<1>25. CASE UNCHANGED vars
  BY <1>25, Zenon DEF vars, hostVars
<1> QED
  BY <1>1, <1>2, <1>3, <1>4, <1>5, <1>6, <1>7, <1>8, <1>9, <1>10, <1>11, <1>12,
     <1>13, <1>14, <1>15, <1>16, <1>17, <1>18, <1>19, <1>20, <1>21, <1>22, <1>23,
     <1>24, <1>25, Zenon DEF Next, Tick, Poll, Send, Finish, User, Clock,
     HostFault, Finished

\* Drained and Lossless, once true, stay true: nothing is left to execute or lose.
LEMMA DoneStays ==
  TypeOK /\ StreamInv /\ WaitsAlone /\ [Next]_vars =>
    /\ Drained => Drained'
    /\ Drained /\ Lossless => Lossless'
<1> SUFFICES ASSUME TypeOK, StreamInv, WaitsAlone, [Next]_vars
             PROVE  /\ Drained => Drained'
                    /\ Drained /\ Lossless => Lossless'
  OBVIOUS
<1>1. CASE HostNext
  BY <1>1, HostTouchesOnly DEF HostTouches, Drained, Lossless
<1>2. CASE Controller
  <2>1. ReplyStep
    BY <1>2, FirmwareReplies DEF Controller, hostVars, engineVars
  <2> QED
    BY <2>1 DEF ReplyStep
<1>3. CASE UNCHANGED vars
  BY <1>3 DEF vars, ctlVars, Drained, Lossless
<1> QED
  BY <1>1, <1>2, <1>3 DEF Next, HostNext

\* Every step keeps the report a completion rests on true.
LEMMA CompletionStep ==
  /\ TypeOK /\ StreamInv /\ MotionInv /\ BaselineInv /\ CompletionInv
  /\ [Next]_vars
  => CompletionInv'
<1> SUFFICES ASSUME TypeOK, StreamInv, MotionInv, BaselineInv, CompletionInv,
                    [Next]_vars
             PROVE  CompletionInv'
  OBVIOUS
<1>1. /\ failed => failed'
      /\ \/ PollStatus
         \/ last_status' # "Idle"
         \/ /\ last_status' = last_status
            /\ idle_baseline' = "fresh" => idle_baseline = "fresh"
      /\ progress' = "Completed" =>
           \/ progress = "Completed"
           \/ idle_baseline = "fresh" /\ last_status = "Idle" /\ ~failed
  BY CompletionFacts
<1>2. /\ Drained => Drained'
      /\ Drained /\ Lossless => Lossless'
  BY DoneStays DEF MotionInv
<1>3. idle_baseline' = "fresh" /\ last_status' = "Idle" => Drained' /\ (Lossless' \/ failed')
  <2>1. CASE PollStatus
    <3> SUFFICES ASSUME idle_baseline' = "fresh", last_status' = "Idle"
                 PROVE  Drained /\ (Lossless \/ failed)
      BY <1>1, <1>2
    <3>1. /\ pc = "poll" /\ replies # <<>> /\ Head(replies).k = "Idle"
          /\ idle_baseline # "none"
      BY <2>1 DEF PollStatus, TakeReply, ObserveStatus
    <3>2. AllLate
      BY <3>1 DEF BaselineInv, Attended
    <3>3. 1 \in DOMAIN replies /\ Head(replies) = replies[1]
          /\ DOMAIN replies = 1..Len(replies)
      BY <3>1, MotionType, TailOf
    <3>4. ~ \E q \in DOMAIN replies : q < 1
      BY <3>3
    <3> QED
      BY <3>1, <3>2, <3>3, <3>4 DEF MotionInv, IdleMeansDrained, AllLate
  <2>2. CASE ~PollStatus
    BY <1>1, <1>2, <2>2 DEF CompletionInv
  <2> QED
    BY <2>1, <2>2
<1>4. progress' = "Completed" => Drained' /\ Lossless'
  BY <1>1, <1>2 DEF CompletionInv
<1> QED
  BY <1>3, <1>4 DEF CompletionInv

\* Everything a completion rests on.
CompletionIInv == TypeOK /\ StreamInv /\ MotionInv /\ BaselineInv /\ CompletionInv

\* A job about to start has lost nothing and promised nothing.
LEMMA CompletionInit == Init => CompletionIInv
<1> SUFFICES ASSUME Init PROVE CompletionIInv
  OBVIOUS
<1>1. TypeOK /\ StreamInv
  BY TypeInit, StreamInit
<1> USE DEF Init, HostInit, ControllerInit, AtRest
<1>2. Lossless /\ DOMAIN replies = {}
  BY DEF Lossless
<1>3. MotionInv
  BY <1>2 DEF MotionInv, LossIsTold, IdleMeansDrained, WaitsAlone
<1>4. BaselineInv
  BY DEF BaselineInv
<1>5. CompletionInv
  BY DEF CompletionInv
<1> QED
  BY <1>1, <1>3, <1>4, <1>5 DEF CompletionIInv

\* Everything a completion rests on holds throughout a job.
LEMMA CompletionIsSound == Spec => []CompletionIInv
<1>1. CompletionIInv /\ [Next]_vars => CompletionIInv'
  BY TypeStep, StreamStep, MotionStep, BaselineStepKeeps, CompletionStep
     DEF CompletionIInv
<1> QED
  BY <1>1, CompletionInit, PTL DEF Spec

\* A job that is Completed was executed: every line, in stream order, with no
\* motion left - whatever was delayed, lost, paused or restarted on the way.  The
\* Idle report that completes it was made after the last line was consumed, and a
\* line that got lost would have failed the job first.
THEOREM CompletedWasExecuted == Spec => []CompletedMeansExecuted
<1>1. CompletionIInv => CompletedMeansExecuted
  <2> SUFFICES ASSUME CompletionIInv, progress = "Completed"
               PROVE  planner = <<>> /\ executed = [i \in Line |-> i]
    BY DEF CompletedMeansExecuted
  <2>1. planner = <<>> /\ consumed = N /\ Lossless
    BY DEF CompletionIInv, CompletionInv, Drained
  <2>2. executed \in Seq(Line) /\ N \in Nat /\ Len(planner) = 0
    BY <2>1, MotionType DEF CompletionIInv
  <2>3. Len(executed) = N /\ DOMAIN executed = Line
    BY <2>1, <2>2 DEF Lossless, Line
  <2>4. \A i \in Line : executed[i] = i
    BY <2>1, <2>3 DEF Lossless
  <2>5. executed = [i \in DOMAIN executed |-> executed[i]]
    BY <2>2
  <2> QED
    BY <2>1, <2>3, <2>4, <2>5
<1> QED
  BY <1>1, CompletionIsSound, PTL

-----------------------------------------------------------------------------
(* Motion follows stream order, across restarts too.                       *)

\* What was executed came before what is planned, which is in order, and all of it
\* was consumed.
MotionOrdered ==
  /\ \A p \in DOMAIN executed : executed[p] <= consumed
  /\ \A q \in DOMAIN planner : planner[q] <= consumed
  /\ \A p \in DOMAIN executed, q \in DOMAIN planner : executed[p] < planner[q]
  /\ \A p, q \in DOMAIN planner : p < q => planner[p] < planner[q]

\* Every step of the firmware keeps motion in order.
LEMMA FirmwareOrdered ==
  TypeOK /\ StreamInv /\ WaitsAlone /\ MotionOrdered /\ ControllerNext => MotionOrdered'
<1> SUFFICES ASSUME TypeOK, StreamInv, WaitsAlone, MotionOrdered, ControllerNext
             PROVE  MotionOrdered'
  OBVIOUS
<1>0. /\ received \in 0..N /\ consumed \in 0..N /\ N \in Nat
      /\ planner \in Seq(Line) /\ executed \in Seq(Line)
      /\ \A p \in DOMAIN planner : planner[p] \in Nat
      /\ \A p \in DOMAIN executed : executed[p] \in Nat
      /\ consumed <= received
  BY MotionType DEF Line, StreamInv, WireSorted
<1>a. ASSUME UNCHANGED <<consumed, planner, executed>> PROVE MotionOrdered'
  BY <1>a DEF MotionOrdered
<1>b. ASSUME executed' = executed, planner' \in {planner, <<>>},
             consumed' \in {consumed, consumed + 1, received}
      PROVE  MotionOrdered'
  BY <1>0, <1>b DEF MotionOrdered
<1>1. CASE DeliverLine
  BY <1>1, <1>a DEF DeliverLine
<1>2. CASE DeliverM5
  BY <1>2, <1>a DEF DeliverM5
<1>3. CASE DeliverQuery
  BY <1>3, <1>a DEF DeliverQuery
<1>4. CASE DeliverFeedHold
  BY <1>4, <1>a DEF DeliverFeedHold
<1>5. CASE DeliverCycleStart
  BY <1>5, <1>a DEF DeliverCycleStart
<1>6. CASE DeliverSpindleStop
  BY <1>6, <1>a DEF DeliverSpindleStop
<1>7. CASE DeliverReset
  BY <1>7, <1>b DEF DeliverReset, Restarted
<1>8. CASE DeliverToDead
  BY <1>8, <1>a DEF DeliverToDead
<1>9. CASE ParseMotion
  <2>1. /\ executed' = executed /\ consumed' = consumed + 1
        /\ planner' = Append(planner, consumed + 1)
    BY <1>9 DEF ParseMotion
  <2>2. /\ \A p \in DOMAIN planner : planner'[p] = planner[p] /\ p <= Len(planner)
        /\ \A p \in DOMAIN planner' :
             \/ p \in DOMAIN planner
             \/ p = Len(planner) + 1 /\ planner'[p] = consumed + 1
        /\ Len(planner) \in Nat /\ DOMAIN planner' = 1..(Len(planner) + 1)
    BY <1>0, <2>1, AppendOf
  <2> QED
    BY <1>0, <2>1, <2>2 DEF MotionOrdered
<1>10. CASE BeginWait
  BY <1>10, <1>a DEF BeginWait
<1>11. CASE EndWait
  <2>1. /\ planner = <<>> /\ planner' = <<>> /\ consumed' = consumed + 1
        /\ executed' = Append(executed, consumed + 1)
    BY <1>11 DEF EndWait, WaitsAlone
  <2>2. \A p \in DOMAIN executed' :
          executed'[p] = consumed + 1 \/ (p \in DOMAIN executed /\ executed'[p] = executed[p])
    BY <1>0, <2>1, AppendOf
  <2> QED
    BY <1>0, <2>1, <2>2 DEF MotionOrdered
<1>12. CASE Execute
  <2>1. /\ planner # <<>> /\ planner' = Tail(planner) /\ consumed' = consumed
        /\ executed' = Append(executed, Head(planner))
    BY <1>12 DEF Execute
  <2>2. /\ \A p \in DOMAIN planner' :
             p \in Nat \ {0} /\ p + 1 \in DOMAIN planner /\ planner'[p] = planner[p + 1]
        /\ 1 \in DOMAIN planner /\ Head(planner) = planner[1]
    BY <1>0, <2>1, TailOf
  <2>3. \A p \in DOMAIN executed' :
          executed'[p] = planner[1] \/ (p \in DOMAIN executed /\ executed'[p] = executed[p])
    BY <1>0, <2>1, <2>2, AppendOf
  <2>4. \A q \in DOMAIN planner' : planner[1] < planner'[q]
    BY <2>2 DEF MotionOrdered
  <2> QED
    BY SMTT(30), <1>0, <2>1, <2>2, <2>3, <2>4 DEF MotionOrdered
<1>13. CASE Report
  BY <1>13, <1>a DEF Report
<1>14. CASE RejectLine
  BY <1>14, <1>b DEF RejectLine
<1>15. CASE LoseOk
  BY <1>15, <1>a DEF LoseOk
<1>16. CASE TripAlarm
  BY <1>16, <1>b DEF TripAlarm
<1>17. CASE PowerGlitch
  BY <1>17, <1>b DEF PowerGlitch, Restarted
<1>18. CASE GoSilent
  BY <1>18, <1>a DEF GoSilent
<1> QED
  BY <1>1, <1>2, <1>3, <1>4, <1>5, <1>6, <1>7, <1>8, <1>9,
     <1>10, <1>11, <1>12, <1>13, <1>14, <1>15, <1>16, <1>17, <1>18, Zenon
     DEF ControllerNext, Deliver, Work, ControllerFault

\* Every step keeps motion in order.
LEMMA OrderStep ==
  TypeOK /\ StreamInv /\ WaitsAlone /\ MotionOrdered /\ [Next]_vars => MotionOrdered'
<1> SUFFICES ASSUME TypeOK, StreamInv, WaitsAlone, MotionOrdered, [Next]_vars
             PROVE  MotionOrdered'
  OBVIOUS
<1>1. CASE HostNext
  BY <1>1, HostTouchesOnly DEF HostTouches, MotionOrdered
<1>2. CASE Controller
  BY <1>2, FirmwareOrdered DEF Controller
<1>3. CASE UNCHANGED vars
  BY <1>3 DEF vars, ctlVars, MotionOrdered
<1> QED
  BY <1>1, <1>2, <1>3 DEF Next, HostNext

-----------------------------------------------------------------------------
(* The job's state follows the engine's flags.                             *)

\* The state shown to the user says what the engine does: Running is what an
\* attended job is that is neither paused nor cancelled nor failed, and a job
\* that is over is not ticked again.
PhaseInv ==
  /\ progress = "Preparing" => ~held /\ pc = "idle"
  /\ progress = "Paused" => paused
  /\ progress = "Failed" => failed
  /\ progress = "Cancelled" => ~held /\ pc = "idle"
  /\ progress = "Completed" => pc = "release" \/ (~held /\ pc = "idle")
  /\ (held \/ pc # "idle") /\ pc # "release" /\ ~paused /\ ~cancelled /\ ~failed
       => progress = "Running"

\* Every step keeps the job's state true to the engine.
LEMMA PhaseStep == TypeOK /\ FailureInv /\ PhaseInv /\ [Next]_vars => PhaseInv'
<1> SUFFICES ASSUME TypeOK, FailureInv, PhaseInv, [Next]_vars PROVE PhaseInv'
  OBVIOUS
<1> USE DEF PhaseInv, FailureInv, engineVars, jobVars, Fail, LeaveFailed
<1>1. CASE Start
  BY <1>1 DEF Start
<1>2. CASE TickBegin
  BY <1>2 DEF TickBegin
<1>3. CASE PollOk
  BY <1>3 DEF PollOk, TakeReply
<1>4. CASE PollStatus
  BY <1>4 DEF PollStatus, TakeReply
<1>5. CASE PollFailure
  BY <1>5 DEF PollFailure, TakeReply
<1>6. CASE PollDone
  BY <1>6 DEF PollDone
<1>7. CASE TransportError
  BY <1>7 DEF TransportError
<1>8. CASE SendLine
  BY <1>8 DEF SendLine
<1>9. CASE SpoolFails
  BY <1>9 DEF SpoolFails
<1>10. CASE SendDone
  BY <1>10 DEF SendDone
<1>11. CASE QueryStatus
  BY <1>11 DEF QueryStatus
<1>12. CASE FailSilent
  BY <1>12 DEF FailSilent
<1>13. CASE SpindleStop
  BY <1>13 DEF SpindleStop
<1>14. CASE FailDesync
  BY <1>14 DEF FailDesync
<1>15. CASE TickEnd
  BY <1>15 DEF TickEnd, Completes
<1>16. CASE Pause
  BY <1>16 DEF Pause, Press
<1>17. CASE Resume
  BY <1>17 DEF Resume, Press
<1>18. CASE Cancel
  BY <1>18 DEF Cancel, Press
<1>19. CASE Release
  BY <1>19 DEF Release
<1>20. CASE PollDue
  BY <1>20 DEF PollDue
<1>21. CASE StatusTimeout
  BY <1>21 DEF StatusTimeout
<1>22. CASE DelayElapses
  BY <1>22 DEF DelayElapses
<1>23. CASE BreakLink
  BY <1>23 DEF BreakLink
<1>24. CASE Controller
  BY <1>24 DEF Controller, hostVars
<1>25. CASE UNCHANGED vars
  BY <1>25 DEF vars, hostVars
<1> QED
  BY <1>1, <1>2, <1>3, <1>4, <1>5, <1>6, <1>7, <1>8, <1>9, <1>10, <1>11, <1>12,
     <1>13, <1>14, <1>15, <1>16, <1>17, <1>18, <1>19, <1>20, <1>21, <1>22, <1>23,
     <1>24, <1>25, Zenon DEF Next, Tick, Poll, Send, Finish, User, Clock,
     HostFault, Finished

-----------------------------------------------------------------------------
(* GrblStream implements JobPromise.                                       *)

\* What the steps of the promise rest on.
PromiseInv == CompletionIInv /\ FailureInv /\ PhaseInv /\ MotionOrdered

\* Everything the promise rests on holds throughout a job.
LEMMA PromiseIsKept == Spec => []PromiseInv
<1>1. Init => PromiseInv
  <2> SUFFICES ASSUME Init PROVE PromiseInv
    OBVIOUS
  <2>1. CompletionIInv
    BY CompletionInit
  <2> USE DEF Init, HostInit, ControllerInit, AtRest
  <2>2. FailureInv /\ PhaseInv /\ MotionOrdered
    BY DEF FailureInv, PhaseInv, MotionOrdered
  <2> QED
    BY <2>1, <2>2 DEF PromiseInv
<1>2. PromiseInv /\ [Next]_vars => PromiseInv'
  <2>1. CompletionIInv /\ [Next]_vars => CompletionIInv'
    BY TypeStep, StreamStep, MotionStep, BaselineStepKeeps, CompletionStep
       DEF CompletionIInv
  <2> QED
    BY <2>1, FailureStep, PhaseStep, OrderStep DEF PromiseInv, CompletionIInv, MotionInv
<1> QED
  BY <1>1, <1>2, PTL DEF Spec

\* A motion that is executed was handed over, and comes after all others.
LEMMA MotionIsMove ==
  PromiseInv /\ (Execute \/ EndWait) /\ UNCHANGED <<progress, next_index>> => Promise!Move
<1> SUFFICES ASSUME PromiseInv, Execute \/ EndWait, UNCHANGED <<progress, next_index>>
             PROVE  Promise!Move
  OBVIOUS
<1>0. /\ TypeOK /\ StreamInv /\ WaitsAlone /\ MotionOrdered /\ CompletionInv
  BY DEF PromiseInv, CompletionIInv, MotionInv
<1>1. /\ received \in 0..N /\ consumed \in 0..N /\ next_index \in 0..N /\ N \in Nat
      /\ planner \in Seq(Line) /\ executed \in Seq(Line)
      /\ consumed <= received /\ received <= next_index
  BY <1>0, MotionType DEF StreamInv, WireSorted
<1>2. progress # "Completed"
  <2>1. ~Drained
    BY <1>0, NothingLeft DEF Execute, EndWait, Drained
  <2> QED
    BY <1>0, <2>1 DEF CompletionInv
<1>3. CASE Execute
  <2>1. 1 \in DOMAIN planner /\ Head(planner) = planner[1] /\ planner[1] \in Line
    BY <1>1, <1>3, TailOf DEF Execute
  <2>2. /\ planner[1] \in 1..next_index
        /\ \A p \in DOMAIN executed : executed[p] < planner[1]
    BY <1>0, <1>1, <2>1 DEF MotionOrdered, Line
  <2> QED
    BY <1>2, <1>3, <2>1, <2>2 DEF Execute, Promise!Move
<1>4. CASE EndWait
  <2>1. busy = consumed + 1 /\ executed' = Append(executed, busy) /\ consumed < received
    BY <1>0, <1>4 DEF EndWait, WaitsAlone
  <2>2. \A p \in DOMAIN executed : executed[p] \in Nat /\ executed[p] <= consumed
    BY <1>0, <1>1 DEF MotionOrdered, Line
  <2>3. busy \in 1..next_index /\ \A p \in DOMAIN executed : executed[p] < busy
    BY <1>1, <2>1, <2>2
  <2> QED
    BY <1>2, <2>1, <2>3 DEF Promise!Move
<1> QED
  BY <1>3, <1>4

\* The firmware keeps the promise: only executed motion shows.
LEMMA FirmwareRefines ==
  PromiseInv /\ Controller => [Promise!Next]_(Promise!vars)
<1> SUFFICES ASSUME PromiseInv, Controller PROVE [Promise!Next]_(Promise!vars)
  OBVIOUS
<1>0. ControllerNext /\ UNCHANGED <<progress, next_index>>
  BY DEF Controller, hostVars, engineVars
<1>1. ControllerNext => executed' = executed \/ Execute \/ EndWait
  BY Zenon DEF ControllerNext, Deliver, Work, ControllerFault, DeliverLine, DeliverM5, DeliverQuery,
         DeliverFeedHold, DeliverCycleStart, DeliverSpindleStop, DeliverReset,
         DeliverToDead, ParseMotion, BeginWait, Report, RejectLine, LoseOk, TripAlarm,
         PowerGlitch, GoSilent
<1>2. CASE executed' = executed
  BY <1>0, <1>2 DEF Promise!vars
<1>3. CASE Execute \/ EndWait
  BY <1>0, <1>3, MotionIsMove DEF Promise!Next
<1> QED
  BY <1>0, <1>1, <1>2, <1>3

\* Every step of GrblStream is a step of the promise, or none.
LEMMA RefinesStep ==
  PromiseInv /\ [Next]_vars => [Promise!Next]_(Promise!vars)
<1> SUFFICES ASSUME PromiseInv, [Next]_vars PROVE [Promise!Next]_(Promise!vars)
  OBVIOUS
<1>0. /\ TypeOK /\ FailureInv /\ PhaseInv /\ StreamInv /\ CompletionInv
      /\ progress \in JobStates /\ next_index \in 0..N /\ N \in Nat
  BY ConstantType DEF PromiseInv, CompletionIInv, TypeOK, HostTypeOK
<1>a. HostNext => executed' = executed
  BY <1>0, HostTouchesOnly DEF HostTouches
<1>b. ASSUME HostNext, UNCHANGED <<progress, next_index>>
      PROVE  [Promise!Next]_(Promise!vars)
  BY <1>a, <1>b DEF Promise!vars
\* A job that is over is out of the users' reach.
<1>c. ASSUME held \/ pc # "idle", pc # "release"
      PROVE  progress \in {"Running", "Paused", "Failed"}
  BY <1>0, <1>c DEF PhaseInv, JobStates
<1>d. ASSUME HostNext, Fail, next_index' = next_index, held \/ pc # "idle", pc # "release"
      PROVE  [Promise!Next]_(Promise!vars)
  BY <1>a, <1>c, <1>d
     DEF Fail, Promise!vars, Promise!Next, Promise!FailJob, Promise!Active
<1> USE DEF engineVars
<1>1. CASE Start
  <2>1. HostNext
    BY <1>1 DEF HostNext
  <2> QED
    BY <1>1, <1>a, <2>1 DEF Start, Promise!Next, Promise!Begin
<1>2. CASE TickBegin \/ PollOk \/ PollStatus \/ PollDone \/ TransportError \/ SendDone
           \/ QueryStatus \/ SpindleStop \/ Release
  <2>1. HostNext
    BY <1>2, Zenon DEF HostNext, Tick, Poll, Send, Finish
  <2>2. UNCHANGED <<progress, next_index>>
    BY <1>2, Zenon DEF TickBegin, PollOk, PollStatus, PollDone, TransportError, SendDone,
                       QueryStatus, SpindleStop, Release
  <2> QED
    BY <1>b, <2>1, <2>2
<1>3. CASE PollFailure
  <2>1. HostNext
    BY <1>3, Zenon DEF HostNext, Tick, Poll
  <2>2. pc = "poll" /\ next_index' = next_index
    BY <1>3 DEF PollFailure, TakeReply
  <2>3. progress' = progress \/ Fail
    BY <1>3, Zenon DEF PollFailure
  <2> QED
    BY <1>b, <1>d, <2>1, <2>2, <2>3
<1>4. CASE SendLine
  <2>1. HostNext
    BY <1>4, Zenon DEF HostNext, Tick, Send
  <2>2. /\ pc = "send" /\ ~paused /\ ~cancelled /\ ~failed /\ next_index < N
        /\ next_index' = next_index + 1 /\ progress' = progress
    BY <1>0, <1>4 DEF SendLine, Blocked, Quiet, all_sent
  <2>3. progress = "Running"
    BY <1>0, <2>2 DEF PhaseInv
  <2> QED
    BY <1>a, <2>1, <2>2, <2>3 DEF Promise!Next, Promise!HandOver
<1>5. CASE SpoolFails \/ FailSilent \/ FailDesync
  <2>1. HostNext
    BY <1>5, Zenon DEF HostNext, Tick, Finish, HostFault
  <2>2. pc \in {"send", "spindle", "check"} /\ next_index' = next_index /\ Fail
    BY <1>5 DEF SpoolFails, FailSilent, FailDesync
  <2> QED
    BY <1>d, <2>1, <2>2
<1>6. CASE TickEnd
  <2>1. HostNext
    BY <1>6, Zenon DEF HostNext, Tick, Finish
  <2>2. pc = "check" /\ next_index' = next_index
    BY <1>6 DEF TickEnd
  <2>3. CASE Completes
    <3>1. /\ progress' = "Completed" /\ ~failed
          /\ idle_baseline = "fresh" /\ last_status = "Idle"
      BY <1>6, <2>3 DEF TickEnd, Completes
    <3>2. progress \in {"Running", "Paused"}
      BY <1>0, <1>c, <2>2, <3>1 DEF PhaseInv
    <3>3. Drained /\ Lossless
      BY <1>0, <3>1 DEF CompletionInv
    <3>4. executed = [i \in 1..N |-> i]
      <4>1. executed \in Seq(Line) /\ Len(planner) = 0
        BY <1>0, <3>3, MotionType DEF Drained
      <4>2. DOMAIN executed = 1..N /\ \A i \in 1..N : executed[i] = i
        BY <1>0, <3>3, <4>1 DEF Lossless, Drained
      <4> QED
        BY <4>1, <4>2
    <3> QED
      BY <1>a, <2>1, <2>2, <3>1, <3>2, <3>4
         DEF Promise!Next, Promise!Complete, Promise!Active
  <2>4. CASE ~Completes
    <3>1. progress' = progress
      BY <1>6, <2>4 DEF TickEnd
    <3> QED
      BY <1>b, <2>1, <2>2, <3>1
  <2> QED
    BY <2>3, <2>4
<1>7. CASE Pause \/ Resume
  <2>1. HostNext
    BY <1>7, Zenon DEF HostNext, User
  <2>2. pc = "idle" /\ held /\ next_index' = next_index
    BY <1>7 DEF Pause, Resume, Press
  <2>3. Fail \/ progress' = progress \/ (link /\ progress' \in {"Running", "Paused"})
    BY <1>7 DEF Pause, Resume, Fail
  <2>4. link => progress \in {"Running", "Paused"}
    BY <1>0, <1>c, <2>2 DEF PhaseInv, FailureInv
  <2>5. CASE link /\ progress' \in {"Running", "Paused"}
    BY <1>a, <2>1, <2>2, <2>4, <2>5
       DEF Promise!Next, Promise!PauseOrResume, Promise!Active
  <2> QED
    BY <1>b, <1>d, <2>1, <2>2, <2>3, <2>5
<1>8. CASE Cancel
  <2>1. HostNext
    BY <1>8, Zenon DEF HostNext, User
  <2>2. /\ pc = "idle" /\ held /\ next_index' = next_index
        /\ progress' = progress \/ progress' = "Cancelled"
    BY <1>8 DEF Cancel, Press
  <2>3. CASE progress' = "Cancelled"
    BY <1>a, <1>c, <2>1, <2>2, <2>3 DEF Promise!Next, Promise!CancelJob, Promise!Active
  <2> QED
    BY <1>b, <2>1, <2>2, <2>3
<1>9. CASE Clock \/ BreakLink
  <2>1. HostNext
    BY <1>9, Zenon DEF HostNext, HostFault
  <2>2. UNCHANGED <<progress, next_index>>
    BY <1>9, Zenon DEF Clock, PollDue, StatusTimeout, DelayElapses, BreakLink
  <2> QED
    BY <1>b, <2>1, <2>2
<1>10. CASE Controller
  BY <1>10, FirmwareRefines
<1>11. CASE UNCHANGED vars
  BY <1>11 DEF vars, ctlVars, hostVars, Promise!vars
<1> QED
  BY <1>1, <1>2, <1>3, <1>4, <1>5, <1>6, <1>7, <1>8, <1>9, <1>10, <1>11, Zenon
     DEF Next, Tick, Poll, Send, Finish, User, HostFault, Finished

\* A GRBL job keeps the promise of a managed job, whatever the job, the window, the
\* delays and the faults: lines are handed over only while it runs, the machine
\* executes what it was handed in stream order and at most once, and the job is
\* Completed only when all of it was executed, after which nothing moves.
THEOREM StreamImplementsPromise == Spec => PromiseSpec
<1>1. Init => Promise!Init
  BY DEF Init, HostInit, ControllerInit, AtRest, Promise!Init
<1> QED
  BY <1>1, RefinesStep, PromiseIsKept, PTL DEF Spec, PromiseSpec, Promise!Spec

-----------------------------------------------------------------------------
(* A job nothing goes wrong with does not fail.                            *)

\* S has at most one element, or at most two.
AtMostOne(S) == \A x, y \in S : x = y
AtMostTwo(S) == \A x, y, z \in S : x = y \/ y = z \/ x = z

\* S, T and the flag b together hold at most one thing.
OneOf(S, b, T) ==
  /\ AtMostOne(S)
  /\ AtMostOne(T)
  /\ S # {} => ~b /\ T = {}
  /\ b => T = {}

\* Queries on the wire, the ones among them no line lies before, the status reports on
\* their way back, and those that say Idle.
Queries == {p \in DOMAIN wire : wire[p].k = "?"}
QueryFirst == {p \in Queries : \A q \in 1..p : wire[q].k # "line"}
Reports == {p \in DOMAIN replies : replies[p].k # "ok"}
Idles == {p \in DOMAIN replies : replies[p].k = "Idle"}

Reporting == StatusReports \ {"Alarm"}

\* Controller and link work, and the service has not given the job up.
Sound ==
  /\ pc # "release"
  /\ pc = "poll" => call = "tick"
  /\ mode # "Alarm"
  /\ \A p \in DOMAIN wire : wire[p].k \notin {"ctrl-x", "m5"}
  /\ \A p \in DOMAIN replies : replies[p].k \in Reporting \cup {"ok"}
  /\ progress # "Preparing" => session_state \in {"Running", "Paused"}
  /\ progress = "Preparing" =>
       wire = <<>> /\ replies = <<>> /\ ~asked /\ sent_commands = <<>>

\* No line is lost on the wire, and no acknowledgement on the way back.
NothingLost ==
  /\ \A m \in Line : AckPoint < m /\ m <= consumed
       => \E p \in DOMAIN replies : replies[p].k = "ok" /\ replies[p].n = m
  /\ \A m \in Line : received < m /\ m <= next_index
       => \E p \in DOMAIN wire : wire[p].k = "line" /\ wire[p].n = m
  /\ \A p \in DOMAIN wire : wire[p].k = "line" =>
       received < wire[p].n /\ \A q \in DOMAIN wire : q < p => wire[q].n < wire[p].n
  /\ busy # 0 => busy \in Waits

\* Two reports at most are on their way or asked for: a query waits until the wire is
\* empty and every reply has been read.
FewReports ==
  /\ AtMostOne(Queries)
  /\ poll_due => Queries = {}
  /\ AtMostTwo(Reports)
  /\ asked \/ Queries # {} => AtMostOne(Reports)
  /\ asked /\ Queries # {} => Reports = {}
  /\ poll_due /\ pc \in {"send", "query"} => OneOf(Reports, asked, Queries)
  /\ pc = "idle" \/ (pc = "send" /\ call = "start") => ~new_report
  /\ pc \in {"poll", "send"} /\ new_report => OneOf(Reports, asked, Queries)

\* The Idle reports counted, with the one that the next check counts.
Counted == idle_reports + (IF new_report THEN 1 ELSE 0)

\* Before the first of the lines in flight is consumed, two Idle reports at most are
\* counted or still to come.
NotYet ==
  /\ Counted <= 2
  /\ Counted >= 1 => OneOf(Idles, asked /\ received = consumed,
                           IF received = consumed THEN QueryFirst ELSE {})
  /\ Counted = 2 => Idles = {} /\ (received = consumed => ~asked /\ QueryFirst = {})

\* Once it is consumed its acknowledgement is on the way, and the tick that reads it
\* forgets the reports; only the tick under way may count one more.  A delay at the
\* head of the window keeps the count at zero.
FewIdles ==
  /\ idle_reports <= 2
  /\ sent_commands = <<>> => idle_reports = 0 /\ idle_timer = "none"
  /\ sent_commands # <<>> /\ consumed = AckPoint =>
       IF pending_dwell THEN idle_reports = 0 /\ idle_timer # "elapsed"
                        ELSE NotYet
  /\ sent_commands # <<>> /\ consumed # AckPoint
     /\ pc \in {"send", "query", "spindle", "check"} => Counted <= 2

Unharmed == ~failed /\ progress # "Failed" /\ alive /\ link /\ status_wait # "expired"

\* While nothing has gone wrong.
HealthInv ==
  faults = 0 =>
    Unharmed /\ (Attended => Sound /\ NothingLost /\ FewReports /\ FewIdles)

\* Each place in T is one after a place in S.
Shift(S, T) == \A p \in T : p \in Nat \ {0} /\ p + 1 \in S

\* A shorter queue holds no more, and less if its first place was taken.
LEMMA ShiftKeeps ==
  ASSUME NEW S, NEW T, Shift(S, T)
  PROVE  /\ S = {} => T = {}
         /\ AtMostOne(S) => AtMostOne(T)
         /\ AtMostTwo(S) => AtMostTwo(T)
         /\ 1 \in S /\ AtMostOne(S) => T = {}
         /\ 1 \in S /\ AtMostTwo(S) => AtMostOne(T)
<1>1. S = {} => T = {}
  BY DEF Shift
<1>2. \A x, y \in T : x + 1 \in S /\ y + 1 \in S /\ (x + 1 = y + 1 => x = y)
  BY DEF Shift
<1>3. \A x \in T : x + 1 # 1
  BY DEF Shift
<1>4. AtMostOne(S) => AtMostOne(T)
  BY <1>2 DEF AtMostOne
<1>5. AtMostTwo(S) => AtMostTwo(T)
  <2> SUFFICES ASSUME AtMostTwo(S), NEW x \in T, NEW y \in T, NEW z \in T
               PROVE  x = y \/ y = z \/ x = z
    BY DEF AtMostTwo
  <2>1. x + 1 = y + 1 \/ y + 1 = z + 1 \/ x + 1 = z + 1
    BY <1>2 DEF AtMostTwo
  <2> QED
    BY <2>1, <1>2
<1>6. 1 \in S /\ AtMostOne(S) => T = {}
  BY <1>2, <1>3 DEF AtMostOne
<1>7. 1 \in S /\ AtMostTwo(S) => AtMostOne(T)
  <2> SUFFICES ASSUME 1 \in S, AtMostTwo(S), NEW x \in T, NEW y \in T
               PROVE  x = y
    BY DEF AtMostOne
  <2>1. 1 = x + 1 \/ x + 1 = y + 1 \/ 1 = y + 1
    BY <1>2 DEF AtMostTwo
  <2> QED
    BY <2>1, <1>2, <1>3
<1> QED
  BY <1>1, <1>4, <1>5, <1>6, <1>7

\* What a write adds to the wire.
LEMMA WriteAdds ==
  ASSUME TypeOK, NEW w \in Written, wire' = Append(wire, w)
  PROVE  /\ w.k # "?" => Queries' = Queries /\ QueryFirst' = QueryFirst
         /\ w.k = "?" => /\ Queries' = Queries \cup {Len(wire) + 1}
                         /\ (\E p \in DOMAIN wire : wire[p].k = "line")
                              => QueryFirst' = QueryFirst
<1>1. /\ DOMAIN wire = 1..Len(wire) /\ Len(wire) \in Nat
      /\ DOMAIN wire' = 1..(Len(wire) + 1)
      /\ \A p \in DOMAIN wire : wire'[p] = wire[p]
      /\ wire'[Len(wire) + 1] = w
  BY AppendOf, MotionType
<1>2. w.k # "?" => Queries' = Queries
  BY <1>1 DEF Queries
<1>3. w.k = "?" => Queries' = Queries \cup {Len(wire) + 1}
  BY <1>1 DEF Queries
<1>4. \A p \in Queries : (\A q \in 1..p : wire[q].k # "line") <=> (\A q \in 1..p : wire'[q].k # "line")
  BY <1>1 DEF Queries
<1>5. Queries' = Queries => QueryFirst' = QueryFirst
  BY <1>4 DEF QueryFirst
<1>6. ASSUME Queries' = Queries \cup {Len(wire) + 1}, NEW p \in DOMAIN wire, wire[p].k = "line"
      PROVE  QueryFirst' = QueryFirst
  <2>1. p \in 1..(Len(wire) + 1) /\ wire'[p].k = "line"
    BY <1>1, <1>6
  <2> QED
    BY <1>4, <1>6, <2>1 DEF QueryFirst
<1> QED
  BY <1>2, <1>3, <1>5, <1>6

\* What the delivery of the oldest item leaves on the wire.
LEMMA ArrivalTakes ==
  ASSUME TypeOK, wire # <<>>, wire' = Tail(wire)
  PROVE  /\ Shift(Queries, Queries')
         /\ Head(wire).k # "line" => Shift(QueryFirst, QueryFirst')
         /\ Head(wire).k = "?" => 1 \in Queries /\ 1 \in QueryFirst
<1>1. /\ DOMAIN wire' = 1..(Len(wire) - 1) /\ Len(wire) \in Nat \ {0}
      /\ \A p \in DOMAIN wire' : p + 1 \in DOMAIN wire /\ wire'[p] = wire[p + 1]
      /\ 1 \in DOMAIN wire /\ Head(wire) = wire[1]
  BY TailOf, MotionType
<1>2. Shift(Queries, Queries')
  BY <1>1 DEF Shift, Queries
<1>3. ASSUME Head(wire).k # "line", NEW p \in QueryFirst'
      PROVE  p \in Nat \ {0} /\ p + 1 \in QueryFirst
  <2>1. p \in Queries' /\ \A q \in 1..p : wire'[q].k # "line"
    BY DEF QueryFirst
  <2>2. p \in DOMAIN wire' /\ p \in Nat \ {0} /\ p + 1 \in Queries
    BY <1>1, <1>2, <2>1 DEF Shift, Queries
  <2>3. ASSUME NEW q \in 1..(p + 1) PROVE wire[q].k # "line"
    <3>1. CASE q = 1
      BY <1>1, <1>3, <3>1
    <3>2. CASE q # 1
      <4>1. q - 1 \in 1..p /\ q - 1 \in DOMAIN wire' /\ (q - 1) + 1 = q
        BY <1>1, <2>2, <3>2
      <4> QED
        BY <1>1, <2>1, <4>1
    <3> QED
      BY <3>1, <3>2
  <2> QED
    BY <2>2, <2>3 DEF QueryFirst
<1>4. Head(wire).k = "?" => 1 \in Queries /\ 1 \in QueryFirst
  BY <1>1 DEF Queries, QueryFirst
<1> QED
  BY <1>2, <1>3, <1>4 DEF Shift

\* What a reply that is read leaves.
LEMMA ReadTakes ==
  ASSUME TypeOK, replies # <<>>, replies' = Tail(replies)
  PROVE  /\ Shift(Reports, Reports') /\ Shift(Idles, Idles')
         /\ Head(replies).k # "ok" => 1 \in Reports
         /\ Head(replies).k = "Idle" => 1 \in Idles
<1>1. /\ DOMAIN replies' = 1..(Len(replies) - 1) /\ Len(replies) \in Nat \ {0}
      /\ \A p \in DOMAIN replies' : p + 1 \in DOMAIN replies /\ replies'[p] = replies[p + 1]
      /\ 1 \in DOMAIN replies /\ Head(replies) = replies[1]
  BY TailOf, MotionType
<1> QED
  BY <1>1 DEF Shift, Reports, Idles

\* What a reply that is sent adds.
LEMMA ReplyAdds ==
  ASSUME TypeOK, NEW kind, NEW n, Emit(kind, n)
  PROVE  /\ kind = "ok" => Reports' = Reports
         /\ kind # "ok" => Reports' = Reports \cup {Len(replies) + 1}
         /\ kind # "Idle" => Idles' = Idles
         /\ kind = "Idle" => Idles' = Idles \cup {Len(replies) + 1}
<1>1. /\ DOMAIN replies = 1..Len(replies) /\ Len(replies) \in Nat
      /\ DOMAIN replies' = 1..(Len(replies) + 1)
      /\ \A p \in DOMAIN replies : replies'[p] = replies[p]
      /\ replies'[Len(replies) + 1].k = kind
  BY AppendOf, MotionType DEF Emit
<1> QED
  BY <1>1 DEF Reports, Idles

\* A queue that does not change holds what it held.
LEMMA QueuesStay ==
  /\ wire' = wire => Queries' = Queries /\ QueryFirst' = QueryFirst
  /\ replies' = replies => Reports' = Reports /\ Idles' = Idles
  BY DEF Queries, QueryFirst, Reports, Idles

-----------------------------------------------------------------------------
(* The steps of a job nothing goes wrong with.                             *)

\* A job the service has, on a controller and a link that work.
Healthy ==
  /\ TypeOK /\ StreamInv /\ WaitsAlone
  /\ faults = 0 /\ Attended /\ Unharmed
  /\ Sound /\ NothingLost /\ FewReports /\ FewIdles

\* What the account says of a window with, and without, lines in it.
LEMMA WindowFacts ==
  ASSUME Healthy
  PROVE  /\ AckPoint \in 0..N /\ AckPoint <= consumed /\ consumed <= received
         /\ received <= next_index
         /\ sent_commands # <<>> => /\ Head(sent_commands) = AckPoint + 1
                                    /\ AckPoint < next_index /\ bytes_in_flight > 0
         /\ sent_commands = <<>> => AckPoint = next_index /\ bytes_in_flight = 0
         /\ bytes_in_flight \in Nat /\ sent_commands \in Seq(Line)
<1>1. TypeOK /\ AccountExact /\ WireSorted /\ OksSorted
  BY DEF Healthy, StreamInv
<1>2. /\ next_index \in 0..N /\ sent_commands \in Seq(Line) /\ bytes_in_flight \in Nat
      /\ AckPoint \in Nat /\ AckPoint = next_index - Len(sent_commands)
  BY <1>1 DEF TypeOK, HostTypeOK, AccountExact, AckPoint
<1>3. consumed \in 0..N /\ received \in 0..N /\ N \in Nat \ {0}
  BY <1>1, MotionType
<1>4. /\ AckPoint \in 0..N /\ AckPoint <= consumed /\ consumed <= received
      /\ received <= next_index
  BY <1>1, <1>2, <1>3 DEF WireSorted, OksSorted
<1>5. ASSUME sent_commands # <<>>
      PROVE  /\ Head(sent_commands) = AckPoint + 1
             /\ AckPoint < next_index /\ bytes_in_flight > 0
  <2>1. Len(sent_commands) > 0 /\ 1 \in DOMAIN sent_commands
        /\ Head(sent_commands) = sent_commands[1]
    BY <1>2, <1>5
  <2>2. Head(sent_commands) = AckPoint + 1
    BY <1>1, <2>1 DEF AccountExact
  <2>3. bytes_in_flight # 0
    BY <1>1, <1>5, EmptyWindow
  <2> QED
    BY <1>2, <2>1, <2>2, <2>3
<1>6. ASSUME sent_commands = <<>> PROVE AckPoint = next_index /\ bytes_in_flight = 0
  <2>1. Len(sent_commands) = 0
    BY <1>6
  <2>2. AckPoint = next_index
    BY <1>2, <2>1
  <2>3. Offset[next_index] \in Nat
    BY <1>2, OffsetMonotone
  <2> QED
    BY <1>1, <2>2, <2>3 DEF AccountExact
<1> QED
  BY <1>2, <1>4, <1>5, <1>6

\* The steps that remain when no fault happens.
HostWorks ==
  \/ Start \/ TickBegin \/ PollOk \/ PollStatus \/ PollDone \/ SendLine \/ SendDone
  \/ QueryStatus \/ SpindleStop \/ TickEnd \/ Pause \/ Resume \/ Cancel
  \/ PollDue \/ DelayElapses
Carries ==
  \/ DeliverLine \/ DeliverQuery \/ DeliverFeedHold \/ DeliverCycleStart
  \/ DeliverSpindleStop
FirmwareWorks == Carries \/ Work \/ Report
HealthyStep == HostWorks \/ (FirmwareWorks /\ UNCHANGED hostVars) \/ UNCHANGED vars

\* The check finds no reason to fail the job: too few Idle reports are counted.
LEMMA CheckPasses ==
  ASSUME Healthy, IdleLimit >= 3
  PROVE  ~FailDesync
<1> SUFFICES ASSUME FailDesync PROVE FALSE
  OBVIOUS
<1>1. /\ pc = "check" /\ bytes_in_flight > 0 /\ ~InDelay /\ CountedReports >= IdleLimit
  BY DEF FailDesync, IdleUnacknowledged
<1>2. idle_reports \in Nat /\ new_report \in BOOLEAN /\ IdleLimit \in Nat
      /\ idle_timer \in {"none", "running", "elapsed"}
  BY WindowAssumption DEF Healthy, TypeOK, HostTypeOK, FlagsOK
<1>3. sent_commands # <<>>
  BY <1>1, WindowFacts
<1>4. CountedReports <= Counted
  BY <1>2 DEF CountedReports, Counted
<1>5. CASE consumed = AckPoint /\ pending_dwell
  <2>1. idle_reports = 0 /\ idle_timer # "elapsed"
    BY <1>3, <1>5 DEF Healthy, FewIdles
  <2> QED
    BY <1>1, <1>2, <2>1 DEF CountedReports
<1>6. CASE consumed = AckPoint /\ ~pending_dwell
  <2>1. Counted <= 2
    BY <1>3, <1>6 DEF Healthy, FewIdles, NotYet
  <2> QED
    BY <1>1, <1>2, <1>4, <2>1 DEF Counted, CountedReports
<1>7. CASE consumed # AckPoint
  <2>1. Counted <= 2
    BY <1>1, <1>3, <1>7 DEF Healthy, FewIdles
  <2> QED
    BY <1>1, <1>2, <1>4, <2>1 DEF Counted, CountedReports
<1> QED
  BY <1>5, <1>6, <1>7

\* Without a fault only these steps are taken.
LEMMA OnlyHealthySteps ==
  ASSUME Healthy, Homing = {}, IdleLimit >= 3, faults' = 0, [Next]_vars
  PROVE  HealthyStep
<1>0. /\ faults = 0 /\ alive /\ link /\ pc # "release" /\ status_wait # "expired"
      /\ replies \in Seq(Reply)
      /\ \A p \in DOMAIN replies : replies[p].k \in Reporting \cup {"ok"}
      /\ \A p \in DOMAIN wire : wire[p].k \notin {"ctrl-x", "m5"}
  BY MotionType DEF Healthy, Unharmed, Sound
<1>1. ~Fault("link") /\ ~Fault("spool") /\ ~ControllerFault
  BY <1>0 DEF ControllerFault, RejectLine, LoseOk, TripAlarm, PowerGlitch, GoSilent, Fault
<1>2. ~PollFailure
  <2> SUFFICES ASSUME PollFailure PROVE FALSE
    OBVIOUS
  <2>1. replies # <<>> /\ Head(replies).k \in {"error", "ALARM", "banner", "Alarm"}
    BY DEF PollFailure, TakeReply
  <2>2. 1 \in DOMAIN replies /\ Head(replies) = replies[1]
    BY <1>0, <2>1, TailOf
  <2> QED
    BY <1>0, <2>1, <2>2 DEF Reporting, StatusReports
<1>3. ~DeliverM5 /\ ~DeliverReset /\ ~DeliverToDead
  <2>1. wire # <<>> => 1 \in DOMAIN wire /\ Head(wire) = wire[1]
    BY TailOf, MotionType DEF Healthy
  <2> QED
    BY <1>0, <2>1 DEF DeliverM5, DeliverReset, DeliverToDead, Arrives
<1>4. ~TransportError /\ ~FailSilent /\ ~Release /\ ~StatusTimeout
  BY <1>0 DEF TransportError, FailSilent, Silent, Release, StatusTimeout
<1>5. ~SpoolFails /\ ~BreakLink
  BY <1>1 DEF SpoolFails, BreakLink
<1>6. Controller => FirmwareWorks /\ UNCHANGED hostVars
  BY <1>1, <1>3 DEF Controller, ControllerNext, Deliver, FirmwareWorks, Carries
<1> QED
  BY <1>2, <1>4, <1>5, <1>6, CheckPasses, Zenon
     DEF Next, Tick, Poll, Send, Finish, User, Clock, HostFault, Finished,
         HealthyStep, HostWorks

\* None of these steps does harm.
LEMMA HealthyUnharmed == Healthy /\ HealthyStep => Unharmed'
<1> SUFFICES ASSUME Healthy, HealthyStep PROVE Unharmed'
  OBVIOUS
<1> USE DEF Unharmed, Healthy, hostVars, engineVars, sessionVars, jobVars, ctlVars
<1>1. CASE Start
  BY <1>1, Zenon DEF Start
<1>2. CASE TickBegin
  BY <1>2, Zenon DEF TickBegin
<1>3. CASE PollOk
  BY <1>3, Zenon DEF PollOk, TakeReply
<1>4. CASE PollStatus
  BY <1>4, Zenon DEF PollStatus, TakeReply, ObserveStatus
<1>5. CASE PollDone
  BY <1>5, Zenon DEF PollDone
<1>6. CASE SendLine
  BY <1>6, Zenon DEF SendLine, UNCHANGEDController
<1>7. CASE SendDone
  BY <1>7, Zenon DEF SendDone
<1>8. CASE QueryStatus
  BY <1>8, Zenon DEF QueryStatus, Write, UNCHANGEDController
<1>9. CASE SpindleStop
  BY <1>9, Zenon DEF SpindleStop, Write, UNCHANGEDController
<1>10. CASE TickEnd
  BY <1>10, Zenon DEF TickEnd, Transition, LeaveFailed, Completes
<1>11. CASE Pause
  BY <1>11, Zenon DEF Pause, Press, Write, UNCHANGEDController, Transition
<1>12. CASE Resume
  BY <1>12, Zenon DEF Resume, Press, Write, UNCHANGEDController, Transition
<1>13. CASE Cancel
  BY <1>13, Zenon DEF Cancel, Press, Write, UNCHANGEDController
<1>14. CASE PollDue
  BY <1>14, Zenon DEF PollDue
<1>15. CASE DelayElapses
  BY <1>15, Zenon DEF DelayElapses
<1>16. CASE DeliverLine /\ UNCHANGED hostVars
  BY <1>16, Zenon DEF DeliverLine
<1>17. CASE DeliverQuery /\ UNCHANGED hostVars
  BY <1>17, Zenon DEF DeliverQuery
<1>18. CASE DeliverFeedHold /\ UNCHANGED hostVars
  BY <1>18, Zenon DEF DeliverFeedHold
<1>19. CASE DeliverCycleStart /\ UNCHANGED hostVars
  BY <1>19, Zenon DEF DeliverCycleStart
<1>20. CASE DeliverSpindleStop /\ UNCHANGED hostVars
  BY <1>20, Zenon DEF DeliverSpindleStop
<1>21. CASE ParseMotion /\ UNCHANGED hostVars
  BY <1>21, Zenon DEF ParseMotion
<1>22. CASE BeginWait /\ UNCHANGED hostVars
  BY <1>22, Zenon DEF BeginWait
<1>23. CASE EndWait /\ UNCHANGED hostVars
  BY <1>23, Zenon DEF EndWait
<1>24. CASE Execute /\ UNCHANGED hostVars
  BY <1>24, Zenon DEF Execute
<1>25. CASE Report /\ UNCHANGED hostVars
  BY <1>25, Zenon DEF Report
<1>26. CASE UNCHANGED vars
  BY <1>26, Zenon DEF vars
<1> QED
  BY <1>1, <1>2, <1>3, <1>4, <1>5, <1>6, <1>7, <1>8, <1>9, <1>10, <1>11,
     <1>12, <1>13, <1>14, <1>15, <1>16, <1>17, <1>18, <1>19, <1>20,
     <1>21, <1>22, <1>23, <1>24, <1>25, <1>26, Zenon
     DEF HealthyStep, HostWorks, FirmwareWorks, Carries, Work

\* What these steps do to the wire and to the replies.
HealthyPipes ==
  /\ \/ wire' = wire
     \/ \E w \in Written : /\ w.k \in {"line", "?", "!", "~", "spindle_stop"}
                           /\ wire' = Append(wire, w)
     \/ wire # <<>> /\ wire' = Tail(wire)
  /\ \/ replies' = replies
     \/ replies # <<>> /\ replies' = Tail(replies)
     \/ \E kind \in Reporting \cup {"ok"}, n \in 0..N : Emit(kind, n)

\* Nothing but lines, queries and the user's bytes is written, unless the job is
\* cancelled; nothing but acknowledgements and reports comes back.
LEMMA OnlyHealthyPipes ==
  ASSUME Healthy, HealthyStep, Attended'
  PROVE  HealthyPipes
<1>0. /\ \A k \in WireKinds : [k |-> k, n |-> next_index] \in Written
      /\ link /\ mode # "Alarm" /\ N \in Nat
      /\ consumed \in 0..N /\ received \in 0..N
      /\ mode \in {"Normal", "Hold", "Alarm"}
  BY MotionType, ConstantType
     DEF Healthy, TypeOK, HostTypeOK, ControllerTypeOK, ControllerDataOK, Written, Unharmed, Sound
<1> USE DEF HealthyPipes, ctlVars, WireKinds
<1>1. CASE Start
  BY <1>1 DEF Start
<1>2. CASE TickBegin
  BY <1>2 DEF TickBegin
<1>3. CASE PollOk
  BY <1>3 DEF PollOk, TakeReply
<1>4. CASE PollStatus
  BY <1>4 DEF PollStatus, TakeReply, ObserveStatus
<1>5. CASE PollDone
  BY <1>5 DEF PollDone
<1>6. CASE SendLine
  <2>1. [k |-> "line", n |-> next_index + 1] \in Written
    BY <1>6, ConstantType
       DEF SendLine, Blocked, all_sent, Written, Healthy, TypeOK, HostTypeOK
  <2> QED
    BY <2>1, <1>6 DEF SendLine, UNCHANGEDController
<1>7. CASE SendDone
  BY <1>7 DEF SendDone
<1>8. CASE QueryStatus
  BY <1>8, <1>0 DEF QueryStatus, Write, UNCHANGEDController
<1>9. CASE SpindleStop
  BY <1>9, <1>0 DEF SpindleStop, Write, UNCHANGEDController
<1>10. CASE TickEnd
  BY <1>10 DEF TickEnd, Transition, LeaveFailed, Completes
<1>11. CASE Pause
  BY <1>11, <1>0 DEF Pause, Write, UNCHANGEDController
<1>12. CASE Resume
  BY <1>12, <1>0 DEF Resume, Write, UNCHANGEDController
<1>13. CASE Cancel
  <2>1. progress # "Preparing" /\ pc = "idle"
    BY <1>13 DEF Cancel, Press, Healthy, StreamInv
  <2> QED
    BY <1>13, <1>0, <2>1 DEF Cancel, Attended
<1>14. CASE PollDue
  BY <1>14 DEF PollDue
<1>15. CASE DelayElapses
  BY <1>15 DEF DelayElapses
<1>16. CASE DeliverLine /\ UNCHANGED hostVars
  BY <1>16 DEF DeliverLine, Arrives
<1>17. CASE DeliverQuery /\ UNCHANGED hostVars
  BY <1>17 DEF DeliverQuery, Arrives
<1>18. CASE DeliverFeedHold /\ UNCHANGED hostVars
  BY <1>18 DEF DeliverFeedHold, Arrives
<1>19. CASE DeliverCycleStart /\ UNCHANGED hostVars
  BY <1>19 DEF DeliverCycleStart, Arrives
<1>20. CASE DeliverSpindleStop /\ UNCHANGED hostVars
  BY <1>20 DEF DeliverSpindleStop, Arrives
<1>21. CASE ParseMotion /\ UNCHANGED hostVars
  <2>1. /\ wire' = wire /\ consumed + 1 \in 0..N
        /\ Emit("ok", consumed + 1)
    BY <1>21, <1>0 DEF ParseMotion, CanParse
  <2> QED
    BY <2>1
<1>22. CASE BeginWait /\ UNCHANGED hostVars
  BY <1>22 DEF BeginWait
<1>23. CASE EndWait /\ UNCHANGED hostVars
  <2>1. /\ wire' = wire /\ consumed + 1 \in 0..N
        /\ Emit("ok", consumed + 1)
    BY <1>23, <1>0 DEF EndWait, CanParse
  <2> QED
    BY <2>1
<1>24. CASE Execute /\ UNCHANGED hostVars
  BY <1>24 DEF Execute
<1>25. CASE Report /\ UNCHANGED hostVars
  BY <1>25, <1>0 DEF Report, RunState, Reporting, StatusReports
<1>26. CASE UNCHANGED vars
  BY <1>26 DEF vars
<1> QED
  BY <1>1, <1>2, <1>3, <1>4, <1>5, <1>6, <1>7, <1>8, <1>9, <1>10, <1>11,
     <1>12, <1>13, <1>14, <1>15, <1>16, <1>17, <1>18, <1>19, <1>20,
     <1>21, <1>22, <1>23, <1>24, <1>25, <1>26, Zenon
     DEF HealthyStep, HostWorks, FirmwareWorks, Carries, Work

\* The controller and the session stay fit for the job.
LEMMA SoundStep ==
  ASSUME Healthy, HealthyStep, Attended'
  PROVE  Sound'
<1>0. /\ Sound /\ link /\ ~failed /\ progress # "Failed" /\ pc \notin {"release"}
      /\ held \/ pc # "idle" => progress # "Preparing"
      /\ mode \in {"Normal", "Hold"}
      /\ wire \in Seq(Written) /\ replies \in Seq(Reply)
      /\ sent_commands \in Seq(Line)
      /\ sent_commands = <<>> => ~(consumed < received)
  BY MotionType, WindowFacts
     DEF Healthy, Sound, Unharmed, StreamInv, TypeOK, ControllerTypeOK, ControllerDataOK, HostTypeOK
<1> DEFINE SessionFits ==
      /\ pc' # "release"
      /\ pc' = "poll" => call' = "tick"
      /\ mode' # "Alarm"
      /\ progress' # "Preparing" => session_state' \in {"Running", "Paused"}
      /\ progress' = "Preparing" =>
           /\ progress = "Preparing" /\ UNCHANGED <<wire, sent_commands>>
           /\ asked' = FALSE /\ replies' = <<>>
<1>a. SessionFits
  <2> USE DEF Sound, ctlVars, hostVars, engineVars, sessionVars, jobVars
  <2>1. CASE Start
    BY <2>1, <1>0 DEF Start, CanTransition
  <2>2. CASE TickBegin
    BY <2>2, <1>0 DEF TickBegin
  <2>3. CASE PollOk
    BY <2>3, <1>0 DEF PollOk, TakeReply
  <2>4. CASE PollStatus
    BY <2>4, <1>0 DEF PollStatus, TakeReply, ObserveStatus
  <2>5. CASE PollDone
    BY <2>5, <1>0 DEF PollDone
  <2>6. CASE SendLine
    BY <2>6, <1>0 DEF SendLine, UNCHANGEDController
  <2>7. CASE SendDone
    BY <2>7, <1>0 DEF SendDone
  <2>8. CASE QueryStatus
    BY <2>8, <1>0 DEF QueryStatus, Write, UNCHANGEDController
  <2>9. CASE SpindleStop
    BY <2>9, <1>0 DEF SpindleStop, Write, UNCHANGEDController
  <2>10. CASE TickEnd
    <3>1. progress # "Preparing" /\ session_state \in {"Running", "Paused"}
      BY <2>10, <1>0 DEF TickEnd
    <3>2. CanTransition("Ready")
      BY <3>1 DEF CanTransition
    <3>3. ~Completes
      BY <2>10, <3>2 DEF TickEnd, Attended
    <3> QED
      BY <2>10, <1>0, <3>1, <3>3 DEF TickEnd
  <2>11. CASE Pause
    BY <2>11, <1>0 DEF Pause, Press, Write, UNCHANGEDController, Transition
  <2>12. CASE Resume
    BY <2>12, <1>0 DEF Resume, Press, Write, UNCHANGEDController, Transition
  <2>13. CASE Cancel
    BY <2>13, <1>0 DEF Cancel, Press, Attended
  <2>14. CASE PollDue
    BY <2>14, <1>0 DEF PollDue
  <2>15. CASE DelayElapses
    BY <2>15, <1>0 DEF DelayElapses
  <2>16. CASE DeliverLine /\ UNCHANGED hostVars
    BY <2>16, <1>0 DEF DeliverLine, Arrives
  <2>17. CASE DeliverQuery /\ UNCHANGED hostVars
    BY <2>17, <1>0 DEF DeliverQuery, Arrives
  <2>18. CASE DeliverFeedHold /\ UNCHANGED hostVars
    BY <2>18, <1>0 DEF DeliverFeedHold, Arrives
  <2>19. CASE DeliverCycleStart /\ UNCHANGED hostVars
    BY <2>19, <1>0 DEF DeliverCycleStart, Arrives
  <2>20. CASE DeliverSpindleStop /\ UNCHANGED hostVars
    BY <2>20, <1>0 DEF DeliverSpindleStop, Arrives
  <2>21. CASE ParseMotion /\ UNCHANGED hostVars
    BY <2>21, <1>0 DEF ParseMotion, CanParse
  <2>22. CASE BeginWait /\ UNCHANGED hostVars
    BY <2>22, <1>0 DEF BeginWait, CanParse
  <2>23. CASE EndWait /\ UNCHANGED hostVars
    BY <2>23, <1>0 DEF EndWait, CanParse
  <2>24. CASE Execute /\ UNCHANGED hostVars
    BY <2>24, <1>0 DEF Execute
  <2>25. CASE Report /\ UNCHANGED hostVars
    BY <2>25, <1>0 DEF Report
  <2>26. CASE UNCHANGED vars
    BY <2>26, <1>0 DEF vars
  <2> QED
    BY <2>1, <2>2, <2>3, <2>4, <2>5, <2>6, <2>7, <2>8, <2>9, <2>10, <2>11,
       <2>12, <2>13, <2>14, <2>15, <2>16, <2>17, <2>18, <2>19, <2>20,
       <2>21, <2>22, <2>23, <2>24, <2>25, <2>26, Zenon
       DEF HealthyStep, HostWorks, FirmwareWorks, Carries, Work
<1>1. HealthyPipes
  BY OnlyHealthyPipes
<1>2. \A p \in DOMAIN wire' : wire'[p].k \notin {"ctrl-x", "m5"}
  <2>1. CASE wire' = wire
    BY <1>0, <2>1 DEF Sound
  <2>2. ASSUME NEW w \in Written, w.k \in {"line", "?", "!", "~", "spindle_stop"},
               wire' = Append(wire, w)
        PROVE  \A p \in DOMAIN wire' : wire'[p].k \notin {"ctrl-x", "m5"}
    BY <1>0, <2>2, AppendOf DEF Sound
  <2>3. CASE wire # <<>> /\ wire' = Tail(wire)
    BY <1>0, <2>3, TailOf DEF Sound
  <2> QED
    BY <1>1, <2>1, <2>2, <2>3 DEF HealthyPipes
<1>3. \A p \in DOMAIN replies' : replies'[p].k \in Reporting \cup {"ok"}
  <2>1. CASE replies' = replies
    BY <1>0, <2>1 DEF Sound
  <2>2. ASSUME NEW kind \in Reporting \cup {"ok"}, NEW n \in 0..N, Emit(kind, n)
        PROVE  \A p \in DOMAIN replies' : replies'[p].k \in Reporting \cup {"ok"}
    BY <1>0, <2>2, AppendOf DEF Sound, Emit
  <2>3. CASE replies # <<>> /\ replies' = Tail(replies)
    BY <1>0, <2>3, TailOf DEF Sound
  <2> QED
    BY <1>1, <2>1, <2>2, <2>3 DEF HealthyPipes
<1> QED
  BY <1>0, <1>a, <1>2, <1>3 DEF Sound

\* A step that moves no line and no acknowledgement.
MovesNoLine ==
  /\ UNCHANGED <<next_index, sent_commands, received, consumed, busy>>
  /\ \/ replies' = replies
     \/ replies # <<>> /\ Head(replies).k # "ok" /\ replies' = Tail(replies)
     \/ \E kind \in Reporting : Emit(kind, consumed)
  /\ \/ wire' = wire
     \/ \E k \in WireKinds \ {"line"} : Write(k)
     \/ wire # <<>> /\ Head(wire).k # "line" /\ wire' = Tail(wire)

\* Lines are moved by six of the steps only.
LEMMA LinesAreMovedBy ==
  ASSUME Healthy, HealthyStep, Attended'
  PROVE  \/ MovesNoLine
         \/ PollOk \/ SendLine
         \/ (DeliverLine \/ ParseMotion \/ BeginWait \/ EndWait) /\ UNCHANGED hostVars
<1>0. link /\ mode # "Alarm" /\ mode \in {"Normal", "Hold", "Alarm"}
      /\ progress \in JobStates /\ (held => progress # "Preparing")
  BY
     DEF Healthy, TypeOK, HostTypeOK, ControllerTypeOK, ControllerDataOK, Unharmed,
         Sound, StreamInv
<1> USE DEF MovesNoLine, ctlVars, hostVars, engineVars, WireKinds
<1>1. CASE Start
  BY <1>1, <1>0 DEF Start
<1>2. CASE TickBegin
  BY <1>2, <1>0 DEF TickBegin
<1>3. CASE PollOk
  BY <1>3
<1>4. CASE PollStatus
  BY <1>4, <1>0 DEF PollStatus, TakeReply, ObserveStatus, StatusReports
<1>5. CASE PollDone
  BY <1>5, <1>0 DEF PollDone
<1>6. CASE SendLine
  BY <1>6
<1>7. CASE SendDone
  BY <1>7, <1>0 DEF SendDone
<1>8. CASE QueryStatus
  BY <1>8, <1>0 DEF QueryStatus, UNCHANGEDController
<1>9. CASE SpindleStop
  BY <1>9, <1>0 DEF SpindleStop, UNCHANGEDController
<1>10. CASE TickEnd
  BY <1>10, <1>0 DEF TickEnd, Transition, LeaveFailed, Completes
<1>11. CASE Pause
  BY <1>11, <1>0 DEF Pause, Press, UNCHANGEDController, Transition
<1>12. CASE Resume
  BY <1>12, <1>0 DEF Resume, Press, UNCHANGEDController, Transition
<1>13. CASE Cancel
  BY <1>13, <1>0 DEF Cancel, Press, UNCHANGEDController, Attended
<1>14. CASE PollDue
  BY <1>14, <1>0 DEF PollDue
<1>15. CASE DelayElapses
  BY <1>15, <1>0 DEF DelayElapses
<1>16. CASE DeliverLine /\ UNCHANGED hostVars
  BY <1>16
<1>17. CASE DeliverQuery /\ UNCHANGED hostVars
  BY <1>17, <1>0 DEF DeliverQuery, Arrives
<1>18. CASE DeliverFeedHold /\ UNCHANGED hostVars
  BY <1>18, <1>0 DEF DeliverFeedHold, Arrives
<1>19. CASE DeliverCycleStart /\ UNCHANGED hostVars
  BY <1>19, <1>0 DEF DeliverCycleStart, Arrives
<1>20. CASE DeliverSpindleStop /\ UNCHANGED hostVars
  BY <1>20, <1>0 DEF DeliverSpindleStop, Arrives
<1>21. CASE ParseMotion /\ UNCHANGED hostVars
  BY <1>21
<1>22. CASE BeginWait /\ UNCHANGED hostVars
  BY <1>22
<1>23. CASE EndWait /\ UNCHANGED hostVars
  BY <1>23
<1>24. CASE Execute /\ UNCHANGED hostVars
  BY <1>24, <1>0 DEF Execute
<1>25. CASE Report /\ UNCHANGED hostVars
  BY <1>25, <1>0 DEF Report, RunState, Reporting, StatusReports
<1>26. CASE UNCHANGED vars
  BY <1>26, <1>0 DEF vars
<1> QED
  BY <1>1, <1>2, <1>3, <1>4, <1>5, <1>6, <1>7, <1>8, <1>9, <1>10, <1>11,
     <1>12, <1>13, <1>14, <1>15, <1>16, <1>17, <1>18, <1>19, <1>20,
     <1>21, <1>22, <1>23, <1>24, <1>25, <1>26, Zenon
     DEF HealthyStep, HostWorks, FirmwareWorks, Carries, Work

\* Lines, and acknowledgements, keep arriving in full.
LEMMA LostStep ==
  ASSUME Healthy, HealthyStep, Attended'
  PROVE  NothingLost'
<1>0. /\ TypeOK /\ NothingLost /\ StreamInv /\ Attended
      /\ wire \in Seq(Written) /\ replies \in Seq(Reply) /\ sent_commands \in Seq(Line)
      /\ next_index \in 0..N /\ received \in 0..N /\ consumed \in 0..N /\ N \in Nat
      /\ AckPoint \in 0..N /\ AckPoint <= consumed
      /\ consumed <= received /\ received <= next_index
      /\ \A p \in DOMAIN wire : wire[p].n \in Nat /\ wire[p].n <= next_index
      /\ \A p \in DOMAIN replies : replies[p].n \in Nat
      /\ DOMAIN wire = 1..Len(wire) /\ Len(wire) \in Nat
      /\ DOMAIN replies = 1..Len(replies) /\ Len(replies) \in Nat
  <2>1. TypeOK /\ NothingLost /\ StreamInv /\ WireSorted /\ Attended
    BY DEF Healthy, StreamInv
  <2>2. /\ wire \in Seq(Written) /\ replies \in Seq(Reply)
        /\ \A w \in Written : w.n \in Nat
        /\ \A r \in Reply : r.n \in Nat
    BY <2>1, MotionType, ConstantType DEF Written, Reply
  <2> QED
    BY <2>1, <2>2, WindowFacts, MotionType DEF WireSorted
<1>1. CASE MovesNoLine
  <2>1. AckPoint' = AckPoint
    BY <1>1 DEF MovesNoLine, AckPoint
  <2>2. ASSUME NEW m \in Line, AckPoint' < m, m <= consumed'
        PROVE  \E p \in DOMAIN replies' : replies'[p].k = "ok" /\ replies'[p].n = m
    <3>1. PICK p \in DOMAIN replies : replies[p].k = "ok" /\ replies[p].n = m
      BY <1>0, <1>1, <2>1, <2>2 DEF NothingLost, MovesNoLine
    <3>2. CASE replies # <<>> /\ Head(replies).k # "ok" /\ replies' = Tail(replies)
      <4>1. Head(replies) = replies[1] /\ DOMAIN replies' = 1..(Len(replies) - 1)
            /\ \A q \in DOMAIN replies' : replies'[q] = replies[q + 1]
        BY <1>0, <3>2, TailOf
      <4>2. p # 1 /\ p - 1 \in DOMAIN replies' /\ (p - 1) + 1 = p
        BY <1>0, <3>1, <3>2, <4>1
      <4> QED
        BY <3>1, <4>1, <4>2
    <3>3. ASSUME NEW kind \in Reporting, Emit(kind, consumed)
          PROVE  p \in DOMAIN replies' /\ replies'[p] = replies[p]
      BY <1>0, <3>3, AppendOf DEF Emit
    <3> QED
      BY <1>1, <3>1, <3>2, <3>3 DEF MovesNoLine
  <2>3. \A m \in Line : received' < m /\ m <= next_index'
          => \E p \in DOMAIN wire' : wire'[p].k = "line" /\ wire'[p].n = m
    <3> SUFFICES ASSUME NEW m \in Line, received' < m, m <= next_index'
                 PROVE  \E p \in DOMAIN wire' : wire'[p].k = "line" /\ wire'[p].n = m
      OBVIOUS
    <3>1. PICK p \in DOMAIN wire : wire[p].k = "line" /\ wire[p].n = m
      BY <1>0, <1>1 DEF NothingLost, MovesNoLine
    <3>2. CASE wire # <<>> /\ Head(wire).k # "line" /\ wire' = Tail(wire)
      <4>1. Head(wire) = wire[1] /\ DOMAIN wire' = 1..(Len(wire) - 1)
            /\ \A q \in DOMAIN wire' : wire'[q] = wire[q + 1]
        BY <1>0, <3>2, TailOf
      <4>2. p # 1 /\ p - 1 \in DOMAIN wire' /\ (p - 1) + 1 = p
        BY <1>0, <3>1, <3>2, <4>1
      <4> QED
        BY <3>1, <4>1, <4>2
    <3>3. ASSUME NEW k \in WireKinds \ {"line"}, Write(k)
          PROVE  p \in DOMAIN wire' /\ wire'[p] = wire[p]
      BY <1>0, <3>3, AppendOf DEF Write
    <3> QED
      BY <1>1, <3>1, <3>2, <3>3 DEF MovesNoLine
  <2>4. \A p \in DOMAIN wire' : wire'[p].k = "line" =>
          received' < wire'[p].n /\ \A q \in DOMAIN wire' : q < p => wire'[q].n < wire'[p].n
    <3>1. CASE wire # <<>> /\ wire' = Tail(wire)
      <4>1. \A p \in DOMAIN wire' : p \in Nat /\ p + 1 \in DOMAIN wire /\ wire'[p] = wire[p + 1]
        BY <1>0, <3>1, TailOf
      <4> SUFFICES ASSUME NEW p \in DOMAIN wire', wire'[p].k = "line"
                   PROVE  received < wire'[p].n
                          /\ \A q \in DOMAIN wire' : q < p => wire'[q].n < wire'[p].n
        BY <1>1 DEF MovesNoLine
      <4>2. p + 1 \in DOMAIN wire /\ wire[p + 1].k = "line" /\ wire'[p] = wire[p + 1]
        BY <4>1
      <4>3. \A q \in DOMAIN wire : q < p + 1 => wire[q].n < wire[p + 1].n
        BY <1>0, <4>2 DEF NothingLost
      <4>4. \A q \in DOMAIN wire' : q < p => wire'[q].n < wire'[p].n
        <5> SUFFICES ASSUME NEW q \in DOMAIN wire', q < p PROVE wire'[q].n < wire'[p].n
          OBVIOUS
        <5>1. q + 1 \in DOMAIN wire /\ q + 1 < p + 1 /\ wire'[q] = wire[q + 1]
          BY <4>1
        <5> QED
          BY <4>2, <4>3, <5>1
      <4> QED
        BY <1>0, <4>2, <4>4 DEF NothingLost
    <3>2. ASSUME NEW k \in WireKinds \ {"line"}, Write(k)
          PROVE  \A p \in DOMAIN wire' : wire'[p].k = "line" =>
                   received' < wire'[p].n /\ \A q \in DOMAIN wire' : q < p => wire'[q].n < wire'[p].n
      <4>1. /\ \A p \in DOMAIN wire' : p \in DOMAIN wire \/ p = Len(wire) + 1
            /\ \A p \in DOMAIN wire : wire'[p] = wire[p]
            /\ wire'[Len(wire) + 1].k # "line"
        BY <1>0, <3>2, AppendOf DEF Write
      <4>2. ASSUME NEW p \in DOMAIN wire', wire'[p].k = "line", NEW q \in DOMAIN wire', q < p
            PROVE  p \in DOMAIN wire /\ q \in DOMAIN wire
        BY <1>0, <4>1, <4>2
      <4>3. \A p \in DOMAIN wire' : wire'[p].k = "line" => p \in DOMAIN wire
        BY <4>1
      <4> QED
        BY <1>0, <1>1, <4>1, <4>2, <4>3 DEF NothingLost, MovesNoLine
    <3> QED
      BY <1>0, <1>1, <3>1, <3>2 DEF NothingLost, MovesNoLine
  <2>5. busy' # 0 => busy' \in Waits
    BY <1>0, <1>1 DEF NothingLost, MovesNoLine
  <2> QED
    BY <2>2, <2>3, <2>4, <2>5 DEF NothingLost
<1>2. CASE PollOk
  <2>1. /\ pc = "poll" /\ replies # <<>> /\ Head(replies).k = "ok" /\ replies' = Tail(replies)
        /\ UNCHANGED <<wire, received, consumed, busy, next_index>>
    BY <1>2 DEF PollOk, TakeReply
  <2>2. /\ Head(replies) = replies[1] /\ DOMAIN replies' = 1..(Len(replies) - 1)
        /\ 1 \in DOMAIN replies
        /\ \A q \in DOMAIN replies' : replies'[q] = replies[q + 1]
    BY <1>0, <2>1, TailOf
  <2>3. OksSorted
    BY <1>0 DEF StreamInv
  <2>4. sent_commands # <<>>
    <3>1. AckPoint < replies[1].n /\ replies[1].n <= consumed
      BY <2>1, <2>2, <2>3 DEF OksSorted
    <3> QED
      BY <1>0, <2>2, <3>1, WindowFacts
  <2>5. AckPoint' = AckPoint + 1
    <3>1. sent_commands' = Tail(sent_commands)
      BY <1>2, <2>4 DEF PollOk, Healthy, Unharmed
    <3>2. Len(sent_commands') = Len(sent_commands) - 1 /\ Len(sent_commands) \in Nat
      BY <1>0, <2>4, <3>1, TailOf
    <3> QED
      BY <1>0, <2>1, <3>2 DEF AckPoint
  <2>6. ASSUME NEW m \in Line, AckPoint' < m, m <= consumed'
        PROVE  \E p \in DOMAIN replies' : replies'[p].k = "ok" /\ replies'[p].n = m
    <3>0. AckPoint + 1 \in Line /\ m \in Nat /\ AckPoint + 1 < m /\ m <= consumed
          /\ AckPoint < AckPoint + 1 /\ AckPoint + 1 <= consumed
      BY <1>0, <2>1, <2>5, <2>6 DEF Line
    <3>1. PICK p \in DOMAIN replies : replies[p].k = "ok" /\ replies[p].n = m
      BY <1>0, <3>0 DEF NothingLost
    <3>2. PICK r \in DOMAIN replies : replies[r].k = "ok" /\ replies[r].n = AckPoint + 1
      BY <1>0, <3>0 DEF NothingLost
    <3>3. p # 1
      <4> SUFFICES ASSUME p = 1 PROVE FALSE
        OBVIOUS
      <4>1. r # 1 /\ 1 < r
        BY <1>0, <3>0, <3>1, <3>2
      <4>2. replies[1].n < replies[r].n
        BY <2>1, <2>2, <2>3, <3>2, <4>1 DEF OksSorted
      <4> QED
        BY <1>0, <3>0, <3>1, <3>2, <4>2
    <3>4. p - 1 \in DOMAIN replies' /\ (p - 1) + 1 = p
      BY <1>0, <2>2, <3>3
    <3> QED
      BY <2>2, <3>1, <3>4
  <2> QED
    BY <1>0, <2>1, <2>6 DEF NothingLost
<1>3. CASE SendLine
  <2> DEFINE w == [k |-> "line", n |-> next_index + 1]
  <2>1. /\ wire' = Append(wire, w) /\ next_index' = next_index + 1
        /\ sent_commands' = Append(sent_commands, next_index + 1)
        /\ UNCHANGED <<replies, received, consumed, busy>>
    BY <1>3 DEF SendLine, UNCHANGEDController
  <2>2. AckPoint' = AckPoint
    <3>1. Len(sent_commands') = Len(sent_commands) + 1 /\ Len(sent_commands) \in Nat
      BY <1>0, <2>1
    <3> QED
      BY <1>0, <2>1, <3>1 DEF AckPoint
  <2>3. /\ DOMAIN wire' = 1..(Len(wire) + 1)
        /\ \A p \in DOMAIN wire : wire'[p] = wire[p]
        /\ wire'[Len(wire) + 1].k = "line" /\ wire'[Len(wire) + 1].n = next_index + 1
    BY <1>0, <2>1, AppendOf
  <2>4. \A m \in Line : received' < m /\ m <= next_index'
          => \E p \in DOMAIN wire' : wire'[p].k = "line" /\ wire'[p].n = m
    <3> SUFFICES ASSUME NEW m \in Line, received' < m, m <= next_index'
                 PROVE  \E p \in DOMAIN wire' : wire'[p].k = "line" /\ wire'[p].n = m
      OBVIOUS
    <3>1. CASE m = next_index + 1
      BY <1>0, <2>3, <3>1
    <3>2. CASE m <= next_index
      <4>1. PICK p \in DOMAIN wire : wire[p].k = "line" /\ wire[p].n = m
        BY <1>0, <2>1, <3>2 DEF NothingLost
      <4> QED
        BY <1>0, <2>3, <4>1
    <3> QED
      BY <1>0, <2>1, <3>1, <3>2 DEF Line
  <2>5. \A p \in DOMAIN wire' : wire'[p].k = "line" =>
          received' < wire'[p].n /\ \A q \in DOMAIN wire' : q < p => wire'[q].n < wire'[p].n
    <3>1. \A p \in DOMAIN wire' : p \in DOMAIN wire \/ p = Len(wire) + 1
      BY <1>0, <2>3
    <3> QED
      BY <1>0, <2>1, <2>3, <3>1 DEF NothingLost
  <2> QED
    BY <1>0, <2>1, <2>2, <2>4, <2>5 DEF NothingLost
<1>4. CASE DeliverLine /\ UNCHANGED hostVars
  <2>1. /\ wire # <<>> /\ Head(wire).k = "line" /\ wire' = Tail(wire)
        /\ received' = Head(wire).n
        /\ UNCHANGED <<replies, consumed, busy, next_index, sent_commands>>
    BY <1>4 DEF DeliverLine, Arrives, hostVars, engineVars
  <2>2. /\ Head(wire) = wire[1] /\ DOMAIN wire' = 1..(Len(wire) - 1) /\ 1 \in DOMAIN wire
        /\ \A q \in DOMAIN wire' : q \in Nat \ {0} /\ q + 1 \in DOMAIN wire /\ wire'[q] = wire[q + 1]
    BY <1>0, <2>1, TailOf
  <2>3. AckPoint' = AckPoint
    BY <2>1 DEF AckPoint
  <2>4. received < received' /\ received' \in Nat
    BY <1>0, <2>1, <2>2 DEF NothingLost
  <2>5. \A m \in Line : received' < m /\ m <= next_index'
          => \E p \in DOMAIN wire' : wire'[p].k = "line" /\ wire'[p].n = m
    <3> SUFFICES ASSUME NEW m \in Line, received' < m, m <= next_index'
                 PROVE  \E p \in DOMAIN wire' : wire'[p].k = "line" /\ wire'[p].n = m
      OBVIOUS
    <3>1. PICK p \in DOMAIN wire : wire[p].k = "line" /\ wire[p].n = m
      BY <1>0, <2>1, <2>4 DEF NothingLost, Line
    <3>2. p # 1
      BY <1>0, <2>1, <2>2, <3>1 DEF Line
    <3>3. p - 1 \in DOMAIN wire' /\ (p - 1) + 1 = p
      BY <1>0, <2>2, <3>2
    <3> QED
      BY <2>2, <3>1, <3>3
  <2>6. \A p \in DOMAIN wire' : wire'[p].k = "line" =>
          received' < wire'[p].n /\ \A q \in DOMAIN wire' : q < p => wire'[q].n < wire'[p].n
    BY <1>0, <2>1, <2>2 DEF NothingLost
  <2> QED
    BY <1>0, <2>1, <2>3, <2>5, <2>6 DEF NothingLost
<1>5. CASE (ParseMotion \/ EndWait) /\ UNCHANGED hostVars
  <2>1. /\ consumed' = consumed + 1 /\ Emit("ok", consumed + 1)
        /\ UNCHANGED <<wire, received, next_index, sent_commands>> /\ busy' \in {0, busy}
    BY <1>5 DEF ParseMotion, EndWait, hostVars, engineVars
  <2>2. AckPoint' = AckPoint
    BY <2>1 DEF AckPoint
  <2>3. /\ DOMAIN replies' = 1..(Len(replies) + 1)
        /\ \A p \in DOMAIN replies : replies'[p] = replies[p]
        /\ replies'[Len(replies) + 1].k = "ok" /\ replies'[Len(replies) + 1].n = consumed + 1
    BY <1>0, <2>1, AppendOf DEF Emit
  <2>4. ASSUME NEW m \in Line, AckPoint' < m, m <= consumed'
        PROVE  \E p \in DOMAIN replies' : replies'[p].k = "ok" /\ replies'[p].n = m
    <3>1. CASE m = consumed + 1
      BY <1>0, <2>3, <3>1
    <3>2. CASE m <= consumed
      <4>1. PICK p \in DOMAIN replies : replies[p].k = "ok" /\ replies[p].n = m
        BY <1>0, <2>2, <2>4, <3>2 DEF NothingLost
      <4> QED
        BY <1>0, <2>3, <4>1
    <3> QED
      BY <1>0, <2>1, <2>4, <3>1, <3>2 DEF Line
  <2> QED
    BY <1>0, <2>1, <2>2, <2>4 DEF NothingLost
<1>6. CASE BeginWait /\ UNCHANGED hostVars
  <2>1. UNCHANGED <<wire, replies, received, consumed, next_index, sent_commands>>
        /\ busy' \in Waits
    BY <1>6 DEF BeginWait, hostVars, engineVars
  <2> QED
    BY <1>0, <2>1 DEF NothingLost, AckPoint
<1> QED
  BY <1>1, <1>2, <1>3, <1>4, <1>5, <1>6, LinesAreMovedBy

-----------------------------------------------------------------------------
(* How many reports are on their way.                                      *)

\* Two reports at most stay on their way or asked for.
LEMMA ReportsStep ==
  ASSUME Healthy, HealthyStep, Attended'
  PROVE  FewReports'
<1>0. /\ TypeOK /\ FewReports /\ link /\ new_report \in BOOLEAN /\ asked \in BOOLEAN
      /\ mode # "Alarm" /\ (pc = "poll" => call = "tick")
      /\ progress = "Preparing" => wire = <<>> /\ replies = <<>> /\ ~asked
      /\ held => progress # "Preparing"
      /\ \A k \in WireKinds : [k |-> k, n |-> next_index] \in Written
  BY DEF Healthy, Unharmed, Sound, TypeOK, FlagsOK, ControllerTypeOK, ControllerFlagsOK,
         HostTypeOK, StreamInv, Written
<1>a. /\ wire = <<>> => Queries = {}
      /\ replies = <<>> => Reports = {}
  BY DEF Queries, Reports
<1>b. \A p, q : OneOf({}, p, {}) /\ OneOf({p}, FALSE, {}) /\ AtMostOne({}) /\ AtMostOne({p})
                /\ AtMostTwo({p, q}) /\ AtMostTwo({})
  BY DEF OneOf, AtMostOne, AtMostTwo
<1>1. CASE Start
  <2>1. Queries' = Queries /\ Reports' = Reports /\ asked' = asked
    BY <1>1, QueuesStay DEF Start, ctlVars
  <2> QED
    BY <2>1, <1>0, <1>a, <1>b, <1>1 DEF Start, FewReports, jobVars, desyncVars, hostVars
<1>2. CASE TickBegin
  <2>1. Queries' = Queries /\ Reports' = Reports /\ asked' = asked
    BY <1>2, QueuesStay DEF TickBegin, ctlVars
  <2> QED
    BY <2>1, <1>0, <1>a, <1>b, <1>2 DEF TickBegin, FewReports, jobVars, desyncVars, hostVars
<1>3. CASE PollOk
  <2>1. Shift(Reports, Reports') /\ Queries' = Queries /\ asked' = asked
    BY <1>3, <1>0, ReadTakes, QueuesStay DEF PollOk, TakeReply
  <2>2. UNCHANGED <<pc, call, poll_due>> /\ (new_report' => new_report)
    BY <1>3, Zenon DEF PollOk, ForgetDesync, desyncVars, jobVars
  <2>3. /\ Reports = {} => Reports' = {}
        /\ AtMostOne(Reports) => AtMostOne(Reports')
        /\ AtMostTwo(Reports) => AtMostTwo(Reports')
    BY <2>1, ShiftKeeps
  <2> QED
    BY <1>0, <2>1, <2>2, <2>3 DEF FewReports, OneOf
<1>4. CASE PollStatus
  <2>1. /\ Shift(Reports, Reports') /\ Queries' = Queries /\ asked' = asked
        /\ 1 \in Reports
    BY <1>4, <1>0, ReadTakes, QueuesStay DEF PollStatus, TakeReply, StatusReports
  <2>2. UNCHANGED <<pc, call, poll_due>> /\ pc = "poll"
    BY <1>4 DEF PollStatus, TakeReply
  <2>3. AtMostOne(Reports') /\ AtMostTwo(Reports')
    BY <1>0, <2>1, ShiftKeeps DEF FewReports, AtMostTwo, AtMostOne
  <2>4. asked \/ Queries # {} => Reports' = {}
    BY <1>0, <2>1, ShiftKeeps DEF FewReports
  <2>5. ~(asked /\ Queries # {})
    BY <1>0, <2>1 DEF FewReports
  <2> QED
    BY <1>0, <2>1, <2>2, <2>3, <2>4, <2>5 DEF FewReports, OneOf
<1>5. CASE PollDone
  <2>1. Queries' = Queries /\ Reports' = Reports /\ asked' = asked
    BY <1>5, QueuesStay DEF PollDone, ctlVars
  <2> QED
    BY <2>1, <1>0, <1>a, <1>b, <1>5 DEF PollDone, FewReports, jobVars, desyncVars, hostVars
<1>6. CASE SendLine
  <2>0. [k |-> "line", n |-> next_index + 1] \in Written
    BY <1>6, <1>0, ConstantType
       DEF SendLine, Blocked, all_sent, Written, WireKinds, TypeOK, HostTypeOK
  <2>1. Queries' = Queries /\ Reports' = Reports /\ asked' = asked
    BY <1>6, <1>0, <2>0, WriteAdds, QueuesStay DEF SendLine, UNCHANGEDController
  <2> QED
    BY <2>1, <1>0, <1>6 DEF SendLine, Press, FewReports, jobVars, desyncVars
<1>7. CASE SendDone
  <2>1. Queries' = Queries /\ Reports' = Reports /\ asked' = asked
    BY <1>7, QueuesStay DEF SendDone, ctlVars
  <2> QED
    BY <2>1, <1>0, <1>a, <1>b, <1>7 DEF SendDone, FewReports, jobVars, desyncVars, hostVars
<1>8. CASE QueryStatus
  <2>1. CASE poll_due
    <3>1. /\ Queries' = Queries \cup {Len(wire) + 1} /\ Reports' = Reports /\ asked' = asked
      BY <1>8, <1>0, <2>1, WriteAdds, QueuesStay
         DEF QueryStatus, Write, UNCHANGEDController, WireKinds
    <3>2. pc = "query" /\ pc' = "spindle" /\ poll_due' = FALSE
      BY <1>8 DEF QueryStatus
    <3>3. Queries = {} /\ OneOf(Reports, asked, Queries)
      BY <1>0, <2>1, <3>2 DEF FewReports
    <3>4. AtMostOne(Queries') /\ AtMostOne(Reports) /\ (asked => Reports = {})
      BY <1>b, <3>1, <3>3 DEF OneOf
    <3>5. AtMostTwo(Reports')
      BY <3>1, <3>4 DEF AtMostOne, AtMostTwo
    <3> QED
      BY <3>1, <3>2, <3>4, <3>5 DEF FewReports
  <2>2. CASE ~poll_due
    <3>1. Queries' = Queries /\ Reports' = Reports /\ asked' = asked
      BY <1>8, <2>2, QueuesStay DEF QueryStatus, ctlVars
    <3> QED
      BY <3>1, <1>0, <1>8 DEF QueryStatus, FewReports
  <2> QED
    BY <2>1, <2>2
<1>9. CASE SpindleStop
  <2>1. Queries' = Queries /\ Reports' = Reports /\ asked' = asked
    BY <1>9, <1>0, WriteAdds, QueuesStay
       DEF SpindleStop, Write, UNCHANGEDController, ctlVars, WireKinds
  <2> QED
    BY <2>1, <1>0, <1>9 DEF SpindleStop, Press, FewReports, jobVars, desyncVars
<1>10. CASE TickEnd
  <2>1. Queries' = Queries /\ Reports' = Reports /\ asked' = asked
    BY <1>10, QueuesStay DEF TickEnd, ctlVars
  <2>2. pc' \in {"idle", "release"} /\ new_report' = FALSE /\ poll_due' = poll_due
    BY <1>10, Zenon DEF TickEnd, LeaveFailed, ForgetDesync
  <2> QED
    BY <1>0, <2>1, <2>2 DEF FewReports
<1>11. CASE Pause
  <2>1. Queries' = Queries /\ Reports' = Reports /\ asked' = asked
    BY <1>11, <1>0, WriteAdds, QueuesStay DEF Pause, Write, UNCHANGEDController, WireKinds
  <2> QED
    BY <2>1, <1>0, <1>11 DEF Pause, Press, FewReports, jobVars, desyncVars
<1>12. CASE Resume
  <2>1. Queries' = Queries /\ Reports' = Reports /\ asked' = asked
    BY <1>12, <1>0, WriteAdds, QueuesStay DEF Resume, Write, UNCHANGEDController, WireKinds
  <2> QED
    BY <2>1, <1>0, <1>12 DEF Resume, Press, FewReports, jobVars, desyncVars
<1>13. CASE Cancel
  BY <1>13, <1>0 DEF Cancel, Press, Attended
<1>14. CASE PollDue
  <2>1. Queries' = Queries /\ Reports' = Reports /\ asked' = asked
    BY <1>14, QueuesStay DEF PollDue, ctlVars
  <2> QED
    BY <2>1, <1>0, <1>a, <1>b, <1>14 DEF PollDue, FewReports, jobVars, desyncVars, hostVars
<1>15. CASE DelayElapses
  <2>1. Queries' = Queries /\ Reports' = Reports /\ asked' = asked
    BY <1>15, QueuesStay DEF DelayElapses, ctlVars
  <2> QED
    BY <2>1, <1>0, <1>a, <1>b, <1>15
       DEF DelayElapses, FewReports, jobVars, desyncVars, hostVars
<1>16. CASE DeliverLine /\ UNCHANGED hostVars
  <2>1. Shift(Queries, Queries') /\ Reports' = Reports /\ asked' = asked
    BY <1>16, <1>0, ArrivalTakes, QueuesStay DEF DeliverLine, Arrives
  <2>2. UNCHANGED <<pc, call, poll_due, new_report>>
    BY <1>16 DEF hostVars, jobVars, desyncVars
  <2> QED
    BY <1>0, <2>1, <2>2, ShiftKeeps DEF FewReports, OneOf
<1>17. CASE DeliverQuery /\ UNCHANGED hostVars
  <2>1. /\ Shift(Queries, Queries') /\ 1 \in Queries /\ Reports' = Reports /\ asked' = TRUE
    BY <1>17, <1>0, ArrivalTakes, QueuesStay DEF DeliverQuery, Arrives
  <2>2. UNCHANGED <<pc, call, poll_due, new_report>>
    BY <1>17 DEF hostVars, jobVars, desyncVars
  <2>3. Queries' = {}
    BY <1>0, <2>1, ShiftKeeps DEF FewReports
  <2> QED
    BY <1>0, <1>b, <2>1, <2>2, <2>3 DEF FewReports, OneOf
<1>18. CASE DeliverFeedHold /\ UNCHANGED hostVars
  <2>1. Shift(Queries, Queries') /\ Reports' = Reports /\ asked' = asked
    BY <1>18, <1>0, ArrivalTakes, QueuesStay DEF DeliverFeedHold, Arrives
  <2>2. UNCHANGED <<pc, call, poll_due, new_report>>
    BY <1>18 DEF hostVars, jobVars, desyncVars
  <2> QED
    BY <1>0, <2>1, <2>2, ShiftKeeps DEF FewReports, OneOf
<1>19. CASE DeliverCycleStart /\ UNCHANGED hostVars
  <2>1. Shift(Queries, Queries') /\ Reports' = Reports /\ asked' = asked
    BY <1>19, <1>0, ArrivalTakes, QueuesStay DEF DeliverCycleStart, Arrives
  <2>2. UNCHANGED <<pc, call, poll_due, new_report>>
    BY <1>19 DEF hostVars, jobVars, desyncVars
  <2> QED
    BY <1>0, <2>1, <2>2, ShiftKeeps DEF FewReports, OneOf
<1>20. CASE DeliverSpindleStop /\ UNCHANGED hostVars
  <2>1. Shift(Queries, Queries') /\ Reports' = Reports /\ asked' = asked
    BY <1>20, <1>0, ArrivalTakes, QueuesStay DEF DeliverSpindleStop, Arrives
  <2>2. UNCHANGED <<pc, call, poll_due, new_report>>
    BY <1>20 DEF hostVars, jobVars, desyncVars
  <2> QED
    BY <1>0, <2>1, <2>2, ShiftKeeps DEF FewReports, OneOf
<1>21. CASE ParseMotion /\ UNCHANGED hostVars
  <2>1. Queries' = Queries /\ Reports' = Reports /\ asked' = asked
    BY <1>21, <1>0, ReplyAdds, QueuesStay DEF ParseMotion
  <2> QED
    BY <1>0, <1>21, <2>1 DEF FewReports, hostVars, jobVars, desyncVars
<1>22. CASE BeginWait /\ UNCHANGED hostVars
  <2>1. Queries' = Queries /\ Reports' = Reports /\ asked' = asked
    BY <1>22, QueuesStay DEF BeginWait
  <2> QED
    BY <1>0, <1>22, <2>1 DEF FewReports, hostVars, jobVars, desyncVars
<1>23. CASE EndWait /\ UNCHANGED hostVars
  <2>1. Queries' = Queries /\ Reports' = Reports /\ asked' = asked
    BY <1>23, <1>0, ReplyAdds, QueuesStay DEF EndWait
  <2> QED
    BY <1>0, <1>23, <2>1 DEF FewReports, hostVars, jobVars, desyncVars
<1>24. CASE Execute /\ UNCHANGED hostVars
  <2>1. Queries' = Queries /\ Reports' = Reports /\ asked' = asked
    BY <1>24, QueuesStay DEF Execute
  <2> QED
    BY <1>0, <1>24, <2>1 DEF FewReports, hostVars, jobVars, desyncVars
<1>25. CASE Report /\ UNCHANGED hostVars
  <2>1. /\ Reports' = Reports \cup {Len(replies) + 1} /\ Queries' = Queries
        /\ asked /\ asked' = FALSE
    BY <1>25, <1>0, ReplyAdds, QueuesStay DEF Report, RunState
  <2>2. UNCHANGED <<pc, call, poll_due, new_report>>
    BY <1>25 DEF hostVars, jobVars, desyncVars
  <2>3. AtMostOne(Reports) /\ (Queries # {} => Reports = {})
        /\ (Reports = {} => Reports' = {Len(replies) + 1})
    BY <1>0, <2>1 DEF FewReports
  <2>4. AtMostTwo(Reports')
    BY <2>1, <2>3 DEF AtMostOne, AtMostTwo
  <2> QED
    BY <1>0, <1>b, <2>1, <2>2, <2>3, <2>4 DEF FewReports, OneOf
<1>26. CASE UNCHANGED vars
  <2>1. Queries' = Queries /\ Reports' = Reports /\ asked' = asked
    BY <1>26, QueuesStay DEF vars, ctlVars
  <2> QED
    BY <2>1, <1>0, <1>a, <1>b, <1>26 DEF vars, FewReports, jobVars, desyncVars, hostVars
<1> QED
  BY <1>1, <1>2, <1>3, <1>4, <1>5, <1>6, <1>7, <1>8, <1>9, <1>10, <1>11,
     <1>12, <1>13, <1>14, <1>15, <1>16, <1>17, <1>18, <1>19, <1>20,
     <1>21, <1>22, <1>23, <1>24, <1>25, <1>26, Zenon
     DEF HealthyStep, HostWorks, FirmwareWorks, Carries, Work

-----------------------------------------------------------------------------
(* How many Idle reports are counted against lines in flight.              *)

\* A tick that may still count a report.
Counting == pc \in {"send", "query", "spindle", "check"}

\* A step that forgets the reports leaves nothing to count.
LEMMA ForgetsFew ==
  ASSUME idle_reports' = 0, idle_timer' = "none", new_report' = FALSE
  PROVE  FewIdles'
<1>1. Counted' = 0
  BY DEF Counted
<1> QED
  BY <1>1 DEF FewIdles, NotYet

\* A step that counts nothing and moves no line keeps the bound if it keeps the
\* reports still to come.
LEMMA KeepsFew ==
  ASSUME FewIdles,
         UNCHANGED <<sent_commands, next_index, consumed, idle_reports, idle_timer, new_report>>,
         consumed # AckPoint /\ Counting' => Counting,
         sent_commands # <<>> /\ consumed = AckPoint /\ ~pending_dwell /\ NotYet => NotYet'
  PROVE  FewIdles'
<1>1. AckPoint' = AckPoint /\ pending_dwell' = pending_dwell /\ Counted' = Counted
  BY DEF AckPoint, pending_dwell, Counted
<1>2. sent_commands' # <<>> /\ consumed' = AckPoint'
        => IF pending_dwell' THEN idle_reports' = 0 /\ idle_timer' # "elapsed" ELSE NotYet'
  BY <1>1 DEF FewIdles
<1>3. sent_commands' # <<>> /\ consumed' # AckPoint'
      /\ pc' \in {"send", "query", "spindle", "check"} => Counted' <= 2
  BY <1>1 DEF FewIdles, Counting
<1> QED
  BY <1>2, <1>3 DEF FewIdles

\* Two Idle reports at most stay counted or to come while the first line in flight is
\* not consumed.
LEMMA IdlesStep ==
  ASSUME Healthy, HealthyStep, Attended', Homing = {}, IdleLimit >= 3
  PROVE  FewIdles'
<1>0. /\ TypeOK /\ FewIdles /\ FewReports /\ link /\ alive /\ WaitsAlone
      /\ new_report \in BOOLEAN /\ asked \in BOOLEAN
      /\ idle_reports \in Nat /\ idle_timer \in {"none", "running", "elapsed"}
      /\ IdleLimit \in Nat /\ N \in Nat /\ next_index \in 0..N
      /\ consumed \in 0..N /\ received \in 0..N /\ busy \in 0..N /\ AckPoint \in 0..N
      /\ AckPoint <= consumed /\ consumed <= received /\ received <= next_index
      /\ sent_commands \in Seq(Line)
      /\ \A k \in WireKinds : [k |-> k, n |-> next_index] \in Written
  BY MotionType, WindowFacts, WindowAssumption
     DEF Healthy, Unharmed, TypeOK, FlagsOK, ControllerTypeOK, ControllerFlagsOK,
         HostTypeOK, Written
<1>a. /\ sent_commands # <<>> => /\ Head(sent_commands) = AckPoint + 1
                                 /\ AckPoint < next_index /\ bytes_in_flight > 0
      /\ sent_commands = <<>> => AckPoint = next_index /\ bytes_in_flight = 0
  BY WindowFacts
<1>b. Idles \subseteq Reports /\ QueryFirst \subseteq Queries
  BY DEF Idles, Reports, QueryFirst
<1>c. \A p : OneOf({}, FALSE, {}) /\ OneOf({}, TRUE, {}) /\ OneOf({p}, FALSE, {})
  BY DEF OneOf, AtMostOne
<1>d. Counted = idle_reports + (IF new_report THEN 1 ELSE 0) /\ Counted \in Nat
  BY <1>0 DEF Counted
<1>1. CASE Start
  BY <1>1, ForgetsFew DEF Start
<1>2. CASE TickBegin
  <2>1. /\ UNCHANGED <<sent_commands, next_index, consumed, received, asked>>
        /\ UNCHANGED <<idle_reports, idle_timer, new_report>>
        /\ Counting' => Counting
    BY <1>2, Zenon
       DEF TickBegin, Counting, ctlVars, hostVars, engineVars, desyncVars, jobVars,
           sessionVars
  <2>2. Idles' = Idles /\ QueryFirst' = QueryFirst
    BY <1>2, <1>0, WriteAdds, QueuesStay DEF TickBegin, ctlVars, WireKinds
  <2> QED
    BY <1>0, <2>1, <2>2, KeepsFew DEF NotYet, Counted
<1>3. CASE PollOk
  <2>1. ForgetDesync
    <3>1. replies # <<>> /\ Head(replies).k = "ok" /\ OksSorted
      BY <1>3 DEF PollOk, TakeReply, Healthy, StreamInv
    <3>2. AckPoint < replies[1].n /\ replies[1].n <= consumed
      BY <3>1, TailOf, MotionType, <1>0 DEF OksSorted
    <3>3. replies[1].n \in Nat
      <4>1. replies[1] \in Reply
        BY <3>1, TailOf, MotionType, <1>0
      <4> QED
        BY <1>0, <4>1 DEF Reply
    <3>4. bytes_in_flight > 0
      BY <1>0, <1>a, <3>2, <3>3
    <3> QED
      BY <1>3, <3>4 DEF PollOk
  <2> QED
    BY <2>1, ForgetsFew DEF ForgetDesync
<1>4. CASE PollStatus
  <2>1. /\ replies # <<>> /\ replies' = Tail(replies) /\ wire' = wire
        /\ UNCHANGED <<sent_commands, next_index, consumed, received, asked, pc>> /\ pc = "poll"
    BY <1>4 DEF PollStatus, TakeReply, engineVars
  <2>2. CASE Head(replies).k # "Idle"
    BY <1>4, <2>2, ForgetsFew DEF PollStatus, ForgetDesync
  <2>3. CASE Head(replies).k = "Idle"
    <3>1. new_report' = TRUE /\ UNCHANGED <<idle_timer, idle_reports>>
      BY <1>4, <2>3 DEF PollStatus
    <3>2. /\ Shift(Idles, Idles') /\ 1 \in Idles /\ 1 \in Reports /\ QueryFirst' = QueryFirst
      BY <1>0, <2>1, <2>3, ReadTakes, QueuesStay
    <3>3. AckPoint' = AckPoint /\ pending_dwell' = pending_dwell
      BY <2>1 DEF AckPoint, pending_dwell
    <3>4. ASSUME sent_commands # <<>>, consumed = AckPoint, ~pending_dwell
          PROVE  NotYet'
      <4>1. NotYet
        BY <1>0, <3>4 DEF FewIdles
      <4>2. CASE Counted = 0
        <5>1. Counted' = 1
          BY <1>0, <1>d, <3>1, <4>2 DEF Counted
        <5>2. /\ AtMostOne(Queries) /\ AtMostTwo(Reports)
              /\ asked \/ Queries # {} => AtMostOne(Reports)
              /\ ~(asked /\ Queries # {})
          BY <1>0, <3>2 DEF FewReports
        <5>3. /\ AtMostTwo(Idles) /\ AtMostOne(QueryFirst)
              /\ asked \/ QueryFirst # {} => AtMostOne(Idles)
              /\ ~(asked /\ QueryFirst # {})
          BY <1>b, <5>2 DEF AtMostOne, AtMostTwo
        <5>4. /\ AtMostOne(Idles')
              /\ asked \/ QueryFirst # {} => Idles' = {}
          BY <3>2, <5>3, ShiftKeeps
        <5>5. OneOf(Idles', asked', QueryFirst')
          BY <2>1, <3>2, <5>3, <5>4 DEF OneOf
        <5>6. OneOf(Idles', asked' /\ received' = consumed',
                    IF received' = consumed' THEN QueryFirst' ELSE {})
          BY <5>5 DEF OneOf, AtMostOne
        <5> QED
          BY <5>1, <5>6 DEF NotYet
      <4>3. CASE Counted # 0
        <5>1. OneOf(Idles, asked /\ received = consumed,
                    IF received = consumed THEN QueryFirst ELSE {}) /\ Counted # 2
          BY <1>d, <3>2, <4>1, <4>3 DEF NotYet
        <5>2. /\ AtMostOne(Idles) /\ (received = consumed => ~asked /\ QueryFirst = {})
          BY <3>2, <5>1 DEF OneOf
        <5>3. Idles' = {} /\ (received' = consumed' => ~asked' /\ QueryFirst' = {})
          BY <2>1, <3>2, <5>2, ShiftKeeps
        <5>4. Counted' <= 2
          BY <1>0, <1>d, <3>1, <4>1, <5>1 DEF Counted, NotYet
        <5>5. OneOf(Idles', asked' /\ received' = consumed',
                    IF received' = consumed' THEN QueryFirst' ELSE {})
          BY <1>c, <5>3
        <5> QED
          BY <5>3, <5>4, <5>5 DEF NotYet
      <4> QED
        BY <4>2, <4>3
    <3> QED
      BY <1>0, <2>1, <3>1, <3>3, <3>4 DEF FewIdles
  <2> QED
    BY <2>2, <2>3
<1>5. CASE PollDone
  <2>1. /\ UNCHANGED <<sent_commands, next_index, consumed, received, asked, replies, wire>>
        /\ UNCHANGED <<idle_reports, idle_timer, new_report>> /\ replies = <<>>
    BY <1>5 DEF PollDone, ctlVars, engineVars, desyncVars
  <2>2. consumed = AckPoint
    <3> SUFFICES ASSUME AckPoint < consumed PROVE FALSE
      BY <1>0
    <3>1. PICK p \in DOMAIN replies : replies[p].k = "ok" /\ replies[p].n = consumed
      BY <1>0 DEF Healthy, NothingLost, Line
    <3> QED
      BY <2>1, <3>1
  <2>3. Idles' = Idles /\ QueryFirst' = QueryFirst
    BY <2>1, QueuesStay
  <2> QED
    BY <1>0, <2>1, <2>2, <2>3, KeepsFew DEF NotYet, Counted
<1>6. CASE SendLine
  <2> DEFINE w == [k |-> "line", n |-> next_index + 1]
  <2>0. w \in Written
    BY <1>6, <1>0, ConstantType
       DEF SendLine, Blocked, all_sent, Written, WireKinds, TypeOK, HostTypeOK
  <2>1. /\ wire' = Append(wire, w) /\ replies' = replies
        /\ next_index' = next_index + 1 /\ next_index + 1 \in Line
        /\ sent_commands' = Append(sent_commands, next_index + 1)
        /\ UNCHANGED <<consumed, received, asked, idle_reports, idle_timer, new_report, pc>>
        /\ pc = "send"
    BY <1>6, <1>0 DEF SendLine, UNCHANGEDController, desyncVars, Blocked, all_sent, Line
  <2>2. Idles' = Idles /\ QueryFirst' = QueryFirst /\ Queries' = Queries /\ Reports' = Reports
    BY <1>0, <2>0, <2>1, WriteAdds, QueuesStay
  <2>3. Counted' = Counted
    BY <2>1 DEF Counted
  <2>4. AckPoint' = AckPoint
    <3>1. Len(sent_commands') = Len(sent_commands) + 1 /\ Len(sent_commands) \in Nat
      BY <1>0, <2>1
    <3> QED
      BY <1>0, <2>1, <3>1 DEF AckPoint
  <2>5. CASE sent_commands = <<>>
    <3>1. idle_reports = 0 /\ idle_timer = "none" /\ consumed' = AckPoint'
      BY <1>0, <1>a, <2>1, <2>4, <2>5 DEF FewIdles
    <3>2. NotYet'
      <4>1. CASE ~new_report
        BY <1>d, <2>3, <3>1, <4>1 DEF NotYet
      <4>2. CASE new_report
        <5>1. Counted' = 1
          BY <1>d, <2>3, <3>1, <4>2
        <5>2. OneOf(Reports, asked, Queries)
          BY <1>0, <2>1, <4>2 DEF FewReports
        <5>3. OneOf(Idles', asked', QueryFirst')
          BY <1>b, <2>1, <2>2, <5>2 DEF OneOf, AtMostOne
        <5>4. OneOf(Idles', asked' /\ received' = consumed',
                    IF received' = consumed' THEN QueryFirst' ELSE {})
          BY <5>3 DEF OneOf, AtMostOne
        <5> QED
          BY <5>1, <5>4 DEF NotYet
      <4> QED
        BY <4>1, <4>2
    <3> QED
      BY <1>0, <2>1, <3>1, <3>2 DEF FewIdles
  <2>6. CASE sent_commands # <<>>
    <3>1. Head(sent_commands') = Head(sent_commands) /\ sent_commands' # <<>>
      BY <1>0, <2>1, <2>6
    <3>2. pending_dwell' = pending_dwell
      BY <2>6, <3>1 DEF pending_dwell
    <3>3. NotYet => NotYet'
      BY <2>1, <2>2, <2>3 DEF NotYet
    <3> QED
      BY <1>0, <2>1, <2>3, <2>4, <2>6, <3>1, <3>2, <3>3 DEF FewIdles
  <2> QED
    BY <2>5, <2>6
<1>7. CASE SendDone
  <2>1. /\ UNCHANGED <<sent_commands, next_index, consumed, received, asked>>
        /\ UNCHANGED <<idle_reports, idle_timer, new_report>>
        /\ Counting' => Counting
    BY <1>7, Zenon
       DEF SendDone, Counting, ctlVars, hostVars, engineVars, desyncVars, jobVars,
           sessionVars
  <2>2. Idles' = Idles /\ QueryFirst' = QueryFirst
    BY <1>7, <1>0, WriteAdds, QueuesStay DEF SendDone, ctlVars, WireKinds
  <2> QED
    BY <1>0, <2>1, <2>2, KeepsFew DEF NotYet, Counted
<1>8. CASE QueryStatus
  <2>1. /\ UNCHANGED <<sent_commands, next_index, consumed, received, asked, replies>>
        /\ UNCHANGED <<idle_reports, idle_timer, new_report>>
        /\ Counting' => Counting
        /\ wire' = wire \/ Write("?")
    BY <1>8 DEF QueryStatus, Counting, ctlVars, engineVars, desyncVars, UNCHANGEDController
  <2>2. Idles' = Idles
    BY <2>1, QueuesStay
  <2>3. ASSUME sent_commands # <<>>, consumed = AckPoint, received = consumed
        PROVE  QueryFirst' = QueryFirst
    <3>1. PICK p \in DOMAIN wire : wire[p].k = "line"
      <4>1. next_index \in Line /\ received < next_index
        BY <1>0, <1>a, <2>3 DEF Line
      <4> QED
        BY <1>0, <4>1 DEF Healthy, NothingLost
    <3> QED
      BY <1>0, <2>1, <3>1, WriteAdds, QueuesStay DEF Write, WireKinds
  <2>4. sent_commands # <<>> /\ consumed = AckPoint /\ NotYet => NotYet'
    BY <2>1, <2>2, <2>3 DEF NotYet, Counted
  <2> QED
    BY <1>0, <2>1, <2>4, KeepsFew
<1>9. CASE SpindleStop
  <2>1. /\ UNCHANGED <<sent_commands, next_index, consumed, received, asked>>
        /\ UNCHANGED <<idle_reports, idle_timer, new_report>>
        /\ Counting' => Counting
    BY <1>9, Zenon
       DEF SpindleStop, Write, UNCHANGEDController, Counting, ctlVars, hostVars,
           engineVars, desyncVars, jobVars, sessionVars
  <2>2. Idles' = Idles /\ QueryFirst' = QueryFirst
    BY <1>9, <1>0, WriteAdds, QueuesStay
       DEF SpindleStop, Write, UNCHANGEDController, ctlVars, WireKinds
  <2> QED
    BY <1>0, <2>1, <2>2, KeepsFew DEF NotYet, Counted
<1>10. CASE TickEnd
  <2>1. /\ UNCHANGED <<sent_commands, next_index, consumed, received, asked, replies, wire>>
        /\ pc = "check" /\ new_report' = FALSE
        /\ IF IdleUnacknowledged
           THEN idle_reports' = (IF InDelay THEN 0 ELSE CountedReports) /\ idle_timer' = CountedTimer
           ELSE idle_reports' = 0 /\ idle_timer' = "none"
    BY <1>10 DEF TickEnd, ctlVars, engineVars, ForgetDesync
  <2>2. pc' \notin {"send", "query", "spindle", "check"}
    BY <1>10, Zenon DEF TickEnd, LeaveFailed
  <2>3. CASE ~IdleUnacknowledged
    BY <2>1, <2>3, ForgetsFew
  <2>4. CASE IdleUnacknowledged
    <3>1. sent_commands # <<>>
      BY <1>a, <2>4 DEF IdleUnacknowledged
    <3>2. /\ AckPoint' = AckPoint /\ pending_dwell' = pending_dwell
          /\ Idles' = Idles /\ QueryFirst' = QueryFirst
      BY <2>1, QueuesStay DEF AckPoint, pending_dwell
    <3>3. /\ CountedReports <= Counted /\ CountedReports \in Nat
          /\ ~new_report => CountedReports = idle_reports
      BY <1>0, <1>d DEF CountedReports
    <3>4. /\ Counted' = idle_reports' /\ idle_reports' \in Nat /\ idle_reports' <= Counted
      BY <1>0, <1>d, <2>1, <2>4, <3>3 DEF Counted
    <3>5. CASE consumed = AckPoint /\ pending_dwell
      <4>1. idle_reports = 0 /\ idle_timer \in {"none", "running"}
        BY <1>0, <3>1, <3>5 DEF FewIdles
      <4>2. CountedTimer # "elapsed"
        BY <4>1 DEF CountedTimer
      <4>3. idle_reports' = 0
        <5>1. CASE InDelay
          BY <2>1, <2>4, <5>1
        <5>2. CASE ~InDelay
          <6>1. ~new_report
            BY <3>5, <4>1, <5>2 DEF InDelay, CountedTimer
          <6> QED
            BY <2>1, <2>4, <3>3, <4>1, <5>2, <6>1
        <5> QED
          BY <5>1, <5>2
      <4> QED
        BY <2>1, <2>2, <2>4, <3>1, <3>2, <3>5, <4>2, <4>3 DEF FewIdles
    <3>6. CASE consumed = AckPoint /\ ~pending_dwell
      <4>1. NotYet
        BY <1>0, <3>1, <3>6 DEF FewIdles
      <4>2. NotYet'
        <5>1. Counted' <= Counted /\ Counted <= 2 /\ Counted' \in Nat
          BY <3>4, <4>1 DEF NotYet
        <5>2. Counted' >= 1 => Counted >= 1
          BY <1>d, <5>1
        <5>3. Counted' = 2 => Counted = 2
          BY <1>d, <5>1
        <5>4. Counted' >= 1 => OneOf(Idles', asked' /\ received' = consumed',
                                     IF received' = consumed' THEN QueryFirst' ELSE {})
          BY <2>1, <3>2, <4>1, <5>2 DEF NotYet, OneOf
        <5>5. Counted' = 2 => Idles' = {} /\ (received' = consumed' => ~asked' /\ QueryFirst' = {})
          BY <2>1, <3>2, <4>1, <5>3 DEF NotYet
        <5>6. Counted' <= 2
          BY <1>d, <5>1
        <5> QED
          BY <5>4, <5>5, <5>6 DEF NotYet
      <4>3. idle_reports' <= 2
        BY <1>d, <3>4, <4>1 DEF NotYet
      <4> QED
        BY <2>1, <2>2, <3>1, <3>2, <3>6, <4>2, <4>3 DEF FewIdles
    <3>7. CASE consumed # AckPoint
      <4>1. Counted <= 2
        BY <1>0, <2>1, <3>1, <3>7 DEF FewIdles
      <4>2. idle_reports' <= 2
        BY <1>d, <3>4, <4>1
      <4> QED
        BY <2>1, <2>2, <3>1, <3>2, <3>7, <4>2 DEF FewIdles
    <3> QED
      BY <3>5, <3>6, <3>7
  <2> QED
    BY <2>3, <2>4
<1>11. CASE Pause
  <2>1. /\ UNCHANGED <<sent_commands, next_index, consumed, received, asked>>
        /\ UNCHANGED <<idle_reports, idle_timer, new_report>>
        /\ Counting' => Counting
    BY <1>11, Zenon
       DEF Pause, Press, Write, UNCHANGEDController, Counting, ctlVars, hostVars,
           engineVars, desyncVars, jobVars, sessionVars
  <2>2. Idles' = Idles /\ QueryFirst' = QueryFirst
    BY <1>11, <1>0, WriteAdds, QueuesStay
       DEF Pause, Press, Write, UNCHANGEDController, ctlVars, WireKinds
  <2> QED
    BY <1>0, <2>1, <2>2, KeepsFew DEF NotYet, Counted
<1>12. CASE Resume
  <2>1. /\ UNCHANGED <<sent_commands, next_index, consumed, received, asked>>
        /\ UNCHANGED <<idle_reports, idle_timer, new_report>>
        /\ Counting' => Counting
    BY <1>12, Zenon
       DEF Resume, Press, Write, UNCHANGEDController, Counting, ctlVars, hostVars,
           engineVars, desyncVars, jobVars, sessionVars
  <2>2. Idles' = Idles /\ QueryFirst' = QueryFirst
    BY <1>12, <1>0, WriteAdds, QueuesStay
       DEF Resume, Press, Write, UNCHANGEDController, ctlVars, WireKinds
  <2> QED
    BY <1>0, <2>1, <2>2, KeepsFew DEF NotYet, Counted
<1>13. CASE Cancel
  BY <1>13, <1>0 DEF Cancel, Press, Attended, Healthy, StreamInv
<1>14. CASE PollDue
  <2>1. /\ UNCHANGED <<sent_commands, next_index, consumed, received, asked>>
        /\ UNCHANGED <<idle_reports, idle_timer, new_report>>
        /\ Counting' => Counting
    BY <1>14, Zenon
       DEF PollDue, Counting, ctlVars, hostVars, engineVars, desyncVars, jobVars,
           sessionVars
  <2>2. Idles' = Idles /\ QueryFirst' = QueryFirst
    BY <1>14, <1>0, WriteAdds, QueuesStay DEF PollDue, ctlVars, WireKinds
  <2> QED
    BY <1>0, <2>1, <2>2, KeepsFew DEF NotYet, Counted
<1>15. CASE DelayElapses
  <2>1. /\ UNCHANGED <<sent_commands, next_index, consumed, received, asked, replies, wire>>
        /\ UNCHANGED <<idle_reports, new_report, pc>> /\ idle_timer = "running"
        /\ pending_dwell => consumed >= Head(sent_commands)
    BY <1>15, <1>0 DEF DelayElapses, ctlVars, engineVars
  <2>2. /\ AckPoint' = AckPoint /\ pending_dwell' = pending_dwell /\ Counted' = Counted
        /\ Idles' = Idles /\ QueryFirst' = QueryFirst
    BY <2>1, QueuesStay DEF AckPoint, pending_dwell, Counted
  <2>3. sent_commands # <<>>
    BY <1>0, <2>1 DEF FewIdles
  <2>4. consumed = AckPoint => ~pending_dwell
    BY <1>0, <1>a, <2>1, <2>3
  <2>5. NotYet => NotYet'
    BY <2>1, <2>2 DEF NotYet
  <2> QED
    BY <1>0, <2>1, <2>2, <2>3, <2>4, <2>5 DEF FewIdles
<1>16. CASE DeliverLine /\ UNCHANGED hostVars
  <2>1. UNCHANGED <<sent_commands, next_index, idle_reports, idle_timer, new_report, pc>>
    BY <1>16 DEF hostVars, engineVars, desyncVars
  <2>2. /\ wire # <<>> /\ Head(wire).k = "line" /\ received' = Head(wire).n
        /\ UNCHANGED <<consumed, replies, asked>>
    BY <1>16 DEF DeliverLine, Arrives
  <2>3. received < received' /\ received' \in Nat
    <3>1. 1 \in DOMAIN wire /\ Head(wire) = wire[1] /\ wire[1] \in Written
      BY <1>0, <2>2, TailOf, MotionType
    <3>2. Head(wire).n \in Nat
      BY <1>0, <3>1 DEF Written
    <3> QED
      BY <2>2, <3>1, <3>2 DEF Healthy, NothingLost
  <2>4. Idles' = Idles /\ received' # consumed'
    BY <1>0, <2>2, <2>3, QueuesStay
  <2>9. NotYet => NotYet'
    <3>1. Counted' = Counted
      BY <2>1 DEF Counted
    <3>2. Counted >= 1 /\ NotYet => OneOf(Idles, FALSE, {})
      BY DEF NotYet, OneOf, AtMostOne
    <3> QED
      BY <2>2, <2>4, <3>1, <3>2 DEF NotYet
  <2> QED
    BY <1>0, <2>1, <2>2, <2>9, KeepsFew DEF Counting
<1>17. CASE DeliverQuery /\ UNCHANGED hostVars
  <2>1. UNCHANGED <<sent_commands, next_index, idle_reports, idle_timer, new_report, pc>>
    BY <1>17 DEF hostVars, engineVars, desyncVars
  <2>2. /\ wire # <<>> /\ Head(wire).k = "?" /\ wire' = Tail(wire)
        /\ UNCHANGED <<consumed, received, replies>> /\ asked' = TRUE
    BY <1>17 DEF DeliverQuery, Arrives
  <2>3. /\ Idles' = Idles /\ Shift(QueryFirst, QueryFirst') /\ 1 \in QueryFirst
    BY <1>0, <2>2, ArrivalTakes, QueuesStay
  <2>4. Counted' = Counted
    BY <2>1 DEF Counted
  <2>9. NotYet => NotYet'
    <3>1. CASE received # consumed
      BY <2>2, <2>3, <2>4, <3>1 DEF NotYet, OneOf
    <3>2. CASE received = consumed
      <4>1. AtMostOne(QueryFirst)
        BY <1>0, <1>b DEF FewReports, AtMostOne
      <4>2. QueryFirst' = {}
        BY <2>3, <4>1, ShiftKeeps
      <4>3. NotYet /\ Counted >= 1 => Idles = {} /\ Counted # 2
        BY <2>3, <3>2 DEF NotYet, OneOf
      <4> QED
        BY <1>c, <2>2, <2>3, <2>4, <3>2, <4>2, <4>3 DEF NotYet
    <3> QED
      BY <3>1, <3>2
  <2> QED
    BY <1>0, <2>1, <2>2, <2>9, KeepsFew DEF Counting
<1>18. CASE DeliverFeedHold /\ UNCHANGED hostVars
  <2>1. UNCHANGED <<sent_commands, next_index, idle_reports, idle_timer, new_report, pc>>
    BY <1>18 DEF hostVars, engineVars, desyncVars
  <2>2. /\ wire # <<>> /\ Head(wire).k # "line" /\ wire' = Tail(wire)
        /\ UNCHANGED <<consumed, received, replies, asked>>
    BY <1>18 DEF DeliverFeedHold, Arrives
  <2>3. /\ Idles' = Idles /\ Shift(QueryFirst, QueryFirst')
    BY <1>0, <2>2, ArrivalTakes, QueuesStay
  <2>4. Counted' = Counted
    BY <2>1 DEF Counted
  <2>5. /\ QueryFirst = {} => QueryFirst' = {}
        /\ AtMostOne(QueryFirst) => AtMostOne(QueryFirst')
    BY <2>3, ShiftKeeps
  <2>9. NotYet => NotYet'
    BY <2>2, <2>3, <2>4, <2>5 DEF NotYet, OneOf
  <2> QED
    BY <1>0, <2>1, <2>2, <2>9, KeepsFew DEF Counting
<1>19. CASE DeliverCycleStart /\ UNCHANGED hostVars
  <2>1. UNCHANGED <<sent_commands, next_index, idle_reports, idle_timer, new_report, pc>>
    BY <1>19 DEF hostVars, engineVars, desyncVars
  <2>2. /\ wire # <<>> /\ Head(wire).k # "line" /\ wire' = Tail(wire)
        /\ UNCHANGED <<consumed, received, replies, asked>>
    BY <1>19 DEF DeliverCycleStart, Arrives
  <2>3. /\ Idles' = Idles /\ Shift(QueryFirst, QueryFirst')
    BY <1>0, <2>2, ArrivalTakes, QueuesStay
  <2>4. Counted' = Counted
    BY <2>1 DEF Counted
  <2>5. /\ QueryFirst = {} => QueryFirst' = {}
        /\ AtMostOne(QueryFirst) => AtMostOne(QueryFirst')
    BY <2>3, ShiftKeeps
  <2>9. NotYet => NotYet'
    BY <2>2, <2>3, <2>4, <2>5 DEF NotYet, OneOf
  <2> QED
    BY <1>0, <2>1, <2>2, <2>9, KeepsFew DEF Counting
<1>20. CASE DeliverSpindleStop /\ UNCHANGED hostVars
  <2>1. UNCHANGED <<sent_commands, next_index, idle_reports, idle_timer, new_report, pc>>
    BY <1>20 DEF hostVars, engineVars, desyncVars
  <2>2. /\ wire # <<>> /\ Head(wire).k # "line" /\ wire' = Tail(wire)
        /\ UNCHANGED <<consumed, received, replies, asked>>
    BY <1>20 DEF DeliverSpindleStop, Arrives
  <2>3. /\ Idles' = Idles /\ Shift(QueryFirst, QueryFirst')
    BY <1>0, <2>2, ArrivalTakes, QueuesStay
  <2>4. Counted' = Counted
    BY <2>1 DEF Counted
  <2>5. /\ QueryFirst = {} => QueryFirst' = {}
        /\ AtMostOne(QueryFirst) => AtMostOne(QueryFirst')
    BY <2>3, ShiftKeeps
  <2>9. NotYet => NotYet'
    BY <2>2, <2>3, <2>4, <2>5 DEF NotYet, OneOf
  <2> QED
    BY <1>0, <2>1, <2>2, <2>9, KeepsFew DEF Counting
<1>21. CASE ParseMotion /\ UNCHANGED hostVars
  <2>1. UNCHANGED <<sent_commands, next_index, idle_reports, idle_timer, new_report, pc>>
    BY <1>21 DEF hostVars, engineVars, desyncVars
  <2>2. consumed' = consumed + 1
    BY <1>21 DEF ParseMotion
  <2>3. AckPoint' = AckPoint /\ Counted' = Counted
    BY <2>1 DEF AckPoint, Counted
  <2>4. consumed' # AckPoint'
    BY <1>0, <2>2, <2>3
  <2>5. ASSUME sent_commands # <<>>, pc \in {"send", "query", "spindle", "check"}
        PROVE  Counted <= 2
    <3>1. CASE consumed = AckPoint /\ pending_dwell
      BY <1>0, <1>d, <2>5, <3>1 DEF FewIdles
    <3>2. CASE consumed = AckPoint /\ ~pending_dwell
      BY <1>0, <2>5, <3>2 DEF FewIdles, NotYet
    <3>3. CASE consumed # AckPoint
      BY <1>0, <2>5, <3>3 DEF FewIdles
    <3> QED
      BY <3>1, <3>2, <3>3
  <2> QED
    BY <1>0, <2>1, <2>3, <2>4, <2>5 DEF FewIdles
<1>22. CASE BeginWait /\ UNCHANGED hostVars
  <2>1. /\ UNCHANGED <<sent_commands, next_index, consumed, received, asked>>
        /\ UNCHANGED <<idle_reports, idle_timer, new_report>>
        /\ Counting' => Counting
    BY <1>22, Zenon
       DEF BeginWait, Counting, ctlVars, hostVars, engineVars, desyncVars, jobVars,
           sessionVars
  <2>2. Idles' = Idles /\ QueryFirst' = QueryFirst
    BY <1>22, <1>0, WriteAdds, QueuesStay DEF BeginWait, ctlVars, WireKinds
  <2> QED
    BY <1>0, <2>1, <2>2, KeepsFew DEF NotYet, Counted
<1>23. CASE EndWait /\ UNCHANGED hostVars
  <2>1. UNCHANGED <<sent_commands, next_index, idle_reports, idle_timer, new_report, pc>>
    BY <1>23 DEF hostVars, engineVars, desyncVars
  <2>2. consumed' = consumed + 1
    BY <1>23 DEF EndWait
  <2>3. AckPoint' = AckPoint /\ Counted' = Counted
    BY <2>1 DEF AckPoint, Counted
  <2>4. consumed' # AckPoint'
    BY <1>0, <2>2, <2>3
  <2>5. ASSUME sent_commands # <<>>, pc \in {"send", "query", "spindle", "check"}
        PROVE  Counted <= 2
    <3>1. CASE consumed = AckPoint /\ pending_dwell
      BY <1>0, <1>d, <2>5, <3>1 DEF FewIdles
    <3>2. CASE consumed = AckPoint /\ ~pending_dwell
      BY <1>0, <2>5, <3>2 DEF FewIdles, NotYet
    <3>3. CASE consumed # AckPoint
      BY <1>0, <2>5, <3>3 DEF FewIdles
    <3> QED
      BY <3>1, <3>2, <3>3
  <2> QED
    BY <1>0, <2>1, <2>3, <2>4, <2>5 DEF FewIdles
<1>24. CASE Execute /\ UNCHANGED hostVars
  <2>1. /\ UNCHANGED <<sent_commands, next_index, consumed, received, asked>>
        /\ UNCHANGED <<idle_reports, idle_timer, new_report>>
        /\ Counting' => Counting
    BY <1>24, Zenon
       DEF Execute, Counting, ctlVars, hostVars, engineVars, desyncVars, jobVars,
           sessionVars
  <2>2. Idles' = Idles /\ QueryFirst' = QueryFirst
    BY <1>24, <1>0, WriteAdds, QueuesStay DEF Execute, ctlVars, WireKinds
  <2> QED
    BY <1>0, <2>1, <2>2, KeepsFew DEF NotYet, Counted
<1>25. CASE Report /\ UNCHANGED hostVars
  <2>1. UNCHANGED <<sent_commands, next_index, idle_reports, idle_timer, new_report, pc>>
    BY <1>25 DEF hostVars, engineVars, desyncVars
  <2>2. /\ asked /\ asked' = FALSE /\ ~CanParse /\ Emit(RunState, consumed)
        /\ UNCHANGED <<wire, consumed, received>>
    BY <1>25 DEF Report
  <2>3. /\ QueryFirst' = QueryFirst /\ Counted' = Counted
        /\ RunState # "Idle" => Idles' = Idles
        /\ RunState = "Idle" => Idles' = Idles \cup {Len(replies) + 1}
    BY <1>0, <2>1, <2>2, ReplyAdds, QueuesStay DEF Counted
  <2>4. ASSUME sent_commands # <<>>, consumed = AckPoint, ~pending_dwell, RunState = "Idle"
        PROVE  received = consumed
    <3>1. mode \notin {"Alarm", "Hold"} /\ planner = <<>>
      BY <2>4 DEF RunState
    <3>2. mode = "Normal"
      BY <1>0, <3>1 DEF TypeOK, ControllerTypeOK, ControllerDataOK
    <3>3. busy = 0
      <4> SUFFICES ASSUME busy # 0 PROVE FALSE
        OBVIOUS
      <4>1. busy = AckPoint + 1 /\ busy \in Waits
        BY <1>0, <2>4 DEF WaitsAlone, Healthy, NothingLost
      <4> QED
        BY <1>a, <2>4, <4>1 DEF Waits, pending_dwell
    <3>4. Len(planner) < PlannerCap
      BY <3>1, FirmwareAssumption
    <3>5. ~(consumed < received)
      BY <1>0, <2>2, <3>1, <3>2, <3>3, <3>4 DEF CanParse
    <3> QED
      BY <1>0, <3>5
  <2>9. sent_commands # <<>> /\ consumed = AckPoint /\ ~pending_dwell /\ NotYet => NotYet'
    <3> SUFFICES ASSUME sent_commands # <<>>, consumed = AckPoint, ~pending_dwell, NotYet
                 PROVE  NotYet'
      OBVIOUS
    <3>1. CASE RunState # "Idle"
      BY <2>2, <2>3, <3>1 DEF NotYet, OneOf
    <3>2. CASE RunState = "Idle"
      <4>1. received = consumed
        BY <2>4, <3>2
      <4>2. Counted >= 1 => Idles = {} /\ QueryFirst = {} /\ Counted # 2
        BY <2>2, <4>1 DEF NotYet, OneOf
      <4> QED
        BY <1>c, <2>2, <2>3, <3>2, <4>1, <4>2 DEF NotYet
    <3> QED
      BY <3>1, <3>2
  <2> QED
    BY <1>0, <2>1, <2>2, <2>9, KeepsFew DEF Counting
<1>26. CASE UNCHANGED vars
  <2>1. /\ UNCHANGED <<sent_commands, next_index, consumed, received, asked>>
        /\ UNCHANGED <<idle_reports, idle_timer, new_report>>
        /\ Counting' => Counting
    BY <1>26, Zenon
       DEF vars, hostVars, Counting, ctlVars, hostVars, engineVars, desyncVars, jobVars,
           sessionVars
  <2>2. Idles' = Idles /\ QueryFirst' = QueryFirst
    BY <1>26, <1>0, WriteAdds, QueuesStay DEF vars, hostVars, ctlVars, WireKinds
  <2> QED
    BY <1>0, <2>1, <2>2, KeepsFew DEF NotYet, Counted
<1> QED
  BY <1>1, <1>2, <1>3, <1>4, <1>5, <1>6, <1>7, <1>8, <1>9, <1>10, <1>11,
     <1>12, <1>13, <1>14, <1>15, <1>16, <1>17, <1>18, <1>19, <1>20,
     <1>21, <1>22, <1>23, <1>24, <1>25, <1>26, Zenon
     DEF HealthyStep, HostWorks, FirmwareWorks, Carries, Work

-----------------------------------------------------------------------------
(* A job that nothing goes wrong with.                                     *)

\* A job about to start is healthy.
LEMMA HealthInit == Init => HealthInv
<1> SUFFICES ASSUME Init PROVE HealthInv
  OBVIOUS
<1>0. /\ wire = <<>> /\ replies = <<>> /\ sent_commands = <<>> /\ next_index = 0
      /\ consumed = 0 /\ received = 0 /\ busy = 0 /\ mode = "Normal" /\ asked = FALSE
      /\ pc = "idle" /\ progress = "Preparing" /\ new_report = FALSE
      /\ idle_reports = 0 /\ idle_timer = "none" /\ poll_due = TRUE
      /\ failed = FALSE /\ alive = TRUE /\ link = TRUE /\ status_wait = "none"
  BY DEF Init, ControllerInit, AtRest, HostInit
<1>1. Queries = {} /\ Reports = {} /\ AckPoint = 0 /\ N \in Nat
  <2>1. Len(sent_commands) = 0
    BY <1>0
  <2>2. AckPoint = 0
    <3>1. next_index = 0
      BY <1>0
    <3> QED
      BY <2>1, <3>1 DEF AckPoint
  <2>3. Queries = {} /\ Reports = {}
    BY <1>0 DEF Queries, Reports
  <2> QED
    BY <2>2, <2>3, ConstantType
<1>2. Unharmed /\ Sound
  BY <1>0 DEF Unharmed, Sound
<1>3. NothingLost
  BY <1>0, <1>1 DEF NothingLost, Line
<1>4. FewReports
  BY <1>0, <1>1 DEF FewReports, AtMostOne, AtMostTwo
<1>5. FewIdles
  BY <1>0 DEF FewIdles
<1> QED
  BY <1>2, <1>3, <1>4, <1>5 DEF HealthInv

\* Faults are counted, never forgotten.
LEMMA FaultsCount ==
  TypeOK /\ [Next]_vars => faults' = faults \/ faults' = faults + 1
<1> SUFFICES ASSUME TypeOK, [Next]_vars PROVE faults' = faults \/ faults' = faults + 1
  OBVIOUS
<1>1. CASE HostNext
  BY <1>1, HostTouchesOnly DEF HostTouches
<1>2. CASE Controller
  BY <1>2, Zenon
     DEF Controller, ControllerNext, Deliver, DeliverLine, DeliverM5, DeliverQuery,
     DeliverFeedHold, DeliverCycleStart, DeliverSpindleStop, DeliverReset, DeliverToDead,
     Work, ParseMotion, BeginWait, EndWait, Execute, Report, ControllerFault, RejectLine,
     LoseOk, TripAlarm, PowerGlitch, GoSilent, Fault
<1>3. CASE UNCHANGED vars
  BY <1>3 DEF vars, ctlVars
<1> QED
  BY <1>1, <1>2, <1>3 DEF Next, HostNext

\* A job the service is done with is not touched again.
LEMMA LeftAlone ==
  ASSUME ~Attended, Unharmed, Homing = {}, faults = 0, faults' = 0, [Next]_vars
  PROVE  Unharmed' /\ ~Attended'
<1>0. /\ ~held /\ pc = "idle" /\ progress # "Preparing" /\ alive /\ link
  BY DEF Attended, Unharmed
<1>1. \A kind : ~Fault(kind)
  BY DEF Fault
<1>2. ~Start /\ ~Tick /\ ~User /\ ~HostFault /\ ~PollDue /\ ~StatusTimeout
  BY <1>0, <1>1
     DEF Start, Tick, TickBegin, Poll, PollOk, PollStatus, PollFailure, TakeReply,
     PollDone, Send, SendLine, SendDone, Finish, QueryStatus, FailSilent, SpindleStop,
     FailDesync, TickEnd, TransportError, Release, User, Pause, Resume, Cancel, Press,
     HostFault, SpoolFails, BreakLink, PollDue, StatusTimeout
<1>3. CASE DelayElapses
  BY <1>0, <1>3 DEF DelayElapses, Unharmed, Attended, ctlVars, engineVars, sessionVars
<1>4. CASE Controller
  <2>1. alive' = alive
    BY <1>1, <1>4, Zenon DEF Controller, ControllerNext, Deliver, DeliverLine, DeliverM5,
       DeliverQuery, DeliverFeedHold, DeliverCycleStart, DeliverSpindleStop, DeliverReset,
       DeliverToDead, Work, ParseMotion, BeginWait, EndWait, Execute, Report,
       ControllerFault, RejectLine, LoseOk, TripAlarm, PowerGlitch, GoSilent
  <2> QED
    BY <1>0, <1>4, <2>1
       DEF Controller, hostVars, engineVars, sessionVars, Unharmed, Attended
<1>5. CASE UNCHANGED vars
  BY <1>0, <1>5 DEF vars, ctlVars, hostVars, engineVars, sessionVars, Unharmed, Attended
<1> QED
  BY <1>2, <1>3, <1>4, <1>5 DEF Next, Clock, Finished

\* Nothing but a fault, or the service, ends a job's health.
LEMMA HealthStep ==
  ASSUME Homing = {}, IdleLimit >= 3
  PROVE  CompletionIInv /\ HealthInv /\ [Next]_vars => HealthInv'
<1> SUFFICES ASSUME CompletionIInv, HealthInv, [Next]_vars, faults' = 0
             PROVE  /\ Unharmed'
                    /\ Attended' => Sound' /\ NothingLost' /\ FewReports' /\ FewIdles'
  BY DEF HealthInv
<1>0. TypeOK /\ StreamInv /\ WaitsAlone
  BY DEF CompletionIInv, MotionInv
<1>1. faults = 0
  <2>1. faults \in Nat
    BY <1>0 DEF TypeOK, ControllerTypeOK, ControllerDataOK
  <2>2. faults' = faults \/ faults' = faults + 1
    BY <1>0, FaultsCount
  <2> QED
    BY <2>1, <2>2
<1>2. CASE Attended
  <2>1. Healthy
    BY <1>0, <1>1, <1>2 DEF Healthy, HealthInv
  <2>2. HealthyStep
    BY <2>1, OnlyHealthySteps
  <2> QED
    BY <2>1, <2>2, HealthyUnharmed, SoundStep, LostStep, ReportsStep, IdlesStep
<1>3. CASE ~Attended
  <2>1. Unharmed
    BY <1>1 DEF HealthInv
  <2> QED
    BY <1>1, <1>3, <2>1, LeftAlone
<1> QED
  BY <1>2, <1>3

\* While nothing goes wrong on its controller or its link a job does not fail,
\* whatever is delayed, paused or resumed, and however late acknowledgements and
\* reports are: a tick reads every reply before it judges a report, and a query waits
\* for an empty wire, so at most two Idle reports can precede the acknowledgement of a
\* line in flight, fewer than the limit.  A homing line is left out: the silence
\* during it may be taken for a dead controller.
THEOREM HealthyJobsNeverFail ==
  ASSUME Homing = {}, IdleLimit >= 3
  PROVE  Spec => []HealthyJobNeverFails
<1>1. HealthInv => HealthyJobNeverFails
  BY DEF HealthInv, Unharmed, HealthyJobNeverFails
<1>2. CompletionIInv /\ HealthInv /\ [Next]_vars => HealthInv'
  BY HealthStep
<1> QED
  BY <1>1, <1>2, HealthInit, CompletionIsSound, PTL DEF Spec

(***************************************************************************)
(* What FrameGate guarantees for every bed, drawing and bound.             *)
(***************************************************************************)

-----------------------------------------------------------------------------
(* A confirmation is of a frame that ran to its end.                       *)

\* What is pending belongs to the job at hand, if there is one; a cut has nothing
\* pending, because its preflight forgot what a cancelled frame had left.
PendingIsOfJob ==
  /\ op # NoOp => job = NoJob
  /\ op.part = "checked" => pending_relative_frame_confirmation = {}
  /\ job.kind = "cut" => pending_relative_frame_confirmation = {}
  /\ job.kind = "frame" => pending_relative_frame_confirmation \subseteq job.print
  /\ job # NoJob => job.kind \in {"cut", "frame"}

ConfirmedInv == PendingIsOfJob /\ ConfirmedWasTraced

LEMMA ConfirmedInit == GateInit => ConfirmedInv
  BY DEF GateInit, ConfirmedInv, PendingIsOfJob, ConfirmedWasTraced, NoOp, NoJob

\* The steps that leave the confirmations, the job and the frames that finished alone.
LEMMA ConfirmedStutter ==
  ASSUME ConfirmedInv, UNCHANGED <<op, job, confirmations, history>>
  PROVE  ConfirmedInv'
  BY DEF ConfirmedInv, PendingIsOfJob, ConfirmedWasTraced, confirmations, history

\* Dropping the session forgets both.
LEMMA ConfirmedDrop ==
  ASSUME DropStale, op' # NoOp => job' = NoJob, job' # NoJob => job'.kind \in {"cut", "frame"},
         UNCHANGED history
  PROVE  ConfirmedInv'
  BY DEF DropStale, ConfirmedInv, PendingIsOfJob, ConfirmedWasTraced, history

LEMMA ConfirmedStep == ResetAlarms /\ ConfirmedInv /\ [GateNext]_gateVars => ConfirmedInv'
<1> SUFFICES ASSUME ResetAlarms, ConfirmedInv, [GateNext]_gateVars PROVE ConfirmedInv'
  OBVIOUS
<1> USE DEF ConfirmedInv
<1>1. ASSUME NEW k \in {"frame", "start"}, NEW s \in Scopes, Request(k, s)
      PROVE  ConfirmedInv'
  BY <1>1 DEF Request, NoOp, NoJob, PendingIsOfJob, ConfirmedWasTraced, confirmations, history
<1>2. CASE Plan
  BY <1>2 DEF Plan, NoOp, NoJob, PendingIsOfJob, ConfirmedWasTraced, confirmations, history
<1>3. CASE SendFrame
  BY <1>3 DEF SendFrame, Launch, NoOp, NoJob, PendingIsOfJob, ConfirmedWasTraced, confirmations, history
<1>4. CASE Preflight
  BY <1>4 DEF Preflight, NoOp, NoJob, PendingIsOfJob, ConfirmedWasTraced, confirmations, history
<1>5. CASE SendJob
  BY <1>5 DEF SendJob, Launch, NoOp, NoJob, PendingIsOfJob, ConfirmedWasTraced, confirmations, history
<1>6. CASE SendFails
  BY <1>6, ConfirmedDrop DEF SendFails, PendingIsOfJob
<1>7. CASE TickCompleted
  BY <1>7 DEF TickCompleted, Confirm, NoJob, PendingIsOfJob, ConfirmedWasTraced, history
<1>8. CASE NextPassRefused
  BY <1>8 DEF NextPassRefused, NoJob, PendingIsOfJob, ConfirmedWasTraced, confirmations
<1>9. CASE TickFailed
  BY <1>9, ConfirmedDrop DEF TickFailed
<1>10. CASE CancelJob
  BY <1>10 DEF CancelJob, NoJob, PendingIsOfJob, ConfirmedWasTraced, confirmations, history
<1>11. CASE EmergencyStop
  <2>1. UNCHANGED confirmations
    BY <1>11 DEF EmergencyStop
  <2>2. /\ op' = IF op = NoOp THEN NoOp ELSE [op EXCEPT !.stopped = TRUE]
        /\ job' = NoJob /\ UNCHANGED history
    BY <1>11 DEF EmergencyStop
  <2> QED
    BY <2>1, <2>2 DEF NoJob, NoOp, PendingIsOfJob, ConfirmedWasTraced, confirmations, history
<1>12. CASE IdleConnectionLost
  BY <1>12, ConfirmedDrop DEF IdleConnectionLost
<1>13. CASE DisconnectBegin
  BY <1>13 DEF DisconnectBegin, PendingIsOfJob, ConfirmedWasTraced, history
<1>14. CASE DisconnectEnd
  BY <1>14 DEF DisconnectEnd, NoJob, PendingIsOfJob, ConfirmedWasTraced, confirmations, history
<1>15. CASE ConnectMachine
  BY <1>15 DEF ConnectMachine, Connected, PendingIsOfJob, ConfirmedWasTraced, history
<1>16. CASE BeginControllerConnection
  BY <1>16, ConfirmedStutter DEF BeginControllerConnection, Connected
<1>17. CASE Jog \/ Home \/ SendGcodeLine \/ Edit \/ Preview
  BY <1>17, ConfirmedStutter DEF Jog, Home, SendGcodeLine, Edit, Preview
<1>18. CASE UNCHANGED gateVars
  BY <1>18, ConfirmedStutter DEF gateVars
<1> QED
  BY <1>1, <1>2, <1>3, <1>4, <1>5, <1>6, <1>7, <1>8, <1>9, <1>10, <1>11, <1>12, <1>13,
     <1>14, <1>15, <1>16, <1>17, <1>18 DEF GateNext

\* Whatever is cancelled, stopped, refused or cut off: only a frame that went round to
\* its end is ever confirmed (tick_job, start_job_at_generation), if a stopped job leaves
\* the controller in alarm.
THEOREM ConfirmedWasTracedAlways ==
  ASSUME ResetAlarms
  PROVE  GateSpec => []ConfirmedWasTraced
<1>1. GateInit => ConfirmedInv
  BY ConfirmedInit
<1>2. ConfirmedInv /\ [GateNext]_gateVars => ConfirmedInv'
  BY ConfirmedStep
<1>3. ConfirmedInv => ConfirmedWasTraced
  BY DEF ConfirmedInv
<1> QED
  BY <1>1, <1>2, <1>3, PTL DEF GateSpec
==============================================================================
