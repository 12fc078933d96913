--------------------------- MODULE GrblController ---------------------------
(***************************************************************************)
(* The firmware at the other end of the serial line, as the streamer       *)
(* (crates/beambench-streamer) and the session (crates/beambench-grbl)     *)
(* use it.  It is not code of this repository: it is what engine.rs,       *)
(* job.rs and session.rs rely on, and the faults they handle.              *)
(*                                                                         *)
(* Lines of the job are numbered 1..N in stream order.  The wire carries   *)
(* them, and the real-time bytes, first in first out.  A line waits in the *)
(* receive buffer until the parser consumes it; only then is `ok' sent,    *)
(* when its motion has merely entered the planner.                         *)
(***************************************************************************)
EXTENDS Integers, Sequences, FiniteSets

CONSTANTS
  N,            \* number of lines of the job
  Offset,       \* Offset[i]: bytes of the first i lines, newlines included
  AirAssist,    \* lines with a coolant word (M7, M8, M9)
  Dwell,        \* lines that are a G4 delay
  Homing,       \* lines that are a `$H' homing cycle
  RxSize,       \* bytes the firmware's receive buffer really holds
  PlannerCap,   \* motions the planner holds
  SpindleMode,  \* $32 = 0: a feed hold leaves the output on
  Faults,       \* the faults of this run
  MaxFaults     \* bound: how many of them happen

ASSUME JobAssumption ==
  /\ N \in Nat \ {0}
  /\ Offset \in [0..N -> Nat]
  /\ Offset[0] = 0
  /\ \A i \in 1..N : Offset[i - 1] < Offset[i]
  /\ \A i, j \in 0..N : i <= j => Offset[i] <= Offset[j]
  /\ AirAssist \subseteq 1..N
  /\ Dwell \subseteq 1..N
  /\ Homing \subseteq 1..N

ASSUME FirmwareAssumption ==
  /\ RxSize \in Nat
  /\ PlannerCap \in Nat \ {0}
  /\ SpindleMode \in BOOLEAN
  /\ MaxFaults \in Nat

Line == 1..N
Size(i) == Offset[i] - Offset[i - 1]

\* What the host writes: a job line, the M5 of a stop, or a real-time byte.
\* n is the number of job lines written so far.
WireKinds == {"line", "m5", "?", "!", "~", "spindle_stop", "ctrl-x"}
Written == [k : WireKinds, n : 0..N]

\* What comes back: n is the number of job lines consumed so far.  A status
\* report is named by its run state; HoldDark is a Hold whose output is off.
StatusReports == {"Idle", "Run", "Hold", "HoldDark", "Alarm"}
ReplyKinds == {"ok", "error", "ALARM", "banner"} \cup StatusReports
Reply == [k : ReplyKinds, n : 0..N]

VARIABLES
  wire,       \* bytes on their way to the controller
  replies,    \* lines on their way to the host
  received,   \* job lines that reached the receive buffer
  consumed,   \* job lines the parser took out of it, or a reset discarded
  planner,    \* lines whose motion is planned and not yet executed
  executed,   \* lines whose motion was executed, in order
  mode,       \* "Normal", "Hold" or "Alarm"
  busy,       \* the delay or homing line the parser waits on, 0 if none
  asked,      \* a status query waits for its report
  dark,       \* a spindle stop override is in force
  alive,      \* the firmware still runs
  faults      \* faults so far

ctlVars == <<wire, replies, received, consumed, planner, executed, mode, busy,
             asked, dark, alive, faults>>

ControllerDataOK ==
  /\ wire \in Seq(Written)
  /\ replies \in Seq(Reply)
  /\ received \in 0..N
  /\ consumed \in 0..N
  /\ planner \in Seq(Line)
  /\ executed \in Seq(Line)
  /\ mode \in {"Normal", "Hold", "Alarm"}
  /\ busy \in 0..N
  /\ faults \in 0..MaxFaults

ControllerFlagsOK ==
  /\ asked \in BOOLEAN
  /\ dark \in BOOLEAN
  /\ alive \in BOOLEAN

ControllerTypeOK == ControllerDataOK /\ ControllerFlagsOK

\* A controller that is connected, idle and unlocked.
AtRest ==
  /\ wire = <<>>
  /\ received = 0
  /\ consumed = 0
  /\ planner = <<>>
  /\ executed = <<>>
  /\ mode = "Normal"
  /\ busy = 0
  /\ asked = FALSE
  /\ dark = FALSE
  /\ alive = TRUE
  /\ faults = 0

ControllerInit == AtRest /\ replies = <<>>

\* Bytes of job lines in the receive buffer.
RxBytes == Offset[received] - Offset[consumed]

RunState ==
  IF mode = "Alarm" THEN "Alarm"
  ELSE IF mode = "Hold" THEN IF SpindleMode /\ ~dark THEN "Hold" ELSE "HoldDark"
  ELSE IF planner # <<>> THEN "Run"
  ELSE "Idle"

Emit(kind, n) == replies' = Append(replies, [k |-> kind, n |-> n])

-----------------------------------------------------------------------------
(* The wire delivers its oldest item.                                      *)

Arrives(kind) == wire # <<>> /\ Head(wire).k = kind /\ wire' = Tail(wire)

DeliverLine ==
  /\ alive
  /\ Arrives("line")
  /\ received' = Head(wire).n
  /\ UNCHANGED <<replies, consumed, planner, executed, mode, busy, asked, dark,
                 alive, faults>>

\* The M5 that follows a reset finds an empty receive buffer.
DeliverM5 ==
  /\ alive
  /\ Arrives("m5")
  /\ Emit("ok", consumed)
  /\ UNCHANGED <<received, consumed, planner, executed, mode, busy, asked, dark,
                 alive, faults>>

DeliverQuery ==
  /\ alive
  /\ Arrives("?")
  /\ asked' = TRUE
  /\ UNCHANGED <<replies, received, consumed, planner, executed, mode, busy,
                 dark, alive, faults>>

DeliverFeedHold ==
  /\ alive
  /\ Arrives("!")
  /\ mode' = IF mode = "Normal" THEN "Hold" ELSE mode
  /\ UNCHANGED <<replies, received, consumed, planner, executed, busy, asked,
                 dark, alive, faults>>

DeliverCycleStart ==
  /\ alive
  /\ Arrives("~")
  /\ mode' = IF mode = "Hold" THEN "Normal" ELSE mode
  /\ dark' = FALSE
  /\ UNCHANGED <<replies, received, consumed, planner, executed, busy, asked,
                 alive, faults>>

\* The spindle stop override is a toggle, honoured only in Hold.
DeliverSpindleStop ==
  /\ alive
  /\ Arrives("spindle_stop")
  /\ dark' = IF mode = "Hold" THEN ~dark ELSE dark
  /\ UNCHANGED <<replies, received, consumed, planner, executed, mode, busy,
                 asked, alive, faults>>

\* A restart forgets the receive buffer and the planned motion; one that
\* interrupts motion may leave the firmware locked in Alarm.
Restarted ==
  /\ consumed' = received
  /\ planner' = <<>>
  /\ busy' = 0
  /\ asked' = FALSE
  /\ dark' = FALSE
  /\ mode' \in IF planner = <<>> /\ busy = 0 THEN {"Normal"}
               ELSE {"Normal", "Alarm"}
  /\ Emit("banner", received)

DeliverReset ==
  /\ alive
  /\ Arrives("ctrl-x")
  /\ Restarted
  /\ UNCHANGED <<received, executed, alive, faults>>

\* Nobody reads the wire of a firmware that stopped.
DeliverToDead ==
  /\ ~alive
  /\ wire # <<>>
  /\ wire' = Tail(wire)
  /\ UNCHANGED <<replies, received, consumed, planner, executed, mode, busy,
                 asked, dark, alive, faults>>

Deliver ==
  \/ DeliverLine \/ DeliverM5 \/ DeliverQuery \/ DeliverFeedHold
  \/ DeliverCycleStart \/ DeliverSpindleStop \/ DeliverReset \/ DeliverToDead

-----------------------------------------------------------------------------
(* The firmware's main loop.                                               *)

Waits == Dwell \cup Homing

CanParse ==
  /\ alive
  /\ mode = "Normal"
  /\ busy = 0
  /\ consumed < received
  /\ IF consumed + 1 \in Waits \cup AirAssist THEN planner = <<>>
     ELSE Len(planner) < PlannerCap

\* A motion enters the planner and is acknowledged before it is executed.
ParseMotion ==
  /\ CanParse
  /\ consumed + 1 \notin Waits
  /\ consumed' = consumed + 1
  /\ planner' = Append(planner, consumed + 1)
  /\ Emit("ok", consumed + 1)
  /\ UNCHANGED <<wire, received, executed, mode, busy, asked, dark, alive,
                 faults>>

\* A delay or a homing cycle holds its acknowledgement until it has ended.
BeginWait ==
  /\ CanParse
  /\ consumed + 1 \in Waits
  /\ busy' = consumed + 1
  /\ UNCHANGED <<wire, replies, received, consumed, planner, executed, mode,
                 asked, dark, alive, faults>>

EndWait ==
  /\ alive
  /\ mode = "Normal"
  /\ busy # 0
  /\ consumed < received
  /\ consumed' = consumed + 1
  /\ executed' = Append(executed, busy)
  /\ busy' = 0
  /\ Emit("ok", consumed + 1)
  /\ UNCHANGED <<wire, received, planner, mode, asked, dark, alive, faults>>

Execute ==
  /\ alive
  /\ mode = "Normal"
  /\ planner # <<>>
  /\ planner' = Tail(planner)
  /\ executed' = Append(executed, Head(planner))
  /\ UNCHANGED <<wire, replies, received, consumed, mode, busy, asked, dark,
                 alive, faults>>

\* Some firmware answers no query while it homes.  A complete line is parsed
\* before the main loop looks at the query again.
Report ==
  /\ alive
  /\ asked
  /\ busy \notin Homing
  /\ ~CanParse
  /\ asked' = FALSE
  /\ Emit(RunState, consumed)
  /\ UNCHANGED <<wire, received, consumed, planner, executed, mode, busy, dark,
                 alive, faults>>

Work == ParseMotion \/ BeginWait \/ EndWait \/ Execute

-----------------------------------------------------------------------------
(* What goes wrong on this side of the line.                               *)

Fault(kind) ==
  /\ kind \in Faults
  /\ faults < MaxFaults
  /\ faults' = faults + 1

RejectLine ==
  /\ Fault("reject")
  /\ CanParse
  /\ consumed' = consumed + 1
  /\ Emit("error", consumed + 1)
  /\ UNCHANGED <<wire, received, planner, executed, mode, busy, asked, dark,
                 alive>>

LoseOk ==
  /\ Fault("lost_ok")
  /\ replies # <<>>
  /\ Head(replies).k = "ok"
  /\ replies' = Tail(replies)
  /\ UNCHANGED <<wire, received, consumed, planner, executed, mode, busy, asked,
                 dark, alive>>

TripAlarm ==
  /\ Fault("alarm")
  /\ alive
  /\ mode' = "Alarm"
  /\ planner' = <<>>
  /\ busy' = 0
  /\ Emit("ALARM", consumed)
  /\ UNCHANGED <<wire, received, consumed, executed, asked, dark, alive>>

PowerGlitch ==
  /\ Fault("restart")
  /\ alive
  /\ Restarted
  /\ UNCHANGED <<wire, received, executed, alive>>

GoSilent ==
  /\ Fault("silent")
  /\ alive
  /\ alive' = FALSE
  /\ UNCHANGED <<wire, replies, received, consumed, planner, executed, mode,
                 busy, asked, dark>>

ControllerFault ==
  RejectLine \/ LoseOk \/ TripAlarm \/ PowerGlitch \/ GoSilent

ControllerNext == Deliver \/ Work \/ Report \/ ControllerFault
=============================================================================
