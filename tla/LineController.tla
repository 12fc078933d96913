-------------------------- MODULE LineController ---------------------------
(***************************************************************************)
(* A machine that answers each line with one reply, as the acknowledged    *)
(* G-code drivers see it: Marlin, Snapmaker and Smoothieware firmware and  *)
(* the serial line, external to the repository and modelled from what      *)
(* beambench-gcode, beambench-marlin and beambench-smoothieware rely on.   *)
(* Commands are acknowledged when they enter the planner, M400 only when   *)
(* the planner has emptied, and M112 halts the machine for good.           *)
(***************************************************************************)
EXTENDS Naturals, Sequences

CONSTANTS
  Dialects,         \* a subset of {"Marlin", "Snapmaker", "Smoothieware"}
  PlannerCap,       \* moves the planner holds
  Faults,           \* faults that may happen
  MaxFaults

ASSUME LineControllerAssumption ==
  /\ Dialects \subseteq {"Marlin", "Snapmaker", "Smoothieware"}
  /\ Dialects # {}
  /\ PlannerCap \in Nat \ {0}
  /\ Faults \subseteq {"lost_ok", "reject", "resend", "link"}
  /\ MaxFaults \in Nat

VARIABLES
  dialect,          \* the firmware on the other end
  to_ctl,           \* commands on their way
  from_ctl,         \* replies the host has not read
  planner,          \* commands acknowledged and not executed
  beam,             \* the laser is on between moves
  halted,           \* by M112
  link,             \* "up" or "down"
  faults

wires == <<to_ctl, from_ctl>>
machine == <<planner, beam, halted>>
ctlVars == <<dialect, to_ctl, from_ctl, planner, beam, halted, link, faults>>

\* Commands of a job: a laser-on, a move with its power, a move without one, a
\* manual fire, a laser-off, the barrier.
JobLine == {"M3", "G1", "G1bare", "fire", "M5", "M400"}
Command == JobLine \cup {"M115", "M112"}
Reply == {"info", "ok", "busy", "error", "resend"}

ControllerTypeOK ==
  /\ dialect \in Dialects
  /\ to_ctl \in Seq(Command)
  /\ from_ctl \in Seq(Reply)
  /\ planner \in Seq(JobLine)
  /\ Len(planner) <= PlannerCap
  /\ beam \in BOOLEAN /\ halted \in BOOLEAN
  /\ link \in {"up", "down"}
  /\ faults \in 0..MaxFaults

ControllerInit ==
  /\ dialect \in Dialects
  /\ to_ctl = <<>> /\ from_ctl = <<>>
  /\ planner = <<>>
  /\ beam = FALSE /\ halted = FALSE
  /\ link = "up"
  /\ faults = 0

Fault(kind) ==
  /\ kind \in Faults
  /\ faults < MaxFaults
  /\ faults' = faults + 1

-----------------------------------------------------------------------------
\* The firmware can act on the command at the head of its input.
CanTake ==
  /\ ~halted
  /\ to_ctl # <<>>
  /\ Head(to_ctl) # "M112"
  /\ Head(to_ctl) = "M400" => planner = <<>>
  /\ Head(to_ctl) \in JobLine \ {"M400"} => Len(planner) < PlannerCap

\* The effect of the command at the head, but for its reply.
Accept ==
  /\ to_ctl' = Tail(to_ctl)
  /\ planner' = IF Head(to_ctl) \in JobLine \ {"M400"}
                THEN Append(planner, Head(to_ctl)) ELSE planner
  /\ UNCHANGED <<dialect, beam, halted, link>>

Take ==
  /\ CanTake
  /\ Accept
  /\ from_ctl' = from_ctl \o
       (IF Head(to_ctl) = "M115" THEN <<"info", "ok">> ELSE <<"ok">>)
  /\ UNCHANGED faults

\* The reply is damaged on the line.
TakeLosingReply ==
  /\ CanTake
  /\ Fault("lost_ok")
  /\ Accept
  /\ UNCHANGED from_ctl

\* The firmware refuses the command, or received it damaged.
Refuse ==
  /\ CanTake
  /\ \E kind \in {"reject", "resend"} :
       /\ kind = "resend" => dialect # "Smoothieware"
       /\ Fault(kind)
       /\ from_ctl' = Append(from_ctl, IF kind = "reject" THEN "error" ELSE "resend")
  /\ to_ctl' = Tail(to_ctl)
  /\ UNCHANGED <<dialect, planner, beam, halted, link>>

\* Marlin says so every two seconds while a command waits.
SayBusy ==
  /\ dialect # "Smoothieware"
  /\ ~halted
  /\ to_ctl # <<>>
  /\ ~CanTake
  /\ from_ctl = <<>>
  /\ from_ctl' = <<"busy">>
  /\ UNCHANGED <<dialect, to_ctl, planner, beam, halted, link, faults>>

\* What leaves the laser on between moves.  Smoothieware's laser otherwise follows
\* the power of each move.
LaserOn == IF dialect = "Smoothieware" THEN "fire" ELSE "M3"

\* The planner executes its next command.
Execute ==
  /\ planner # <<>>
  /\ planner' = Tail(planner)
  /\ beam' = (Head(planner) = LaserOn \/ (beam /\ Head(planner) # "M5"))
  /\ UNCHANGED <<dialect, to_ctl, from_ctl, halted, link, faults>>

\* An emergency parser sees M112 wherever it is in the input; without one the
\* command waits for its turn.
Halt ==
  /\ ~halted
  /\ \E i \in DOMAIN to_ctl :
       /\ to_ctl[i] = "M112"
       /\ dialect = "Snapmaker" => i = 1
  /\ halted' = TRUE
  /\ planner' = <<>>
  /\ beam' = FALSE
  /\ to_ctl' = <<>>
  /\ UNCHANGED <<dialect, from_ctl, link, faults>>

BreakLink ==
  /\ link = "up"
  /\ Fault("link")
  /\ link' = "down"
  /\ UNCHANGED <<dialect, to_ctl, from_ctl, planner, beam, halted>>

ControllerStep ==
  Take \/ TakeLosingReply \/ Refuse \/ SayBusy \/ Execute \/ Halt \/ BreakLink
=============================================================================
