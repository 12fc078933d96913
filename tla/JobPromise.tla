----------------------------- MODULE JobPromise -----------------------------
(***************************************************************************)
(* What a managed job promises, whatever the controller: lines are handed  *)
(* over only while it runs, in order and at most once; motion follows the  *)
(* order they were handed over in; and the job is Completed only when the  *)
(* machine has executed every line and will move no more on its account.   *)
(***************************************************************************)
EXTENDS Naturals, Sequences

CONSTANT N

VARIABLES
  phase,    \* the JobState the user sees
  handed,   \* lines given to the controller
  done      \* lines the machine executed

vars == <<phase, handed, done>>

Active == {"Running", "Paused"}

Init ==
  /\ phase = "Preparing"
  /\ handed = 0
  /\ done = <<>>

Begin ==
  /\ phase = "Preparing"
  /\ phase' = "Running"
  /\ UNCHANGED <<handed, done>>

HandOver ==
  /\ phase = "Running"
  /\ handed < N
  /\ handed' = handed + 1
  /\ UNCHANGED <<phase, done>>

\* A restart of the controller may skip lines; nothing is executed twice.
Move ==
  /\ phase # "Completed"
  /\ \E i \in 1..handed :
       /\ \A p \in DOMAIN done : done[p] < i
       /\ done' = Append(done, i)
  /\ UNCHANGED <<phase, handed>>

PauseOrResume ==
  /\ phase \in Active
  /\ phase' \in Active
  /\ UNCHANGED <<handed, done>>

Complete ==
  /\ phase \in Active
  /\ done = [i \in 1..N |-> i]
  /\ phase' = "Completed"
  /\ UNCHANGED <<handed, done>>

FailJob ==
  /\ phase \in Active
  /\ phase' = "Failed"
  /\ UNCHANGED <<handed, done>>

CancelJob ==
  /\ phase \in Active \cup {"Failed"}
  /\ phase' = "Cancelled"
  /\ UNCHANGED <<handed, done>>

Next == Begin \/ HandOver \/ Move \/ PauseOrResume \/ Complete \/ FailJob \/ CancelJob

Spec == Init /\ [][Next]_vars
=============================================================================
