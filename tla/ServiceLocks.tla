---------------------------- MODULE ServiceLocks ----------------------------
(***************************************************************************)
(* Threads of the service and the mutexes of ServiceContext they meet at   *)
(* (beambench-service/src/context.rs).  An operation is the sequence of    *)
(* steps a thread has yet to take; a step is the code between two          *)
(* acquisitions, and its label says which mutex it begins by acquiring.    *)
(* Everything read or written in a step is protected by a mutex the        *)
(* thread holds, so no other thread can see the middle of it.              *)
(***************************************************************************)
EXTENDS Naturals, Sequences

CONSTANTS
  Thread,     \* threads that call operations of the service
  NoThread

\* controller_connection_gate, job, active_laser_fire, session
Lock == {"gate", "job", "fire", "session"}

\* The mutex each step begins by acquiring; the other steps acquire none.
Wants ==
  [start_job |-> "job", start_fire |-> "fire", start_plan |-> "session",
   start_send |-> "session", frame_send |-> "session",
   tick_job |-> "job", tick |-> "session", drop |-> "session",
   cleanup |-> "job", recheck |-> "job", refresh |-> "session",
   cancel_job |-> "job", cancel |-> "session",
   disc_gate |-> "gate", disc_job |-> "job", disc_session |-> "session",
   disc_fire |-> "fire",
   conn_gate |-> "gate", conn_check |-> "session", conn_open |-> "session",
   stop |-> "session", stop_job |-> "job",
   fire_job |-> "job", fire_arm |-> "fire", fire_send |-> "session",
   release |-> "fire", watch |-> "fire",
   mark |-> "fire", m5 |-> "session", take |-> "fire",
   home_job |-> "job", move_fire |-> "fire", move |-> "session"]

Step == DOMAIN Wants \cup {"bump", "spawn", "vacate", "moving"}

VARIABLES
  todo,     \* the steps each thread has yet to take
  owner     \* the thread that holds each mutex across steps

lockVars == <<todo, owner>>

LocksTypeOK ==
  /\ todo \in [Thread -> Seq(Step)]
  /\ owner \in [Lock -> Thread \cup {NoThread}]

LocksInit ==
  /\ todo = [t \in Thread |-> <<>>]
  /\ owner = [l \in Lock |-> NoThread]

Resting(t) == todo[t] = <<>>
At(t, step) == todo[t] # <<>> /\ Head(todo[t]) = step
Rest(t) == Tail(todo[t])
Free(l) == owner[l] = NoThread

\* The step acquires its mutex and keeps it.
Hold(t, l) == Free(l) /\ owner' = [owner EXCEPT ![l] = t]

\* The step acquires its mutex and releases it before it ends.
Brief(l) == Free(l) /\ UNCHANGED owner

\* The step releases every mutex of the thread: its guards go out of scope.
ReleaseAll(t) ==
  owner' = [l \in Lock |-> IF owner[l] = t THEN NoThread ELSE owner[l]]

Goto(t, steps) == todo' = [todo EXCEPT ![t] = steps]
Proceed(t) == Goto(t, Rest(t))

\* The operation returns here.
Return(t) == Goto(t, <<>>) /\ ReleaseAll(t)

-----------------------------------------------------------------------------
\* The mutex a thread is blocked on.
BlockedOn(t, l) ==
  /\ todo[t] # <<>>
  /\ Head(todo[t]) \in DOMAIN Wants
  /\ Wants[Head(todo[t])] = l
  /\ ~Free(l)

\* No set of threads waits for each other: every mutex is acquired in the order
\* gate, job, fire, session.
NoCircularWait ==
  ~ \E S \in (SUBSET Thread) \ {{}} :
      \A t \in S : \E l \in Lock : BlockedOn(t, l) /\ owner[l] \in S
=============================================================================
