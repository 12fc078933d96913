--------------------------- MODULE MachineService ---------------------------
(***************************************************************************)
(* The operations of beambench-service/src/ops/machine.rs that start, run  *)
(* and stop a job on a GRBL machine, between every two acquisitions of a   *)
(* mutex: start, frame, the tick loop, status, cancel, connect,            *)
(* disconnect, Emergency Stop, home and jog, with test fire (LaserFire).   *)
(***************************************************************************)
EXTENDS LaserFire

\* The steps of each operation, in order.
Program ==
  [start |-> <<"mark", "start_job", "start_fire", "start_plan", "start_send">>,
   frame |-> <<"mark", "start_job", "frame_send">>,
   status |-> <<"tick_job", "tick", "refresh", "moving">>,
   cancel |-> <<"cancel_job", "cancel">>,
   connect |-> <<"conn_gate", "conn_check", "conn_open">>,
   disconnect |-> <<"disc_gate", "mark", "disc_job", "disc_session", "disc_fire">>,
   estop |-> <<"bump", "mark", "stop", "stop_job">>,
   fire |-> <<"fire_job", "fire_arm", "fire_send">>,
   release |-> <<"release">>,
   home |-> <<"home_job", "move_fire", "move">>,
   jog |-> <<"move_fire", "move">>]

ASSUME OpsAssumption == Ops \subseteq DOMAIN Program

\* Start and frame note the Emergency Stops there were when they were asked for.
Call(t, op) ==
  /\ Resting(t)
  /\ calls < MaxCalls
  /\ calls' = calls + 1
  /\ Goto(t, Program[op])
  /\ saved' = [saved EXCEPT ![t] =
       [NothingSaved EXCEPT !.generation =
          IF op \in {"start", "frame"} THEN emergency_stop_generation ELSE 0]]
  /\ UNCHANGED <<owner, fireVars, jobVars, sessionVars, stopVars,
                 job_tick_loop_running, faults>>

-----------------------------------------------------------------------------
(* start_job_at_generation and start_frame_with_policy                     *)

StartJob(t) ==
  /\ At(t, "start_job")
  /\ Free("job")
  /\ IF job # "none" THEN Return(t) ELSE Hold(t, "job") /\ Proceed(t)
  /\ UNCHANGED contextVars

\* Mutated: the fire is not looked at again once the job mutex is held.
BugNoFireRecheck(t) ==
  /\ At(t, "start_fire")
  /\ Brief("fire")
  /\ Proceed(t)
  /\ UNCHANGED contextVars

StartFire(t) ==
  /\ At(t, "start_fire")
  /\ Free("fire")
  /\ IF fire # 0 THEN Return(t) ELSE UNCHANGED owner /\ Proceed(t)
  /\ UNCHANGED contextVars

StopPressed(t) == emergency_stop_generation # saved[t].generation

\* Preflight, and what the output depends on; it is then compiled without the
\* session mutex.
StartPlan(t) ==
  /\ At(t, "start_plan")
  /\ Free("session")
  /\ IF StopPressed(t) \/ session # "Ready"
     THEN Return(t) /\ UNCHANGED saved
     ELSE /\ saved' = [saved EXCEPT ![t].epoch = session_epoch]
          /\ UNCHANGED owner
          /\ Proceed(t)
  /\ UNCHANGED <<fireVars, jobVars, sessionVars, stopVars,
                 job_tick_loop_running, budgetVars>>

Sending(t) == At(t, "start_send") \/ At(t, "frame_send")

\* Mutated: the stops and the connection are not checked again before sending.
BugNotRechecked(t) == session = "none"

\* Nothing is sent: an Emergency Stop or another connection came in between.
MustNotSend(t) ==
  \/ StopPressed(t)
  \/ At(t, "start_send") /\ session_epoch # saved[t].epoch
  \/ session = "none"

StartRefused(t) ==
  /\ Sending(t)
  /\ Free("session")
  /\ MustNotSend(t)
  /\ Return(t)
  /\ UNCHANGED contextVars

\* The session states from which a job can start to run.
CanRun == session \in {"Ready", "Running"}

StartSend(t) ==
  /\ Sending(t)
  /\ Free("session")
  /\ ~MustNotSend(t)
  /\ CanRun
  /\ job' = IF At(t, "start_send") THEN "cut" ELSE "frame"
  /\ \E again \in IF At(t, "start_send") THEN {FALSE} ELSE BOOLEAN :
       resources' = [estop_generation |-> saved[t].generation, held |-> TRUE,
                     is_frame |-> At(t, "frame_send"), repeat |-> again]
  /\ session' = "Running"
  /\ streaming' = TRUE
  /\ begun' = begun + 1
  /\ Goto(t, <<"spawn">>)
  /\ ReleaseAll(t)
  /\ UNCHANGED <<fireVars, session_epoch, stopVars, job_tick_loop_running,
                 saved, budgetVars>>

\* The session cannot run, or a write fails: part of the first lines may have
\* been sent, and the session is stopped and dropped.
StartFails(t) ==
  /\ Sending(t)
  /\ Free("session")
  /\ ~MustNotSend(t)
  /\ \E ok \in BOOLEAN :
       /\ Write(ok)
       /\ CanRun => ~ok
       /\ streaming' = (streaming \/ ~ok)
  /\ Goto(t, <<"drop">>)
  /\ ReleaseAll(t)
  /\ UNCHANGED <<job, resources, begun, fireVars, sessionVars, stopVars,
                 job_tick_loop_running, saved, calls>>

-----------------------------------------------------------------------------
(* tick_job, from the tick loop or from runtime_state, and the loop.       *)

TickJob(t) ==
  /\ At(t, "tick_job")
  /\ Hold(t, "job")
  /\ Proceed(t)
  /\ UNCHANGED contextVars

\* What follows a tick: the loop ticks on while the job is active, and a status
\* request refreshes the session only when it is not.
AfterTick(t, active) ==
  IF t \in Loop
  THEN IF active THEN <<"tick_job", "tick">> ELSE <<"vacate", "recheck">>
  ELSE IF active THEN Tail(Rest(t)) ELSE Rest(t)

Ticking(t) == At(t, "tick") /\ Free("session") /\ ReleaseAll(t)

TickNothing(t) ==
  /\ Ticking(t)
  /\ job = "none"
  /\ Goto(t, AfterTick(t, FALSE))
  /\ UNCHANGED contextVars

\* The job goes on; without a session it only reports its progress, which ends
\* a job that was completed (see TickFatal).
TickOn(t) ==
  /\ Ticking(t)
  /\ job # "none"
  /\ \/ Goto(t, AfterTick(t, TRUE)) /\ UNCHANGED <<job, resources>>
     \/ /\ job = "frame" /\ ~resources.repeat /\ session = "none"
        /\ ClearJob
        /\ Goto(t, AfterTick(t, FALSE))
  /\ UNCHANGED <<streaming, begun, fireVars, sessionVars, stopVars,
                 job_tick_loop_running, saved, budgetVars>>

Repeats ==
  resources.repeat /\ emergency_stop_generation = resources.estop_generation

\* So ends, too, a frame whose next pass cannot be prepared (counted as a fault).
TickCompletes(t) ==
  /\ Ticking(t)
  /\ job # "none" /\ session # "none"
  /\ Write(~Repeats)
  /\ ClearJob
  /\ session' = "Ready"
  /\ streaming' = FALSE
  /\ Goto(t, AfterTick(t, FALSE))
  /\ UNCHANGED <<begun, fireVars, session_epoch, stopVars,
                 job_tick_loop_running, saved, calls>>

\* A continuous frame completes a pass and begins the next.
TickRepeats(t) ==
  /\ Ticking(t)
  /\ job # "none" /\ session # "none"
  /\ Repeats
  /\ begun <= MaxCalls
  /\ begun' = begun + 1
  /\ session' = "Running"
  /\ streaming' = TRUE
  /\ Goto(t, AfterTick(t, TRUE))
  /\ UNCHANGED <<job, resources, fireVars, session_epoch, stopVars,
                 job_tick_loop_running, saved, budgetVars>>

\* The job failed (a rejected line, an alarm, a silent controller): it is over
\* before the mutexes are released, and the session is dropped after.
TickFails(t) ==
  /\ Ticking(t)
  /\ job # "none" /\ session # "none"
  /\ faults < MaxFaults
  /\ faults' = faults + 1
  /\ ClearJob
  /\ Goto(t, (IF session = "Running" THEN <<"drop">> ELSE <<>>)
               \o AfterTick(t, FALSE))
  /\ UNCHANGED <<streaming, begun, fireVars, sessionVars, stopVars,
                 job_tick_loop_running, saved, calls>>

\* Any other error: the session is dropped first, then the job.  A next pass
\* that was sent in part and failed leaves the completed one until then.
TickFatal(t) ==
  /\ Ticking(t)
  /\ job # "none" /\ session # "none"
  /\ faults < MaxFaults
  /\ faults' = faults + 1
  /\ \/ UNCHANGED <<resources, session, streaming>>
     \/ /\ Repeats
        /\ resources' = [resources EXCEPT !.repeat = FALSE]
        /\ session' = "Running"
        /\ streaming' = TRUE
  /\ Goto(t, <<"drop", "cleanup">> \o AfterTick(t, FALSE))
  /\ UNCHANGED <<job, begun, fireVars, session_epoch, stopVars,
                 job_tick_loop_running, saved, calls>>

\* drop_stale_machine_session: whatever session is there by now.
Drop(t) ==
  /\ At(t, "drop")
  /\ Brief("session")
  /\ IF session = "none" THEN UNCHANGED <<beam, streaming, faults>>
     ELSE \E ok \in BOOLEAN :
            /\ Write(ok)
            /\ IF ok THEN Reset ELSE UNCHANGED <<beam, streaming>>
  /\ session' = "none"
  /\ Proceed(t)
  /\ UNCHANGED <<fire, token, fires, job, resources, begun, session_epoch,
                 stopVars, job_tick_loop_running, saved, calls>>

\* handle_fatal_job_tick_error drops whatever job is there by now.
Cleanup(t) ==
  /\ At(t, "cleanup")
  /\ Brief("job")
  /\ ClearJob
  /\ Proceed(t)
  /\ UNCHANGED <<streaming, begun, fireVars, sessionVars, stopVars,
                 job_tick_loop_running, saved, budgetVars>>

\* spawn_job_tick_loop; a loop that ends may become the next one.
Spawn(t) ==
  /\ At(t, "spawn")
  /\ IF job_tick_loop_running THEN Proceed(t) /\ UNCHANGED job_tick_loop_running
     ELSE /\ job_tick_loop_running' = TRUE
          /\ \E l \in Loop :
               /\ IF t \in Loop THEN l = t ELSE Resting(l)
               /\ todo' = [[todo EXCEPT ![t] = Rest(t)]
                             EXCEPT ![l] = <<"tick_job", "tick">>]
  /\ UNCHANGED <<owner, fireVars, jobVars, sessionVars, stopVars, saved,
                 budgetVars>>

\* finish_job_tick_loop
Vacate(t) ==
  /\ At(t, "vacate")
  /\ job_tick_loop_running' = FALSE
  /\ Proceed(t)
  /\ UNCHANGED <<owner, fireVars, jobVars, sessionVars, stopVars, saved,
                 budgetVars>>

\* Mutated: the loop ends without looking for a replacement job.
BugNoRecheck(t) ==
  /\ At(t, "recheck")
  /\ Brief("job")
  /\ Goto(t, <<>>)
  /\ UNCHANGED contextVars

Recheck(t) ==
  /\ At(t, "recheck")
  /\ Brief("job")
  /\ Goto(t, IF job # "none" THEN <<"spawn">> ELSE <<>>)
  /\ UNCHANGED contextVars

-----------------------------------------------------------------------------
(* runtime_state and machine_status, after their tick.                     *)

\* Refresh the session health; a lost connection is dropped, and an idle
\* controller that is validated is Ready.
Refresh(t) ==
  /\ At(t, "refresh")
  /\ Brief("session")
  /\ \E ok \in BOOLEAN :
       /\ Write(ok)
       /\ session = "none" => ok
       /\ session' \in IF ok /\ session = "Validating" THEN {session, "Ready"}
                      ELSE {session}
       /\ Goto(t, IF ~ok THEN <<"drop">> ELSE IF session = "none" THEN <<>> ELSE Rest(t))
  /\ UNCHANGED <<fireVars, jobVars, session_epoch, stopVars,
                 job_tick_loop_running, saved, calls>>

\* A machine that is not idle has its test fire stopped.
Moving(t) ==
  /\ At(t, "moving")
  /\ Goto(t, <<>>) \/ Goto(t, <<"mark">>)
  /\ UNCHANGED <<owner, contextVars>>

-----------------------------------------------------------------------------
(* cancel_job                                                              *)

CancelJob(t) ==
  /\ At(t, "cancel_job")
  /\ Hold(t, "job")
  /\ resources' = [resources EXCEPT !.repeat = FALSE]
  /\ Proceed(t)
  /\ UNCHANGED <<fireVars, job, streaming, begun, sessionVars, stopVars,
                 job_tick_loop_running, saved, budgetVars>>

\* A cancel whose reset cannot be written leaves the job in place.
CancelSession(t) ==
  /\ At(t, "cancel")
  /\ Free("session")
  /\ Return(t)
  /\ IF job = "none" THEN UNCHANGED <<beam, jobVars, session, faults>>
     ELSE IF session = "none" THEN /\ ClearJob
                                   /\ UNCHANGED <<beam, streaming, begun, session, faults>>
     ELSE \E ok \in BOOLEAN :
            /\ Write(ok)
            /\ UNCHANGED begun
            /\ IF ok THEN ClearJob /\ Reset /\ session' = "Validating"
               ELSE UNCHANGED <<job, resources, beam, streaming, session>>
  /\ UNCHANGED <<fire, token, fires, session_epoch, stopVars,
                 job_tick_loop_running, saved, calls>>

-----------------------------------------------------------------------------
(* connect_machine and register_machine_session                            *)

Gate(t) ==
  /\ At(t, "conn_gate") \/ At(t, "disc_gate")
  /\ Hold(t, "gate")
  /\ Proceed(t)
  /\ UNCHANGED contextVars

ConnectCheck(t) ==
  /\ At(t, "conn_check")
  /\ Free("session")
  /\ IF session # "none" THEN Return(t) ELSE UNCHANGED owner /\ Proceed(t)
  /\ UNCHANGED contextVars

\* The handshake is over; the profile may ask to home.
ConnectOpen(t) ==
  /\ At(t, "conn_open")
  /\ Free("session")
  /\ session' = "Ready"
  /\ session_epoch' = session_epoch + 1
  /\ \/ Return(t)
     \/ UNCHANGED owner /\ Goto(t, Program["home"])
  /\ UNCHANGED <<fireVars, jobVars, stopVars, job_tick_loop_running, saved,
                 budgetVars>>

-----------------------------------------------------------------------------
(* disconnect_machine                                                      *)

DisconnectJob(t) ==
  /\ At(t, "disc_job")
  /\ Hold(t, "job")
  /\ Proceed(t)
  /\ UNCHANGED contextVars

\* Stops an active job, and a fire whose M5 failed.
DisconnectSession(t) ==
  /\ At(t, "disc_session")
  /\ Hold(t, "session")
  /\ IF session # "none" /\ (job # "none" \/ saved[t].fire_stop_failed)
     THEN \E ok \in BOOLEAN :
            /\ Write(ok)
            /\ IF ok THEN Reset ELSE UNCHANGED <<beam, streaming>>
     ELSE UNCHANGED <<beam, streaming, faults>>
  /\ Proceed(t)
  /\ UNCHANGED <<fire, token, fires, job, resources, begun, sessionVars,
                 stopVars, job_tick_loop_running, saved, calls>>

\* The fire state is taken with the session mutex held; then the port is closed
\* and the job dropped.
DisconnectFire(t) ==
  /\ At(t, "disc_fire")
  /\ Free("fire")
  /\ fire' = 0
  /\ session' = "none"
  /\ ClearJob
  /\ Return(t)
  /\ UNCHANGED <<token, beam, fires, streaming, begun, session_epoch, stopVars,
                 job_tick_loop_running, saved, budgetVars>>

-----------------------------------------------------------------------------
(* emergency_stop                                                          *)

Bump(t) ==
  /\ At(t, "bump")
  /\ emergency_stop_generation' = emergency_stop_generation + 1
  /\ Proceed(t)
  /\ UNCHANGED <<owner, fireVars, jobVars, sessionVars, delivered,
                 job_tick_loop_running, saved, budgetVars>>

\* Mutated: the session mutex is kept while the job mutex is acquired.
BugStopNested(t) ==
  /\ At(t, "stop")
  /\ Hold(t, "session")
  /\ session # "none"
  /\ Reset
  /\ delivered' = emergency_stop_generation
  /\ Proceed(t)
  /\ UNCHANGED <<fire, token, fires, job, resources, begun, sessionVars, faults,
                 emergency_stop_generation, job_tick_loop_running, saved, calls>>

\* A stop that cannot be confirmed drops the session, and so does one that was
\* confirmed only after the port was opened again.
Stop(t) ==
  /\ At(t, "stop")
  /\ Brief("session")
  /\ IF session = "none"
     THEN Goto(t, <<>>) /\ UNCHANGED <<beam, streaming, session, delivered, faults>>
     ELSE \E ok \in BOOLEAN :
            /\ Write(ok)
            /\ Proceed(t)
            /\ IF ok THEN /\ Reset
                          /\ session' = "Validating"
                          /\ delivered' = emergency_stop_generation
               ELSE /\ session' = "none"
                    /\ \/ UNCHANGED <<beam, streaming, delivered>>
                       \/ Reset /\ delivered' = emergency_stop_generation
  /\ UNCHANGED <<fire, token, fires, job, resources, begun, session_epoch,
                 emergency_stop_generation, job_tick_loop_running, saved, calls>>

\* Whatever job is there by now is dropped.
StopJob(t) ==
  /\ At(t, "stop_job")
  /\ Brief("job")
  /\ ClearJob
  /\ Proceed(t)
  /\ UNCHANGED <<fireVars, streaming, begun, sessionVars, stopVars,
                 job_tick_loop_running, saved, budgetVars>>

-----------------------------------------------------------------------------
(* home and jog                                                            *)

HomeJob(t) ==
  /\ At(t, "home_job")
  /\ Free("job")
  /\ IF job # "none" THEN Return(t) ELSE Hold(t, "job") /\ Proceed(t)
  /\ UNCHANGED contextVars

\* refuse_motion_during_test_fire keeps its guard through motion dispatch.
MoveFire(t) ==
  /\ At(t, "move_fire")
  /\ Free("fire")
  /\ IF fire # 0 THEN Return(t) ELSE Hold(t, "fire") /\ Proceed(t)
  /\ UNCHANGED contextVars

Move(t) ==
  /\ At(t, "move")
  /\ Free("session")
  /\ Return(t)
  /\ UNCHANGED contextVars

-----------------------------------------------------------------------------
JobStep(t) ==
  \/ StartJob(t) \/ StartFire(t) \/ StartPlan(t) \/ StartRefused(t)
  \/ StartSend(t) \/ StartFails(t) \/ CancelJob(t) \/ CancelSession(t)

TickStep(t) ==
  \/ TickJob(t) \/ TickNothing(t) \/ TickOn(t) \/ TickCompletes(t)
  \/ TickRepeats(t) \/ TickFails(t) \/ TickFatal(t) \/ Drop(t) \/ Cleanup(t)
  \/ Spawn(t) \/ Vacate(t) \/ Recheck(t)

SessionStep(t) ==
  \/ Refresh(t) \/ Moving(t) \/ Gate(t) \/ ConnectCheck(t) \/ ConnectOpen(t)
  \/ DisconnectJob(t) \/ DisconnectSession(t) \/ DisconnectFire(t)
  \/ Bump(t) \/ Stop(t) \/ StopJob(t)
  \/ HomeJob(t) \/ MoveFire(t) \/ Move(t)

Calls == \E t \in User : \E op \in Ops : Call(t, op)
Jobs == \E t \in User : JobStep(t)
Ticks == \E t \in User \cup Loop : TickStep(t)
Sessions == \E t \in User : SessionStep(t)
Fires == \E t \in User \cup Deadman : FireStep(t)
Watches == \E d \in Deadman : Watch(d)

\* Nobody calls any more and every operation has returned.
Quiescent ==
  /\ calls = MaxCalls
  /\ \A t \in Thread : Resting(t)
  /\ UNCHANGED vars

Next == Calls \/ Jobs \/ Ticks \/ Sessions \/ Fires \/ Watches \/ Quiescent

Spec == Init /\ [][Next]_vars

-----------------------------------------------------------------------------
(* Properties.                                                             *)

\* Outside the operations that hold the job mutex, the resources of a job (sleep
\* protection, repeat, its stop generation) are there exactly as long as it is.
ResourcesFollowJob ==
  Free("job") => /\ resources.held <=> job # "none"
                 /\ resources.is_frame <=> job = "frame"

\* A cutting job and an armed test fire exclude each other, so no deadman writes
\* M5 into a job.
JobExcludesFire == job = "cut" => fire = 0

\* Frames included: motion is refused until the fire button is released.
MotionExcludesFire == job # "none" => fire = 0

\* A job is driven: the tick loop runs, or some thread is about to start it.
JobIsDriven ==
  job # "none" =>
    \/ job_tick_loop_running
    \/ \E t \in Thread : At(t, "spawn")
    \/ \E t \in Loop : At(t, "recheck")

\* A job or pass prepared before an Emergency Stop is never started after its
\* reset, and a job is started only on the connection it was compiled for.
PreparedJobIsCurrent ==
  [][begun' # begun =>
       /\ delivered <= resources'.estop_generation
       /\ \A t \in User :
            At(t, "start_send") /\ job # job' /\ todo'[t] # todo[t]
              => session_epoch = saved[t].epoch]_vars

\* While there is a job, only its tick reads what the controller sends: a status
\* request that found none must not read the acknowledgements of one that began
\* since.
OnlyTicksRead ==
  [][\A t \in User :
       At(t, "refresh") /\ todo'[t] # todo[t] /\ session # "none"
         => job = "none"]_vars

\* Lines in the controller belong to a job the service tracks.
StartedJobIsTracked == Free("job") /\ streaming => job # "none"
=============================================================================
