----------------------------- MODULE LaserFire -----------------------------
(***************************************************************************)
(* Test fire: laser_fire_start, laser_fire_stop, the deadman thread and    *)
(* force_laser_fire_stop (beambench-service/src/ops/machine.rs).  The      *)
(* armed state and the beam are changed under different mutexes.           *)
(***************************************************************************)
EXTENDS ServiceContext

UNCHANGEDButFire ==
  UNCHANGED <<jobVars, sessionVars, stopVars, job_tick_loop_running, calls>>

(* force_laser_fire_stop: mark the armed fire, send M5, take the state.    *)

Mark(t) ==
  /\ At(t, "mark")
  /\ Brief("fire")
  /\ IF fire = 0 THEN Proceed(t) ELSE Goto(t, <<"m5", "take">> \o Rest(t))
  /\ UNCHANGED contextVars

\* A start gives up when the beam cannot be stopped; the deadman tries again;
\* Emergency Stop and disconnect go on and stop it their own way.
AfterFailedM5(t) ==
  LET rest == Tail(Rest(t)) IN
  IF t \in Deadman THEN <<"watch">>
  ELSE IF rest # <<>> /\ Head(rest) = "start_job" THEN <<>>
  ELSE rest

M5(t) ==
  /\ At(t, "m5")
  /\ Brief("session")
  /\ IF session = "none"
     THEN Proceed(t) /\ UNCHANGED <<beam, saved, faults>>
     ELSE \E ok \in BOOLEAN :
            /\ Write(ok)
            /\ beam' = IF ok THEN 0 ELSE beam
            /\ IF ok THEN Proceed(t) ELSE Goto(t, AfterFailedM5(t))
            /\ saved' = IF t \in User
                        THEN [saved EXCEPT ![t].fire_stop_failed = ~ok] ELSE saved
  /\ UNCHANGED <<fire, token, fires>>
  /\ UNCHANGEDButFire

\* The state is taken whatever fire it is by now.
Take(t) ==
  /\ At(t, "take")
  /\ Brief("fire")
  /\ fire' = 0
  /\ Proceed(t)
  /\ UNCHANGED <<token, beam, fires, saved, faults>>
  /\ UNCHANGEDButFire

-----------------------------------------------------------------------------
(* laser_fire_start                                                        *)

FireJob(t) ==
  /\ At(t, "fire_job")
  /\ Free("job")
  /\ IF job # "none" THEN Return(t) ELSE Hold(t, "job") /\ Proceed(t)
  /\ UNCHANGED contextVars

FireArm(t) ==
  /\ At(t, "fire_arm")
  /\ Free("fire")
  /\ IF fire # 0 THEN Return(t) ELSE Hold(t, "fire") /\ Proceed(t)
  /\ UNCHANGED contextVars

\* spawn_laser_fire_deadman, for the fire armed in this step
SpawnDeadman(t) ==
  \E d \in Deadman :
    /\ Resting(d)
    /\ token' = [token EXCEPT ![d] = fires']
    /\ todo' = [todo EXCEPT ![t] = <<>>, ![d] = <<"watch">>]

FireRefused(t) ==
  /\ At(t, "fire_send")
  /\ Free("session")
  /\ session # "Ready"
  /\ Return(t)
  /\ UNCHANGED contextVars

FireOn(t) ==
  /\ At(t, "fire_send")
  /\ Free("session")
  /\ session = "Ready"
  /\ fires' = fires + 1
  /\ fire' = fires'
  /\ beam' = fires'
  /\ SpawnDeadman(t)
  /\ ReleaseAll(t)
  /\ UNCHANGED <<saved, faults>>
  /\ UNCHANGEDButFire

\* The M3 may have reached the controller before its write failed.  Without an
\* M5 the fire stays armed, for the deadman to stop.
FireOnFails(t) ==
  /\ At(t, "fire_send")
  /\ Free("session")
  /\ session = "Ready"
  /\ faults < MaxFaults
  /\ \/ /\ Return(t)
        /\ faults' = faults + 1
        /\ beam' = 0
        /\ UNCHANGED <<fire, token, fires>>
     \/ /\ faults + 2 <= MaxFaults
        /\ faults' = faults + 2
        /\ fires' = fires + 1
        /\ fire' = fires'
        /\ beam' \in {beam, fires'}
        /\ SpawnDeadman(t)
        /\ ReleaseAll(t)
  /\ UNCHANGED saved
  /\ UNCHANGEDButFire

\* One round of the deadman.  When it finds the fire expired is left open.
Watch(d) ==
  /\ At(d, "watch")
  /\ Brief("fire")
  /\ Goto(d, IF fire = token[d] THEN <<"mark">> ELSE <<>>)
  /\ UNCHANGED contextVars

\* laser_fire_stop, for the fire the caller started.
Release(t) ==
  /\ At(t, "release")
  /\ Brief("fire")
  /\ Goto(t, IF fire = 0 THEN <<>> ELSE <<"mark">>)
  /\ UNCHANGED contextVars

FireStep(t) ==
  \/ Mark(t) \/ M5(t) \/ Take(t)
  \/ FireJob(t) \/ FireArm(t) \/ FireRefused(t) \/ FireOn(t) \/ FireOnFails(t)
  \/ Release(t)

-----------------------------------------------------------------------------
\* A beam that is on is always the armed fire, which its deadman watches.
BeamIsWatched == Free("fire") /\ beam # 0 => fire = beam
=============================================================================
