--------------------------- MODULE ServiceContext ---------------------------
(***************************************************************************)
(* What ServiceContext (beambench-service/src/context.rs) shares between   *)
(* the threads that drive a GRBL machine, and what the machine does on     *)
(* their account.  MutexGuards are in ServiceLocks.                        *)
(***************************************************************************)
EXTENDS ServiceLocks

CONSTANTS
  User,       \* threads of UI commands, API routes and remote calls
  Loop,       \* threads the job tick loop may run in
  Deadman,    \* threads of the test fire deadman
  Ops,        \* the operations users call in this run
  MaxCalls,   \* bound: how many they call
  MaxFaults   \* bound: how many writes to the port fail

ASSUME ThreadAssumption ==
  /\ Thread = User \cup Loop \cup Deadman
  /\ User \cap Loop = {}
  /\ User \cap Deadman = {}
  /\ Loop \cap Deadman = {}
  /\ NoThread \notin Thread
  /\ MaxCalls \in Nat
  /\ MaxFaults \in Nat

VARIABLES
  (* behind `session': its state, and whether it is there at all *)
  session,
  (* behind `job' *)
  job, resources,
  (* behind `active_laser_fire': the token of the armed fire, 0 if none *)
  fire,
  (* atomics *)
  session_epoch, emergency_stop_generation, job_tick_loop_running,
  (* what an operation keeps in locals between its steps *)
  saved,      \* generation and epoch it read, and whether its M5 failed
  token,      \* the fire a deadman watches
  (* the machine *)
  beam,       \* the fire whose M3 is in force, 0 if none
  streaming,  \* lines of a job are in the controller and not finished
  (* history *)
  delivered,  \* the last Emergency Stop whose reset reached the controller
  begun,      \* jobs and frame passes whose first lines were sent
  fires,      \* test fires so far
  calls, faults

fireVars == <<fire, token, beam, fires>>
jobVars == <<job, resources, streaming, begun>>
sessionVars == <<session, session_epoch>>
stopVars == <<emergency_stop_generation, delivered>>
budgetVars == <<calls, faults>>
contextVars == <<fireVars, jobVars, sessionVars, stopVars,
                 job_tick_loop_running, saved, budgetVars>>
vars == <<lockVars, contextVars>>

NoResources == [estop_generation |-> 0, is_frame |-> FALSE, repeat |-> FALSE,
                held |-> FALSE]
NothingSaved == [generation |-> 0, epoch |-> 0, fire_stop_failed |-> FALSE]

TypeOK ==
  /\ LocksTypeOK
  /\ session \in {"none", "Validating", "Ready", "Running"}
  /\ job \in {"none", "cut", "frame"}
  /\ resources \in [estop_generation : Nat, is_frame : BOOLEAN,
                    repeat : BOOLEAN, held : BOOLEAN]
  /\ fires \in Nat
  /\ fire \in 0..fires
  /\ beam \in 0..fires
  /\ token \in [Deadman -> 0..fires]
  /\ session_epoch \in Nat
  /\ emergency_stop_generation \in Nat
  /\ delivered \in 0..emergency_stop_generation
  /\ job_tick_loop_running \in BOOLEAN
  /\ streaming \in BOOLEAN
  /\ saved \in [User -> [generation : Nat, epoch : Nat, fire_stop_failed : BOOLEAN]]
  /\ begun \in Nat
  /\ calls \in 0..MaxCalls
  /\ faults \in 0..MaxFaults

\* The service runs, connected to an idle machine.
Init ==
  /\ LocksInit
  /\ session = "Ready"
  /\ session_epoch = 1
  /\ job = "none"
  /\ resources = NoResources
  /\ fire = 0
  /\ token = [d \in Deadman |-> 0]
  /\ beam = 0
  /\ emergency_stop_generation = 0
  /\ delivered = 0
  /\ job_tick_loop_running = FALSE
  /\ saved = [u \in User |-> NothingSaved]
  /\ streaming = FALSE
  /\ begun = 0
  /\ fires = 0
  /\ calls = 0
  /\ faults = 0

-----------------------------------------------------------------------------
\* A write to the port: it may fail.
Write(ok) ==
  \/ ok = TRUE /\ UNCHANGED faults
  \/ ok = FALSE /\ faults < MaxFaults /\ faults' = faults + 1

\* A reset reaches the controller: it forgets what it had and turns off.
Reset == beam' = 0 /\ streaming' = FALSE

\* Mutated: the job is dropped and its resources are not.
BugClearJobOnly == job' = "none" /\ UNCHANGED resources

\* The job is dropped, and clear_job_resources.
ClearJob == job' = "none" /\ resources' = NoResources
=============================================================================
