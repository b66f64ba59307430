---------------------------- MODULE UpdaterSidecar ----------------------------
(***************************************************************************)
(* The updater sidecar (crates/selu-updater): the job slot of api.rs, and  *)
(* the apply and rollback jobs of engine.rs over the compose env file and  *)
(* the Selu container, with failed downloads, images that never become     *)
(* healthy, failing writes and docker commands, crashes of the sidecar,    *)
(* and the restart by which it replaces itself after an update.            *)
(*                                                                         *)
(* An image stands for its digest, with the tag, version and build that    *)
(* travel with it.  A failing step returns its error to the task spawned   *)
(* by api.rs, which records the failure: one step of the model.            *)
(***************************************************************************)
EXTENDS Naturals, FiniteSets

CONSTANTS
  Images,
  NoImage,
  Healthy,           \* images whose container passes the health check
  Jobs,              \* request ids of accepted jobs
  NoJob,
  Kinds,             \* "apply", "rollback"
  Patient,           \* requests wait while the sidecar reports "updating"
  MaxFaults,         \* bound on failing writes and docker commands
  MaxInterruptions   \* bound on crashes of the sidecar

ASSUME SidecarAssumption ==
  /\ NoImage \notin Images
  /\ Healthy \subseteq Images
  /\ NoJob \notin Jobs
  /\ Kinds \subseteq {"apply", "rollback"}
  /\ Patient \in BOOLEAN
  /\ MaxFaults \in Nat /\ MaxInterruptions \in Nat

VARIABLES
  env,            \* compose env file: image to run, rollback image, marker
  container,      \* image of the Selu container
  sidecar,        \* "up" or "down"
  runtime,        \* RuntimeState, in memory
  task,           \* the task spawned for each accepted job
  helper,         \* container that restarts the sidecar from outside
  faults,
  interruptions   \* running jobs that a stop of the sidecar has killed

bounds == <<faults, interruptions>>
vars == <<env, container, sidecar, runtime, task, helper, bounds>>

Unclaimed == [job |-> NoJob, status |-> "idle",
              installed |-> NoImage, previous |-> NoImage]

\* previous: the rollback root captured at the start, an image that can be
\* recreated only if a container was running it.
WorkSteps == {"capture", "activate", "pull", "restore_env", "up", "health",
              "persist", "undo_env", "undo_up", "undo_health", "undo_persist"}
TaskSteps == WorkSteps \cup {"idle", "current", "versions", "undo_versions",
                             "refresh", "launch", "done"}

TypeOK ==
  /\ env \in [image : Images, root : Images \cup {NoImage}, marker : BOOLEAN]
  /\ container \in Images \cup {NoImage}
  /\ sidecar \in {"up", "down"}
  /\ runtime \in [job : Jobs \cup {NoJob},
                  status : {"idle", "updating", "failed", "rollback_available"},
                  installed : Images \cup {NoImage},
                  previous : Images \cup {NoImage}]
  /\ task \in [Jobs -> [pc : TaskSteps, kind : Kinds \cup {"none"},
                        target : Images \cup {NoImage},
                        previous : Images \cup {NoImage}, available : BOOLEAN]]
  /\ helper \in {"none", "launched", "stopped", "cleared"}
  /\ faults \in 0..MaxFaults
  /\ interruptions \in Nat

Fresh == [pc |-> "idle", kind |-> "none", target |-> NoImage,
          previous |-> NoImage, available |-> FALSE]

Init ==
  /\ \E i \in Healthy :
       /\ env = [image |-> i, root |-> NoImage, marker |-> FALSE]
       /\ container = i
  /\ sidecar = "up"
  /\ runtime = Unclaimed
  /\ task = [j \in Jobs |-> Fresh]
  /\ helper = "none"
  /\ faults = 0 /\ interruptions = 0

-----------------------------------------------------------------------------
At(j, step) == sidecar = "up" /\ task[j].pc = step
Is(j, kind) == task[j].kind = kind
Goto(j, step) == task' = [task EXCEPT ![j].pc = step]
Working(j) == task[j].pc \in WorkSteps
Ended == [Fresh EXCEPT !.pc = "done"]
Return(j) == task' = [task EXCEPT ![j] = Ended]

\* set_runtime overwrites the slot, whoever holds it.
SetRuntime(job, status) ==
  runtime' = [runtime EXCEPT !.job = job, !.status = status]

SetVersions(installed, previous) ==
  runtime' = [runtime EXCEPT !.installed = installed, !.previous = previous]

\* Mutant: the failure is reported, but the slot stays taken.
FailKeepingSlot(j) ==
  /\ SetRuntime(runtime.job, "failed")
  /\ Return(j)

\* The job's task ends with an error.
Fail(j) ==
  /\ SetRuntime(NoJob, "failed")
  /\ Return(j)

SetImage(image) == env' = [env EXCEPT !.image = image]
SetRoot(image) == env' = [env EXCEPT !.root = image]

Fault == faults < MaxFaults /\ faults' = faults + 1 /\ UNCHANGED interruptions
NoFault == UNCHANGED bounds

Outside == <<sidecar, helper>>

-----------------------------------------------------------------------------
(* update_apply and update_rollback: a request is accepted                 *)

\* With Patient, the client withholds a request while the sidecar reports
\* "updating", as the orchestrator's own slot is meant to.
Accept(j) ==
  /\ sidecar = "up" /\ task[j].pc = "idle"
  /\ runtime.job = NoJob
  /\ Patient => runtime.status # "updating"
  /\ \E kind \in Kinds, target \in Images :
       task' = [task EXCEPT ![j] = [@ EXCEPT !.pc = "capture", !.kind = kind,
                                             !.target = target]]
  /\ SetRuntime(j, "updating")
  /\ UNCHANGED <<env, container, Outside>> /\ NoFault

-----------------------------------------------------------------------------
(* capture_rollback_root, and an apply of the image already running        *)

Root == IF container = NoImage THEN env.image ELSE container

Capture(j) ==
  /\ At(j, "capture")
  /\ ~(Is(j, "apply") /\ Root = task[j].target)
  /\ SetRuntime(j, "updating")
  /\ task' = [task EXCEPT ![j] =
                [@ EXCEPT !.pc = IF Is(j, "apply") THEN "activate" ELSE "pull",
                          !.previous = Root,
                          !.available = (container # NoImage)]]
  /\ UNCHANGED <<env, container, Outside>> /\ NoFault

AlreadyCurrent(j) ==
  /\ At(j, "capture")
  /\ Is(j, "apply") /\ Root = task[j].target
  /\ SetRuntime(NoJob, "idle")
  /\ task' = [task EXCEPT ![j] = [@ EXCEPT !.pc = "current", !.previous = Root]]
  /\ UNCHANGED <<env, container, Outside>> /\ NoFault

-----------------------------------------------------------------------------
(* The two orders: an apply writes the env file before it downloads, a      *)
(* rollback after.                                                          *)

Activate(j) ==
  /\ At(j, "activate")
  /\ SetImage(task[j].target)
  /\ SetRuntime(j, "updating")
  /\ Goto(j, IF Is(j, "apply") THEN "pull" ELSE "up")
  /\ UNCHANGED <<container, Outside>> /\ NoFault

\* pull, verify_local_digest and the local tag that keeps the image
Pull(j) ==
  /\ At(j, "pull")
  /\ SetRuntime(j, "updating")
  /\ Goto(j, IF Is(j, "apply") THEN "up" ELSE "activate")
  /\ UNCHANGED <<env, container, Outside>> /\ NoFault

\* Mutant: a failed download leaves the env file on the target.
PullFailsKeepingEnv(j) ==
  /\ At(j, "pull")
  /\ Fail(j)
  /\ UNCHANGED <<env, container, Outside>> /\ NoFault

\* The download fails, or its digest is not the one announced.
PullFails(j) ==
  /\ At(j, "pull")
  /\ IF Is(j, "apply") THEN Goto(j, "restore_env") /\ UNCHANGED runtime
                       ELSE Fail(j)
  /\ UNCHANGED <<env, container, Outside>> /\ NoFault

\* restore_env_after_pre_activation_failure
RestoreEnv(j) ==
  /\ At(j, "restore_env")
  /\ SetImage(task[j].previous)
  /\ Fail(j)
  /\ UNCHANGED <<container, Outside>> /\ NoFault

\* Mutant: the job is reported as done before the health check.
UpReportingIdle(j) ==
  /\ At(j, "up")
  /\ container' = env.image
  /\ SetRuntime(NoJob, "idle")
  /\ Goto(j, "health")
  /\ UNCHANGED <<env, Outside>> /\ NoFault

\* compose up.  A rollback gives up the slot before its health check.
Up(j) ==
  /\ At(j, "up")
  /\ container' = env.image
  /\ SetRuntime(IF Is(j, "apply") THEN j ELSE NoJob, "updating")
  /\ Goto(j, "health")
  /\ UNCHANGED <<env, Outside>> /\ NoFault

\* Compose may have removed the old container before it failed.
UpFails(j) ==
  /\ At(j, "up")
  /\ container' \in {container, NoImage}
  /\ Goto(j, "undo_env")
  /\ UNCHANGED <<env, runtime, Outside>> /\ Fault

HealthCheck(j) ==
  /\ At(j, "health") /\ container \in Healthy
  /\ Goto(j, "persist")
  /\ UNCHANGED <<env, container, runtime, Outside>> /\ NoFault

\* Either the image is bad, or a good one did not answer in time.
HealthCheckFails(j) ==
  /\ At(j, "health")
  /\ Goto(j, "undo_env")
  /\ IF container \in Healthy THEN Fault ELSE NoFault
  /\ UNCHANGED <<env, container, runtime, Outside>>

\* Mutant: the new image is recorded as its own rollback root.
FinishRecordingTarget(j) ==
  /\ At(j, "persist")
  /\ SetRoot(task[j].target)
  /\ SetRuntime(NoJob, "idle")
  /\ Goto(j, "versions")
  /\ UNCHANGED <<container, Outside>> /\ NoFault

\* persist_rollback_root, then the slot is free.
Finish(j) ==
  /\ At(j, "persist")
  /\ SetRoot(IF task[j].available THEN task[j].previous ELSE NoImage)
  /\ SetRuntime(NoJob, "idle")
  /\ Goto(j, "versions")
  /\ UNCHANGED <<container, Outside>> /\ NoFault

\* Nothing was replaced: the running image is also reported as the previous.
RecordVersions(j) ==
  /\ At(j, "versions") \/ At(j, "current")
  /\ SetVersions(task[j].target, task[j].previous)
  /\ IF Is(j, "apply") /\ At(j, "versions") THEN Goto(j, "refresh")
                                            ELSE Return(j)
  /\ UNCHANGED <<env, container, Outside>> /\ NoFault

-----------------------------------------------------------------------------
(* finish_failed_apply, and the tail of run_rollback                       *)

\* An apply that found no container to capture leaves the env file alone.
NothingToRestore(j) ==
  /\ At(j, "undo_env") /\ Is(j, "apply") /\ ~task[j].available
  /\ Fail(j)
  /\ UNCHANGED <<env, container, Outside>> /\ NoFault

UndoEnv(j) ==
  /\ At(j, "undo_env")
  /\ task[j].available \/ Is(j, "rollback")
  /\ SetImage(task[j].previous)
  /\ IF task[j].available THEN Goto(j, "undo_up") /\ UNCHANGED runtime
                          ELSE Fail(j)
  /\ UNCHANGED <<container, Outside>> /\ NoFault

UndoUp(j) ==
  /\ At(j, "undo_up")
  /\ container' = env.image
  /\ Goto(j, "undo_health")
  /\ UNCHANGED <<env, runtime, Outside>> /\ NoFault

UndoHealthCheck(j) ==
  /\ At(j, "undo_health") /\ container \in Healthy
  /\ IF Is(j, "apply") THEN Goto(j, "undo_persist") /\ UNCHANGED runtime
                       ELSE Fail(j)
  /\ UNCHANGED <<env, container, Outside>> /\ NoFault

UndoHealthCheckFails(j) ==
  /\ At(j, "undo_health")
  /\ Fail(j)
  /\ IF container \in Healthy THEN Fault ELSE NoFault
  /\ UNCHANGED <<env, container, Outside>>

\* The failed target becomes the rollback root.
FinishUndone(j) ==
  /\ At(j, "undo_persist")
  /\ SetRoot(task[j].target)
  /\ SetRuntime(NoJob, "rollback_available")
  /\ Goto(j, "undo_versions")
  /\ UNCHANGED <<container, Outside>> /\ NoFault

RecordUndoneVersions(j) ==
  /\ At(j, "undo_versions")
  /\ SetVersions(task[j].previous, task[j].target)
  /\ Return(j)
  /\ UNCHANGED <<env, container, Outside>> /\ NoFault

\* A docker inspection or an env write fails (the write is atomic).
StepFails(j) ==
  /\ \E step \in {"capture", "activate", "restore_env", "persist", "undo_env",
                  "undo_up", "undo_persist"} : At(j, step)
  /\ Fail(j)
  /\ container' \in {container} \cup
                    (IF task[j].pc = "undo_up" THEN {NoImage} ELSE {})
  /\ UNCHANGED <<env, Outside>> /\ Fault

-----------------------------------------------------------------------------
(* maybe_refresh_updater_sidecar (self_update_on_apply): outside the slot   *)

\* The updater image cannot be resolved or pulled: a warning.
RefreshSkipped(j) ==
  /\ At(j, "refresh")
  /\ Return(j)
  /\ UNCHANGED <<env, container, runtime, Outside>> /\ NoFault

MarkRestart(j) ==
  /\ At(j, "refresh")
  /\ env' = [env EXCEPT !.marker = TRUE]
  /\ Goto(j, "launch")
  /\ UNCHANGED <<container, runtime, Outside>> /\ NoFault

\* docker rm -f of a previous helper, then docker run of the new one
LaunchHelper(j) ==
  /\ At(j, "launch")
  /\ helper' = "launched"
  /\ Return(j)
  /\ UNCHANGED <<env, container, runtime, sidecar>> /\ NoFault

LaunchFails(j) ==
  /\ At(j, "launch")
  /\ env' = [env EXCEPT !.marker = FALSE]
  /\ Return(j)
  /\ UNCHANGED <<container, runtime, Outside>> /\ Fault

\* The process ends: its memory and its tasks are gone.
Stop ==
  /\ sidecar' = "down"
  /\ runtime' = Unclaimed
  /\ task' = [j \in Jobs |-> IF task[j].pc = "idle" THEN task[j] ELSE Ended]
  /\ interruptions' = IF \E j \in Jobs : Working(j) THEN interruptions + 1
                                                    ELSE interruptions
  /\ UNCHANGED <<env, container, faults>>

HelperStops ==
  /\ helper = "launched"
  /\ Stop
  /\ helper' = "stopped"

HelperClearsMarker ==
  /\ helper = "stopped"
  /\ env' = [env EXCEPT !.marker = FALSE]
  /\ helper' = "cleared"
  /\ UNCHANGED <<container, sidecar, runtime, task>> /\ NoFault

HelperStarts ==
  /\ helper = "cleared"
  /\ sidecar' = "up"
  /\ helper' = "none"
  /\ UNCHANGED <<env, container, runtime, task>> /\ NoFault

Crash ==
  /\ sidecar = "up" /\ interruptions < MaxInterruptions
  /\ Stop
  /\ UNCHANGED helper

\* The restart policy of the container, unless the helper removed it.
Restart ==
  /\ sidecar = "down" /\ helper \in {"none", "launched"}
  /\ sidecar' = "up"
  /\ UNCHANGED <<env, container, runtime, task, helper>> /\ NoFault

-----------------------------------------------------------------------------
Proceed(j) ==
  \/ Capture(j) \/ AlreadyCurrent(j) \/ Activate(j) \/ Pull(j) \/ PullFails(j)
  \/ RestoreEnv(j) \/ Up(j) \/ HealthCheck(j) \/ HealthCheckFails(j)
  \/ Finish(j) \/ RecordVersions(j)
  \/ NothingToRestore(j) \/ UndoEnv(j) \/ UndoUp(j) \/ UndoHealthCheck(j)
  \/ UndoHealthCheckFails(j) \/ FinishUndone(j) \/ RecordUndoneVersions(j)
  \/ RefreshSkipped(j) \/ MarkRestart(j) \/ LaunchHelper(j)

HelperStep == HelperStops \/ HelperClearsMarker \/ HelperStarts

Next ==
  \/ \E j \in Jobs : Accept(j) \/ Proceed(j) \/ UpFails(j) \/ StepFails(j)
                       \/ LaunchFails(j)
  \/ HelperStep \/ Crash \/ Restart

Spec == Init /\ [][Next]_vars

\* tokio polls the job's task, the helper container runs its script, and the
\* sidecar's container is restarted; requests, faults and crashes are not fair.
Fairness ==
  /\ \A j \in Jobs : WF_vars(Proceed(j))
  /\ WF_vars(HelperStep) /\ WF_vars(Restart)

FairSpec == Spec /\ Fairness

-----------------------------------------------------------------------------
(* Properties                                                               *)

\* "Another update job is already running": no two jobs work on the env file
\* and the container at a time.
OneJobAtATime == \A i, j \in Jobs : Working(i) /\ Working(j) => i = j

\* Whenever no job works, and none was killed or met a failing command, a
\* healthy Selu runs and the env file names it: a failed download and an
\* image that never becomes healthy have been undone.
ServiceConsistent ==
  (\A j \in Jobs : ~Working(j)) /\ faults = 0 /\ interruptions = 0
    => container \in Healthy /\ env.image = container

\* Whatever failed or crashed before, an update reported as done runs the
\* requested image with the image it replaced as rollback root, and one
\* reported as undone runs the image it started from with the failed target
\* as rollback root; an update never replaces an image by itself.
ReportedOutcome ==
  [][\A j \in Jobs :
       LET t == task[j]  u == task'[j] IN
       /\ t.pc = "persist" /\ u.pc = "versions" =>
            /\ container' = t.target /\ env'.image = t.target
            /\ env'.root = IF t.available THEN t.previous ELSE NoImage
            /\ t.kind = "apply" => t.previous # t.target
       /\ t.pc = "undo_persist" /\ u.pc = "undo_versions" =>
            /\ container' = t.previous /\ env'.image = t.previous
            /\ env'.root = t.target
            /\ t.previous # t.target]_vars

\* Every accepted job leaves the slot, even if the sidecar is stopped.
JobEnds == \A j \in Jobs : runtime.job = j ~> runtime.job # j
=============================================================================
