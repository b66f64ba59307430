------------------------- MODULE SystemUpdateProofs -------------------------
(***************************************************************************)
(* Theorems about the updater sidecar, for any images, jobs and bounds,    *)
(* and about the system that drives it.  Of the sidecar: its type          *)
(* invariant, that two jobs never work at a time when requests wait for    *)
(* the end of an update or no rollback is ever requested, that the outcome *)
(* a job then reports is the one the container and the env file show,      *)
(* whatever failed or crashed before, and that jobs whose commands all     *)
(* succeed leave a healthy Selu running.                                   *)
(*                                                                         *)
(* The inductive invariant says who holds the slot (Slot) and how far the  *)
(* env file and the container have got at each step of a job (Progress).   *)
(* A job that works is the only one to change either, so a step has to     *)
(* show its own job's part alone (Contract).  Service adds what a job that *)
(* was never disturbed has of the way back (Serves).                       *)
(*                                                                         *)
(* The orchestrator drives the sidecar through its requests alone, so what *)
(* holds of the sidecar for any client holds in the composed system.       *)
(***************************************************************************)
EXTENDS SystemUpdate, TLAPS

Exclusive == Patient \/ "rollback" \notin Kinds

Slot(j) ==
  Working(j) => /\ runtime.status = "updating"
                /\ runtime.job \in {j, NoJob}
                /\ Is(j, "apply") => runtime.job = j
                /\ task[j].kind \in Kinds

Progress(j) ==
  LET t == task[j] IN
  /\ t.pc \in WorkSteps => t.target \in Images
  /\ t.pc \in WorkSteps \ {"capture"} =>
       t.previous \in Images /\ (t.kind = "apply" => t.previous # t.target)
  /\ t.pc \in {"versions", "current", "undo_versions"} =>
       t.target \in Images /\ t.previous \in Images
  /\ t.pc \in {"up", "health", "persist"} => env.image = t.target
  /\ t.pc = "pull" /\ t.kind = "apply" => env.image = t.target
  /\ t.pc \in {"health", "persist"} => container = t.target
  /\ t.pc \in {"undo_up", "undo_health", "undo_persist"} => env.image = t.previous
  /\ t.pc \in {"undo_health", "undo_persist"} => container = t.previous
  /\ t.pc = "undo_persist" => t.kind = "apply"

IInv == /\ TypeOK
        /\ OneJobAtATime
        /\ \A j \in Jobs : Slot(j) /\ Progress(j)

Outcome(j) ==
  LET t == task[j]  u == task'[j] IN
  /\ t.pc = "persist" /\ u.pc = "versions" =>
       /\ container' = t.target /\ env'.image = t.target
       /\ env'.root = IF t.available THEN t.previous ELSE NoImage
       /\ t.kind = "apply" => t.previous # t.target
  /\ t.pc = "undo_persist" /\ u.pc = "undo_versions" =>
       /\ container' = t.previous /\ env'.image = t.previous
       /\ env'.root = t.target
       /\ t.previous # t.target

\* What a step of job j has to show of itself.
Contract(j) ==
  /\ TypeOK'
  /\ \A i \in Jobs \ {j} : task'[i] = task[i]
  /\ Working(j)' => Working(j)
  /\ Working(j) \/ (/\ env'.image = env.image /\ container' = container
                    /\ runtime'.job = runtime.job
                    /\ runtime'.status = runtime.status)
  /\ Slot(j)' /\ Progress(j)' /\ Outcome(j)

Preserved == IInv' /\ \A i \in Jobs : Outcome(i)

-----------------------------------------------------------------------------
\* Initially a healthy image runs, the env file names it, and no job exists.
LEMMA InitIInv == Init => IInv
PROOF
<1> SUFFICES ASSUME Init PROVE IInv OBVIOUS
<1>1. TypeOK
  BY SidecarAssumption DEF Init, TypeOK, Unclaimed, Fresh, TaskSteps
<1>2. \A j \in Jobs : task[j].pc = "idle"
  BY DEF Init, Fresh
<1> QED BY <1>1, <1>2 DEF IInv, OneJobAtATime, Working, WorkSteps, Slot, Progress

\* A step that meets its contract disturbs no other job.
LEMMA ContractSuffices ==
  ASSUME IInv, NEW j \in Jobs, Contract(j) PROVE Preserved
PROOF
<1>1. ASSUME NEW i \in Jobs, i # j
      PROVE  /\ task'[i] = task[i]
             /\ Working(i)' = Working(i)
             /\ Slot(i)' /\ Progress(i)' /\ Outcome(i)
  <2>1. task'[i] = task[i] /\ Working(i)' = Working(i)
    BY <1>1 DEF Contract, Working
  <2>2. Slot(i) /\ Progress(i)
    BY DEF IInv
  <2>3. Outcome(i)
    BY <2>1 DEF Outcome
  <2>4. CASE Working(i)
    <3>1. ~Working(j)
      BY <1>1, <2>4 DEF IInv, OneJobAtATime
    <3>2. /\ env'.image = env.image /\ container' = container
          /\ runtime'.job = runtime.job /\ runtime'.status = runtime.status
      BY <3>1 DEF Contract
    <3> QED BY <2>1, <2>2, <2>3, <3>2 DEF Slot, Progress, Is
  <2>5. CASE ~Working(i)
    BY <2>1, <2>2, <2>3, <2>5 DEF Slot, Progress, Working, WorkSteps
  <2> QED BY <2>4, <2>5, <2>1
<1>2. OneJobAtATime'
  BY <1>1 DEF IInv, OneJobAtATime, Contract
<1>3. TypeOK' /\ Slot(j)' /\ Progress(j)' /\ Outcome(j)
  BY DEF Contract
<1> QED BY <1>1, <1>2, <1>3 DEF Preserved, IInv

-----------------------------------------------------------------------------
(* What the helpers of the actions change                                   *)

TaskType == [Jobs -> [pc : TaskSteps, kind : Kinds \cup {"none"},
                      target : Images \cup {NoImage},
                      previous : Images \cup {NoImage}, available : BOOLEAN]]
RuntimeType == [job : Jobs \cup {NoJob},
                status : {"idle", "updating", "failed", "rollback_available"},
                installed : Images \cup {NoImage},
                previous : Images \cup {NoImage}]
EnvType == [image : Images, root : Images \cup {NoImage}, marker : BOOLEAN]

OnlyTask(j) == task' \in TaskType /\ \A i \in Jobs \ {j} : task'[i] = task[i]
SameRequest(j) ==
  LET t == task[j]  u == task'[j] IN
  /\ u.kind = t.kind /\ u.target = t.target
  /\ u.previous = t.previous /\ u.available = t.available
Moves(j, step) == OnlyTask(j) /\ SameRequest(j) /\ task'[j].pc = step
Ends(j) == OnlyTask(j) /\ task'[j].pc = "done"

\* The type invariant, by variable.
LEMMA Types ==
  TypeOK <=> /\ env \in EnvType /\ container \in Images \cup {NoImage}
             /\ sidecar \in {"up", "down"} /\ runtime \in RuntimeType
             /\ task \in TaskType
             /\ helper \in {"none", "launched", "stopped", "cleared"}
             /\ faults \in 0..MaxFaults /\ interruptions \in Nat
PROOF BY DEF TypeOK, EnvType, RuntimeType, TaskType

\* The type invariant after a step that leaves the sidecar itself alone.
LEMMA TypesAfter ==
  ASSUME TypeOK, task' \in TaskType, env' \in EnvType, runtime' \in RuntimeType,
         container' \in Images \cup {NoImage}, sidecar' = sidecar,
         helper' \in {"none", "launched", "stopped", "cleared"},
         NoFault \/ Fault
  PROVE  TypeOK'
PROOF
<1>1. faults' \in 0..MaxFaults /\ interruptions' \in Nat
  BY SidecarAssumption DEF TypeOK, NoFault, Fault, bounds
<1> QED
  BY <1>1 DEF TypeOK, EnvType, RuntimeType, TaskType

\* Goto moves one task and keeps its request.
LEMMA GotoEffect ==
  ASSUME TypeOK, NEW j \in Jobs, NEW step \in TaskSteps, Goto(j, step)
  PROVE  Moves(j, step)
PROOF
<1>1. task \in TaskType
  BY Types
<1>2. /\ task' = [task EXCEPT ![j] = [task[j] EXCEPT !.pc = step]]
  BY DEF Goto
<1>3. [task[j] EXCEPT !.pc = step]
        \in [pc : TaskSteps, kind : Kinds \cup {"none"},
             target : Images \cup {NoImage},
             previous : Images \cup {NoImage}, available : BOOLEAN]
  BY <1>1 DEF TaskType
<1>4. task' \in TaskType
  BY <1>1, <1>2, <1>3 DEF TaskType
<1>5. /\ \A i \in Jobs \ {j} : task'[i] = task[i]
      /\ task'[j] = [task[j] EXCEPT !.pc = step]
  BY <1>1, <1>2 DEF TaskType
<1> QED
  BY <1>1, <1>4, <1>5 DEF Moves, OnlyTask, SameRequest, TaskType

\* Return ends one task.
LEMMA ReturnEffect ==
  ASSUME TypeOK, NEW j \in Jobs, Return(j) PROVE Ends(j)
PROOF
<1>1. task \in TaskType
  BY Types
<1>2. /\ Ended \in [pc : TaskSteps, kind : Kinds \cup {"none"},
                    target : Images \cup {NoImage},
                    previous : Images \cup {NoImage}, available : BOOLEAN]
      /\ Ended.pc = "done"
  BY DEF Ended, Fresh, TaskSteps
<1> QED
  BY <1>1, <1>2 DEF Return, Ends, OnlyTask, TaskType

\* set_runtime writes the slot and the status.
LEMMA SetRuntimeEffect ==
  ASSUME TypeOK, NEW job \in Jobs \cup {NoJob},
         NEW status \in {"idle", "updating", "failed", "rollback_available"},
         SetRuntime(job, status)
  PROVE  runtime' \in RuntimeType /\ runtime'.job = job /\ runtime'.status = status
PROOF BY Types DEF SetRuntime, RuntimeType

\* A write of the env file changes its image alone.
LEMMA SetImageEffect ==
  ASSUME TypeOK, NEW image \in Images, SetImage(image)
  PROVE  env' \in EnvType /\ env'.image = image
PROOF BY Types DEF SetImage, EnvType

\* persist_rollback_root changes the rollback image alone.
LEMMA SetRootEffect ==
  ASSUME TypeOK, NEW image \in Images \cup {NoImage}, SetRoot(image)
  PROVE  env' \in EnvType /\ env'.image = env.image /\ env'.root = image
PROOF BY Types DEF SetRoot, EnvType

\* A job that works no more has only its types to show.
LEMMA EndsContract ==
  ASSUME IInv, NEW j \in Jobs, Ends(j), TypeOK',
         Working(j) \/ (/\ env'.image = env.image /\ container' = container
                        /\ runtime'.job = runtime.job
                        /\ runtime'.status = runtime.status)
  PROVE  Contract(j)
PROOF
<1>1. task'[j].pc = "done" /\ \A i \in Jobs \ {j} : task'[i] = task[i]
  BY DEF Ends, OnlyTask
<1>2. ~Working(j)'
  BY <1>1 DEF Working, WorkSteps
<1>3. Progress(j)' /\ Outcome(j) /\ Slot(j)'
  BY <1>1, <1>2 DEF Progress, Outcome, Slot, WorkSteps
<1> QED BY <1>1, <1>2, <1>3 DEF Contract

\* A working job whose task fails.
LEMMA FailContract ==
  ASSUME IInv, NEW j \in Jobs, Working(j), Fail(j), env' \in EnvType,
         container' \in Images \cup {NoImage}, UNCHANGED Outside,
         NoFault \/ Fault
  PROVE  Contract(j)
PROOF
<1>1. TypeOK
  BY DEF IInv
<1>2. Ends(j)
  BY <1>1, ReturnEffect DEF Fail
<1>3. runtime' \in RuntimeType
  BY <1>1, SetRuntimeEffect DEF Fail
<1>4. TypeOK'
  <2>1. sidecar' = sidecar /\ helper' \in {"none", "launched", "stopped", "cleared"}
    BY <1>1 DEF TypeOK, Outside
  <2> QED BY <1>1, <1>2, <1>3, <2>1, TypesAfter DEF Ends, OnlyTask
<1> QED BY <1>2, <1>4, EndsContract

\* A job that works on: the types, the slot and the steps it has reached.
LEMMA MovesContract ==
  ASSUME IInv, NEW j \in Jobs, NEW step \in WorkSteps, Working(j),
         Moves(j, step),
         env' \in EnvType, runtime' \in RuntimeType,
         container' \in Images \cup {NoImage}, UNCHANGED Outside,
         NoFault \/ Fault,
         runtime'.status = "updating", runtime'.job \in {j, NoJob},
         Is(j, "apply") => runtime'.job = j,
         Progress(j)'
  PROVE  Contract(j)
PROOF
<1>1. TypeOK
  BY DEF IInv
<1>2. TypeOK'
  <2>1. sidecar' = sidecar /\ helper' \in {"none", "launched", "stopped", "cleared"}
    BY <1>1 DEF TypeOK, Outside
  <2> QED BY <1>1, <2>1, TypesAfter DEF Moves, OnlyTask
<1>3. /\ \A i \in Jobs \ {j} : task'[i] = task[i]
      /\ task'[j].pc = step /\ task'[j].kind = task[j].kind
  BY DEF Moves, OnlyTask, SameRequest
<1>4. task[j].kind \in Kinds
  BY DEF IInv, Slot
<1>5. Slot(j)'
  BY <1>3, <1>4 DEF Slot, Is
<1>6. Outcome(j)
  BY <1>3 DEF Outcome, WorkSteps
<1> QED BY <1>2, <1>3, <1>5, <1>6 DEF Contract

-----------------------------------------------------------------------------
(* The steps of a job                                                       *)

\* Capturing the rollback root: the image to restore is another one than the
\* target of an apply.
LEMMA CaptureStep ==
  ASSUME IInv, NEW j \in Jobs, Capture(j) PROVE Contract(j)
PROOF
<1>1. /\ TypeOK /\ Progress(j) /\ task[j].pc = "capture" /\ Working(j)
      /\ task[j].target \in Images
      /\ Is(j, "apply") => runtime.job = j
      /\ runtime.status = "updating" /\ runtime.job \in {j, NoJob}
  BY DEF IInv, Slot, Progress, Capture, At, Working, WorkSteps
<1>2. /\ runtime \in RuntimeType /\ env \in EnvType
      /\ container \in Images \cup {NoImage} /\ task \in TaskType
  BY <1>1, Types
<1> DEFINE step == IF Is(j, "apply") THEN "activate" ELSE "pull"
<1>3. Root \in Images
  BY <1>2 DEF Root, EnvType
<1>4. /\ runtime' \in RuntimeType /\ runtime'.job = j
      /\ runtime'.status = "updating"
  BY <1>1, SetRuntimeEffect DEF Capture
<1> DEFINE u == [task[j] EXCEPT !.pc = step, !.previous = Root,
                                !.available = (container # NoImage)]
<1>5. /\ u.pc = step /\ u.kind = task[j].kind /\ u.target = task[j].target
      /\ u.previous = Root /\ u.available \in BOOLEAN
      /\ u \in [pc : TaskSteps, kind : Kinds \cup {"none"},
               target : Images \cup {NoImage},
               previous : Images \cup {NoImage}, available : BOOLEAN]
  BY <1>2, <1>3 DEF TaskType, TaskSteps, WorkSteps
<1>6. task' = [task EXCEPT ![j] = u]
  BY DEF Capture
<1> HIDE DEF u
<1>7. OnlyTask(j) /\ task'[j] = u
  BY <1>2, <1>5, <1>6 DEF OnlyTask, TaskType
<1>8. TypeOK'
  BY <1>1, <1>2, <1>4, <1>7, TypesAfter, Types DEF Capture, OnlyTask, Outside
<1>9. task[j].kind = "apply" => Root # task[j].target
  BY DEF Capture, Is
<1>10. Progress(j)'
  BY <1>1, <1>2, <1>3, <1>5, <1>7, <1>9 DEF Progress, WorkSteps, Is
<1>11. task[j].kind \in Kinds
  BY <1>1 DEF IInv, Slot
<1>12. Slot(j)' /\ Outcome(j) /\ \A i \in Jobs \ {j} : task'[i] = task[i]
  BY <1>1, <1>4, <1>5, <1>7, <1>11 DEF Slot, Outcome, OnlyTask, Is
<1> QED BY <1>1, <1>8, <1>10, <1>12 DEF Contract

\* An apply of the running image ends the work at once.
LEMMA AlreadyCurrentStep ==
  ASSUME IInv, NEW j \in Jobs, AlreadyCurrent(j) PROVE Contract(j)
PROOF
<1>1. /\ TypeOK /\ Progress(j) /\ task[j].pc = "capture" /\ Working(j)
      /\ task[j].target \in Images
      /\ Is(j, "apply") => runtime.job = j
      /\ runtime.status = "updating" /\ runtime.job \in {j, NoJob}
  BY DEF IInv, Slot, Progress, AlreadyCurrent, At, Working, WorkSteps
<1>2. /\ runtime \in RuntimeType /\ env \in EnvType
      /\ container \in Images \cup {NoImage} /\ task \in TaskType
  BY <1>1, Types
<1>3. Root \in Images
  BY <1>2 DEF Root, EnvType
<1>4. /\ runtime' \in RuntimeType
  BY <1>1, SetRuntimeEffect DEF AlreadyCurrent
<1> DEFINE u == [task[j] EXCEPT !.pc = "current", !.previous = Root]
<1>5. /\ u.pc = "current" /\ u.target = task[j].target /\ u.previous = Root
      /\ u \in [pc : TaskSteps, kind : Kinds \cup {"none"},
               target : Images \cup {NoImage},
               previous : Images \cup {NoImage}, available : BOOLEAN]
  BY <1>2, <1>3 DEF TaskType, TaskSteps, WorkSteps
<1>6. task' = [task EXCEPT ![j] = u]
  BY DEF AlreadyCurrent
<1> HIDE DEF u
<1>7. OnlyTask(j) /\ task'[j] = u
  BY <1>2, <1>5, <1>6 DEF OnlyTask, TaskType
<1>8. TypeOK'
  BY <1>1, <1>2, <1>4, <1>7, TypesAfter, Types DEF AlreadyCurrent, OnlyTask, Outside
<1>9. Progress(j)' /\ ~Working(j)'
  BY <1>1, <1>3, <1>5, <1>7 DEF Progress, WorkSteps, Working
<1>10. Slot(j)' /\ Outcome(j) /\ \A i \in Jobs \ {j} : task'[i] = task[i]
  BY <1>1, <1>5, <1>7, <1>9 DEF Slot, Outcome, OnlyTask
<1> QED BY <1>1, <1>8, <1>9, <1>10 DEF Contract

\* Writing the env file.
LEMMA ActivateStep ==
  ASSUME IInv, NEW j \in Jobs, Activate(j) PROVE Contract(j)
PROOF
<1>1. /\ TypeOK /\ Progress(j) /\ task[j].pc = "activate" /\ Working(j)
      /\ task[j].target \in Images
      /\ Is(j, "apply") => runtime.job = j
      /\ runtime.status = "updating" /\ runtime.job \in {j, NoJob}
  BY DEF IInv, Slot, Progress, Activate, At, Working, WorkSteps
<1>2. /\ runtime \in RuntimeType /\ env \in EnvType
      /\ container \in Images \cup {NoImage} /\ task \in TaskType
  BY <1>1, Types
<1> DEFINE step == IF Is(j, "apply") THEN "pull" ELSE "up"
<1>3. Moves(j, step)
  BY <1>1, GotoEffect DEF Activate, TaskSteps, WorkSteps
<1>4. /\ runtime' \in RuntimeType /\ runtime'.status = "updating"
      /\ runtime'.job \in {j, NoJob} /\ (Is(j, "apply") => runtime'.job = j)
  BY <1>1, SetRuntimeEffect DEF Activate
<1>5. env' \in EnvType /\ env'.image = task[j].target
  BY <1>1, SetImageEffect DEF Activate, Progress, WorkSteps
<1>6. container' \in Images \cup {NoImage}
  BY <1>2 DEF Activate, EnvType
<1>7. Progress(j)'
  BY <1>1, <1>3, <1>5, <1>6 DEF Activate, Progress, Moves, SameRequest, Is, WorkSteps
<1>8. UNCHANGED Outside /\ (NoFault \/ Fault)
  BY DEF Activate
<1> QED
  BY <1>1, <1>3, <1>4, <1>5, <1>6, <1>7, <1>8, MovesContract DEF WorkSteps

\* The download.
LEMMA PullStep ==
  ASSUME IInv, NEW j \in Jobs, Pull(j) PROVE Contract(j)
PROOF
<1>1. /\ TypeOK /\ Progress(j) /\ task[j].pc = "pull" /\ Working(j)
      /\ task[j].target \in Images
      /\ Is(j, "apply") => runtime.job = j
      /\ runtime.status = "updating" /\ runtime.job \in {j, NoJob}
  BY DEF IInv, Slot, Progress, Pull, At, Working, WorkSteps
<1>2. /\ runtime \in RuntimeType /\ env \in EnvType
      /\ container \in Images \cup {NoImage} /\ task \in TaskType
  BY <1>1, Types
<1> DEFINE step == IF Is(j, "apply") THEN "up" ELSE "activate"
<1>3. Moves(j, step)
  BY <1>1, GotoEffect DEF Pull, TaskSteps, WorkSteps
<1>4. /\ runtime' \in RuntimeType /\ runtime'.status = "updating"
      /\ runtime'.job \in {j, NoJob} /\ (Is(j, "apply") => runtime'.job = j)
  BY <1>1, SetRuntimeEffect DEF Pull
<1>5. env' \in EnvType /\ env' = env
  BY <1>2 DEF Pull
<1>6. container' \in Images \cup {NoImage}
  BY <1>2 DEF Pull, EnvType
<1>7. Progress(j)'
  BY <1>1, <1>3, <1>5, <1>6 DEF Pull, Progress, Moves, SameRequest, Is, WorkSteps
<1>8. UNCHANGED Outside /\ (NoFault \/ Fault)
  BY DEF Pull
<1> QED
  BY <1>1, <1>3, <1>4, <1>5, <1>6, <1>7, <1>8, MovesContract DEF WorkSteps

\* Recreating the container.
LEMMA UpStep ==
  ASSUME IInv, NEW j \in Jobs, Up(j) PROVE Contract(j)
PROOF
<1>1. /\ TypeOK /\ Progress(j) /\ task[j].pc = "up" /\ Working(j)
      /\ task[j].target \in Images
      /\ Is(j, "apply") => runtime.job = j
      /\ runtime.status = "updating" /\ runtime.job \in {j, NoJob}
  BY DEF IInv, Slot, Progress, Up, At, Working, WorkSteps
<1>2. /\ runtime \in RuntimeType /\ env \in EnvType
      /\ container \in Images \cup {NoImage} /\ task \in TaskType
  BY <1>1, Types
<1>3. Moves(j, "health")
  BY <1>1, GotoEffect DEF Up, TaskSteps, WorkSteps
<1>4. /\ runtime' \in RuntimeType /\ runtime'.status = "updating"
      /\ runtime'.job \in {j, NoJob} /\ (Is(j, "apply") => runtime'.job = j)
  BY <1>1, SetRuntimeEffect DEF Up
<1>5. env' \in EnvType /\ env' = env
  BY <1>2 DEF Up
<1>6. container' \in Images \cup {NoImage} /\ container' = env.image
  BY <1>2 DEF Up, EnvType
<1>7. Progress(j)'
  BY <1>1, <1>3, <1>5, <1>6 DEF Up, Progress, Moves, SameRequest, Is, WorkSteps
<1>8. UNCHANGED Outside /\ (NoFault \/ Fault)
  BY DEF Up
<1> QED
  BY <1>1, <1>3, <1>4, <1>5, <1>6, <1>7, <1>8, MovesContract DEF WorkSteps

\* A failing compose up.
LEMMA UpFailsStep ==
  ASSUME IInv, NEW j \in Jobs, UpFails(j) PROVE Contract(j)
PROOF
<1>1. /\ TypeOK /\ Progress(j) /\ task[j].pc = "up" /\ Working(j)
      /\ task[j].target \in Images
      /\ Is(j, "apply") => runtime.job = j
      /\ runtime.status = "updating" /\ runtime.job \in {j, NoJob}
  BY DEF IInv, Slot, Progress, UpFails, At, Working, WorkSteps
<1>2. /\ runtime \in RuntimeType /\ env \in EnvType
      /\ container \in Images \cup {NoImage} /\ task \in TaskType
  BY <1>1, Types
<1>3. Moves(j, "undo_env")
  BY <1>1, GotoEffect DEF UpFails, TaskSteps, WorkSteps
<1>4. /\ runtime' \in RuntimeType /\ runtime'.status = "updating"
      /\ runtime'.job \in {j, NoJob} /\ (Is(j, "apply") => runtime'.job = j)
  BY <1>1, <1>2 DEF UpFails
<1>5. env' \in EnvType /\ env' = env
  BY <1>2 DEF UpFails
<1>6. container' \in Images \cup {NoImage}
  BY <1>2 DEF UpFails, EnvType
<1>7. Progress(j)'
  BY <1>1, <1>3, <1>5, <1>6 DEF UpFails, Progress, Moves, SameRequest, Is, WorkSteps
<1>8. UNCHANGED Outside /\ (NoFault \/ Fault)
  BY DEF UpFails
<1> QED
  BY <1>1, <1>3, <1>4, <1>5, <1>6, <1>7, <1>8, MovesContract DEF WorkSteps

\* A healthy container.
LEMMA HealthCheckStep ==
  ASSUME IInv, NEW j \in Jobs, HealthCheck(j) PROVE Contract(j)
PROOF
<1>1. /\ TypeOK /\ Progress(j) /\ task[j].pc = "health" /\ Working(j)
      /\ task[j].target \in Images
      /\ Is(j, "apply") => runtime.job = j
      /\ runtime.status = "updating" /\ runtime.job \in {j, NoJob}
  BY DEF IInv, Slot, Progress, HealthCheck, At, Working, WorkSteps
<1>2. /\ runtime \in RuntimeType /\ env \in EnvType
      /\ container \in Images \cup {NoImage} /\ task \in TaskType
  BY <1>1, Types
<1>3. Moves(j, "persist")
  BY <1>1, GotoEffect DEF HealthCheck, TaskSteps, WorkSteps
<1>4. /\ runtime' \in RuntimeType /\ runtime'.status = "updating"
      /\ runtime'.job \in {j, NoJob} /\ (Is(j, "apply") => runtime'.job = j)
  BY <1>1, <1>2 DEF HealthCheck
<1>5. env' \in EnvType /\ env' = env
  BY <1>2 DEF HealthCheck
<1>6. container' \in Images \cup {NoImage}
  BY <1>2 DEF HealthCheck, EnvType
<1>7. Progress(j)'
  BY <1>1, <1>3, <1>5, <1>6 DEF HealthCheck, Progress, Moves, SameRequest, Is, WorkSteps
<1>8. UNCHANGED Outside /\ (NoFault \/ Fault)
  BY DEF HealthCheck
<1> QED
  BY <1>1, <1>3, <1>4, <1>5, <1>6, <1>7, <1>8, MovesContract DEF WorkSteps

\* An unhealthy container.
LEMMA HealthCheckFailsStep ==
  ASSUME IInv, NEW j \in Jobs, HealthCheckFails(j) PROVE Contract(j)
PROOF
<1>1. /\ TypeOK /\ Progress(j) /\ task[j].pc = "health" /\ Working(j)
      /\ task[j].target \in Images
      /\ Is(j, "apply") => runtime.job = j
      /\ runtime.status = "updating" /\ runtime.job \in {j, NoJob}
  BY DEF IInv, Slot, Progress, HealthCheckFails, At, Working, WorkSteps
<1>2. /\ runtime \in RuntimeType /\ env \in EnvType
      /\ container \in Images \cup {NoImage} /\ task \in TaskType
  BY <1>1, Types
<1>3. Moves(j, "undo_env")
  BY <1>1, GotoEffect DEF HealthCheckFails, TaskSteps, WorkSteps
<1>4. /\ runtime' \in RuntimeType /\ runtime'.status = "updating"
      /\ runtime'.job \in {j, NoJob} /\ (Is(j, "apply") => runtime'.job = j)
  BY <1>1, <1>2 DEF HealthCheckFails
<1>5. env' \in EnvType /\ env' = env
  BY <1>2 DEF HealthCheckFails
<1>6. container' \in Images \cup {NoImage}
  BY <1>2 DEF HealthCheckFails, EnvType
<1>7. Progress(j)'
  BY <1>1, <1>3, <1>5, <1>6
     DEF HealthCheckFails, Progress, Moves, SameRequest, Is, WorkSteps
<1>8. UNCHANGED Outside /\ (NoFault \/ Fault)
  BY DEF HealthCheckFails
<1> QED
  BY <1>1, <1>3, <1>4, <1>5, <1>6, <1>7, <1>8, MovesContract DEF WorkSteps

\* Recreating the previous container.
LEMMA UndoUpStep ==
  ASSUME IInv, NEW j \in Jobs, UndoUp(j) PROVE Contract(j)
PROOF
<1>1. /\ TypeOK /\ Progress(j) /\ task[j].pc = "undo_up" /\ Working(j)
      /\ task[j].target \in Images
      /\ Is(j, "apply") => runtime.job = j
      /\ runtime.status = "updating" /\ runtime.job \in {j, NoJob}
  BY DEF IInv, Slot, Progress, UndoUp, At, Working, WorkSteps
<1>2. /\ runtime \in RuntimeType /\ env \in EnvType
      /\ container \in Images \cup {NoImage} /\ task \in TaskType
  BY <1>1, Types
<1>3. Moves(j, "undo_health")
  BY <1>1, GotoEffect DEF UndoUp, TaskSteps, WorkSteps
<1>4. /\ runtime' \in RuntimeType /\ runtime'.status = "updating"
      /\ runtime'.job \in {j, NoJob} /\ (Is(j, "apply") => runtime'.job = j)
  BY <1>1, <1>2 DEF UndoUp
<1>5. env' \in EnvType /\ env' = env
  BY <1>2 DEF UndoUp
<1>6. container' \in Images \cup {NoImage} /\ container' = env.image
  BY <1>2 DEF UndoUp, EnvType
<1>7. Progress(j)'
  BY <1>1, <1>3, <1>5, <1>6 DEF UndoUp, Progress, Moves, SameRequest, Is, WorkSteps
<1>8. UNCHANGED Outside /\ (NoFault \/ Fault)
  BY DEF UndoUp
<1> QED
  BY <1>1, <1>3, <1>4, <1>5, <1>6, <1>7, <1>8, MovesContract DEF WorkSteps

\* The env file is put back.
LEMMA RestoreEnvStep ==
  ASSUME IInv, NEW j \in Jobs, RestoreEnv(j) PROVE Contract(j)
PROOF
<1>1. /\ TypeOK /\ Progress(j) /\ task[j].pc = "restore_env" /\ Working(j)
      /\ task[j].target \in Images
      /\ Is(j, "apply") => runtime.job = j
      /\ runtime.status = "updating" /\ runtime.job \in {j, NoJob}
  BY DEF IInv, Slot, Progress, RestoreEnv, At, Working, WorkSteps
<1>2. /\ runtime \in RuntimeType /\ env \in EnvType
      /\ container \in Images \cup {NoImage} /\ task \in TaskType
  BY <1>1, Types
<1>3. env' \in EnvType
  BY <1>1, <1>2, SetImageEffect DEF RestoreEnv, Progress, WorkSteps
<1> QED BY <1>1, <1>2, <1>3, FailContract DEF RestoreEnv

\* A failed apply with nothing to restore.
LEMMA NothingToRestoreStep ==
  ASSUME IInv, NEW j \in Jobs, NothingToRestore(j) PROVE Contract(j)
PROOF
<1>1. /\ TypeOK /\ Progress(j) /\ task[j].pc = "undo_env" /\ Working(j)
      /\ task[j].target \in Images
      /\ Is(j, "apply") => runtime.job = j
      /\ runtime.status = "updating" /\ runtime.job \in {j, NoJob}
  BY DEF IInv, Slot, Progress, NothingToRestore, At, Working, WorkSteps
<1>2. /\ runtime \in RuntimeType /\ env \in EnvType
      /\ container \in Images \cup {NoImage} /\ task \in TaskType
  BY <1>1, Types
<1>3. env' \in EnvType
  BY <1>1, <1>2 DEF NothingToRestore, Progress, WorkSteps
<1> QED BY <1>1, <1>2, <1>3, FailContract DEF NothingToRestore

\* The restored container is not healthy.
LEMMA UndoHealthCheckFailsStep ==
  ASSUME IInv, NEW j \in Jobs, UndoHealthCheckFails(j) PROVE Contract(j)
PROOF
<1>1. /\ TypeOK /\ Progress(j) /\ task[j].pc = "undo_health" /\ Working(j)
      /\ task[j].target \in Images
      /\ Is(j, "apply") => runtime.job = j
      /\ runtime.status = "updating" /\ runtime.job \in {j, NoJob}
  BY DEF IInv, Slot, Progress, UndoHealthCheckFails, At, Working, WorkSteps
<1>2. /\ runtime \in RuntimeType /\ env \in EnvType
      /\ container \in Images \cup {NoImage} /\ task \in TaskType
  BY <1>1, Types
<1>3. env' \in EnvType
  BY <1>1, <1>2 DEF UndoHealthCheckFails, Progress, WorkSteps
<1> QED BY <1>1, <1>2, <1>3, FailContract DEF UndoHealthCheckFails

\* A failed download.
LEMMA PullFailsStep ==
  ASSUME IInv, NEW j \in Jobs, PullFails(j) PROVE Contract(j)
PROOF
<1>1. /\ TypeOK /\ Progress(j) /\ task[j].pc = "pull" /\ Working(j)
      /\ task[j].target \in Images
      /\ Is(j, "apply") => runtime.job = j
      /\ runtime.status = "updating" /\ runtime.job \in {j, NoJob}
  BY DEF IInv, Slot, Progress, PullFails, At, Working, WorkSteps
<1>2. /\ runtime \in RuntimeType /\ env \in EnvType
      /\ container \in Images \cup {NoImage} /\ task \in TaskType
  BY <1>1, Types
<1>3. env' \in EnvType /\ env' = env
  BY <1>1, <1>2 DEF PullFails, Progress, WorkSteps
<1>4. CASE Is(j, "apply")
  <2>1. Moves(j, "restore_env")
    BY <1>1, <1>4, GotoEffect DEF PullFails, TaskSteps, WorkSteps
  <2>2. Progress(j)'
    BY <1>1, <1>3, <1>4, <2>1 DEF PullFails, Progress, Moves, SameRequest, Is, WorkSteps
  <2>3. runtime' = runtime /\ container' = container /\ UNCHANGED Outside /\ NoFault
    BY <1>4 DEF PullFails
  <2> QED BY <1>1, <1>2, <1>3, <2>1, <2>2, <2>3, MovesContract DEF WorkSteps
<1>5. CASE ~Is(j, "apply")
  BY <1>1, <1>2, <1>3, <1>5, FailContract DEF PullFails
<1> QED BY <1>4, <1>5

\* The env file names the previous image again.
LEMMA UndoEnvStep ==
  ASSUME IInv, NEW j \in Jobs, UndoEnv(j) PROVE Contract(j)
PROOF
<1>1. /\ TypeOK /\ Progress(j) /\ task[j].pc = "undo_env" /\ Working(j)
      /\ task[j].target \in Images
      /\ Is(j, "apply") => runtime.job = j
      /\ runtime.status = "updating" /\ runtime.job \in {j, NoJob}
  BY DEF IInv, Slot, Progress, UndoEnv, At, Working, WorkSteps
<1>2. /\ runtime \in RuntimeType /\ env \in EnvType
      /\ container \in Images \cup {NoImage} /\ task \in TaskType
  BY <1>1, Types
<1>3. env' \in EnvType /\ env'.image = task[j].previous
  BY <1>1, <1>2, SetImageEffect DEF UndoEnv, Progress, WorkSteps
<1>4. CASE task[j].available
  <2>1. Moves(j, "undo_up")
    BY <1>1, <1>4, GotoEffect DEF UndoEnv, TaskSteps, WorkSteps
  <2>2. Progress(j)'
    BY <1>1, <1>3, <1>4, <2>1 DEF UndoEnv, Progress, Moves, SameRequest, Is, WorkSteps
  <2>3. runtime' = runtime /\ container' = container /\ UNCHANGED Outside /\ NoFault
    BY <1>4 DEF UndoEnv
  <2> QED BY <1>1, <1>2, <1>3, <2>1, <2>2, <2>3, MovesContract DEF WorkSteps
<1>5. CASE ~task[j].available
  BY <1>1, <1>2, <1>3, <1>5, FailContract DEF UndoEnv
<1> QED BY <1>4, <1>5

\* The restored container is healthy.
LEMMA UndoHealthCheckStep ==
  ASSUME IInv, NEW j \in Jobs, UndoHealthCheck(j) PROVE Contract(j)
PROOF
<1>1. /\ TypeOK /\ Progress(j) /\ task[j].pc = "undo_health" /\ Working(j)
      /\ task[j].target \in Images
      /\ Is(j, "apply") => runtime.job = j
      /\ runtime.status = "updating" /\ runtime.job \in {j, NoJob}
  BY DEF IInv, Slot, Progress, UndoHealthCheck, At, Working, WorkSteps
<1>2. /\ runtime \in RuntimeType /\ env \in EnvType
      /\ container \in Images \cup {NoImage} /\ task \in TaskType
  BY <1>1, Types
<1>3. env' \in EnvType /\ env' = env
  BY <1>1, <1>2 DEF UndoHealthCheck, Progress, WorkSteps
<1>4. CASE Is(j, "apply")
  <2>1. Moves(j, "undo_persist")
    BY <1>1, <1>4, GotoEffect DEF UndoHealthCheck, TaskSteps, WorkSteps
  <2>2. Progress(j)'
    BY <1>1, <1>3, <1>4, <2>1
       DEF UndoHealthCheck, Progress, Moves, SameRequest, Is, WorkSteps
  <2>3. runtime' = runtime /\ container' = container /\ UNCHANGED Outside /\ NoFault
    BY <1>4 DEF UndoHealthCheck
  <2> QED BY <1>1, <1>2, <1>3, <2>1, <2>2, <2>3, MovesContract DEF WorkSteps
<1>5. CASE ~Is(j, "apply")
  BY <1>1, <1>2, <1>3, <1>5, FailContract DEF UndoHealthCheck
<1> QED BY <1>4, <1>5

\* The job is reported as done.
LEMMA FinishStep ==
  ASSUME IInv, NEW j \in Jobs, Finish(j) PROVE Contract(j)
PROOF
<1>1. /\ TypeOK /\ Progress(j) /\ task[j].pc = "persist" /\ Working(j)
      /\ task[j].target \in Images
      /\ Is(j, "apply") => runtime.job = j
      /\ runtime.status = "updating" /\ runtime.job \in {j, NoJob}
  BY DEF IInv, Slot, Progress, Finish, At, Working, WorkSteps
<1>2. /\ runtime \in RuntimeType /\ env \in EnvType
      /\ container \in Images \cup {NoImage} /\ task \in TaskType
  BY <1>1, Types
<1>3. Moves(j, "versions")
  BY <1>1, GotoEffect DEF Finish, TaskSteps
<1>4. runtime' \in RuntimeType
  BY <1>1, SetRuntimeEffect DEF Finish
<1>5. /\ task[j].previous \in Images
      /\ env.image = task[j].target /\ container = task[j].target
      /\ task[j].kind = "apply" => task[j].previous # task[j].target
  BY <1>1 DEF Progress, WorkSteps
<1>6. /\ env' \in EnvType /\ env'.image = env.image
      /\ env'.root = IF task[j].available THEN task[j].previous ELSE NoImage
  BY <1>1, <1>5, SetRootEffect DEF Finish
<1>7. TypeOK'
  BY <1>1, <1>2, <1>3, <1>4, <1>6, TypesAfter, Types DEF Finish, Moves, OnlyTask, Outside
<1>8. Progress(j)' /\ ~Working(j)'
  BY <1>1, <1>3, <1>5 DEF Progress, WorkSteps, Working, Moves, SameRequest
<1>9. Outcome(j)
  BY <1>1, <1>5, <1>6, <1>3 DEF Finish, Outcome, Moves
<1>10. Slot(j)' /\ \A i \in Jobs \ {j} : task'[i] = task[i]
  BY <1>3, <1>8 DEF Slot, Moves, OnlyTask
<1> QED BY <1>1, <1>7, <1>8, <1>9, <1>10 DEF Contract

\* The job is reported as undone.
LEMMA FinishUndoneStep ==
  ASSUME IInv, NEW j \in Jobs, FinishUndone(j) PROVE Contract(j)
PROOF
<1>1. /\ TypeOK /\ Progress(j) /\ task[j].pc = "undo_persist" /\ Working(j)
      /\ task[j].target \in Images
      /\ Is(j, "apply") => runtime.job = j
      /\ runtime.status = "updating" /\ runtime.job \in {j, NoJob}
  BY DEF IInv, Slot, Progress, FinishUndone, At, Working, WorkSteps
<1>2. /\ runtime \in RuntimeType /\ env \in EnvType
      /\ container \in Images \cup {NoImage} /\ task \in TaskType
  BY <1>1, Types
<1>3. Moves(j, "undo_versions")
  BY <1>1, GotoEffect DEF FinishUndone, TaskSteps
<1>4. runtime' \in RuntimeType
  BY <1>1, SetRuntimeEffect DEF FinishUndone
<1>5. /\ task[j].previous \in Images
      /\ env.image = task[j].previous /\ container = task[j].previous
      /\ task[j].kind = "apply" => task[j].previous # task[j].target
  BY <1>1 DEF Progress, WorkSteps
<1>6. env' \in EnvType /\ env'.image = env.image /\ env'.root = task[j].target
  BY <1>1, <1>5, SetRootEffect DEF FinishUndone
<1>7. TypeOK'
  BY <1>1, <1>2, <1>3, <1>4, <1>6, TypesAfter, Types
     DEF FinishUndone, Moves, OnlyTask, Outside
<1>8. Progress(j)' /\ ~Working(j)'
  BY <1>1, <1>3, <1>5 DEF Progress, WorkSteps, Working, Moves, SameRequest
<1>9. Outcome(j)
  BY <1>1, <1>5, <1>6, <1>3 DEF FinishUndone, Outcome, Moves, Progress, WorkSteps
<1>10. Slot(j)' /\ \A i \in Jobs \ {j} : task'[i] = task[i]
  BY <1>3, <1>8 DEF Slot, Moves, OnlyTask
<1> QED BY <1>1, <1>7, <1>8, <1>9, <1>10 DEF Contract

\* A failing docker inspection or env write.
LEMMA StepFailsStep ==
  ASSUME IInv, NEW j \in Jobs, StepFails(j) PROVE Contract(j)
PROOF
<1>1. TypeOK /\ Working(j)
  BY DEF IInv, StepFails, At, Working, WorkSteps
<1>2. container' \in Images \cup {NoImage} /\ env' \in EnvType
  BY <1>1, Types DEF StepFails
<1> QED BY <1>1, <1>2, FailContract DEF StepFails

-----------------------------------------------------------------------------
(* The steps after the slot is free                                         *)

\* A step outside the work of the job: who works, and on what, is the same.
LEMMA TailContract ==
  ASSUME IInv, NEW j \in Jobs, ~Working(j), task[j].pc # "idle",
         \/ Ends(j)
         \/ \E step \in {"refresh", "launch"} : Moves(j, step),
         TypeOK', env'.image = env.image, container' = container,
         runtime'.job = runtime.job, runtime'.status = runtime.status
  PROVE  Contract(j)
PROOF
<1>1. CASE Ends(j)
  BY <1>1, EndsContract
<1>2. ASSUME NEW step \in {"refresh", "launch"}, Moves(j, step)
      PROVE  Contract(j)
  <2>1. task'[j].pc = step /\ \A i \in Jobs \ {j} : task'[i] = task[i]
    BY <1>2 DEF Moves, OnlyTask
  <2>2. ~Working(j)'
    BY <2>1 DEF Working, WorkSteps
  <2>3. Progress(j)' /\ Slot(j)' /\ Outcome(j)
    BY <2>1, <2>2 DEF Progress, Slot, Outcome, WorkSteps
  <2> QED BY <2>1, <2>2, <2>3 DEF Contract
<1> QED BY <1>1, <1>2

\* Recording the versions.
LEMMA VersionsStep ==
  ASSUME IInv, NEW j \in Jobs, RecordVersions(j) \/ RecordUndoneVersions(j)
  PROVE  Contract(j)
PROOF
<1>1. /\ TypeOK /\ Progress(j)
      /\ task[j].pc \in {"versions", "current", "undo_versions"}
  BY DEF IInv, RecordVersions, RecordUndoneVersions, At
<1>2. task[j].target \in Images /\ task[j].previous \in Images /\ ~Working(j)
  BY <1>1 DEF Progress, Working, WorkSteps
<1>3. /\ runtime' \in RuntimeType /\ runtime'.job = runtime.job
      /\ runtime'.status = runtime.status
  BY <1>1, <1>2, Types DEF RecordVersions, RecordUndoneVersions, SetVersions, RuntimeType
<1>4. Ends(j) \/ Moves(j, "refresh")
  BY <1>1, GotoEffect, ReturnEffect DEF RecordVersions, RecordUndoneVersions, TaskSteps
<1>5. TypeOK'
  BY <1>1, <1>3, <1>4, TypesAfter, Types
     DEF RecordVersions, RecordUndoneVersions, Moves, Ends, OnlyTask, Outside
<1> QED
  BY <1>1, <1>2, <1>3, <1>4, <1>5, TailContract
     DEF RecordVersions, RecordUndoneVersions

\* Replacing the updater itself.
LEMMA RefreshStep ==
  ASSUME IInv, NEW j \in Jobs,
         \/ RefreshSkipped(j) \/ MarkRestart(j) \/ LaunchHelper(j) \/ LaunchFails(j)
  PROVE  Contract(j)
PROOF
<1>1. TypeOK /\ task[j].pc \in {"refresh", "launch"}
  BY DEF IInv, RefreshSkipped, MarkRestart, LaunchHelper, LaunchFails, At
<1>2. ~Working(j)
  BY <1>1 DEF Working, WorkSteps
<1>3. runtime' = runtime /\ container' = container /\ (NoFault \/ Fault)
  BY DEF RefreshSkipped, MarkRestart, LaunchHelper, LaunchFails
<1>4. env' \in EnvType /\ env'.image = env.image
  BY <1>1, Types DEF RefreshSkipped, MarkRestart, LaunchHelper, LaunchFails, EnvType
<1>5. Ends(j) \/ Moves(j, "launch")
  BY <1>1, GotoEffect, ReturnEffect
     DEF RefreshSkipped, MarkRestart, LaunchHelper, LaunchFails, TaskSteps
<1>6. sidecar' = sidecar /\ helper' \in {"none", "launched", "stopped", "cleared"}
  BY <1>1, Types DEF RefreshSkipped, MarkRestart, LaunchHelper, LaunchFails, Outside
<1>7. TypeOK'
  BY <1>1, <1>3, <1>4, <1>5, <1>6, TypesAfter, Types DEF Moves, Ends, OnlyTask
<1> QED BY <1>1, <1>2, <1>3, <1>4, <1>5, <1>7, TailContract

-----------------------------------------------------------------------------
(* Requests, stops and restarts                                             *)

\* A request is accepted: while the slot is free nobody works, unless a
\* rollback that has given it up does, and then the status says so.
LEMMA AcceptStep ==
  ASSUME IInv, Exclusive, NEW j \in Jobs, Accept(j) PROVE Preserved
PROOF
<1>1. /\ TypeOK /\ task[j].pc = "idle" /\ runtime.job = NoJob
      /\ Patient => runtime.status # "updating"
  BY DEF IInv, Accept, At
<1>2. ASSUME NEW i \in Jobs PROVE ~Working(i)
  <2>1. SUFFICES ASSUME Working(i) PROVE FALSE
    OBVIOUS
  <2>2. /\ runtime.status = "updating" /\ task[i].kind \in Kinds
        /\ Is(i, "apply") => runtime.job = i
    BY <2>1 DEF IInv, Slot
  <2>3. i # NoJob
    BY SidecarAssumption
  <2> QED BY <1>1, <2>2, <2>3, SidecarAssumption DEF Exclusive, Is
<1>3. PICK kind \in Kinds, target \in Images :
        task' = [task EXCEPT ![j] = [@ EXCEPT !.pc = "capture", !.kind = kind,
                                              !.target = target]]
  BY DEF Accept
<1> DEFINE u == [task[j] EXCEPT !.pc = "capture", !.kind = kind, !.target = target]
<1>4. /\ task \in TaskType /\ env \in EnvType
      /\ container \in Images \cup {NoImage}
      /\ helper \in {"none", "launched", "stopped", "cleared"}
  BY <1>1, Types
<1>5. /\ u.pc = "capture" /\ u.kind = kind /\ u.target = target
      /\ u \in [pc : TaskSteps, kind : Kinds \cup {"none"},
               target : Images \cup {NoImage},
               previous : Images \cup {NoImage}, available : BOOLEAN]
  BY <1>4 DEF TaskType, TaskSteps, WorkSteps
<1>6. task' = [task EXCEPT ![j] = u]
  BY <1>3
<1> HIDE DEF u
<1>7. OnlyTask(j) /\ task'[j] = u
  BY <1>4, <1>5, <1>6 DEF OnlyTask, TaskType
<1>8. /\ runtime' \in RuntimeType /\ runtime'.job = j
      /\ runtime'.status = "updating"
  BY <1>1, SetRuntimeEffect DEF Accept
<1>9. TypeOK'
  BY <1>1, <1>4, <1>7, <1>8, TypesAfter DEF Accept, OnlyTask, Outside
<1>10. Slot(j)' /\ Progress(j)' /\ Outcome(j)
  BY <1>1, <1>5, <1>7, <1>8 DEF Slot, Progress, Outcome, Is, WorkSteps
<1>11. ASSUME NEW i \in Jobs, i # j
       PROVE  ~Working(i)' /\ Slot(i)' /\ Progress(i)' /\ Outcome(i)
  <2>1. task'[i] = task[i] /\ ~Working(i)
    BY <1>2, <1>7, <1>11 DEF OnlyTask
  <2>2. Progress(i)' /\ ~Working(i)'
    BY <2>1 DEF IInv, Progress, Working, WorkSteps
  <2> QED BY <2>1, <2>2 DEF Slot, Outcome
<1>12. OneJobAtATime'
  BY <1>11 DEF OneJobAtATime
<1> QED BY <1>9, <1>10, <1>11, <1>12 DEF Preserved, IInv

\* A stop of the sidecar ends every job.
LEMMA StopStep ==
  ASSUME IInv, Stop, helper' \in {"none", "launched", "stopped", "cleared"}
  PROVE  Preserved
PROOF
<1>1. TypeOK /\ task \in TaskType
  BY Types DEF IInv
<1>2. Ended \in [pc : TaskSteps, kind : Kinds \cup {"none"},
                 target : Images \cup {NoImage},
                 previous : Images \cup {NoImage}, available : BOOLEAN]
      /\ Ended.pc = "done"
  BY DEF Ended, Fresh, TaskSteps
<1>3. task' = [i \in Jobs |-> IF task[i].pc = "idle" THEN task[i] ELSE Ended]
  BY DEF Stop
<1>4. task' \in TaskType
  BY <1>1, <1>2, <1>3 DEF TaskType
<1>5. \A i \in Jobs : task'[i].pc \in {"idle", "done"}
  BY <1>2, <1>3
<1>6. Unclaimed \in RuntimeType
  BY DEF Unclaimed, RuntimeType
<1>7. TypeOK'
  BY <1>1, <1>4, <1>6 DEF Stop, TypeOK, TaskType, RuntimeType
<1>8. \A i \in Jobs : ~Working(i)' /\ Progress(i)' /\ Outcome(i)
  BY <1>5 DEF Working, WorkSteps, Progress, Outcome
<1> QED BY <1>7, <1>8 DEF Preserved, IInv, OneJobAtATime, Slot

\* The sidecar starts again, or the helper clears the marker.
LEMMA IdleStep ==
  ASSUME IInv, UNCHANGED <<container, runtime, task>> /\ NoFault,
         env' \in EnvType, env'.image = env.image,
         sidecar' \in {"up", "down"},
         helper' \in {"none", "launched", "stopped", "cleared"}
  PROVE  Preserved
PROOF
<1>1. TypeOK
  BY DEF IInv
<1>2. TypeOK'
  BY <1>1 DEF TypeOK, EnvType, NoFault, bounds
<1>3. ASSUME NEW i \in Jobs PROVE Slot(i)' /\ Progress(i)' /\ Outcome(i)
  <2>1. Slot(i) /\ Progress(i)
    BY DEF IInv
  <2> QED BY <2>1 DEF Slot, Progress, Outcome, Working, Is
<1>4. OneJobAtATime'
  BY DEF IInv, OneJobAtATime, Working
<1> QED BY <1>2, <1>3, <1>4 DEF Preserved, IInv

\* Every step of a job meets its contract.
LEMMA JobSteps ==
  ASSUME IInv, NEW j \in Jobs,
         Proceed(j) \/ UpFails(j) \/ StepFails(j) \/ LaunchFails(j)
  PROVE  Contract(j)
PROOF
  BY CaptureStep, AlreadyCurrentStep, ActivateStep, PullStep,
     PullFailsStep, RestoreEnvStep, UpStep, UpFailsStep, HealthCheckStep,
     HealthCheckFailsStep, FinishStep, NothingToRestoreStep, UndoEnvStep,
     UndoUpStep, UndoHealthCheckStep, UndoHealthCheckFailsStep,
     FinishUndoneStep, StepFailsStep, VersionsStep, RefreshStep DEF Proceed

\* Every step preserves the invariant and reports what it has done.
LEMMA NextIInv == ASSUME IInv, Exclusive, [Next]_vars PROVE Preserved
PROOF
<1>0. TypeOK /\ env \in EnvType
  BY Types DEF IInv
<1>1. ASSUME NEW j \in Jobs, Accept(j) PROVE Preserved
  BY <1>1, AcceptStep
<1>2. ASSUME NEW j \in Jobs, Proceed(j) \/ UpFails(j) \/ StepFails(j) \/ LaunchFails(j)
      PROVE  Preserved
  <2>1. Contract(j)
    BY <1>2, JobSteps
  <2> QED BY <2>1, ContractSuffices
<1>3. CASE HelperStops
  BY <1>3, StopStep DEF HelperStops
<1>4. CASE HelperClearsMarker
  <2>1. env' \in EnvType /\ env'.image = env.image
    BY <1>0, <1>4 DEF HelperClearsMarker, EnvType
  <2> QED BY <1>0, <1>4, <2>1, IdleStep DEF HelperClearsMarker, TypeOK
<1>5. CASE HelperStarts
  BY <1>0, <1>5, IdleStep DEF HelperStarts
<1>6. CASE Crash
  BY <1>0, <1>6, StopStep DEF Crash, TypeOK
<1>7. CASE Restart
  BY <1>0, <1>7, IdleStep DEF Restart
<1>8. CASE UNCHANGED vars
  BY <1>0, <1>8, IdleStep DEF vars, TypeOK, NoFault
<1> QED
  BY <1>1, <1>2, <1>3, <1>4, <1>5, <1>6, <1>7, <1>8 DEF Next, HelperStep

-----------------------------------------------------------------------------
\* The inductive invariant holds in every reachable state.
LEMMA Invariance == ASSUME Exclusive PROVE Spec => []IInv
PROOF
<1>1. ASSUME IInv, [Next]_vars PROVE IInv'
  BY <1>1, NextIInv DEF Preserved
<1> QED BY InitIInv, <1>1, PTL DEF Spec

\* Every reachable state of the sidecar is of its type.
THEOREM SidecarTypeCorrect == ASSUME Exclusive PROVE Spec => []TypeOK
PROOF
<1>1. IInv => TypeOK
  BY DEF IInv
<1> QED BY Invariance, <1>1, PTL

\* No two jobs of the sidecar ever work at a time, when requests wait for the
\* end of the job before or no rollback is requested.
THEOREM OneJob == ASSUME Exclusive PROVE Spec => []OneJobAtATime
PROOF
<1>1. IInv => OneJobAtATime
  BY DEF IInv
<1> QED BY Invariance, <1>1, PTL

\* Whatever failed or crashed before, what a job of the sidecar reports is
\* what the container and the env file show.
THEOREM OutcomeReported == ASSUME Exclusive PROVE Spec => ReportedOutcome
PROOF
<1>1. ASSUME IInv, [Next]_vars PROVE \A j \in Jobs : Outcome(j)
  BY <1>1, NextIInv DEF Preserved
<1>2. IInv /\ [Next]_vars =>
        [\A j \in Jobs :
           LET t == task[j]  u == task'[j] IN
           /\ t.pc = "persist" /\ u.pc = "versions" =>
                /\ container' = t.target /\ env'.image = t.target
                /\ env'.root = IF t.available THEN t.previous ELSE NoImage
                /\ t.kind = "apply" => t.previous # t.target
           /\ t.pc = "undo_persist" /\ u.pc = "undo_versions" =>
                /\ container' = t.previous /\ env'.image = t.previous
                /\ env'.root = t.target
                /\ t.previous # t.target]_vars
  BY <1>1 DEF Outcome
<1> QED BY Invariance, <1>2, PTL DEF Spec, ReportedOutcome
-----------------------------------------------------------------------------
(* The service                                                              *)

Undisturbed == faults = 0 /\ interruptions = 0
Standing == container \in Healthy /\ env.image = container

\* How a job that was never disturbed keeps the way back open.
Serves(j) ==
  LET t == task[j] IN
  /\ t.pc = "capture" => Standing
  /\ t.pc \in WorkSteps \ {"capture"} => t.available /\ t.previous \in Healthy
  /\ t.pc \in {"activate", "pull", "restore_env"} => container = t.previous
  /\ t.pc = "pull" /\ t.kind # "apply" => env.image = t.previous
  /\ t.pc = "persist" => container \in Healthy

Service ==
  Undisturbed => /\ (\A j \in Jobs : ~Working(j)) => Standing
                 /\ \A j \in Jobs : Serves(j)

\* A job that ends its work undisturbed leaves Selu served.
LEMMA EndsServing ==
  ASSUME IInv, NEW j \in Jobs, Fail(j) \/ Return(j)
  PROVE  ~Working(j)'
PROOF
  BY ReturnEffect DEF IInv, Fail, Ends, Working, WorkSteps

LEMMA WorkingServes ==
  ASSUME IInv, NEW j \in Jobs, Working(j), Serves(j), Undisturbed, Undisturbed',
         Proceed(j) \/ UpFails(j) \/ StepFails(j) \/ LaunchFails(j)
  PROVE  /\ Working(j)' => Serves(j)'
         /\ ~Working(j)' => Standing'
PROOF
<1>1. TypeOK /\ Progress(j) /\ task \in TaskType /\ env \in EnvType /\ Healthy \subseteq Images
  BY Types, SidecarAssumption DEF IInv
<1>2. ~Fault
  BY DEF Undisturbed, Fault
<1>3. ~(UpFails(j) \/ StepFails(j) \/ LaunchFails(j))
  BY <1>2 DEF UpFails, StepFails, LaunchFails
<1>4. CASE Capture(j)
  <2>1. Standing /\ task[j].pc = "capture"
    BY <1>4 DEF Capture, At, Serves
  <2>2. container \in Images /\ container # NoImage /\ Root = container
    BY <1>1, <2>1, SidecarAssumption DEF Standing, Root
  <2> DEFINE u == [task[j] EXCEPT !.pc = IF Is(j, "apply") THEN "activate" ELSE "pull",
                                  !.previous = Root, !.available = (container # NoImage)]
  <2>3. /\ u.pc \in {"activate", "pull"} /\ u.previous = Root
        /\ u.available = TRUE
    BY <1>1, <2>2 DEF TaskType
  <2>4. task' = [task EXCEPT ![j] = u]
    BY <1>4 DEF Capture
  <2> HIDE DEF u
  <2>5. task'[j] = u
    BY <1>1, <2>4 DEF TaskType
  <2>6. UNCHANGED <<env, container>>
    BY <1>4 DEF Capture
  <2> QED BY <2>1, <2>2, <2>3, <2>5, <2>6 DEF Serves, Standing, Working, WorkSteps
<1>5. CASE AlreadyCurrent(j)
  <2>1. Standing /\ UNCHANGED <<env, container>>
    BY <1>5 DEF AlreadyCurrent, At, Serves
  <2>2. task'[j].pc = "current"
    BY <1>1, <1>5 DEF AlreadyCurrent, TaskType
  <2> QED BY <2>1, <2>2 DEF Standing, Working, WorkSteps
<1>6. CASE Activate(j)
  <2>1. task[j].pc = "activate" /\ container' = container
    BY <1>6 DEF Activate, At
  <2>2. Moves(j, IF Is(j, "apply") THEN "pull" ELSE "up")
    BY <1>1, <1>6, GotoEffect DEF Activate, TaskSteps, WorkSteps
  <2> QED BY <2>1, <2>2 DEF Serves, Moves, SameRequest, Working, WorkSteps, Is
<1>7. CASE Pull(j)
  <2>1. task[j].pc = "pull" /\ UNCHANGED <<env, container>>
    BY <1>7 DEF Pull, At
  <2>2. Moves(j, IF Is(j, "apply") THEN "up" ELSE "activate")
    BY <1>1, <1>7, GotoEffect DEF Pull, TaskSteps, WorkSteps
  <2> QED BY <2>1, <2>2 DEF Serves, Moves, SameRequest, Working, WorkSteps, Is
<1>8. CASE PullFails(j)
  <2>1. task[j].pc = "pull" /\ UNCHANGED <<env, container>>
    BY <1>8 DEF PullFails, At
  <2>2. CASE Is(j, "apply")
    <3>1. Moves(j, "restore_env")
      BY <1>1, <1>8, <2>2, GotoEffect DEF PullFails, TaskSteps, WorkSteps
    <3> QED BY <2>1, <3>1 DEF Serves, Moves, SameRequest, Working, WorkSteps
  <2>3. CASE ~Is(j, "apply")
    <3>1. ~Working(j)'
      BY <1>8, <2>3, EndsServing DEF PullFails
    <3> QED BY <2>1, <2>3, <3>1 DEF Serves, Standing, WorkSteps, Is
  <2> QED BY <2>2, <2>3
<1>9. CASE RestoreEnv(j)
  <2>1. task[j].pc = "restore_env" /\ container' = container /\ task[j].previous \in Images
    BY <1>1, <1>9 DEF RestoreEnv, At, Progress, WorkSteps
  <2>2. env'.image = task[j].previous
    BY <1>1, <1>9, <2>1, SetImageEffect DEF RestoreEnv
  <2>3. ~Working(j)'
    BY <1>9, EndsServing DEF RestoreEnv
  <2> QED BY <2>1, <2>2, <2>3 DEF Serves, Standing, WorkSteps
<1>10. CASE Up(j)
  <2>1. task[j].pc = "up"
    BY <1>10 DEF Up, At
  <2>2. Moves(j, "health")
    BY <1>1, <1>10, GotoEffect DEF Up, TaskSteps, WorkSteps
  <2> QED BY <2>1, <2>2 DEF Serves, Moves, SameRequest, Working, WorkSteps
<1>11. CASE HealthCheck(j)
  <2>1. task[j].pc = "health" /\ container \in Healthy /\ container' = container
    BY <1>11 DEF HealthCheck, At
  <2>2. Moves(j, "persist")
    BY <1>1, <1>11, GotoEffect DEF HealthCheck, TaskSteps, WorkSteps
  <2> QED BY <2>1, <2>2 DEF Serves, Moves, SameRequest, Working, WorkSteps
<1>12. CASE HealthCheckFails(j)
  <2>1. task[j].pc = "health"
    BY <1>12 DEF HealthCheckFails, At
  <2>2. Moves(j, "undo_env")
    BY <1>1, <1>12, GotoEffect DEF HealthCheckFails, TaskSteps, WorkSteps
  <2> QED BY <2>1, <2>2 DEF Serves, Moves, SameRequest, Working, WorkSteps
<1>13. CASE Finish(j)
  <2>1. /\ task[j].pc = "persist" /\ container' = container /\ container \in Healthy
        /\ env.image = container
    BY <1>1, <1>13 DEF Finish, At, Serves, Progress
  <2>2. (IF task[j].available THEN task[j].previous ELSE NoImage) \in Images \cup {NoImage}
    BY <1>1 DEF TaskType
  <2>3. env'.image = env.image
    BY <1>1, <1>13, <2>2, SetRootEffect DEF Finish
  <2>4. Moves(j, "versions")
    BY <1>1, <1>13, GotoEffect DEF Finish, TaskSteps
  <2> QED BY <2>1, <2>3, <2>4 DEF Moves, Working, WorkSteps, Standing
<1>14. ~NothingToRestore(j)
  BY DEF NothingToRestore, At, Serves, WorkSteps
<1>15. CASE UndoEnv(j)
  <2>1. task[j].pc = "undo_env" /\ task[j].available
    BY <1>15 DEF UndoEnv, At, Serves, WorkSteps
  <2>2. Moves(j, "undo_up")
    BY <1>1, <1>15, <2>1, GotoEffect DEF UndoEnv, TaskSteps, WorkSteps
  <2> QED BY <2>1, <2>2 DEF Serves, Moves, SameRequest, Working, WorkSteps
<1>16. CASE UndoUp(j)
  <2>1. task[j].pc = "undo_up"
    BY <1>16 DEF UndoUp, At
  <2>2. Moves(j, "undo_health")
    BY <1>1, <1>16, GotoEffect DEF UndoUp, TaskSteps, WorkSteps
  <2> QED BY <2>1, <2>2 DEF Serves, Moves, SameRequest, Working, WorkSteps
<1>17. CASE UndoHealthCheck(j)
  <2>1. task[j].pc = "undo_health" /\ container \in Healthy /\ UNCHANGED <<env, container>>
    BY <1>17 DEF UndoHealthCheck, At
  <2>2. env.image = container
    BY <1>1, <2>1 DEF Progress
  <2>3. CASE Is(j, "apply")
    <3>1. Moves(j, "undo_persist")
      BY <1>1, <1>17, <2>3, GotoEffect DEF UndoHealthCheck, TaskSteps, WorkSteps
    <3> QED BY <2>1, <3>1 DEF Serves, Moves, SameRequest, Working, WorkSteps
  <2>4. CASE ~Is(j, "apply")
    <3>1. ~Working(j)'
      BY <1>17, <2>4, EndsServing DEF UndoHealthCheck
    <3> QED BY <2>1, <2>2, <3>1 DEF Standing
  <2> QED BY <2>3, <2>4
<1>18. ~UndoHealthCheckFails(j)
  BY <1>1, <1>2 DEF UndoHealthCheckFails, At, Serves, Progress, WorkSteps
<1>19. CASE FinishUndone(j)
  <2>1. /\ task[j].pc = "undo_persist" /\ container' = container
        /\ container = task[j].previous /\ env.image = container /\ container \in Healthy
    BY <1>1, <1>19 DEF FinishUndone, At, Progress, Serves, WorkSteps
  <2>2. task[j].target \in Images
    BY <1>1, <2>1 DEF Progress, WorkSteps
  <2>3. env'.image = env.image
    BY <1>1, <1>19, <2>2, SetRootEffect DEF FinishUndone
  <2>4. Moves(j, "undo_versions")
    BY <1>1, <1>19, GotoEffect DEF FinishUndone, TaskSteps
  <2> QED BY <2>1, <2>3, <2>4 DEF Moves, Working, WorkSteps, Standing
<1>20. ~(\/ RecordVersions(j) \/ RecordUndoneVersions(j) \/ RefreshSkipped(j)
         \/ MarkRestart(j) \/ LaunchHelper(j))
  BY DEF RecordVersions, RecordUndoneVersions, RefreshSkipped, MarkRestart,
     LaunchHelper, At, Working, WorkSteps
<1> QED
  BY <1>3, <1>4, <1>5, <1>6, <1>7, <1>8, <1>9, <1>10, <1>11, <1>12, <1>13, <1>14,
     <1>15, <1>16, <1>17, <1>18, <1>19, <1>20 DEF Proceed

\* A fault or a killed job is counted for good.
LEMMA DisturbanceStays ==
  ASSUME IInv, [Next]_vars, Undisturbed' PROVE Undisturbed
PROOF
<1>1. faults \in Nat /\ interruptions \in Nat
  BY SidecarAssumption DEF IInv, TypeOK
<1>2. /\ faults' = faults \/ faults' = faults + 1
      /\ interruptions' = interruptions \/ interruptions' = interruptions + 1
  BY DEF Next, Accept, Proceed, Capture, AlreadyCurrent, Activate, Pull,
     PullFails, RestoreEnv, Up, HealthCheck, HealthCheckFails, Finish,
     RecordVersions, NothingToRestore, UndoEnv, UndoUp, UndoHealthCheck,
     UndoHealthCheckFails, FinishUndone, RecordUndoneVersions, RefreshSkipped,
     MarkRestart, LaunchHelper, UpFails, StepFails, LaunchFails, HelperStep,
     HelperStops, HelperClearsMarker, HelperStarts, Crash, Restart, Stop,
     Fault, NoFault, bounds, vars
<1> QED BY <1>1, <1>2 DEF Undisturbed

\* A job that does not work has nothing to keep.
LEMMA IdleServes == ASSUME NEW j \in Jobs PROVE /\ ~Working(j) => Serves(j)
                                                /\ ~Working(j)' => Serves(j)'
PROOF BY DEF Serves, Working, WorkSteps

\* While the service is kept and job j alone can work, j's part suffices.
LEMMA ServiceSuffices ==
  ASSUME NEW j \in Jobs, \A i \in Jobs \ {j} : ~Working(i)',
         Working(j)' => Serves(j)', ~Working(j)' => Standing'
  PROVE  Service'
PROOF
<1>1. \A i \in Jobs : Serves(i)'
  BY IdleServes
<1>2. (\A i \in Jobs : ~Working(i))' => Standing'
  OBVIOUS
<1> QED BY <1>1, <1>2 DEF Service

\* The service is inductive relative to IInv.
LEMMA NextService ==
  ASSUME IInv, Exclusive, Service, [Next]_vars, Undisturbed' PROVE Service'
PROOF
<1>1. /\ Undisturbed /\ ((\A j \in Jobs : ~Working(j)) => Standing)
      /\ \A j \in Jobs : Serves(j)
  BY DisturbanceStays DEF Service
<1>2. /\ \A i, j \in Jobs : Working(i) /\ Working(j) => i = j
      /\ \A i, j \in Jobs : Working(i)' /\ Working(j)' => i = j
  BY NextIInv DEF IInv, Preserved, OneJobAtATime
<1>3. ASSUME NEW j \in Jobs, Accept(j) PROVE Service'
  <2>1. TypeOK /\ task \in TaskType
    BY Types DEF IInv
  <2>2. PICK kind \in Kinds, target \in Images :
          task' = [task EXCEPT ![j] = [@ EXCEPT !.pc = "capture", !.kind = kind,
                                                !.target = target]]
    BY <1>3 DEF Accept
  <2>3. task'[j].pc = "capture" /\ \A i \in Jobs \ {j} : task'[i] = task[i]
    BY <2>1, <2>2 DEF TaskType
  <2>4. Working(j)' /\ ~Working(j)
    BY <1>3, <2>3 DEF Working, Accept, WorkSteps
  <2>5. \A i \in Jobs \ {j} : ~Working(i)'
    BY <1>2, <2>4
  <2>6. \A i \in Jobs : ~Working(i)
    BY <2>3, <2>4, <2>5 DEF Working
  <2>7. UNCHANGED <<env, container>> /\ Standing
    BY <1>1, <1>3, <2>6 DEF Accept
  <2>8. Serves(j)'
    BY <2>3, <2>7 DEF Serves, Standing, WorkSteps
  <2> QED BY <2>4, <2>5, <2>8, ServiceSuffices
<1>4. ASSUME NEW j \in Jobs, Proceed(j) \/ UpFails(j) \/ StepFails(j) \/ LaunchFails(j)
      PROVE  Service'
  <2>1. Contract(j)
    BY <1>4, JobSteps
  <2>2. \A i \in Jobs \ {j} : task'[i] = task[i] /\ (Working(i)' <=> Working(i))
    BY <2>1 DEF Contract, Working
  <2>3. CASE Working(j)
    <3>1. \A i \in Jobs \ {j} : ~Working(i)'
      BY <1>2, <2>2, <2>3
    <3>2. Serves(j)
      BY <1>1
    <3>3. /\ Working(j)' => Serves(j)'
          /\ ~Working(j)' => Standing'
      BY <1>1, <1>4, <2>3, <3>2, WorkingServes
    <3> QED BY <3>1, <3>3, ServiceSuffices
  <2>4. CASE ~Working(j)
    <3>1. env'.image = env.image /\ container' = container /\ ~Working(j)'
      BY <2>1, <2>4 DEF Contract
    <3>2. (\A i \in Jobs : ~Working(i))' => Standing'
      <4>1. (\A i \in Jobs : ~Working(i)') => \A i \in Jobs : ~Working(i)
        BY <2>2, <2>4
      <4> QED BY <1>1, <3>1, <4>1 DEF Standing
    <3>3. ASSUME NEW i \in Jobs PROVE Serves(i)'
      <4>1. CASE i = j
        BY <3>1, <4>1, IdleServes
      <4>2. CASE i # j
        BY <1>1, <2>2, <3>1, <4>2 DEF Serves, Standing
      <4> QED BY <4>1, <4>2
    <3> QED BY <3>2, <3>3 DEF Service
  <2> QED BY <2>3, <2>4
<1>5. CASE HelperStops \/ Crash
  <2>1. Stop
    BY <1>5 DEF HelperStops, Crash
  <2>2. \A j \in Jobs : ~Working(j)
    <3>1. interruptions = 0 /\ interruptions' = 0
      BY <1>1 DEF Undisturbed
    <3> QED BY <2>1, <3>1 DEF Stop
  <2>3. \A j \in Jobs : ~Working(j)'
    BY <2>1 DEF Stop, Working, Ended, Fresh, WorkSteps
  <2>4. Standing'
    BY <1>1, <2>1, <2>2 DEF Stop, Standing
  <2>5. \A j \in Jobs : Serves(j)'
    BY <2>3, IdleServes
  <2> QED BY <2>4, <2>5 DEF Service
<1>6. CASE \/ HelperClearsMarker \/ HelperStarts \/ Restart \/ UNCHANGED vars
  <2>1. task' = task /\ container' = container /\ env'.image = env.image
    <3>1. env \in EnvType
      BY Types DEF IInv
    <3> QED BY <1>6, <3>1 DEF HelperClearsMarker, HelperStarts, Restart, vars, EnvType
  <2>2. \A j \in Jobs : Serves(j)'
    BY <1>1, <2>1 DEF Serves, Standing
  <2>3. (\A j \in Jobs : ~Working(j))' => Standing'
    BY <1>1, <2>1 DEF Standing, Working
  <2> QED BY <2>2, <2>3 DEF Service
<1> QED BY <1>3, <1>4, <1>5, <1>6 DEF Next, HelperStep

\* Whenever no job works, and none was killed or met a failing command, a
\* healthy Selu runs and the env file names it.
THEOREM ServiceKept == ASSUME Exclusive PROVE Spec => []ServiceConsistent
PROOF
<1>1. Init => Service
  <2>1. ASSUME Init PROVE Service
    <3>1. \A j \in Jobs : task[j].pc = "idle"
      BY <2>1 DEF Init, Fresh
    <3>2. Standing
      BY <2>1 DEF Init, Standing
    <3> QED BY <3>1, <3>2 DEF Service, Serves, WorkSteps
  <2> QED BY <2>1
<1>2. IInv /\ Service /\ [Next]_vars => Service'
  BY NextService DEF Service
<1>3. Service => ServiceConsistent
  BY DEF Service, Undisturbed, Standing, ServiceConsistent
<1> QED BY <1>1, <1>2, <1>3, Invariance, PTL DEF Spec

-----------------------------------------------------------------------------
(* The orchestrator and its sidecar                                         *)

\* Of the steps of a handler, only an accepted call changes the sidecar.
LEMMA HandlersKeepSidecar ==
  ASSUME NEW h \in Handlers,
         (Continue(h) /\ ~Send(h)) \/ CreateJobFails(h) \/ Drop(h)
  PROVE  UNCHANGED vars
PROOF
  BY DEF Continue, Claim, CreateJob, CreateJobFails, SendFails, FetchFails,
         CheckSidecar, LoadState, PersistStarted, PersistChecked,
         RecordFailure, ClearSlot, Drop, Local

\* Every step of the system is one of the sidecar, or leaves it alone.
LEMMA StepsDriveSidecar == ASSUME [SystemNext]_systemVars PROVE [Next]_vars
PROOF
<1>1. ASSUME NEW j \in Jobs, RequestApply(j) \/ RequestRollback(j)
      PROVE  UNCHANGED vars
  BY <1>1 DEF RequestApply, RequestRollback
<1>2. ASSUME NEW c \in Checks, RequestCheck(c) PROVE UNCHANGED vars
  BY <1>2 DEF RequestCheck
<1>3. ASSUME NEW j \in Jobs, JobStep(j) PROVE Next
  BY <1>3 DEF JobStep, Next
<1>4. ASSUME NEW h \in Handlers, Send(h) PROVE Next
  BY <1>4 DEF Send, Next
<1>5. ASSUME NEW p \in Pollers, Poll(p) PROVE UNCHANGED vars
  BY <1>5 DEF Poll, PollLoad, PollSidecar, PollFails, PollSave, PollGivesUp, SetPoll
<1>6. CASE SidecarStep
  BY <1>6 DEF SidecarStep, Next
<1>7. CASE UNCHANGED systemVars
  BY <1>7 DEF systemVars
<1> QED
  BY <1>1, <1>2, <1>3, <1>4, <1>5, <1>6, <1>7, HandlersKeepSidecar DEF SystemNext

\* Every behaviour of the composed system is, seen from the sidecar, one of the
\* sidecar with clients that send requests whenever they like.
THEOREM ImplementsSidecar == SystemSpec => Spec
PROOF
<1>1. SystemInit => Init
  BY DEF SystemInit
<1>2. [SystemNext]_systemVars => [Next]_vars
  BY StepsDriveSidecar
<1> QED BY <1>1, <1>2, PTL DEF SystemSpec, Spec

\* "Another update action is already running": as long as nobody asks for a
\* rollback, no two updates work at a time, whatever handlers, polls, lost
\* answers, faults and crashes do.
THEOREM OneUpdate ==
  ASSUME "rollback" \notin Kinds PROVE SystemSpec => []OneUpdateAtATime
PROOF
<1>1. Exclusive
  BY DEF Exclusive
<1>2. Spec => []OneJobAtATime
  BY <1>1, OneJob
<1> QED BY <1>2, ImplementsSidecar, PTL DEF OneUpdateAtATime
=============================================================================
