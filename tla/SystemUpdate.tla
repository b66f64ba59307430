---------------------------- MODULE SystemUpdate ----------------------------
(***************************************************************************)
(* The orchestrator's side of system updates (services/system_updates.rs)  *)
(* together with the updater sidecar it drives: requests to apply, to roll *)
(* back and to check, which claim the slot in system_update_state, and     *)
(* status requests, which ask the sidecar and merge its answer.  The       *)
(* orchestrator runs in the container that the sidecar recreates.          *)
(*                                                                         *)
(* A request is named by the job id it creates.  Each await is a step; a   *)
(* write that fails, like a client that leaves, ends the handler where it  *)
(* is (Drop).  The row's texts, and the job log system_update_jobs, which  *)
(* is written and never read, are left out.                                *)
(*                                                                         *)
(* The sidecar is UpdaterSidecar, extended: vars, Accept, Proceed and the  *)
(* other steps of a job are its own.  The orchestrator sends its requests  *)
(* whatever the sidecar reports: for it Patient is FALSE.                  *)
(***************************************************************************)
EXTENDS UpdaterSidecar

CONSTANTS
  Checks,            \* job ids of update checks
  Recorded,          \* what the row may name as previous image to begin with
  Pollers,           \* status requests that may overlap
  MaxDisturbances    \* bound on dropped handlers, lost answers and failed writes

ASSUME UpdateAssumption ==
  /\ Checks \cap Jobs = {} /\ NoJob \notin Checks
  /\ Pollers \cap (Jobs \cup Checks) = {}
  /\ Recorded \subseteq Images
  /\ MaxDisturbances \in Nat

VARIABLES
  row,            \* system_update_state: the slot and the images it names
  handler,        \* progress of each request, and the row it has loaded
  poll,           \* progress of each status request
  disturbances

systemVars == <<vars, row, handler, poll, disturbances>>

Handlers == Jobs \cup Checks
Blank == [slot |-> NoJob, installed |-> NoImage, previous |-> NoImage]
Rows == [slot : Handlers \cup {NoJob}, installed : Images \cup {NoImage},
         previous : Images \cup {NoImage}]
Unseen == [status |-> "idle", job |-> NoJob,
           installed |-> NoImage, previous |-> NoImage]

Waiting == {"claim", "create", "send", "answered", "persist", "refused", "clear"}

SystemTypeOK ==
  /\ TypeOK
  /\ row \in Rows
  /\ handler \in [Handlers -> [pc : Waiting \cup {"idle", "done"},
                               kind : Kinds \cup {"check"},
                               target : Images \cup {NoImage}, copy : Rows]]
  /\ poll \in [Pollers -> [pc : {"idle", "ask", "save", "lost"}, copy : Rows,
                           seen : [status : {"idle", "updating", "failed",
                                             "rollback_available"},
                                   job : Jobs \cup {NoJob},
                                   installed : Images \cup {NoImage},
                                   previous : Images \cup {NoImage}]]]
  /\ disturbances \in 0..MaxDisturbances
  \* only a request that has claimed the slot is named anywhere
  /\ \A h \in Handlers :
       handler[h].pc \in {"idle", "claim"} =>
         row.slot # h /\ (h \in Jobs => task[h].pc = "idle")

Begun(kind, target) ==
  [pc |-> "claim", kind |-> kind, target |-> target, copy |-> Blank]

\* The row as it was seeded, or as an earlier update has left it.
SystemInit ==
  /\ Init
  /\ row = Blank \/ row \in [slot : {NoJob}, installed : {container}, previous : Recorded]
  /\ handler = [h \in Handlers |-> [Begun("check", NoImage) EXCEPT !.pc = "idle"]]
  /\ poll = [p \in Pollers |-> [pc |-> "idle", copy |-> Blank, seen |-> Unseen]]
  /\ disturbances = 0

-----------------------------------------------------------------------------
\* Selu answers requests while its container runs an image that works.
Serving == container \in Healthy

HandlerAt(h, step) == Serving /\ handler[h].pc = step
SetHandler(h, step) == handler' = [handler EXCEPT ![h].pc = step]
SetSlot(job) == row' = [row EXCEPT !.slot = job]

Calm == UNCHANGED disturbances
Disturb == disturbances < MaxDisturbances /\ disturbances' = disturbances + 1

\* A step of handler h in the orchestrator alone.
Local(h, from, to) == HandlerAt(h, from) /\ SetHandler(h, to) /\ UNCHANGED <<vars, poll>>

\* hydrate_installed_from_sidecar fills in what the row does not know.
Hydrated ==
  IF row.installed = NoImage /\ sidecar = "up"
  THEN [row EXCEPT !.installed = Root] ELSE row

\* persist_state writes every column of the row it is given.
PersistState(state) == row' = state

-----------------------------------------------------------------------------
(* apply_update_via_sidecar, rollback_update_via_sidecar,                   *)
(* check_for_updates_via_sidecar                                            *)

\* The release metadata, fetched before the claim, names the target.
RequestApply(j) ==
  /\ HandlerAt(j, "idle") /\ "apply" \in Kinds
  /\ \E target \in Images : handler' = [handler EXCEPT ![j] = Begun("apply", target)]
  /\ UNCHANGED <<vars, row, poll>> /\ Calm

\* The target is the row's previous image, read before the claim.
RequestRollback(j) ==
  /\ HandlerAt(j, "idle") /\ "rollback" \in Kinds
  /\ row.previous # NoImage
  /\ handler' = [handler EXCEPT ![j] = Begun("rollback", row.previous)]
  /\ UNCHANGED <<vars, row, poll>> /\ Calm

RequestCheck(c) ==
  /\ HandlerAt(c, "idle")
  /\ handler' = [handler EXCEPT ![c] = Begun("check", NoImage)]
  /\ UNCHANGED <<vars, row, poll>> /\ Calm

\* try_claim_active_job: one conditional UPDATE
Claim(h) ==
  /\ Local(h, "claim", IF row.slot = NoJob THEN "create" ELSE "done")
  /\ IF row.slot = NoJob THEN SetSlot(h) ELSE UNCHANGED row
  /\ Calm

CreateJob(h) == Local(h, "create", "send") /\ UNCHANGED row /\ Calm

\* set_failure_state frees the slot, whoever has it by now.
CreateJobFails(h) == Local(h, "create", "done") /\ SetSlot(NoJob) /\ Disturb

\* The sidecar takes the job and its answer arrives, or is lost on the way.
Send(j) ==
  /\ HandlerAt(j, "send") /\ j \in Jobs
  /\ Accept(j)
  /\ task'[j].kind = handler[j].kind /\ task'[j].target = handler[j].target
  /\ \/ SetHandler(j, "answered") /\ Calm
     \/ SetHandler(j, "refused") /\ Disturb
  /\ UNCHANGED <<row, poll>>

\* "Another update job is already running", or nobody answers.
SendFails(j) ==
  /\ Local(j, "send", "refused") /\ j \in Jobs
  /\ IF sidecar = "down" \/ runtime.job # NoJob THEN Calm ELSE Disturb
  /\ UNCHANGED row

\* The release metadata cannot be fetched: the check returns with `?`.
FetchFails(c) ==
  /\ Local(c, "send", "done") /\ c \in Checks
  /\ UNCHANGED row /\ Calm

CheckSidecar(c) ==
  /\ Local(c, "send", IF sidecar = "up" THEN "answered" ELSE "refused")
  /\ c \in Checks
  /\ UNCHANGED row /\ Calm

LoadState(h) ==
  /\ HandlerAt(h, "answered")
  /\ handler' = [handler EXCEPT ![h] =
                   [@ EXCEPT !.pc = "persist",
                             !.copy = IF h \in Checks THEN Hydrated ELSE row]]
  /\ UNCHANGED <<vars, row, poll>> /\ Calm

\* The row that was loaded, with the job in its slot.
PersistStarted(j) ==
  /\ Local(j, "persist", "done") /\ j \in Jobs
  /\ LET copy == handler[j].copy IN
       PersistState([slot |-> j, installed |-> copy.installed, previous |-> copy.installed])
  /\ Calm

PersistChecked(c) ==
  /\ Local(c, "persist", "done") /\ c \in Checks
  /\ PersistState([handler[c].copy EXCEPT !.slot = NoJob])
  /\ Calm

\* set_failure_state, then set_active_job: the slot is cleared twice.
RecordFailure(h) == Local(h, "refused", "clear") /\ SetSlot(NoJob) /\ Calm
ClearSlot(h) == Local(h, "clear", "done") /\ SetSlot(NoJob) /\ Calm

Drop(h) ==
  /\ handler[h].pc \in Waiting /\ Serving
  /\ SetHandler(h, "done")
  /\ UNCHANGED <<vars, row, poll>> /\ Disturb

-----------------------------------------------------------------------------
(* update_status                                                            *)

PollAt(p, step) == Serving /\ poll[p].pc = step
SetPoll(p, state) ==
  /\ poll' = [poll EXCEPT ![p] = state]
  /\ UNCHANGED <<vars, handler>>

\* Nothing is asked or written while the slot is free.
PollLoad(p) ==
  /\ PollAt(p, "idle")
  /\ row.slot # NoJob
  /\ SetPoll(p, [poll[p] EXCEPT !.pc = "ask", !.copy = Hydrated])
  /\ UNCHANGED row /\ Calm

\* The image is inspected, the rest is RuntimeState.
StatusAnswer ==
  [status |-> runtime.status, job |-> runtime.job,
   installed |-> Root, previous |-> runtime.previous]

PollSidecar(p) ==
  /\ PollAt(p, "ask") /\ sidecar = "up"
  /\ SetPoll(p, [poll[p] EXCEPT !.pc = "save", !.seen = StatusAnswer])
  /\ UNCHANGED row /\ Calm

PollFails(p) ==
  /\ PollAt(p, "ask")
  /\ SetPoll(p, [poll[p] EXCEPT !.pc = "lost"])
  /\ IF sidecar = "down" THEN Calm ELSE Disturb
  /\ UNCHANGED row

Known(new, old) == IF new = NoImage THEN old ELSE new

\* Mutant: an update that was undone still counts as running.
MergeKeepingUndone(copy, seen) ==
  [slot |-> CASE seen.status \in {"idle", "failed"} -> NoJob
              [] seen.job # NoJob -> seen.job
              [] OTHER -> copy.slot,
   installed |-> Known(seen.installed, copy.installed),
   previous |-> Known(seen.previous, copy.previous)]

\* merge_sidecar_status: every status but "updating" ends the job.
Merge(copy, seen) ==
  [slot |-> CASE seen.status # "updating" -> NoJob
              [] seen.job # NoJob -> seen.job
              [] OTHER -> copy.slot,
   installed |-> Known(seen.installed, copy.installed),
   previous |-> Known(seen.previous, copy.previous)]

PollSave(p) ==
  /\ PollAt(p, "save")
  /\ PersistState(Merge(poll[p].copy, poll[p].seen))
  /\ SetPoll(p, [poll[p] EXCEPT !.pc = "idle", !.copy = Blank, !.seen = Unseen])
  /\ Calm

\* mark_status_poll_failed
PollGivesUp(p) ==
  /\ PollAt(p, "lost")
  /\ PersistState([poll[p].copy EXCEPT !.slot = NoJob])
  /\ SetPoll(p, [poll[p] EXCEPT !.pc = "idle", !.copy = Blank, !.seen = Unseen])
  /\ Calm

-----------------------------------------------------------------------------
(* The sidecar recreates the container in which all of this runs.           *)

\* The step replaces the container of the orchestrator.
Recreates(j) ==
  /\ task[j].pc \in {"up", "undo_up"}
  /\ task'[j].pc \in {"health", "undo_health"} \/ container' # container

StopOrchestrator ==
  /\ handler' = [h \in Handlers |->
                   IF handler[h].pc \in Waiting THEN [handler[h] EXCEPT !.pc = "done"]
                                                ELSE handler[h]]
  /\ poll' = [p \in Pollers |-> [pc |-> "idle", copy |-> Blank, seen |-> Unseen]]

JobStep(j) ==
  /\ Proceed(j) \/ UpFails(j) \/ StepFails(j) \/ LaunchFails(j)
  /\ IF Recreates(j) THEN StopOrchestrator ELSE UNCHANGED <<handler, poll>>
  /\ UNCHANGED row /\ Calm

SidecarStep ==
  /\ HelperStep \/ Crash \/ Restart
  /\ UNCHANGED <<row, handler, poll>> /\ Calm

-----------------------------------------------------------------------------
Continue(h) ==
  \/ Claim(h) \/ CreateJob(h) \/ Send(h) \/ SendFails(h) \/ FetchFails(h)
  \/ CheckSidecar(h) \/ LoadState(h) \/ PersistStarted(h) \/ PersistChecked(h)
  \/ RecordFailure(h) \/ ClearSlot(h)

Poll(p) ==
  PollLoad(p) \/ PollSidecar(p) \/ PollFails(p) \/ PollSave(p) \/ PollGivesUp(p)

SystemNext ==
  \/ \E j \in Jobs : RequestApply(j) \/ RequestRollback(j) \/ JobStep(j)
  \/ \E c \in Checks : RequestCheck(c)
  \/ \E h \in Handlers : Continue(h) \/ CreateJobFails(h) \/ Drop(h)
  \/ \E p \in Pollers : Poll(p)
  \/ SidecarStep

SystemSpec == SystemInit /\ [][SystemNext]_systemVars

\* tokio polls the handlers, and the updates page repeats its status request
\* while it is open: every 1.5 s as long as a job is active.
SystemFairness ==
  /\ \A h \in Handlers : WF_systemVars(Continue(h))
  /\ \A p \in Pollers : WF_systemVars(Poll(p))
  /\ \A j \in Jobs : WF_systemVars(JobStep(j))
  /\ WF_systemVars(SidecarStep)

FairSystem == SystemSpec /\ SystemFairness

-----------------------------------------------------------------------------
(* Properties                                                               *)

\* Whatever is dropped or lost, the slot comes free as long as the updates page
\* stays open and the commands of the updater work (MaxFaults = 0), which
\* bring Selu back after any update: updates never stay blocked.
SlotComesFree == []<>(row.slot = NoJob)

\* "Another update action is already running": the slot in the database and
\* the one in the sidecar let one job at a time work.
OneUpdateAtATime == OneJobAtATime
=============================================================================
