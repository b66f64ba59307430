-------------------------- MODULE PackageActivation --------------------------
(***************************************************************************)
(* Install, update, setup completion, uninstall and retention cleanup of   *)
(* one marketplace agent, run by concurrent tasks of the orchestrator      *)
(* (agents/marketplace.rs, services/docker_storage.rs), with failing I/O,  *)
(* dropped request futures, crashes, and the reconciliation that runs      *)
(* before installed agents are loaded at startup (main.rs).                *)
(*                                                                         *)
(* Every await on the filesystem, the database or the lease is a step of   *)
(* its own.  A step whose failure leaves nothing behind but the early      *)
(* return is not given a failure action: returning the error and dropping  *)
(* the future have the same effect, releasing the lease (Drop).            *)
(***************************************************************************)
EXTENDS PackageStore

CONSTANTS
  Workers,         \* tasks that may run an operation concurrently
  Boot,            \* the startup sequence of main.rs
  NoActor,
  Kinds,           \* operations the workers may run
  MaxDisturbances  \* bound on I/O faults, dropped futures and crashes

ASSUME ActorAssumption ==
  /\ Boot \notin Workers
  /\ NoActor \notin Workers \cup {Boot}
  /\ Kinds \subseteq {"install", "update", "setup", "uninstall", "cleanup"}
  /\ MaxDisturbances \in Nat

Actors == Workers \cup {Boot}

VARIABLES
  process,      \* "up", "down", or "booting"
  lease,        \* holder of DockerStorage's exclusive maintenance lease
  map,          \* the agent's entry in the in-memory AgentMap
  op,           \* what each actor is executing
  disturbances

mem == <<process, lease, map, op>>
vars == <<fs, db, mem, disturbances>>

\* old, new: the revisions being switched; prev: the map entry taken out;
\* def: a definition read from disk and not yet published; ready: the
\* setup_complete an uninstall read before it took the map entry out.
Idle == [pc |-> "idle", old |-> NoRev, new |-> NoRev,
         prev |-> NoRev, def |-> NoRev, ready |-> FALSE]

UpdateSteps == {"u_wait", "u_stage", "u_prepare", "u_journal", "u_unmap",
                "u_retain", "u_old_retained", "u_activate", "u_new_active",
                "u_commit"}
RollbackSteps == {"r_plan", "r_stage", "r_new_staged", "r_restore", "r_mark",
                  "r_final"}
InstallSteps == {"i_wait", "i_stage", "i_prepare", "i_activate", "i_commit",
                 "i_undo", "i_mark"}
UninstallSteps == {"x_wait", "x_unmap", "x_retain", "x_commit", "x_undo"}
CleanupSteps == {"k_wait", "k_remove", "k_delete"}
Steps == UpdateSteps \cup RollbackSteps \cup InstallSteps \cup UninstallSteps
           \cup CleanupSteps
           \cup {"idle", "t_setup", "t_map", "c_setup", "c_map", "b_load"}

Operations == [pc : Steps, old : Revs \cup {NoRev}, new : Revs \cup {NoRev},
               prev : Revs \cup {NoRev}, def : Revs \cup {NoRev},
               ready : BOOLEAN]

MemTypeOK ==
  /\ process \in {"up", "down", "booting"}
  /\ lease \in Workers \cup {NoActor}
  /\ map \in Revs \cup {NoRev}
  /\ op \in [Actors -> Operations]
  /\ disturbances \in 0..MaxDisturbances

TypeOK == StoreTypeOK /\ MemTypeOK

Init ==
  /\ \E r \in Revs \cup {NoRev} : StoreInit(r) /\ map = r
  /\ process = "up"
  /\ lease = NoActor
  /\ op = [a \in Actors |-> Idle]
  /\ disturbances = 0

-----------------------------------------------------------------------------
At(a, step) == op[a].pc = step
Goto(a, step) == op' = [op EXCEPT ![a].pc = step]
Disturb ==
  /\ disturbances < MaxDisturbances
  /\ disturbances' = disturbances + 1
Calm == UNCHANGED disturbances

\* Begin an operation that starts by waiting for the lease.
Begin(w, kind, step) ==
  /\ process = "up" /\ At(w, "idle") /\ kind \in Kinds
  /\ Goto(w, step)
  /\ UNCHANGED <<fs, db, process, lease, map>> /\ Calm

\* The function returns while it holds the lease: the guard is dropped.
ReturnReleasing(w) ==
  /\ op' = [op EXCEPT ![w] = Idle]
  /\ lease' = NoActor

\* A step of the lease holder that changes only the file system / database.
FsStep(a, next) ==
  /\ Goto(a, next)
  /\ UNCHANGED <<db, process, lease, map>> /\ Calm
DbStep(a, next) ==
  /\ Goto(a, next)
  /\ UNCHANGED <<fs, process, lease, map>> /\ Calm

Acquire(w) == lease = NoActor /\ lease' = w

\* A check on the acquired lease fails: return at once.
Refuse(w) ==
  /\ op' = [op EXCEPT ![w] = Idle]
  /\ UNCHANGED <<fs, db, process, lease, map>> /\ Calm

-----------------------------------------------------------------------------
(* update_agent_with_progress                                              *)

BeginUpdate(w) == active # NoRev /\ Begin(w, "update", "u_wait")

StartUpdate(w) ==
  /\ At(w, "u_wait")
  /\ \E o \in Current :
       /\ row /\ active # NoRev
       /\ Acquire(w)
       /\ op' = [op EXCEPT ![w] = [@ EXCEPT !.pc = "u_stage", !.old = o]]
  /\ UNCHANGED <<fs, db, process, map>> /\ Calm

RefuseUpdate(w) ==
  /\ At(w, "u_wait") /\ lease = NoActor
  /\ ~(row /\ Current # {} /\ active # NoRev)
  /\ Refuse(w)

\* download_archive or verify_sha256 fails before anything is staged.
ArchiveRefused(w) ==
  /\ At(w, "u_stage") \/ At(w, "i_stage")
  /\ ReturnReleasing(w)
  /\ UNCHANGED <<fs, db, process, map>> /\ Calm

\* One unused revision is kept back for BootstrapRevision.
Stage(w, step, next) ==
  /\ At(w, step)
  /\ Cardinality(Unused) > 1
  /\ \E n \in Unused :
       /\ CreateStagedRevision(n)
       /\ op' = [op EXCEPT ![w] = [@ EXCEPT !.pc = next, !.new = n]]
  /\ UNCHANGED <<fs, process, lease, map>> /\ Calm

\* extract_archive_to and prepare_agent_revision succeed
Prepare(w, step, next) ==
  /\ At(w, step)
  /\ staging' = [staging EXCEPT ![op[w].new] = op[w].new]
  /\ UNCHANGED <<active, retained>>
  /\ FsStep(w, next)

PrepareFails(w) ==
  /\ At(w, "u_prepare") \/ At(w, "i_prepare")
  /\ Disturb
  /\ MarkRevisionFailed(op[w].new)
  /\ ReturnReleasing(w)
  /\ UNCHANGED <<fs, process, map>>

\* Mutant: the renames start without a journal.
SkipJournal(w) ==
  /\ At(w, "u_journal")
  /\ FsState(op[w].old, op[w].new) = Clean
  /\ DbStep(w, "u_unmap")
  /\ UNCHANGED db

WriteJournal(w) ==
  /\ At(w, "u_journal")
  /\ FsState(op[w].old, op[w].new) = Clean
  /\ PersistJournal(op[w].old, op[w].new)
  /\ DbStep(w, "u_unmap")

RefuseActivation(w) ==
  /\ At(w, "u_journal")
  /\ FsState(op[w].old, op[w].new) # Clean \/ journal # NoJournal
  /\ ReturnReleasing(w)
  /\ UNCHANGED <<fs, db, process, map>> /\ Calm

\* remove_agent_from_map, then close_capability of the old capabilities
Unmap(w, step, next) ==
  /\ At(w, step)
  /\ map' = NoRev
  /\ op' = [op EXCEPT ![w] = [@ EXCEPT !.pc = next, !.prev = map]]
  /\ UNCHANGED <<fs, db, process, lease>> /\ Calm

\* Mutant: the old package is retained under the new revision's id.
RetainUnderNewRevision(w) ==
  /\ At(w, "u_retain")
  /\ ActiveToRetained(op[w].new)
  /\ FsStep(w, "u_old_retained")

RetainOld(w) ==
  /\ At(w, "u_retain")
  /\ ActiveToRetained(op[w].old)
  /\ FsStep(w, "u_old_retained")

RecordOldRetained(w) ==
  /\ At(w, "u_old_retained")
  /\ RecordPhase("old_retained")
  /\ DbStep(w, "u_activate")

ActivateNew(w) ==
  /\ At(w, "u_activate")
  /\ StagingToActive(op[w].new)
  /\ FsStep(w, "u_new_active")

RecordNewActive(w) ==
  /\ At(w, "u_new_active")
  /\ RecordPhase("new_active")
  /\ DbStep(w, "u_commit")

\* The commit is followed at once by the drop of the lease.
CommitUpdate(w) ==
  /\ At(w, "u_commit")
  /\ CommitSwitch(op[w].old, op[w].new)
  /\ Goto(w, "t_setup")
  /\ lease' = NoActor
  /\ UNCHANGED <<fs, process, map>> /\ Calm

\* Any error between the first rename and the commit: roll back in place.
ActivationFails(w) ==
  /\ op[w].pc \in {"u_retain", "u_old_retained", "u_activate", "u_new_active",
                   "u_commit"}
  /\ Disturb
  /\ Goto(w, "r_plan")
  /\ UNCHANGED <<fs, db, process, lease, map>>

\* After the lease: dynamic tool sync, agent_requires_setup, then the
\* setup_complete row and the map entry, in two awaits with no lock.
SaveSetupState(w) ==
  /\ At(w, "t_setup")
  /\ \E complete \in BOOLEAN :
       /\ SaveSetup(complete)
       /\ op' = [op EXCEPT ![w] =
                    [@ EXCEPT !.pc = "t_map",
                              !.def = IF complete THEN op[w].new ELSE NoRev]]
  /\ UNCHANGED <<fs, process, lease, map>> /\ Calm

\* An install (old = NoRev) that still needs setup leaves the map alone.
PublishDefinition(w) ==
  /\ At(w, "t_map")
  /\ map' = IF op[w].old = NoRev /\ op[w].def = NoRev THEN map ELSE op[w].def
  /\ op' = [op EXCEPT ![w] = Idle]
  /\ UNCHANGED <<fs, db, process, lease>> /\ Calm

-----------------------------------------------------------------------------
(* reconcile_activation_journal, run by a failed update under its lease or *)
(* by the startup sequence                                                 *)

PlanReconciliation(a) ==
  /\ At(a, "r_plan")
  /\ journal # NoJournal
  /\ JournalRevisionsValid(journal)
  /\ \/ PlanOf(journal) = "keep_prior_active"      /\ Goto(a, "r_mark")
     \/ PlanOf(journal) = "restore_retained"       /\ Goto(a, "r_restore")
     \/ PlanOf(journal) = "stage_new_then_restore" /\ Goto(a, "r_stage")
  /\ UNCHANGED <<fs, db, process, lease, map>> /\ Calm

StageNew(a) ==
  /\ At(a, "r_stage")
  /\ ActiveToStaging(journal.new)
  /\ FsStep(a, "r_new_staged")

RecordNewStaged(a) ==
  /\ At(a, "r_new_staged")
  /\ RecordPhase("rollback_new_staged")
  /\ DbStep(a, "r_restore")

RestoreOld(a) ==
  /\ At(a, "r_restore")
  /\ RetainedToActive(journal.old)
  /\ FsStep(a, "r_mark")

RecordOldActive(a) ==
  /\ At(a, "r_mark")
  /\ RecordPhase("rollback_old_active")
  /\ DbStep(a, "r_final")

\* restore_agent_in_map follows the commit when an update rolls back.
FinishRollback(a) ==
  /\ At(a, "r_final")
  /\ FsState(journal.old, journal.new) = Clean
  /\ CommitRollback(journal)
  /\ IF a = Boot
     THEN Goto(a, "b_load") /\ UNCHANGED <<lease, map>>
     ELSE /\ ReturnReleasing(a)
          /\ map' = IF op[a].prev = NoRev THEN map ELSE op[a].prev
  /\ UNCHANGED <<fs, process>> /\ Calm

\* The states are not safely recoverable: the journal is retained for an
\* operator; at startup main returns the error and the process exits.
ReconciliationRefused(a) ==
  /\ At(a, "r_plan")
  /\ \/ ~JournalRevisionsValid(journal)
     \/ PlanOf(journal) = "unsafe"
  /\ op' = [op EXCEPT ![a] = Idle]
  /\ IF a = Boot THEN process' = "down" /\ UNCHANGED lease
                 ELSE lease' = NoActor /\ UNCHANGED process
  /\ UNCHANGED <<fs, db, map>> /\ Calm

-----------------------------------------------------------------------------
(* install_agent                                                           *)

BeginInstall(w) == active = NoRev /\ Begin(w, "install", "i_wait")

\* Neither the directory nor the row is looked at again under the lease.
StartInstall(w) ==
  /\ At(w, "i_wait")
  /\ Acquire(w)
  /\ Goto(w, "i_stage")
  /\ UNCHANGED <<fs, db, process, map>> /\ Calm

ActivateInstall(w) ==
  /\ At(w, "i_activate")
  /\ StagingToActive(op[w].new)
  /\ FsStep(w, "i_commit")

RefuseInstall(w) ==
  /\ At(w, "i_activate") /\ active # NoRev
  /\ ReturnReleasing(w)
  /\ UNCHANGED <<fs, db, process, map>> /\ Calm

FinishInstall(w) ==
  /\ At(w, "i_commit")
  /\ CommitInstall(op[w].new)
  /\ Goto(w, "t_setup")
  /\ lease' = NoActor
  /\ UNCHANGED <<fs, process, map>> /\ Calm

InstallFails(w) ==
  /\ At(w, "i_commit")
  /\ IF InstallCommittable(op[w].new) THEN Disturb ELSE Calm
  /\ Goto(w, "i_undo")
  /\ UNCHANGED <<fs, db, process, lease, map>>

\* The result of the rename back is ignored.
UndoInstall(w) ==
  /\ At(w, "i_undo")
  /\ \/ ActiveToStaging(op[w].new) /\ Calm
     \/ UNCHANGED fs /\ Disturb
  /\ Goto(w, "i_mark")
  /\ UNCHANGED <<db, process, lease, map>>

MarkInstallFailed(w) ==
  /\ At(w, "i_mark")
  /\ MarkRevisionFailed(op[w].new)
  /\ ReturnReleasing(w)
  /\ UNCHANGED <<fs, process, map>> /\ Calm

-----------------------------------------------------------------------------
(* complete_setup: no lease                                                *)

BeginSetup(w) ==
  /\ process = "up" /\ At(w, "idle") /\ "setup" \in Kinds
  /\ row /\ active # NoRev
  /\ op' = [op EXCEPT ![w] = [@ EXCEPT !.pc = "c_setup", !.def = active]]
  /\ UNCHANGED <<fs, db, process, lease, map>> /\ Calm

RecordSetup(w) ==
  /\ At(w, "c_setup")
  /\ row
  /\ SaveSetup(TRUE)
  /\ DbStep(w, "c_map")

RefuseSetup(w) == At(w, "c_setup") /\ ~row /\ Refuse(w)

PublishSetup(w) ==
  /\ At(w, "c_map")
  /\ map' = op[w].def
  /\ op' = [op EXCEPT ![w] = Idle]
  /\ UNCHANGED <<fs, db, process, lease>> /\ Calm

-----------------------------------------------------------------------------
(* uninstall_agent                                                         *)

BeginUninstall(w) == row /\ Begin(w, "uninstall", "x_wait")

\* Exactly one of the active and the tombstone directory may exist.
UninstallAdmissible ==
  /\ row
  /\ \E r \in Current : (active # NoRev) # (retained[r] # NoRev)

StartUninstall(w) ==
  /\ At(w, "x_wait")
  /\ UninstallAdmissible
  /\ Acquire(w)
  /\ \E r \in Current :
       op' = [op EXCEPT ![w] =
                [@ EXCEPT !.pc = "x_unmap", !.old = r, !.ready = setup,
                          !.def = IF map # NoRev THEN map
                                  ELSE IF active # NoRev THEN active
                                  ELSE retained[r]]]
  /\ UNCHANGED <<fs, db, process, map>> /\ Calm

RefuseUninstall(w) ==
  /\ At(w, "x_wait") /\ lease = NoActor
  /\ ~UninstallAdmissible
  /\ Refuse(w)

\* Mutant: the package is removed instead of renamed to its tombstone.
RemoveActivePackage(w) ==
  /\ At(w, "x_retain")
  /\ active' = NoRev
  /\ UNCHANGED <<retained, staging>>
  /\ FsStep(w, "x_commit")

\* A retry finds the tombstone in place and skips the rename.
MoveToTombstone(w) ==
  /\ At(w, "x_retain")
  /\ IF active # NoRev THEN ActiveToRetained(op[w].old) ELSE UNCHANGED fs
  /\ FsStep(w, "x_commit")

TombstoneFails(w) ==
  /\ At(w, "x_retain") /\ active # NoRev
  /\ Disturb
  /\ map' = IF op[w].prev = NoRev THEN map ELSE op[w].prev
  /\ ReturnReleasing(w)
  /\ UNCHANGED <<fs, db, process>>

FinishUninstall(w) ==
  /\ At(w, "x_commit")
  /\ CommitUninstall(op[w].old)
  /\ ReturnReleasing(w)
  /\ UNCHANGED <<fs, process, map>> /\ Calm

UninstallFails(w) ==
  /\ At(w, "x_commit")
  /\ IF UninstallCommittable(op[w].old) THEN Disturb ELSE Calm
  /\ Goto(w, "x_undo")
  /\ UNCHANGED <<fs, db, process, lease, map>>

\* The map entry comes back even when the package could not be restored.
UndoUninstall(w) ==
  LET entry == IF op[w].prev # NoRev THEN op[w].prev ELSE op[w].def IN
  /\ At(w, "x_undo")
  /\ \/ /\ IF retained[op[w].old] # NoRev /\ active = NoRev
           THEN RetainedToActive(op[w].old) ELSE UNCHANGED fs
        /\ Calm
     \/ UNCHANGED fs /\ Disturb
  /\ map' = IF op[w].ready THEN entry ELSE map
  /\ ReturnReleasing(w)
  /\ UNCHANGED <<db, process>>

-----------------------------------------------------------------------------
(* cleanup_expired_packages: one expired revision per pass.  Every revision *)
(* that is not current has a retain_until, which may have elapsed.          *)

BeginCleanup(w) == Begin(w, "cleanup", "k_wait")

\* Mutant: the query selects expired revisions whatever their state.
StartCleanupOfAnyRevision(w) ==
  /\ At(w, "k_wait")
  /\ storageReady
  /\ \E r \in Revs :
       /\ revState[r] \notin {"unused", "deleted"}
       /\ Acquire(w)
       /\ op' = [op EXCEPT ![w] = [@ EXCEPT !.pc = "k_remove", !.new = r]]
  /\ UNCHANGED <<fs, db, process, map>> /\ Calm

StartCleanup(w) ==
  /\ At(w, "k_wait")
  /\ storageReady
  /\ \E r \in Revs :
       /\ revState[r] \in {"staged", "previous", "failed", "uninstalled"}
       /\ Acquire(w)
       /\ op' = [op EXCEPT ![w] = [@ EXCEPT !.pc = "k_remove", !.new = r]]
  /\ UNCHANGED <<fs, db, process, map>> /\ Calm

RefuseCleanup(w) == At(w, "k_wait") /\ lease = NoActor /\ Refuse(w)

RemoveExpiredPackage(w) ==
  /\ At(w, "k_remove")
  /\ RemoveRecordedPackage(op[w].new)
  /\ FsStep(w, "k_delete")

\* A revision the journal still references cannot be deleted: an error.
DeleteExpiredRevision(w) ==
  /\ At(w, "k_delete")
  /\ IF RevisionDeletable(op[w].new) THEN DeleteRevision(op[w].new)
                                     ELSE UNCHANGED db
  /\ ReturnReleasing(w)
  /\ UNCHANGED <<fs, process, map>> /\ Calm

-----------------------------------------------------------------------------
(* Dropped futures, crashes and startup                                    *)

\* The client disconnects, or a step returns its error and nothing else.
Drop(w) ==
  /\ ~At(w, "idle")
  /\ Disturb
  /\ op' = [op EXCEPT ![w] = Idle]
  /\ lease' = IF lease = w THEN NoActor ELSE lease
  /\ UNCHANGED <<fs, db, process, map>>

\* The process dies, or a startup step fails.
Crash ==
  /\ process \in {"up", "booting"}
  /\ Disturb
  /\ process' = "down"
  /\ lease' = NoActor
  /\ map' = NoRev
  /\ op' = [a \in Actors |-> Idle]
  /\ UNCHANGED <<fs, db>>

Restart ==
  /\ process = "down"
  /\ process' = "booting"
  /\ Goto(Boot, IF journal = NoJournal THEN "b_load" ELSE "r_plan")
  /\ UNCHANGED <<fs, db, lease, map>> /\ Calm

\* DockerStorage::bootstrap adopts a package directory without a current
\* revision under a fresh one, unless an installed package is unreadable.
BootstrapRevision ==
  IF row /\ active = NoRev
  THEN /\ storageReady' = FALSE
       /\ UNCHANGED <<revState, revPath>>
  ELSE /\ storageReady' = TRUE
       /\ IF active # NoRev /\ Current = {}
          THEN \E r \in Unused :
                 /\ revState' = [revState EXCEPT ![r] = "current"]
                 /\ revPath' = [revPath EXCEPT ![r] = "active"]
          ELSE UNCHANGED <<revState, revPath>>

LoadInstalled ==
  /\ At(Boot, "b_load")
  /\ map' = IF row /\ setup THEN active ELSE NoRev
  /\ BootstrapRevision
  /\ process' = "up"
  /\ op' = [op EXCEPT ![Boot] = Idle]
  /\ UNCHANGED <<fs, row, setup, journal, lease>> /\ Calm

-----------------------------------------------------------------------------
Reconcile(a) ==
  \/ PlanReconciliation(a) \/ StageNew(a) \/ RecordNewStaged(a)
  \/ RestoreOld(a) \/ RecordOldActive(a) \/ FinishRollback(a)
  \/ ReconciliationRefused(a)

\* What a running task does next once its operation has begun.
Continue(w) ==
  \/ StartUpdate(w) \/ RefuseUpdate(w) \/ ArchiveRefused(w)
  \/ Stage(w, "u_stage", "u_prepare") \/ Prepare(w, "u_prepare", "u_journal")
  \/ WriteJournal(w) \/ RefuseActivation(w) \/ Unmap(w, "u_unmap", "u_retain")
  \/ RetainOld(w) \/ RecordOldRetained(w) \/ ActivateNew(w)
  \/ RecordNewActive(w) \/ CommitUpdate(w)
  \/ SaveSetupState(w) \/ PublishDefinition(w)
  \/ StartInstall(w)
  \/ Stage(w, "i_stage", "i_prepare") \/ Prepare(w, "i_prepare", "i_activate")
  \/ ActivateInstall(w) \/ RefuseInstall(w) \/ FinishInstall(w)
  \/ InstallFails(w) \/ UndoInstall(w) \/ MarkInstallFailed(w)
  \/ RecordSetup(w) \/ RefuseSetup(w) \/ PublishSetup(w)
  \/ StartUninstall(w) \/ RefuseUninstall(w)
  \/ Unmap(w, "x_unmap", "x_retain") \/ MoveToTombstone(w)
  \/ FinishUninstall(w) \/ UninstallFails(w) \/ UndoUninstall(w)
  \/ StartCleanup(w) \/ RefuseCleanup(w) \/ RemoveExpiredPackage(w)
  \/ DeleteExpiredRevision(w)

Request(w) ==
  \/ BeginUpdate(w) \/ BeginInstall(w) \/ BeginSetup(w)
  \/ BeginUninstall(w) \/ BeginCleanup(w)

Fault(w) ==
  \/ PrepareFails(w) \/ ActivationFails(w) \/ TombstoneFails(w) \/ Drop(w)

Next ==
  \/ \E w \in Workers : Request(w) \/ Continue(w) \/ Fault(w)
  \/ \E a \in Actors : Reconcile(a)
  \/ Crash \/ Restart \/ LoadInstalled

Spec == Init /\ [][Next]_vars

\* The restart policy of the container starts the process again, and main goes on
\* until the agents are loaded; operations, requests and faults are not fair.
Fairness == WF_vars(Restart) /\ WF_vars(Reconcile(Boot)) /\ WF_vars(LoadInstalled)

FairSpec == Spec /\ Fairness

-----------------------------------------------------------------------------
(* Properties                                                               *)

\* The registry names at most one current revision, and an installed agent
\* always has one, whatever install, switch, rollback, uninstall or bootstrap
\* was interrupted where.
OneCurrentRevision ==
  /\ \A r, s \in Current : r = s
  /\ row => Current # {}

\* While a journal exists, its two revisions keep the states that
\* validate_journal_revision_states demands, although other installs,
\* uninstalls and cleanups run after the switch was abandoned.
JournalIntact == journal # NoJournal => JournalRevisionsValid(journal)

\* At every instant of a switch and of its rollback, the directories form one
\* of the shapes that reconciliation_plan can undo from the recorded phase.
JournalRecoverable ==
  journal # NoJournal =>
    JournalRevisionsValid(journal) /\ PlanOf(journal) # "unsafe"

\* The package of an installed agent's current revision is never lost: it is
\* at the active path or retained under its own revision id.
InstalledPackageKept ==
  row => \E r \in Current : active = r \/ retained[r] = r

\* The package replaced last stays available below .selu-revisions.
PreviousPackageKept ==
  \A r \in Revs : revState[r] = "previous" => retained[r] = r

\* Uninstalling leaves the package at the path that its row now names.
UninstallKeepsPackage ==
  [][row /\ ~row' => \E r \in Current : retained'[r] = r /\ revPath'[r] = "retained"]_vars

\* What the agent will run once an abandoned switch is rolled back.
Served == IF journal # NoJournal /\ retained[journal.old] # NoRev
          THEN retained[journal.old] ELSE active

Registered == IF Current = {} THEN NoRev ELSE CHOOSE r \in Current : TRUE

Switch == INSTANCE PackageSwitch
            WITH package <- Served, registered <- Registered

\* An update replaces package and registered revision in one step, in spite
\* of its two renames, three journal writes, failures and crashes.
ImplementsSwitch == Switch!Spec

\* After a crash the process comes up again with the switch undone.
RestartRecovers == process = "down" ~> (process = "up" /\ journal = NoJournal)
=============================================================================
