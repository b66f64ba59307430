---------------------------- MODULE PackageStore ----------------------------
(***************************************************************************)
(* The durable half of one marketplace agent: the package directories on   *)
(* disk, the agents and agent_package_revisions rows, and the activation   *)
(* journal, with the filesystem renames, the transactions and the          *)
(* reconciliation plan of agents/marketplace.rs over them.                 *)
(*                                                                         *)
(* A directory is represented by the revision whose archive it holds, so a *)
(* path and its content can disagree: retained[o] is what lies at          *)
(* .selu-revisions/<agent>/<o>, staging[n] what lies at                    *)
(* .selu-staging/<agent>-<n>, active what lies at <installed_dir>/<agent>. *)
(***************************************************************************)
EXTENDS Naturals, FiniteSets

CONSTANTS
  Revs,   \* agent package revision ids (fresh UUIDs in the code)
  NoRev   \* no revision: an absent directory, row or definition

ASSUME NoRevAssumption == NoRev \notin Revs

VARIABLES
  active,        \* package at the active path
  retained,      \* package at each retained path
  staging,       \* package at each staging path
  row,           \* the agents row exists
  setup,         \* its setup_complete
  revState,      \* state of each revision row
  revPath,       \* package_path of each revision row
  journal,       \* agent_package_activation_journal row, or NoJournal
  storageReady   \* docker_storage_state.bootstrap_status = 'ready'

fs == <<active, retained, staging>>
db == <<row, setup, revState, revPath, journal, storageReady>>

Phases == {"prepared", "old_retained", "new_active",
           "rollback_new_staged", "rollback_old_active"}

NoJournal == [old |-> NoRev, new |-> NoRev, phase |-> "none"]
Journals == [old : Revs, new : Revs, phase : Phases]

\* "unused" and "deleted" revisions have no row.
RevStates == {"unused", "staged", "current", "previous", "failed",
              "uninstalled", "deleted"}

StoreTypeOK ==
  /\ active \in Revs \cup {NoRev}
  /\ retained \in [Revs -> Revs \cup {NoRev}]
  /\ staging \in [Revs -> Revs \cup {NoRev}]
  /\ row \in BOOLEAN
  /\ setup \in BOOLEAN
  /\ revState \in [Revs -> RevStates]
  /\ revPath \in [Revs -> {"none", "staging", "retained", "active"}]
  /\ journal \in Journals \cup {NoJournal}
  /\ storageReady \in BOOLEAN

\* Either nothing is installed yet, or revision r is, with its setup done.
StoreInit(r) ==
  /\ active = r
  /\ retained = [q \in Revs |-> NoRev]
  /\ staging = [q \in Revs |-> NoRev]
  /\ row = (r # NoRev)
  /\ setup = (r # NoRev)
  /\ revState = [q \in Revs |-> IF q = r THEN "current" ELSE "unused"]
  /\ revPath = [q \in Revs |-> IF q = r THEN "active" ELSE "none"]
  /\ journal = NoJournal
  /\ storageReady = TRUE

-----------------------------------------------------------------------------
Unused == {r \in Revs : revState[r] = "unused"}
Current == {r \in Revs : revState[r] = "current"}

\* ActivationPaths::inspect for the pair of revisions being switched.
FsState(o, n) == <<active # NoRev, retained[o] # NoRev, staging[n] # NoRev>>
Clean == <<TRUE, FALSE, TRUE>>

\* Mutant: the staged revision is only put back once the journal says new_active.
LateReconciliationPlan(phase, state) ==
  CASE state = Clean -> "keep_prior_active"
    [] state = <<FALSE, TRUE, TRUE>> /\ phase # "rollback_old_active"
         -> "restore_retained"
    [] state = <<TRUE, TRUE, FALSE>> /\ phase = "new_active"
         -> "stage_new_then_restore"
    [] OTHER -> "unsafe"

\* Mutant: the retained package is only restored once the journal says
\* old_retained, and not when the rename ran ahead of its record.
StrictReconciliationPlan(phase, state) ==
  CASE state = Clean -> "keep_prior_active"
    [] state = <<FALSE, TRUE, TRUE>> /\ phase = "old_retained"
         -> "restore_retained"
    [] state = <<TRUE, TRUE, FALSE>> /\ phase \in {"old_retained", "new_active"}
         -> "stage_new_then_restore"
    [] OTHER -> "unsafe"

\* The three recoverable shapes of an interrupted switch; anything else is
\* left for an operator and aborts the caller.
ReconciliationPlan(phase, state) ==
  CASE state = Clean -> "keep_prior_active"
    [] state = <<FALSE, TRUE, TRUE>> /\ phase # "rollback_old_active"
         -> "restore_retained"
    [] state = <<TRUE, TRUE, FALSE>> /\ phase \in {"old_retained", "new_active"}
         -> "stage_new_then_restore"
    [] OTHER -> "unsafe"

PlanOf(j) == ReconciliationPlan(j.phase, FsState(j.old, j.new))

\* validate_journal_revision_states
JournalRevisionsValid(j) ==
  /\ revState[j.old] = "current"
  /\ revState[j.new] = "staged"

-----------------------------------------------------------------------------
(* Filesystem renames.  rename(2) refuses a missing source, and a target    *)
(* directory that is not empty.                                             *)

ActiveToRetained(o) ==
  /\ active # NoRev /\ retained[o] = NoRev
  /\ active' = NoRev
  /\ retained' = [retained EXCEPT ![o] = active]
  /\ UNCHANGED staging

RetainedToActive(o) ==
  /\ retained[o] # NoRev /\ active = NoRev
  /\ active' = retained[o]
  /\ retained' = [retained EXCEPT ![o] = NoRev]
  /\ UNCHANGED staging

StagingToActive(n) ==
  /\ staging[n] # NoRev /\ active = NoRev
  /\ active' = staging[n]
  /\ staging' = [staging EXCEPT ![n] = NoRev]
  /\ UNCHANGED retained

ActiveToStaging(n) ==
  /\ active # NoRev /\ staging[n] = NoRev
  /\ staging' = [staging EXCEPT ![n] = active]
  /\ active' = NoRev
  /\ UNCHANGED retained

-----------------------------------------------------------------------------
(* Database statements and transactions.                                    *)

RecordPhase(phase) ==
  /\ journal # NoJournal
  /\ journal' = [journal EXCEPT !.phase = phase]
  /\ UNCHANGED <<row, setup, revState, revPath, storageReady>>

CreateStagedRevision(r) ==
  /\ r \in Unused
  /\ revState' = [revState EXCEPT ![r] = "staged"]
  /\ revPath' = [revPath EXCEPT ![r] = "staging"]
  /\ UNCHANGED <<row, setup, journal, storageReady>>

MarkRevisionFailed(r) ==
  /\ revState' = [revState EXCEPT ![r] = "failed"]
  /\ UNCHANGED <<row, setup, revPath, journal, storageReady>>

\* The INSERT violates the journal's primary key when a journal is left over.
PersistJournal(o, n) ==
  /\ journal = NoJournal
  /\ journal' = [old |-> o, new |-> n, phase |-> "prepared"]
  /\ UNCHANGED <<row, setup, revState, revPath, storageReady>>

\* Mutant: the old revision keeps its state (its UPDATE is left out).
CommitSwitchWithoutDemotion(o, n) ==
  /\ row /\ revState[o] = "current" /\ revState[n] = "staged"
  /\ journal.old = o /\ journal.new = n
  /\ revState' = [revState EXCEPT ![n] = "current"]
  /\ revPath' = [revPath EXCEPT ![o] = "retained", ![n] = "active"]
  /\ setup' = FALSE
  /\ journal' = NoJournal
  /\ UNCHANGED <<row, storageReady>>

\* The activation transaction: every UPDATE must hit exactly one row.
CommitSwitch(o, n) ==
  /\ row /\ revState[o] = "current" /\ revState[n] = "staged"
  /\ journal.old = o /\ journal.new = n
  /\ revState' = [r \in Revs |->
                    CASE r = o -> "previous"
                      [] r = n -> "current"
                      [] revState[r] = "previous" -> "failed"
                      [] OTHER -> revState[r]]
  /\ revPath' = [revPath EXCEPT ![o] = "retained", ![n] = "active"]
  /\ setup' = FALSE
  /\ journal' = NoJournal
  /\ UNCHANGED <<row, storageReady>>

\* Mutant: the rollback clears the phase but leaves the journal row.
CommitRollbackKeepingJournal(j) ==
  /\ JournalRevisionsValid(j)
  /\ revState' = [revState EXCEPT ![j.new] = "failed"]
  /\ revPath' = [revPath EXCEPT ![j.old] = "active", ![j.new] = "staging"]
  /\ journal' = [j EXCEPT !.phase = "none"]
  /\ UNCHANGED <<row, setup, storageReady>>

\* The transaction that records a finished rollback and drops the journal.
CommitRollback(j) ==
  /\ JournalRevisionsValid(j)
  /\ revState' = [revState EXCEPT ![j.new] = "failed"]
  /\ revPath' = [revPath EXCEPT ![j.old] = "active", ![j.new] = "staging"]
  /\ journal' = NoJournal
  /\ UNCHANGED <<row, setup, storageReady>>

\* INSERT INTO agents fails on an existing row; the revision UPDATE fails on
\* the unique index one_current_agent_package_revision.
InstallCommittable(r) == ~row /\ Current = {} /\ revState[r] = "staged"

CommitInstall(r) ==
  /\ InstallCommittable(r)
  /\ row' = TRUE
  /\ setup' = FALSE
  /\ revState' = [revState EXCEPT ![r] = "current"]
  /\ revPath' = [revPath EXCEPT ![r] = "active"]
  /\ UNCHANGED <<journal, storageReady>>

\* The journal references the agents row and both revisions ON DELETE RESTRICT.
UninstallCommittable(r) == row /\ revState[r] = "current" /\ journal = NoJournal

CommitUninstall(r) ==
  /\ UninstallCommittable(r)
  /\ row' = FALSE
  /\ setup' = FALSE
  /\ revState' = [revState EXCEPT ![r] = "uninstalled"]
  /\ revPath' = [revPath EXCEPT ![r] = "retained"]
  /\ UNCHANGED <<journal, storageReady>>

\* UPDATE agents SET setup_complete: no row, no effect.
SaveSetup(complete) ==
  /\ setup' = (row /\ complete)
  /\ UNCHANGED <<row, revState, revPath, journal, storageReady>>

\* Mutant: the journal's foreign keys do not restrict the deletion.
UnrestrictedDeletion(r) == TRUE

RevisionDeletable(r) == r \notin {journal.old, journal.new}

DeleteRevision(r) ==
  /\ RevisionDeletable(r)
  /\ revState' = [revState EXCEPT ![r] = "deleted"]
  /\ UNCHANGED <<row, setup, revPath, journal, storageReady>>

\* remove_dir_all of the recorded path, only below the two managed roots.
RemoveRecordedPackage(r) ==
  /\ staging' = IF revPath[r] = "staging" THEN [staging EXCEPT ![r] = NoRev]
                                          ELSE staging
  /\ retained' = IF revPath[r] = "retained" THEN [retained EXCEPT ![r] = NoRev]
                                            ELSE retained
  /\ UNCHANGED active
=============================================================================
