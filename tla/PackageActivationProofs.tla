----------------------- MODULE PackageActivationProofs -----------------------
(***************************************************************************)
(* Theorems about PackageActivation for every set of revisions, workers    *)
(* and operation kinds, and any number of faults: types, one current       *)
(* revision, the integrity of an abandoned journal, what becomes of the    *)
(* packages, and the switch that an update implements.                     *)
(***************************************************************************)
EXTENDS PackageActivation, TLAPS

\* Steps at which the actor has a journal of its own.
JournaledSteps == {"u_unmap", "u_retain", "u_old_retained", "u_activate",
                   "u_new_active", "u_commit"}
StagedSteps == {"u_prepare", "u_journal", "i_prepare", "i_activate",
                "i_commit", "i_undo", "i_mark"}
RemovalSteps == {"k_remove", "k_delete"}
LeasedSteps == (UpdateSteps \ {"u_wait"}) \cup RollbackSteps
                 \cup (InstallSteps \ {"i_wait"})
                 \cup (UninstallSteps \ {"x_wait"}) \cup RemovalSteps

\* The registry on its own.
Registry == OneCurrentRevision /\ JournalIntact

\* Workers run only while the process is up, Boot only while it boots.
Exclusion ==
  /\ process # "up" => lease = NoActor /\ \A w \in Workers : At(w, "idle")
  /\ process # "booting" => At(Boot, "idle")
  /\ op[Boot].pc \in RollbackSteps \cup {"idle", "b_load"}
  /\ \A w \in Workers : ~At(w, "b_load")

\* What an actor knows about the registry because it has the lease.
Own(a) ==
  /\ op[a].pc \in LeasedSteps => a = Boot \/ lease = a
  /\ op[a].pc \in UpdateSteps \ {"u_wait"} =>
       op[a].old \in Revs /\ revState[op[a].old] = "current"
  /\ op[a].pc \in StagedSteps \cup JournaledSteps =>
       op[a].new \in Revs /\ revState[op[a].new] = "staged"
  /\ op[a].pc \in StagedSteps => journal.new # op[a].new
  /\ op[a].pc \in JournaledSteps =>
       /\ journal # NoJournal
       /\ journal.old = op[a].old /\ journal.new = op[a].new
  /\ op[a].pc \in RollbackSteps => journal # NoJournal
  /\ op[a].pc \in UninstallSteps \ {"x_wait"} => op[a].old \in Revs
  /\ op[a].pc \in RemovalSteps =>
       op[a].new \in Revs /\ revState[op[a].new] # "current"

Ownership == \A a \in Actors : Own(a)

IInv == TypeOK /\ Registry /\ Exclusion /\ Ownership

-----------------------------------------------------------------------------
\* Both initial states, with and without an installed package, satisfy IInv.
LEMMA InitIInv == Init => IInv
PROOF
<1> SUFFICES ASSUME Init PROVE IInv
  OBVIOUS
<1> USE NoRevAssumption, ActorAssumption DEF Init, StoreInit, Idle
<1>1. TypeOK
  BY DEF TypeOK, StoreTypeOK, MemTypeOK, Operations, Steps, RevStates,
         NoJournal, Journals, Actors
<1>2. Registry
  BY DEF Registry, OneCurrentRevision, Current, JournalIntact
<1>3. Exclusion /\ Ownership
  BY DEF Exclusion, Ownership, Own, At, Actors, LeasedSteps, UpdateSteps,
         RollbackSteps, InstallSteps, UninstallSteps, RemovalSteps,
         StagedSteps, JournaledSteps
<1> QED BY <1>1, <1>2, <1>3 DEF IInv

\* A worker that changes the registry only under the lease, and keeps its own
\* knowledge, disturbs nobody else's.
LEMMA WorkerFrame ==
  ASSUME IInv, NEW w \in Workers, ~At(w, "idle") \/ process = "up",
         process' = process,
         op'[w] \in Operations, op' = [op EXCEPT ![w] = op'[w]], ~At(w, "b_load")',
         \/ lease' = lease
         \/ lease = NoActor /\ lease' = w
         \/ lease = w /\ lease' = NoActor,
         UNCHANGED <<revState, journal>> \/ lease = w,
         Own(w)'
  PROVE  Exclusion' /\ Ownership'
PROOF
<1> USE ActorAssumption DEF IInv, Actors, TypeOK, MemTypeOK
<1>1. process = "up"
  BY DEF Exclusion
<1>2. Exclusion'
  BY <1>1 DEF Exclusion, At
<1>3. ASSUME NEW b \in Actors, b # w PROVE Own(b)'
  <2>1. op'[b] = op[b] /\ Own(b)
    BY <1>3 DEF Ownership
  <2>2. CASE op[b].pc \in LeasedSteps
    <3>1. b # Boot
      BY <1>1, <2>2 DEF Exclusion, At, LeasedSteps, UpdateSteps, RollbackSteps,
         InstallSteps, UninstallSteps, RemovalSteps
    <3>2. lease = b
      BY <2>1, <2>2, <3>1 DEF Own
    <3>3. UNCHANGED <<revState, journal, lease>>
      BY <1>3, <3>2, <3>1
    <3> QED BY <2>1, <3>3 DEF Own
  <2>3. CASE op[b].pc \notin LeasedSteps
    BY <2>1, <2>3
    DEF Own, LeasedSteps, UpdateSteps, RollbackSteps, InstallSteps,
        UninstallSteps, RemovalSteps, StagedSteps, JournaledSteps
  <2> QED BY <2>2, <2>3
<1> QED BY <1>2, <1>3 DEF Ownership

FreeSteps == {"idle", "u_wait", "i_wait", "x_wait", "k_wait", "t_setup",
              "t_map", "c_setup", "c_map"}

\* Steps outside the lease know nothing that another actor could invalidate.
LEMMA FreeOwn ==
  ASSUME NEW w \in Workers, op'[w].pc \in FreeSteps PROVE Own(w)'
PROOF
  BY DEF Own, LeasedSteps, UpdateSteps, RollbackSteps, InstallSteps,
         UninstallSteps, RemovalSteps, StagedSteps, JournaledSteps, FreeSteps

\* What every step of a worker owes to the frame above.
Contract(w) ==
  /\ ~At(w, "idle") \/ process = "up"
  /\ process' = process
  /\ map' \in Revs \cup {NoRev}
  /\ disturbances' \in 0..MaxDisturbances
  /\ op'[w] \in Operations /\ op' = [op EXCEPT ![w] = op'[w]]
  /\ ~At(w, "b_load")'
  /\ \/ lease' = lease
     \/ lease = NoActor /\ lease' = w
     \/ lease = w /\ lease' = NoActor
  /\ UNCHANGED <<revState, journal>> \/ lease = w
  /\ Own(w)'

\* What a worker has to show of a step of its own for IInv to survive it.
LEMMA ContractSuffices ==
  ASSUME IInv, NEW w \in Workers, Contract(w), StoreTypeOK', Registry'
  PROVE  IInv'
PROOF
<1>1. Exclusion' /\ Ownership'
  BY WorkerFrame DEF Contract
<1>2. MemTypeOK'
  BY DEF Contract, IInv, TypeOK, MemTypeOK, Actors
<1> QED BY <1>1, <1>2 DEF IInv, TypeOK

\* Returning from an operation meets the contract, with or without the lease.
LEMMA BackToIdle ==
  ASSUME IInv, NEW w \in Workers, ~At(w, "idle"),
         op' = [op EXCEPT ![w] = Idle],
         process' = process, map' \in Revs \cup {NoRev},
         disturbances' \in 0..MaxDisturbances,
         lease' = lease \/ (lease = w /\ lease' = NoActor),
         UNCHANGED <<revState, journal>> \/ lease = w
  PROVE  Contract(w)
PROOF
<1>1. op'[w] = Idle
  BY DEF IInv, TypeOK, MemTypeOK, Actors
<1>2. Idle \in Operations /\ Idle.pc = "idle"
  BY DEF Idle, Operations, Steps
<1>3. Own(w)'
  BY <1>1, <1>2, FreeOwn DEF FreeSteps
<1> QED BY <1>1, <1>2, <1>3 DEF Contract, At

\* Changing only the pc leaves an operation record well typed.
LEMMA StepTo ==
  ASSUME IInv, NEW w \in Workers, ~At(w, "idle"),
         NEW step \in Steps \ {"b_load"}, op' = [op EXCEPT ![w].pc = step],
         process' = process, map' \in Revs \cup {NoRev},
         disturbances' \in 0..MaxDisturbances,
         lease' = lease \/ (lease = w /\ lease' = NoActor)
           \/ (lease = NoActor /\ lease' = w),
         UNCHANGED <<revState, journal>> \/ lease = w,
         Own(w)'
  PROVE  Contract(w)
PROOF
  BY DEF IInv, TypeOK, MemTypeOK, Actors, Operations, Contract, At

\* Its fields survive a change of pc.
LEMMA StepFields ==
  ASSUME IInv, NEW w \in Actors, NEW step, op' = [op EXCEPT ![w].pc = step]
  PROVE  /\ op'[w].pc = step /\ op'[w].old = op[w].old
         /\ op'[w].new = op[w].new /\ op'[w].prev = op[w].prev
         /\ op'[w].def = op[w].def /\ op'[w].ready = op[w].ready
PROOF
  BY DEF IInv, TypeOK, MemTypeOK, Actors, Operations

\* The registry's invariant depends on the store alone.
LEMMA UnchangedStore ==
  ASSUME IInv, UNCHANGED <<fs, db>> PROVE StoreTypeOK' /\ Registry'
PROOF
  BY DEF IInv, TypeOK, StoreTypeOK, Registry, OneCurrentRevision, Current,
         JournalIntact, JournalRevisionsValid, fs, db

\* Steps that read the store at most, of a worker.
LEMMA ControlSteps ==
  ASSUME IInv, NEW w \in Workers,
         \/ Request(w) \/ ActivationFails(w) \/ TombstoneFails(w) \/ Drop(w)
         \/ StartUpdate(w) \/ RefuseUpdate(w) \/ ArchiveRefused(w)
         \/ RefuseActivation(w) \/ Unmap(w, "u_unmap", "u_retain")
         \/ PublishDefinition(w) \/ StartInstall(w) \/ RefuseInstall(w)
         \/ InstallFails(w) \/ RefuseSetup(w) \/ PublishSetup(w)
         \/ StartUninstall(w) \/ RefuseUninstall(w)
         \/ Unmap(w, "x_unmap", "x_retain") \/ UninstallFails(w)
         \/ StartCleanup(w) \/ RefuseCleanup(w)
         \/ PlanReconciliation(w) \/ ReconciliationRefused(w)
  PROVE  Contract(w) /\ IInv'
PROOF
<1> USE NoRevAssumption, ActorAssumption DEF At, Goto, Calm, Disturb
<1>1. UNCHANGED <<fs, db>>
  BY DEF Request, BeginUpdate, BeginInstall, BeginSetup, BeginUninstall,
     BeginCleanup, Begin, ActivationFails, TombstoneFails, Drop, StartUpdate,
     RefuseUpdate, ArchiveRefused, RefuseActivation, Unmap, PublishDefinition,
     StartInstall, RefuseInstall, InstallFails, RefuseSetup, PublishSetup,
     StartUninstall, RefuseUninstall, UninstallFails, StartCleanup,
     RefuseCleanup, PlanReconciliation, ReconciliationRefused, Refuse
<1>2. UNCHANGED <<revState, journal>> /\ w # Boot
  BY <1>1 DEF db
<1>3. Own(w)
  BY DEF IInv, Ownership, Actors
<1>4. MemTypeOK
  BY DEF IInv, TypeOK
<1>5. SUFFICES Contract(w)
  BY <1>1, UnchangedStore, ContractSuffices
<1> DEFINE x == op[w]
<1>x. x \in Operations /\ w \in Actors
  BY <1>4 DEF MemTypeOK, Actors
<1> HIDE DEF x
<1>6. CASE Request(w)
  <2>1. CASE BeginSetup(w)
    <3>1. /\ x.pc = "idle"
          /\ op' = [op EXCEPT ![w] = [x EXCEPT !.pc = "c_setup", !.def = active]]
      BY <2>1 DEF BeginSetup, x
    <3>2. op'[w] = [x EXCEPT !.pc = "c_setup", !.def = active]
      BY <3>1, <1>x, <1>4 DEF MemTypeOK
    <3>3. op'[w] \in Operations /\ op'[w].pc = "c_setup"
      BY <3>2, <1>x DEF Operations, Steps, IInv, TypeOK, StoreTypeOK
    <3>4. Own(w)'
      BY <3>3, FreeOwn DEF FreeSteps
    <3> QED
      BY <2>1, <1>2, <1>4, <3>1, <3>2, <3>3, <3>4
      DEF BeginSetup, Contract, MemTypeOK
  <2>2. CASE ~BeginSetup(w)
    BY <1>6, <2>2, <1>2, <1>4, FreeOwn
    DEF Request, BeginUpdate, BeginInstall, BeginUninstall, BeginCleanup,
        Begin, Steps, UpdateSteps, InstallSteps, UninstallSteps, CleanupSteps,
        MemTypeOK, Contract, Operations, Actors, FreeSteps
  <2> QED BY <2>1, <2>2
<1>7. CASE \/ RefuseUpdate(w) \/ RefuseUninstall(w) \/ RefuseSetup(w)
           \/ RefuseCleanup(w) \/ PublishSetup(w) \/ PublishDefinition(w)
  BY <1>7, <1>2, <1>4, BackToIdle
  DEF RefuseUpdate, RefuseUninstall, RefuseSetup, RefuseCleanup,
      PublishSetup, PublishDefinition, Refuse, MemTypeOK, Actors, Operations
<1>8. CASE ArchiveRefused(w) \/ RefuseActivation(w) \/ RefuseInstall(w)
  <2>1. lease = w
    BY <1>8, <1>2, <1>3
    DEF ArchiveRefused, RefuseActivation, RefuseInstall, Own, LeasedSteps,
        UpdateSteps, InstallSteps
  <2> QED
    BY <1>8, <1>2, <1>4, <2>1, BackToIdle
    DEF ArchiveRefused, RefuseActivation, RefuseInstall, ReturnReleasing,
        MemTypeOK
<1>9. CASE TombstoneFails(w)
  <2>1. lease = w
    BY <1>9, <1>2, <1>3 DEF TombstoneFails, Own, LeasedSteps, UninstallSteps
  <2>2. map' \in Revs \cup {NoRev} /\ disturbances' \in 0..MaxDisturbances
    BY <1>9, <1>4 DEF TombstoneFails, MemTypeOK, Operations, Actors
  <2> QED
    BY <1>9, <1>2, <2>1, <2>2, BackToIdle DEF TombstoneFails, ReturnReleasing
<1>10. CASE Drop(w)
  <2>1. disturbances' \in 0..MaxDisturbances
    BY <1>10, <1>4 DEF Drop, MemTypeOK
  <2> QED BY <1>10, <2>1, <1>2, <1>4, BackToIdle DEF Drop, MemTypeOK
<1>11. CASE ReconciliationRefused(w)
  BY <1>11, <1>2, <1>3, <1>4, BackToIdle
  DEF ReconciliationRefused, Own, LeasedSteps, RollbackSteps, MemTypeOK
<1> USE DEF Own, LeasedSteps, UpdateSteps, RollbackSteps, InstallSteps,
            UninstallSteps, RemovalSteps, StagedSteps, JournaledSteps
<1>12. CASE ActivationFails(w)
  <2>1. Own(w)' /\ disturbances' \in 0..MaxDisturbances
    BY <1>12, <1>2, <1>3, <1>4, StepFields DEF ActivationFails, MemTypeOK, Actors
  <2> QED BY <1>12, <1>2, <2>1, <1>4, StepTo DEF ActivationFails, Steps, MemTypeOK
<1>13. CASE StartInstall(w)
  <2>1. Own(w)'
    BY <1>13, <1>2, <1>3, <1>4, StepFields DEF StartInstall, Acquire, Actors
  <2> QED BY <1>13, <1>2, <2>1, <1>4, StepTo DEF StartInstall, Acquire, Steps, MemTypeOK
<1>14. CASE InstallFails(w)
  <2>1. Own(w)' /\ disturbances' \in 0..MaxDisturbances
    BY <1>14, <1>2, <1>3, <1>4, StepFields DEF InstallFails, MemTypeOK, Actors
  <2> QED BY <1>14, <1>2, <2>1, <1>4, StepTo DEF InstallFails, Steps, MemTypeOK
<1>15. CASE UninstallFails(w)
  <2>1. Own(w)' /\ disturbances' \in 0..MaxDisturbances
    BY <1>15, <1>2, <1>3, <1>4, StepFields DEF UninstallFails, MemTypeOK, Actors
  <2> QED BY <1>15, <1>2, <2>1, <1>4, StepTo DEF UninstallFails, Steps, MemTypeOK
<1>16. CASE PlanReconciliation(w)
  <2>1. Own(w)'
    BY <1>16, <1>2, <1>3, <1>4, StepFields DEF PlanReconciliation, MemTypeOK, Actors
  <2> QED BY <1>16, <1>2, <2>1, <1>4, StepTo DEF PlanReconciliation, Steps, MemTypeOK
<1> HIDE DEF Own, LeasedSteps, UpdateSteps, RollbackSteps, InstallSteps,
             UninstallSteps, RemovalSteps, StagedSteps, JournaledSteps
<1>17. CASE StartUpdate(w)
  <2>1. PICK o \in Current :
          op' = [op EXCEPT ![w] = [x EXCEPT !.pc = "u_stage", !.old = o]]
    BY <1>17 DEF StartUpdate, x
  <2>2. op'[w] = [x EXCEPT !.pc = "u_stage", !.old = o]
    BY <2>1, <1>x, <1>4 DEF MemTypeOK
  <2>3. /\ op'[w] \in Operations /\ op'[w].pc = "u_stage" /\ op'[w].old = o
        /\ o \in Revs /\ revState[o] = "current"
    BY <2>2, <1>x DEF Operations, Current, Steps, UpdateSteps
  <2>4. lease' = w /\ lease = NoActor /\ op[w].pc # "idle"
    BY <1>17 DEF StartUpdate, Acquire
  <2>5. Own(w)'
    BY <1>2, <2>3, <2>4
    DEF Own, LeasedSteps, UpdateSteps, RollbackSteps, InstallSteps,
        UninstallSteps, RemovalSteps, StagedSteps, JournaledSteps
  <2> QED
    BY <1>17, <1>2, <1>4, <2>1, <2>2, <2>3, <2>4, <2>5
    DEF StartUpdate, Contract, MemTypeOK
<1>18. CASE Unmap(w, "u_unmap", "u_retain")
  <2>1. op'[w] = [x EXCEPT !.pc = "u_retain", !.prev = map]
    BY <1>18, <1>x, <1>4 DEF Unmap, MemTypeOK, x
  <2>2. /\ op'[w] \in Operations /\ op'[w].pc = "u_retain"
        /\ op'[w].old = x.old /\ op'[w].new = x.new
    BY <2>1, <1>x, <1>4 DEF Operations, MemTypeOK, Steps, UpdateSteps
  <2>3. x.pc = "u_unmap"
    BY <1>18 DEF Unmap, x
  <2>4. lease' = lease
    BY <1>18 DEF Unmap
  <2>5. Own(w)'
    BY <1>2, <1>3, <2>2, <2>3, <2>4
    DEF x, Own, LeasedSteps, UpdateSteps, RollbackSteps, InstallSteps,
        UninstallSteps, RemovalSteps, StagedSteps, JournaledSteps
  <2> QED
    BY <1>18, <1>2, <1>4, <1>x, <2>1, <2>2, <2>3, <2>4, <2>5
    DEF Unmap, Contract, MemTypeOK, x
<1>19. CASE StartUninstall(w)
  <2>1. PICK r \in Current, d \in Revs \cup {NoRev} :
          op' = [op EXCEPT ![w] = [x EXCEPT !.pc = "x_unmap", !.old = r,
                                            !.ready = setup, !.def = d]]
    BY <1>19, <1>4
    DEF StartUninstall, Current, MemTypeOK, IInv, TypeOK, StoreTypeOK, x
  <2>2. op'[w] = [x EXCEPT !.pc = "x_unmap", !.old = r,
                           !.ready = setup, !.def = d]
    BY <2>1, <1>x, <1>4 DEF MemTypeOK
  <2>6. setup \in BOOLEAN /\ r \in Revs
    BY DEF Current, IInv, TypeOK, StoreTypeOK
  <2>3. /\ op'[w] \in Operations /\ op'[w].pc = "x_unmap" /\ op'[w].old = r
        /\ r \in Revs
    BY <2>2, <2>6, <1>x DEF Operations, Steps, UninstallSteps
  <2>4. lease' = w /\ lease = NoActor /\ op[w].pc # "idle"
    BY <1>19 DEF StartUninstall, Acquire
  <2>5. Own(w)'
    BY <1>2, <2>3, <2>4
    DEF Own, LeasedSteps, UpdateSteps, RollbackSteps, InstallSteps,
        UninstallSteps, RemovalSteps, StagedSteps, JournaledSteps
  <2> QED
    BY <1>19, <1>2, <1>4, <2>1, <2>2, <2>3, <2>4, <2>5
    DEF StartUninstall, Contract, MemTypeOK
<1>20. CASE StartCleanup(w)
  <2>1. PICK r \in Revs :
          /\ op' = [op EXCEPT ![w] = [x EXCEPT !.pc = "k_remove", !.new = r]]
          /\ revState[r] # "current"
    BY <1>20 DEF StartCleanup, x
  <2>2. op'[w] = [x EXCEPT !.pc = "k_remove", !.new = r]
    BY <2>1, <1>x, <1>4 DEF MemTypeOK
  <2>3. op'[w] \in Operations /\ op'[w].pc = "k_remove" /\ op'[w].new = r
    BY <2>2, <1>x DEF Operations, Steps, CleanupSteps
  <2>4. lease' = w /\ lease = NoActor /\ op[w].pc # "idle"
    BY <1>20 DEF StartCleanup, Acquire
  <2>5. Own(w)'
    BY <1>2, <2>1, <2>3, <2>4
    DEF Own, LeasedSteps, UpdateSteps, RollbackSteps, InstallSteps,
        UninstallSteps, RemovalSteps, StagedSteps, JournaledSteps
  <2> QED
    BY <1>20, <1>2, <1>4, <2>1, <2>2, <2>3, <2>4, <2>5
    DEF StartCleanup, Contract, MemTypeOK
<1>21. CASE Unmap(w, "x_unmap", "x_retain")
  <2>1. op'[w] = [x EXCEPT !.pc = "x_retain", !.prev = map]
    BY <1>21, <1>x, <1>4 DEF Unmap, MemTypeOK, x
  <2>2. /\ op'[w] \in Operations /\ op'[w].pc = "x_retain"
        /\ op'[w].old = x.old /\ op'[w].new = x.new
    BY <2>1, <1>x, <1>4 DEF Operations, MemTypeOK, Steps, UninstallSteps
  <2>3. x.pc = "x_unmap"
    BY <1>21 DEF Unmap, x
  <2>4. lease' = lease
    BY <1>21 DEF Unmap
  <2>5. Own(w)'
    BY <1>2, <1>3, <2>2, <2>3, <2>4
    DEF x, Own, LeasedSteps, UpdateSteps, RollbackSteps, InstallSteps,
        UninstallSteps, RemovalSteps, StagedSteps, JournaledSteps
  <2> QED
    BY <1>21, <1>2, <1>4, <1>x, <2>1, <2>2, <2>3, <2>4, <2>5
    DEF Unmap, Contract, MemTypeOK, x
<1> QED
  BY <1>6, <1>7, <1>8, <1>9, <1>10, <1>11, <1>12, <1>13, <1>14, <1>15, <1>16,
     <1>17, <1>18, <1>19, <1>20, <1>21

\* Steps that only move or delete a package.
LEMMA PackageSteps ==
  ASSUME IInv, NEW w \in Workers,
         \/ Prepare(w, "u_prepare", "u_journal")
         \/ Prepare(w, "i_prepare", "i_activate")
         \/ RetainOld(w) \/ ActivateNew(w) \/ ActivateInstall(w)
         \/ UndoInstall(w) \/ MoveToTombstone(w) \/ UndoUninstall(w)
         \/ RemoveExpiredPackage(w) \/ StageNew(w) \/ RestoreOld(w)
  PROVE  Contract(w) /\ IInv'
PROOF
<1> USE NoRevAssumption, ActorAssumption DEF At, Calm, Disturb
<1>1. UNCHANGED db
  BY DEF Prepare, RetainOld, ActivateNew, ActivateInstall, UndoInstall,
     MoveToTombstone, UndoUninstall, RemoveExpiredPackage, StageNew,
     RestoreOld, FsStep
<1>2. UNCHANGED <<revState, journal>> /\ w # Boot
  BY <1>1 DEF db
<1>3. Own(w)
  BY DEF IInv, Ownership, Actors
<1>4. MemTypeOK /\ StoreTypeOK /\ op[w] \in Operations /\ w \in Actors
  BY DEF IInv, TypeOK, MemTypeOK, Actors
<1>5. Registry'
  BY <1>1 DEF IInv, Registry, OneCurrentRevision, Current, JournalIntact,
              JournalRevisionsValid, db
<1>6. /\ process' = process /\ map' \in Revs \cup {NoRev}
      /\ disturbances' \in 0..MaxDisturbances /\ ~At(w, "idle")
  <2>1. CASE UndoUninstall(w)
    BY <2>1, <1>4 DEF UndoUninstall, MemTypeOK, Operations
  <2>2. CASE UndoInstall(w)
    BY <2>2, <1>4 DEF UndoInstall, MemTypeOK
  <2> QED
    BY <2>1, <2>2, <1>4
    DEF Prepare, RetainOld, ActivateNew, ActivateInstall, MoveToTombstone,
        RemoveExpiredPackage, StageNew, RestoreOld, FsStep, MemTypeOK
<1>7. Contract(w)
  <2>1. CASE UndoUninstall(w)
    <3>1. lease = w
      BY <2>1, <1>2, <1>3 DEF UndoUninstall, Own, LeasedSteps, UninstallSteps
    <3> QED
      BY <2>1, <3>1, <1>2, <1>6, BackToIdle DEF UndoUninstall, ReturnReleasing
  <2> DEFINE Go(s, t) == At(w, s) /\ Goto(w, t) /\ lease' = lease
  <2>2. CASE ~UndoUninstall(w)
    <3>1. \/ Go("u_prepare", "u_journal") \/ Go("i_prepare", "i_activate")
          \/ Go("u_retain", "u_old_retained")
          \/ Go("u_activate", "u_new_active") \/ Go("i_activate", "i_commit")
          \/ Go("i_undo", "i_mark") \/ Go("x_retain", "x_commit")
          \/ Go("k_remove", "k_delete") \/ Go("r_stage", "r_new_staged")
          \/ Go("r_restore", "r_mark")
      BY <2>2
      DEF Prepare, RetainOld, ActivateNew, ActivateInstall, UndoInstall,
          MoveToTombstone, RemoveExpiredPackage, StageNew, RestoreOld, FsStep
    <3>2. PICK t \in Steps \ {"b_load"} : Goto(w, t) /\ lease' = lease
      BY <3>1
      DEF Steps, UpdateSteps, RollbackSteps, InstallSteps, UninstallSteps,
          CleanupSteps
    <3>3. Own(w)'
      BY <3>1, <1>2, <1>3, <1>4, StepFields
      DEF Goto, Own, LeasedSteps, UpdateSteps, RollbackSteps, InstallSteps,
          UninstallSteps, RemovalSteps, StagedSteps, JournaledSteps
    <3> QED
      BY <3>2, <3>3, <1>2, <1>6, StepTo DEF Goto
  <2> QED BY <2>1, <2>2
<1>8. StoreTypeOK'
  <2>1. /\ active \in Revs \cup {NoRev}
        /\ retained \in [Revs -> Revs \cup {NoRev}]
        /\ staging \in [Revs -> Revs \cup {NoRev}]
    BY <1>4 DEF StoreTypeOK
  <2>2. /\ active' \in Revs \cup {NoRev}
        /\ retained' \in [Revs -> Revs \cup {NoRev}]
        /\ staging' \in [Revs -> Revs \cup {NoRev}]
    <3>1. CASE RetainOld(w) \/ ActivateInstall(w) \/ ActivateNew(w)
      BY <2>1, <3>1, <1>3
      DEF RetainOld, ActivateInstall, ActivateNew, ActiveToRetained,
          StagingToActive, Own, StagedSteps, JournaledSteps
    <3>2. CASE UndoInstall(w) \/ StageNew(w)
      BY <2>1, <3>2 DEF UndoInstall, StageNew, ActiveToStaging, fs
    <3>3. CASE MoveToTombstone(w) \/ UndoUninstall(w)
      BY <2>1, <3>3, <1>3
      DEF MoveToTombstone, UndoUninstall, ActiveToRetained, RetainedToActive,
          fs, Own, UninstallSteps
    <3>4. CASE RestoreOld(w)
      <4>1. journal.old \in Revs
        BY <3>4, <1>3, <1>4 DEF RestoreOld, Own, RollbackSteps, StoreTypeOK, Journals
      <4> QED BY <2>1, <3>4, <4>1 DEF RestoreOld, RetainedToActive
    <3>5. CASE RemoveExpiredPackage(w)
      BY <2>1, <3>5 DEF RemoveExpiredPackage, RemoveRecordedPackage
    <3>6. CASE \/ Prepare(w, "u_prepare", "u_journal")
               \/ Prepare(w, "i_prepare", "i_activate")
      BY <2>1, <3>6, <1>4 DEF Prepare, Operations
    <3> QED BY <3>1, <3>2, <3>3, <3>4, <3>5, <3>6
  <2> QED BY <2>2, <1>1, <1>4 DEF StoreTypeOK, db
<1> QED BY <1>5, <1>7, <1>8, ContractSuffices

\* Steps that write the database.
LEMMA RegistrySteps ==
  ASSUME IInv, NEW w \in Workers,
         \/ Stage(w, "u_stage", "u_prepare") \/ Stage(w, "i_stage", "i_prepare")
         \/ PrepareFails(w) \/ WriteJournal(w) \/ RecordOldRetained(w)
         \/ RecordNewActive(w) \/ CommitUpdate(w) \/ SaveSetupState(w)
         \/ FinishInstall(w) \/ MarkInstallFailed(w) \/ RecordSetup(w)
         \/ FinishUninstall(w) \/ DeleteExpiredRevision(w)
         \/ RecordNewStaged(w) \/ RecordOldActive(w) \/ FinishRollback(w)
  PROVE  Contract(w) /\ IInv'
PROOF
<1> USE NoRevAssumption, ActorAssumption DEF At, Calm
<1>1. w # Boot /\ w \in Actors /\ op[w] \in Operations
  BY DEF IInv, TypeOK, MemTypeOK, Actors
<1>2. Own(w)
  BY DEF IInv, Ownership, Actors
<1>3. MemTypeOK /\ StoreTypeOK /\ Registry
  BY DEF IInv, TypeOK
<1>4. UNCHANGED fs
  BY DEF Stage, PrepareFails, WriteJournal, RecordOldRetained,
     RecordNewActive, CommitUpdate, SaveSetupState, FinishInstall,
     MarkInstallFailed, RecordSetup, FinishUninstall, DeleteExpiredRevision,
     RecordNewStaged, RecordOldActive, FinishRollback, DbStep
<1>5. SUFFICES Contract(w) /\ StoreTypeOK' /\ Registry'
  BY ContractSuffices
<1>6. ASSUME NEW s \in Steps, NEW t \in Steps, Stage(w, s, t),
             (s = "u_stage" /\ t = "u_prepare") \/ (s = "i_stage" /\ t = "i_prepare")
      PROVE Contract(w) /\ StoreTypeOK' /\ Registry'
  <2>1. PICK n \in Unused :
          CreateStagedRevision(n) /\ op' = [op EXCEPT ![w] = [@ EXCEPT !.pc = t, !.new = n]]
    BY <1>6 DEF Stage
  <2>2. op'[w] = [op[w] EXCEPT !.pc = t, !.new = n]
    BY <2>1, <1>1, <1>3 DEF MemTypeOK
  <2>3. op'[w] \in Operations /\ op'[w].pc = t /\ op'[w].new = n /\ op'[w].old = op[w].old /\ n \in Revs
    BY <2>2, <1>1 DEF Operations, Unused
  <2>4. lease = w /\ lease' = lease /\ process' = process /\ map' = map /\ disturbances' = disturbances /\ op[w].pc = s
    BY <1>6, <1>2, <1>1 DEF Stage, Own, LeasedSteps, UpdateSteps, InstallSteps
  <2>5. revState[n] = "unused" /\ revState' = [revState EXCEPT ![n] = "staged"] /\ journal' = journal
    BY <2>1 DEF CreateStagedRevision, Unused
  <2>6. journal.new # n
    BY <2>5, <2>3, <1>3 DEF Registry, JournalIntact, JournalRevisionsValid, StoreTypeOK, NoJournal, Journals
  <2>7. Own(w)'
    BY <2>3, <2>4, <2>5, <2>6, <1>1, <1>2, <1>3, <1>6
    DEF StoreTypeOK, Own, LeasedSteps, UpdateSteps, RollbackSteps, InstallSteps,
          UninstallSteps, RemovalSteps, StagedSteps, JournaledSteps
  <2>8. Contract(w)
    BY <2>1, <2>2, <2>3, <2>4, <2>7, <1>3, <1>6 DEF Contract, MemTypeOK
  <2>9. StoreTypeOK'
    BY <2>1, <1>3, <1>4 DEF CreateStagedRevision, StoreTypeOK, fs, RevStates
  <2>10. Registry'
    BY <2>1, <2>5, <1>3 DEF CreateStagedRevision, StoreTypeOK, Registry, OneCurrentRevision, Current, JournalIntact, JournalRevisionsValid, NoJournal, Journals
  <2> QED BY <2>8, <2>9, <2>10
<1>7. CASE Stage(w, "u_stage", "u_prepare")
  BY <1>6, <1>7 DEF Steps, UpdateSteps
<1>8. CASE Stage(w, "i_stage", "i_prepare")
  BY <1>6, <1>8 DEF Steps, InstallSteps
<1> USE DEF Registry, OneCurrentRevision, Current, JournalIntact,
            JournalRevisionsValid, StoreTypeOK, NoJournal, Journals
<1>9. CASE PrepareFails(w) \/ MarkInstallFailed(w)
  <2>1. /\ lease = w /\ op[w].new \in Revs /\ revState[op[w].new] = "staged"
        /\ journal.new # op[w].new
    BY <1>9, <1>1, <1>2
    DEF PrepareFails, MarkInstallFailed, Own, LeasedSteps, UpdateSteps,
        InstallSteps, StagedSteps
  <2>2. MarkRevisionFailed(op[w].new)
    BY <1>9 DEF PrepareFails, MarkInstallFailed
  <2>3. disturbances' \in 0..MaxDisturbances
    BY <1>9, <1>3 DEF PrepareFails, MarkInstallFailed, Disturb, MemTypeOK
  <2>4. Contract(w)
    BY <1>9, <2>1, <2>3, <1>3, BackToIdle
    DEF PrepareFails, MarkInstallFailed, ReturnReleasing, MemTypeOK
  <2>5. StoreTypeOK'
    BY <2>1, <2>2, <1>3, <1>4 DEF MarkRevisionFailed, fs, RevStates
  <2>6. Registry'
    BY <2>1, <2>2, <1>3 DEF MarkRevisionFailed
  <2> QED BY <2>4, <2>5, <2>6
<1>10. CASE WriteJournal(w)
  <2>1. /\ lease = w /\ op[w].old \in Revs /\ revState[op[w].old] = "current"
        /\ op[w].new \in Revs /\ revState[op[w].new] = "staged"
    BY <1>10, <1>1, <1>2
    DEF WriteJournal, Own, LeasedSteps, UpdateSteps, StagedSteps
  <2>2. /\ PersistJournal(op[w].old, op[w].new)
        /\ journal' = [old |-> op[w].old, new |-> op[w].new, phase |-> "prepared"]
    BY <1>10 DEF WriteJournal, PersistJournal
  <2>3. /\ op' = [op EXCEPT ![w].pc = "u_unmap"]
        /\ UNCHANGED <<process, lease, map, disturbances, revState>>
        /\ op[w].pc = "u_journal"
    BY <1>10 DEF WriteJournal, PersistJournal, DbStep, Goto
  <2>8. /\ journal' # NoJournal
        /\ journal'.old = op[w].old /\ journal'.new = op[w].new
    BY <2>1, <2>2
  <2>9. /\ op'[w].pc = "u_unmap" /\ op'[w].old = op[w].old
        /\ op'[w].new = op[w].new
    BY <2>3, <1>1, StepFields
  <2>4. Own(w)'
    <3> HIDE DEF NoJournal
    <3> QED
    BY <2>1, <2>3, <2>8, <2>9
    DEF Own, LeasedSteps, UpdateSteps, RollbackSteps, InstallSteps,
        UninstallSteps, RemovalSteps, StagedSteps, JournaledSteps
  <2>5. Contract(w)
    BY <2>1, <2>3, <2>4, <1>3, StepTo DEF MemTypeOK, Steps, UpdateSteps
  <2>6. StoreTypeOK'
    BY <2>1, <2>2, <1>3, <1>4 DEF PersistJournal, fs, Phases
  <2>7. Registry'
    BY <2>1, <2>2, <2>3, <1>3 DEF PersistJournal
  <2> QED BY <2>5, <2>6, <2>7
<1>11. CASE \/ RecordOldRetained(w) \/ RecordNewActive(w)
            \/ RecordNewStaged(w) \/ RecordOldActive(w)
  <2>1. lease = w
    BY <1>11, <1>1, <1>2
    DEF RecordOldRetained, RecordNewActive, RecordNewStaged, RecordOldActive,
        Own, LeasedSteps, UpdateSteps, RollbackSteps
  <2>2. PICK p \in Phases : RecordPhase(p)
    BY <1>11
    DEF RecordOldRetained, RecordNewActive, RecordNewStaged, RecordOldActive,
        Phases
  <2>3. /\ journal \in Journals /\ journal' \in Journals
        /\ journal'.old = journal.old /\ journal'.new = journal.new
        /\ UNCHANGED <<row, setup, revState, revPath, storageReady>>
    BY <2>2, <1>3 DEF RecordPhase
  <2>4. journal' # NoJournal
    BY <2>3
  <2> DEFINE Go(s, t) == op[w].pc = s /\ op' = [op EXCEPT ![w].pc = t]
  <2>5. \/ Go("u_old_retained", "u_activate") \/ Go("u_new_active", "u_commit")
        \/ Go("r_new_staged", "r_restore") \/ Go("r_mark", "r_final")
    BY <1>11
    DEF RecordOldRetained, RecordNewActive, RecordNewStaged, RecordOldActive,
        DbStep, Goto
  <2>6. UNCHANGED <<process, lease, map, disturbances>>
    BY <1>11
    DEF RecordOldRetained, RecordNewActive, RecordNewStaged, RecordOldActive,
        DbStep
  <2>7. Own(w)'
    <3> HIDE DEF NoJournal, Journals
    <3> QED
      BY <2>1, <2>3, <2>4, <2>5, <2>6, <1>1, <1>2, StepFields
      DEF Own, LeasedSteps, UpdateSteps, RollbackSteps, InstallSteps,
          UninstallSteps, RemovalSteps, StagedSteps, JournaledSteps
  <2>8. Contract(w)
    BY <2>1, <2>5, <2>6, <2>7, <1>3, StepTo
    DEF MemTypeOK, Steps, UpdateSteps, RollbackSteps
  <2>9. StoreTypeOK'
    BY <2>3, <1>3, <1>4 DEF fs
  <2>10. Registry'
    BY <2>3, <1>3
  <2> QED BY <2>8, <2>9, <2>10
<1>12. CASE CommitUpdate(w)
  <2>1. /\ lease = w /\ op[w].old \in Revs /\ revState[op[w].old] = "current"
        /\ op[w].new \in Revs /\ revState[op[w].new] = "staged"
    BY <1>12, <1>1, <1>2
    DEF CommitUpdate, Own, LeasedSteps, UpdateSteps, JournaledSteps
  <2>2. /\ CommitSwitch(op[w].old, op[w].new) /\ journal' = NoJournal
        /\ op' = [op EXCEPT ![w].pc = "t_setup"] /\ lease' = NoActor
        /\ UNCHANGED <<process, map, disturbances>> /\ op[w].pc = "u_commit"
    BY <1>12 DEF CommitUpdate, CommitSwitch, Goto
  <2>3. Own(w)'
    <3>1. op'[w].pc = "t_setup"
      BY <2>2, <1>1, StepFields
    <3> QED BY <3>1, FreeOwn DEF FreeSteps
  <2>4. Contract(w)
    BY <2>1, <2>2, <2>3, <1>3, StepTo DEF MemTypeOK, Steps
  <2>5. StoreTypeOK'
    BY <2>1, <2>2, <1>3, <1>4 DEF CommitSwitch, fs, RevStates
  <2>6. \A r \in Revs : revState'[r] = "current" <=> r = op[w].new
    BY <2>1, <2>2, <1>3 DEF CommitSwitch
  <2>7. Registry'
    BY <2>1, <2>2, <2>6, <1>3
  <2> QED BY <2>4, <2>5, <2>7
<1>13. CASE SaveSetupState(w)
  <2>1. PICK complete \in BOOLEAN :
          /\ SaveSetup(complete)
          /\ op' = [op EXCEPT ![w] = [@ EXCEPT !.pc = "t_map",
                      !.def = IF complete THEN op[w].new ELSE NoRev]]
    BY <1>13 DEF SaveSetupState
  <2>2. op'[w] = [op[w] EXCEPT !.pc = "t_map",
                     !.def = IF complete THEN op[w].new ELSE NoRev]
    BY <2>1, <1>1, <1>3 DEF MemTypeOK
  <2>3. op'[w] \in Operations /\ op'[w].pc = "t_map"
    BY <2>2, <1>1 DEF Operations, Steps
  <2>4. Own(w)'
    BY <2>3, FreeOwn DEF FreeSteps
  <2>5. /\ UNCHANGED <<process, lease, map, disturbances, revState, journal,
                       row, revPath, storageReady>>
        /\ setup' \in BOOLEAN /\ op[w].pc = "t_setup"
    BY <1>13, <2>1, <1>3 DEF SaveSetupState, SaveSetup
  <2>6. Contract(w)
    BY <2>1, <2>2, <2>3, <2>4, <2>5, <1>3 DEF Contract, MemTypeOK
  <2> QED BY <2>5, <2>6, <1>3, <1>4 DEF fs
<1>14. CASE RecordSetup(w)
  <2>1. /\ UNCHANGED <<process, lease, map, disturbances, revState, journal,
                       row, revPath, storageReady>>
        /\ setup' \in BOOLEAN /\ op[w].pc = "c_setup"
        /\ op' = [op EXCEPT ![w].pc = "c_map"]
    BY <1>14, <1>3 DEF RecordSetup, SaveSetup, DbStep, Goto
  <2>2. Own(w)'
    BY <2>1, <1>1, StepFields, FreeOwn DEF FreeSteps
  <2>3. Contract(w)
    BY <2>1, <2>2, <1>3, StepTo DEF MemTypeOK, Steps
  <2> QED BY <2>1, <2>3, <1>3, <1>4 DEF fs
<1>15. CASE FinishInstall(w)
  <2>1. lease = w /\ op[w].new \in Revs
    BY <1>15, <1>1, <1>2
    DEF FinishInstall, Own, LeasedSteps, InstallSteps, StagedSteps
  <2>2. /\ CommitInstall(op[w].new) /\ journal' = journal
        /\ op' = [op EXCEPT ![w].pc = "t_setup"] /\ lease' = NoActor
        /\ UNCHANGED <<process, map, disturbances>> /\ op[w].pc = "i_commit"
    BY <1>15 DEF FinishInstall, CommitInstall, Goto
  <2>3. Own(w)'
    <3>1. op'[w].pc = "t_setup"
      BY <2>2, <1>1, StepFields
    <3> QED BY <3>1, FreeOwn DEF FreeSteps
  <2>4. Contract(w)
    BY <2>1, <2>2, <2>3, <1>3, StepTo DEF MemTypeOK, Steps
  <2>5. StoreTypeOK'
    BY <2>1, <2>2, <1>3, <1>4 DEF CommitInstall, fs, RevStates
  <2>6. /\ \A r \in Revs : revState[r] # "current"
        /\ revState' = [revState EXCEPT ![op[w].new] = "current"]
    BY <2>2 DEF CommitInstall, InstallCommittable
  <2>7. journal = NoJournal
    BY <2>6, <1>3
  <2>8. Registry'
    BY <2>1, <2>2, <2>6, <2>7, <1>3
  <2> QED BY <2>4, <2>5, <2>8
<1>16. CASE FinishUninstall(w)
  <2>1. lease = w /\ op[w].old \in Revs
    BY <1>16, <1>1, <1>2
    DEF FinishUninstall, Own, LeasedSteps, UninstallSteps
  <2>2. CommitUninstall(op[w].old)
    BY <1>16 DEF FinishUninstall
  <2>3. Contract(w)
    BY <1>16, <2>1, <1>3, BackToIdle
    DEF FinishUninstall, ReturnReleasing, MemTypeOK
  <2>4. StoreTypeOK'
    BY <2>1, <2>2, <1>3, <1>4 DEF CommitUninstall, fs, RevStates
  <2>5. Registry'
    BY <2>1, <2>2, <1>3 DEF CommitUninstall, UninstallCommittable
  <2> QED BY <2>3, <2>4, <2>5
<1>17. CASE DeleteExpiredRevision(w)
  <2>1. /\ lease = w /\ op[w].new \in Revs
        /\ revState[op[w].new] # "current"
    BY <1>17, <1>1, <1>2
    DEF DeleteExpiredRevision, Own, LeasedSteps, RemovalSteps
  <2>2. Contract(w)
    BY <1>17, <2>1, <1>3, BackToIdle
    DEF DeleteExpiredRevision, ReturnReleasing, MemTypeOK
  <2>3. CASE UNCHANGED db
    BY <2>2, <2>3, <1>3, <1>4 DEF fs, db
  <2>4. CASE DeleteRevision(op[w].new)
    <3>1. StoreTypeOK'
      BY <2>1, <2>4, <1>3, <1>4 DEF DeleteRevision, fs, RevStates
    <3>2. Registry'
      BY <2>1, <2>4, <1>3 DEF DeleteRevision, RevisionDeletable
    <3> QED BY <3>1, <3>2, <2>2
  <2> QED BY <1>17, <2>3, <2>4 DEF DeleteExpiredRevision
<1>18. CASE FinishRollback(w)
  <2>1. lease = w /\ journal # NoJournal
    BY <1>18, <1>1, <1>2
    DEF FinishRollback, Own, LeasedSteps, RollbackSteps
  <2>2. journal \in Journals /\ CommitRollback(journal)
    BY <1>18, <2>1, <1>3 DEF FinishRollback
  <2>3. Contract(w)
    BY <1>18, <2>1, <1>1, <1>3, BackToIdle
    DEF FinishRollback, ReturnReleasing, MemTypeOK, Operations
  <2>4. StoreTypeOK'
    BY <2>2, <1>3, <1>4 DEF CommitRollback, fs, RevStates
  <2>5. Registry'
    BY <2>2, <1>3 DEF CommitRollback
  <2> QED BY <2>3, <2>4, <2>5
<1> QED
  BY <1>7, <1>8, <1>9, <1>10, <1>11, <1>12, <1>13, <1>14, <1>15, <1>16,
     <1>17, <1>18

\* Steps of the startup sequence, while no worker runs.
LEMMA StartupSteps ==
  ASSUME IInv, Crash \/ Restart \/ LoadInstalled \/ Reconcile(Boot)
  PROVE  IInv'
PROOF
<1> USE NoRevAssumption, ActorAssumption DEF At, Calm, Actors
<1>1. MemTypeOK /\ StoreTypeOK /\ Registry /\ Exclusion /\ Own(Boot)
  BY DEF IInv, TypeOK, Ownership
<1>2. ASSUME ~Crash
      PROVE  /\ process # "up" /\ lease = NoActor
             /\ \A w \in Workers : op[w].pc = "idle"
  <2>1. process # "up"
    BY <1>1, <1>2
    DEF Restart, LoadInstalled, Reconcile, PlanReconciliation, StageNew,
        RecordNewStaged, RestoreOld, RecordOldActive, FinishRollback,
        ReconciliationRefused, Exclusion
  <2> QED BY <2>1, <1>1 DEF Exclusion
<1>3. CASE Crash
  <2>1. UNCHANGED <<fs, db>>
    BY <1>3 DEF Crash
  <2>2. StoreTypeOK' /\ Registry'
    BY <2>1, UnchangedStore
  <2>3. \A a \in Actors : op'[a] = Idle
    BY <1>3 DEF Crash
  <2>4. MemTypeOK'
    BY <1>1, <1>3 DEF Crash, MemTypeOK, Idle, Operations, Steps, Disturb
  <2>5. Exclusion'
    BY <1>3, <2>3 DEF Crash, Exclusion, Idle
  <2>6. Ownership'
    BY <2>3
    DEF Ownership, Own, Idle, LeasedSteps, UpdateSteps, RollbackSteps,
        InstallSteps, UninstallSteps, RemovalSteps, StagedSteps,
        JournaledSteps
  <2> QED BY <2>2, <2>4, <2>5, <2>6 DEF IInv, TypeOK
<1>4. ASSUME ~Crash, StoreTypeOK', Registry', Own(Boot)',
             op'[Boot] \in Operations, op' = [op EXCEPT ![Boot] = op'[Boot]],
             op'[Boot].pc \in RollbackSteps \cup {"idle", "b_load"},
             process' \in {"up", "down", "booting"},
             process' # "booting" => op'[Boot].pc = "idle",
             lease' = lease, map' \in Revs \cup {NoRev},
             disturbances' = disturbances
      PROVE  IInv'
  <2>1. \A w \in Workers : op'[w] = op[w] /\ op'[w].pc = "idle"
    BY <1>1, <1>2, <1>4 DEF MemTypeOK
  <2>2. MemTypeOK'
    BY <1>1, <1>4 DEF MemTypeOK
  <2>3. Exclusion'
    BY <1>2, <1>4, <2>1 DEF Exclusion
  <2>4. \A w \in Workers : Own(w)'
    BY <2>1, FreeOwn DEF FreeSteps
  <2> QED BY <1>4, <2>2, <2>3, <2>4 DEF IInv, TypeOK, Ownership
<1>5. CASE Restart
  <2>1. UNCHANGED <<fs, db>> /\ ~Crash
    BY <1>5 DEF Restart, Crash
  <2>2. StoreTypeOK' /\ Registry'
    BY <2>1, UnchangedStore
  <2>3. /\ op' = [op EXCEPT ![Boot].pc = IF journal = NoJournal THEN "b_load"
                                         ELSE "r_plan"]
        /\ UNCHANGED <<lease, map, disturbances, journal>>
        /\ process' = "booting"
    BY <1>5 DEF Restart, Goto, db
  <2>4. /\ op'[Boot].pc = IF journal = NoJournal THEN "b_load" ELSE "r_plan"
        /\ op'[Boot] \in Operations /\ op' = [op EXCEPT ![Boot] = op'[Boot]]
    BY <2>3, <1>1 DEF MemTypeOK, Operations, Steps, RollbackSteps
  <2>5. Own(Boot)'
    BY <2>3, <2>4
    DEF Own, LeasedSteps, UpdateSteps, RollbackSteps, InstallSteps,
        UninstallSteps, RemovalSteps, StagedSteps, JournaledSteps
  <2> QED
    BY <1>1, <1>4, <2>1, <2>2, <2>3, <2>4, <2>5 DEF RollbackSteps, MemTypeOK
<1>6. CASE LoadInstalled
  <2>1. /\ UNCHANGED <<lease, disturbances, fs, row, setup, journal>>
        /\ op' = [op EXCEPT ![Boot] = Idle] /\ process' = "up"
        /\ map' \in Revs \cup {NoRev} /\ BootstrapRevision /\ ~Crash
    BY <1>6, <1>1 DEF LoadInstalled, StoreTypeOK, Crash
  <2>2. /\ op'[Boot] \in Operations /\ op' = [op EXCEPT ![Boot] = op'[Boot]]
        /\ op'[Boot].pc = "idle"
    BY <2>1, <1>1 DEF MemTypeOK, Operations, Idle, Steps
  <2>3. Own(Boot)'
    BY <2>2
    DEF Own, LeasedSteps, UpdateSteps, RollbackSteps, InstallSteps,
        UninstallSteps, RemovalSteps, StagedSteps, JournaledSteps
  <2>4. StoreTypeOK'
    BY <2>1, <1>1 DEF BootstrapRevision, StoreTypeOK, RevStates, Unused, fs
  <2>5. Registry'
    <3>1. CASE UNCHANGED revState
      BY <2>1, <3>1, <1>1
      DEF Registry, OneCurrentRevision, Current, JournalIntact,
          JournalRevisionsValid
    <3>2. CASE \E r \in Unused : /\ Current = {}
                                 /\ revState' = [revState EXCEPT ![r] = "current"]
      <4>1. PICK r \in Unused : revState' = [revState EXCEPT ![r] = "current"]
        BY <3>2
      <4>2. r \in Revs /\ \A q \in Revs : revState'[q] = "current" <=> q = r
        BY <3>2, <4>1, <1>1 DEF Current, Unused, StoreTypeOK
      <4>3. journal = NoJournal
        BY <3>2, <1>1
        DEF Registry, JournalIntact, JournalRevisionsValid, Current,
            StoreTypeOK, Journals
      <4> QED
        BY <2>1, <4>2, <4>3
        DEF Registry, OneCurrentRevision, Current, JournalIntact
    <3> QED BY <2>1, <3>1, <3>2 DEF BootstrapRevision
  <2> QED BY <1>1, <1>4, <2>1, <2>2, <2>3, <2>4, <2>5
<1>7. CASE ReconciliationRefused(Boot) /\ ~Crash
  <2>1. /\ UNCHANGED <<fs, db>> /\ ~Crash
        /\ UNCHANGED <<lease, disturbances, map>> /\ process' = "down"
        /\ op' = [op EXCEPT ![Boot] = Idle]
    BY <1>7 DEF ReconciliationRefused
  <2>2. StoreTypeOK' /\ Registry'
    BY <2>1, UnchangedStore
  <2>3. /\ op'[Boot] \in Operations /\ op' = [op EXCEPT ![Boot] = op'[Boot]]
        /\ op'[Boot].pc = "idle"
    BY <2>1, <1>1 DEF MemTypeOK, Operations, Idle, Steps
  <2>4. Own(Boot)'
    BY <2>3
    DEF Own, LeasedSteps, UpdateSteps, RollbackSteps, InstallSteps,
        UninstallSteps, RemovalSteps, StagedSteps, JournaledSteps
  <2> QED BY <1>1, <1>4, <2>1, <2>2, <2>3, <2>4 DEF MemTypeOK
<1>8. CASE Reconcile(Boot) /\ ~ReconciliationRefused(Boot) /\ ~Crash
  <2>1. op[Boot].pc \in RollbackSteps /\ journal # NoJournal
    BY <1>8, <1>1
    DEF Reconcile, PlanReconciliation, StageNew, RecordNewStaged, RestoreOld,
        RecordOldActive, FinishRollback, RollbackSteps, Own
  <2>2. PICK t \in (RollbackSteps \cup {"b_load"}) :
          /\ op' = [op EXCEPT ![Boot].pc = t]
          /\ t # "b_load" => journal' # NoJournal
    <3>1. journal \in Journals
      BY <2>1, <1>1 DEF StoreTypeOK
    <3>2. \A p \in Phases : [journal EXCEPT !.phase = p] # NoJournal
      BY <3>1, <1>1 DEF NoJournal, Journals
    <3> QED
      BY <1>8, <2>1, <3>2
      DEF Reconcile, PlanReconciliation, StageNew, RecordNewStaged,
          RestoreOld, RecordOldActive, FinishRollback, Goto, FsStep, DbStep,
          RecordPhase, Phases, RollbackSteps, db
  <2>3. UNCHANGED <<lease, map, disturbances, process>>
    BY <1>8
    DEF Reconcile, PlanReconciliation, StageNew, RecordNewStaged,
        RestoreOld, RecordOldActive, FinishRollback, FsStep, DbStep
  <2>4. /\ op'[Boot].pc = t /\ op'[Boot] \in Operations
        /\ op' = [op EXCEPT ![Boot] = op'[Boot]]
    BY <2>2, <1>1 DEF MemTypeOK, Operations, Steps
  <2>5. Own(Boot)'
    BY <2>2, <2>4
    DEF Own, LeasedSteps, UpdateSteps, RollbackSteps, InstallSteps,
        UninstallSteps, RemovalSteps, StagedSteps, JournaledSteps
  <2>6. process = "booting"
    BY <2>1, <1>1 DEF Exclusion, RollbackSteps
  <2>7. StoreTypeOK' /\ Registry'
    <3>1. journal \in Journals /\ journal.old \in Revs /\ journal.new \in Revs
      BY <2>1, <1>1 DEF StoreTypeOK, Journals
    <3>2. CASE PlanReconciliation(Boot)
      BY <3>2, UnchangedStore DEF PlanReconciliation
    <3>3. CASE StageNew(Boot) \/ RestoreOld(Boot)
      BY <3>1, <3>3, <1>1
      DEF StageNew, RestoreOld, ActiveToStaging, RetainedToActive, FsStep,
          StoreTypeOK, Registry, OneCurrentRevision, Current, JournalIntact,
          JournalRevisionsValid, db
    <3>4. CASE RecordNewStaged(Boot) \/ RecordOldActive(Boot)
      <4>1. PICK p \in Phases : RecordPhase(p) /\ UNCHANGED fs
        BY <3>4 DEF RecordNewStaged, RecordOldActive, DbStep, Phases
      <4> QED
        BY <3>1, <4>1, <1>1
        DEF RecordPhase, fs, StoreTypeOK, Registry, OneCurrentRevision,
            Current, JournalIntact, JournalRevisionsValid, NoJournal, Journals
    <3>5. CASE FinishRollback(Boot)
      <4>1. CommitRollback(journal) /\ UNCHANGED fs
        BY <3>5 DEF FinishRollback
      <4> QED
        BY <3>1, <4>1, <1>1
        DEF CommitRollback, fs, StoreTypeOK, RevStates, Registry,
            OneCurrentRevision, Current, JournalIntact, JournalRevisionsValid
    <3> QED BY <1>8, <3>2, <3>3, <3>4, <3>5 DEF Reconcile
  <2> QED BY <1>1, <1>4, <1>8, <2>2, <2>3, <2>4, <2>5, <2>6, <2>7 DEF MemTypeOK
<1> QED BY <1>3, <1>5, <1>6, <1>7, <1>8

-----------------------------------------------------------------------------
\* Every step of a worker meets its contract.
LEMMA WorkerSteps ==
  ASSUME IInv, NEW w \in Workers, Request(w) \/ Continue(w) \/ Fault(w) \/ Reconcile(w)
  PROVE  Contract(w) /\ IInv'
PROOF
  BY ControlSteps, PackageSteps, RegistrySteps DEF Continue, Fault, Reconcile

\* The invariant is inductive: one lemma per group of actions above.
LEMMA NextIInv == IInv /\ [Next]_vars => IInv'
PROOF
<1> SUFFICES ASSUME IInv, [Next]_vars PROVE IInv'
  OBVIOUS
<1>1. ASSUME NEW w \in Workers, Request(w) \/ Continue(w) \/ Fault(w) \/ Reconcile(w)
      PROVE  IInv'
  BY <1>1, WorkerSteps
<1>2. CASE Crash \/ Restart \/ LoadInstalled \/ Reconcile(Boot)
  BY <1>2, StartupSteps
<1>3. CASE UNCHANGED vars
  BY <1>3
  DEF vars, mem, fs, db, IInv, TypeOK, StoreTypeOK, MemTypeOK, Registry,
      OneCurrentRevision, Current, JournalIntact, JournalRevisionsValid,
      Exclusion, At, Ownership, Own
<1> QED BY <1>1, <1>2, <1>3 DEF Next, Actors

\* The inductive invariant holds in every reachable state.
LEMMA Invariant == Spec => []IInv
PROOF
  BY InitIInv, NextIInv, PTL DEF Spec

\* Every variable keeps its type in every reachable state.
THEOREM TypeCorrect == Spec => []TypeOK
PROOF
  BY Invariant, PTL DEF IInv

\* There is never a second current revision, and an installed agent is never
\* without one.
THEOREM OneCurrent == Spec => []OneCurrentRevision
PROOF
  BY Invariant, PTL DEF IInv, Registry

\* Whatever runs after a switch was abandoned, its journal keeps naming the
\* current revision and a staged one.
THEOREM JournalStaysIntact == Spec => []JournalIntact
PROOF
  BY Invariant, PTL DEF IInv, Registry

-----------------------------------------------------------------------------
(* Where packages lie                                                       *)

\* Steps at which the staging directory of op[a].new holds that package.
PreparedSteps == {"u_journal", "u_unmap", "u_retain", "u_old_retained",
                  "u_activate", "i_activate"}

\* Where packages lie, whoever is at work.
Packages ==
  /\ \A r \in Revs : retained[r] \in {NoRev, r}
  /\ InstalledPackageKept
  /\ journal # NoJournal => row

\* What an actor knows about the directories because it has the lease.
Holds(a) ==
  /\ op[a].pc \in UpdateSteps \ {"u_wait"} => row
  /\ op[a].pc \in UninstallSteps \ {"x_wait"} =>
       row /\ revState[op[a].old] = "current"
  /\ op[a].pc \in PreparedSteps => staging[op[a].new] = op[a].new
  /\ op[a].pc \in {"u_old_retained", "u_activate", "x_commit"} =>
       retained[op[a].old] = op[a].old
  /\ op[a].pc \in {"u_new_active", "u_commit"} =>
       active = op[a].new /\ retained[op[a].old] = op[a].old
  /\ op[a].pc \in {"i_commit", "i_undo"} => active = op[a].new
  /\ op[a].pc \in {"r_stage", "r_new_staged", "r_restore"} =>
       retained[journal.old] # NoRev

Placement == Packages /\ \A a \in Actors : Holds(a)

\* The places of the store that Placement speaks of.
places == <<fs, row, revState, journal>>

\* The steps of a worker besides reconciliation: those that move a package,
\* those that write its rows, and those that leave the places alone.
Moves(w) ==
  \/ Prepare(w, "u_prepare", "u_journal")
  \/ Prepare(w, "i_prepare", "i_activate")
  \/ RetainOld(w) \/ ActivateNew(w) \/ ActivateInstall(w)
  \/ UndoInstall(w) \/ MoveToTombstone(w) \/ UndoUninstall(w)
  \/ RemoveExpiredPackage(w)

Writes(w) ==
  \/ Stage(w, "u_stage", "u_prepare") \/ Stage(w, "i_stage", "i_prepare")
  \/ PrepareFails(w) \/ WriteJournal(w) \/ RecordOldRetained(w)
  \/ RecordNewActive(w) \/ CommitUpdate(w) \/ FinishInstall(w)
  \/ MarkInstallFailed(w) \/ FinishUninstall(w)
  \/ DeleteExpiredRevision(w)

Quiet(w) ==
  \/ Request(w) \/ ActivationFails(w) \/ TombstoneFails(w) \/ Drop(w)
  \/ StartUpdate(w) \/ RefuseUpdate(w) \/ ArchiveRefused(w)
  \/ RefuseActivation(w) \/ Unmap(w, "u_unmap", "u_retain")
  \/ PublishDefinition(w) \/ StartInstall(w) \/ RefuseInstall(w)
  \/ InstallFails(w) \/ RefuseSetup(w) \/ PublishSetup(w)
  \/ StartUninstall(w) \/ RefuseUninstall(w)
  \/ Unmap(w, "x_unmap", "x_retain") \/ UninstallFails(w)
  \/ StartCleanup(w) \/ RefuseCleanup(w)
  \/ SaveSetupState(w) \/ RecordSetup(w)

\* Every step of a worker is of one of these kinds.
LEMMA StepKinds ==
  ASSUME NEW w \in Workers, Request(w) \/ Continue(w) \/ Fault(w)
  PROVE  Moves(w) \/ Writes(w) \/ Quiet(w)
PROOF
  BY DEF Moves, Writes, Quiet, Continue, Fault

\* Steps at which an actor knows nothing about the directories.
UnplacedSteps == {"idle", "b_load", "u_wait", "i_wait", "x_wait", "k_wait",
                  "t_setup", "t_map", "c_setup", "c_map", "i_stage", "i_prepare",
                  "i_mark", "k_remove", "k_delete", "r_plan", "r_mark", "r_final"}

\* At such a step there is nothing to show of the placement.
LEMMA UnplacedHolds == ASSUME NEW a \in Actors, op[a].pc \in UnplacedSteps PROVE Holds(a)
PROOF
  BY DEF Holds, UnplacedSteps, UpdateSteps, UninstallSteps, PreparedSteps

\* The same of the next state.
LEMMA UnplacedHoldsNext == ASSUME NEW a \in Actors, op'[a].pc \in UnplacedSteps PROVE Holds(a)'
PROOF
  BY DEF Holds, UnplacedSteps, UpdateSteps, UninstallSteps, PreparedSteps

\* The package of the current revision of an installed agent has two places to be.
LEMMA CurrentPlaced ==
  ASSUME IInv, Packages, row, NEW r \in Revs, revState[r] = "current"
  PROVE  active = r \/ retained[r] = r
PROOF
  BY DEF Packages, InstalledPackageKept, IInv, Registry, OneCurrentRevision, Current

\* Packages speaks of the places alone.
LEMMA PlacesKept ==
  ASSUME Packages, UNCHANGED places PROVE Packages'
PROOF
  BY DEF Packages, InstalledPackageKept, Current, places, fs

\* A worker that moves packages only under the lease disturbs nobody.
LEMMA PlacementFrame ==
  ASSUME IInv, Placement, NEW w \in Workers, Contract(w),
         UNCHANGED places \/ lease = w, Packages', Holds(w)'
  PROVE  Placement'
PROOF
<1> USE ActorAssumption DEF Actors
<1>1. process = "up"
  BY DEF Contract, IInv, Exclusion
<1>2. ASSUME NEW b \in Actors, b # w PROVE Holds(b)'
  <2>1. op'[b] = op[b] /\ Holds(b) /\ Own(b)
    BY <1>2 DEF Contract, Placement, IInv, Ownership, TypeOK, MemTypeOK
  <2>2. CASE op[b].pc \in LeasedSteps
    <3>1. b # Boot
      BY <1>1, <2>2 DEF IInv, Exclusion, At, LeasedSteps, UpdateSteps, RollbackSteps,
         InstallSteps, UninstallSteps, RemovalSteps
    <3>2. lease = b
      BY <2>1, <2>2, <3>1 DEF Own
    <3>3. UNCHANGED places
      BY <1>2, <3>2
    <3> QED BY <2>1, <3>3 DEF Holds, places, fs
  <2>3. CASE op[b].pc \notin LeasedSteps
    BY <2>1, <2>3
    DEF Holds, LeasedSteps, UpdateSteps, RollbackSteps, InstallSteps,
        UninstallSteps, RemovalSteps, PreparedSteps
  <2> QED BY <2>2, <2>3
<1> QED BY <1>2 DEF Placement

\* Reconciliation, whoever runs it, puts packages back where they belong.
LEMMA ReconcilePlaces ==
  ASSUME IInv, IInv', Placement, NEW a \in Actors, Reconcile(a)
  PROVE  Packages' /\ Holds(a)'
PROOF
<1> USE NoRevAssumption, ActorAssumption DEF At
<1>1. /\ op[a] \in Operations /\ Own(a) /\ Holds(a) /\ Packages
      /\ StoreTypeOK /\ StoreTypeOK' /\ Registry /\ Registry'
  BY DEF IInv, TypeOK, MemTypeOK, Ownership, Placement
<1>2. ASSUME op[a].pc \in RollbackSteps
      PROVE  /\ journal \in Journals /\ row
             /\ journal.old \in Revs /\ journal.new \in Revs
             /\ revState[journal.old] = "current" /\ revState[journal.new] = "staged"
             /\ \A r \in Revs : revState[r] = "current" => r = journal.old
             /\ active = journal.old \/ retained[journal.old] = journal.old
             /\ retained[journal.old] \in {NoRev, journal.old}
  <2>1. journal # NoJournal
    BY <1>1, <1>2 DEF Own
  <2>2. journal \in Journals /\ journal.old \in Revs /\ journal.new \in Revs
    BY <2>1, <1>1 DEF StoreTypeOK, Journals
  <2>3. revState[journal.old] = "current" /\ revState[journal.new] = "staged" /\ row
    BY <2>1, <1>1 DEF Registry, JournalIntact, JournalRevisionsValid, Packages
  <2>4. \A r \in Revs : revState[r] = "current" => r = journal.old
    BY <2>2, <2>3, <1>1 DEF Registry, OneCurrentRevision, Current
  <2> QED BY <2>2, <2>3, <2>4, <1>1, CurrentPlaced DEF Packages
<1>3. CASE PlanReconciliation(a)
  <2>1. UNCHANGED places
    BY <1>3 DEF PlanReconciliation, places, db
  <2>2. op[a].pc = "r_plan" /\ op[a].pc \in RollbackSteps
    BY <1>3 DEF PlanReconciliation, RollbackSteps
  <2>3. CASE PlanOf(journal) = "keep_prior_active" /\ Goto(a, "r_mark")
    <3>1. op'[a].pc = "r_mark"
      BY <2>3, StepFields DEF Goto
    <3>2. Holds(a)'
      BY <3>1, UnplacedHoldsNext DEF UnplacedSteps
    <3> QED BY <3>2, <2>1, <1>1, PlacesKept
  <2>4. CASE \/ PlanOf(journal) = "restore_retained" /\ Goto(a, "r_restore")
             \/ PlanOf(journal) = "stage_new_then_restore" /\ Goto(a, "r_stage")
    <3>1. retained[journal.old] # NoRev
      BY <2>4 DEF PlanOf, ReconciliationPlan, FsState, Clean
    <3>2. op'[a].pc \in {"r_restore", "r_stage"}
      BY <2>4, StepFields DEF Goto
    <3>3. Holds(a)'
      BY <2>1, <3>1, <3>2 DEF Holds, UpdateSteps, UninstallSteps, PreparedSteps, places, fs
    <3> QED BY <3>3, <2>1, <1>1, PlacesKept
  <2> QED BY <1>3, <2>3, <2>4 DEF PlanReconciliation
<1>4. CASE StageNew(a)
  <2>1. /\ op[a].pc = "r_stage" /\ op' = [op EXCEPT ![a].pc = "r_new_staged"]
        /\ active' = NoRev /\ retained' = retained /\ UNCHANGED <<row, revState, journal>>
    BY <1>4 DEF StageNew, ActiveToStaging, FsStep, Goto, db
  <2>2. retained[journal.old] # NoRev /\ op[a].pc \in RollbackSteps
    BY <2>1, <1>1 DEF Holds, RollbackSteps
  <2>3. Packages'
    BY <2>1, <2>2, <1>1, <1>2 DEF Packages, InstalledPackageKept, Current
  <2>4. Holds(a)'
    BY <2>1, <2>2, StepFields DEF Holds, UpdateSteps, UninstallSteps, PreparedSteps
  <2> QED BY <2>3, <2>4
<1>5. CASE RestoreOld(a)
  <2>1. /\ op[a].pc = "r_restore" /\ op' = [op EXCEPT ![a].pc = "r_mark"]
        /\ active' = retained[journal.old]
        /\ retained' = [retained EXCEPT ![journal.old] = NoRev]
        /\ retained[journal.old] # NoRev
        /\ UNCHANGED <<row, revState, journal>>
    BY <1>5 DEF RestoreOld, RetainedToActive, FsStep, Goto, db
  <2>2. op[a].pc \in RollbackSteps
    BY <2>1 DEF RollbackSteps
  <2>3. Packages'
    BY <2>1, <2>2, <1>1, <1>2 DEF Packages, InstalledPackageKept, Current, StoreTypeOK
  <2>4. op'[a].pc = "r_mark"
    BY <2>1, StepFields
  <2> QED BY <2>3, <2>4, UnplacedHoldsNext DEF UnplacedSteps
<1>6. CASE RecordNewStaged(a) \/ RecordOldActive(a)
  <2>1. PICK p \in Phases : /\ journal # NoJournal
                            /\ journal' = [journal EXCEPT !.phase = p]
                            /\ UNCHANGED <<fs, row, revState>>
    BY <1>6 DEF RecordNewStaged, RecordOldActive, DbStep, RecordPhase, Phases
  <2>2. \/ op[a].pc = "r_new_staged" /\ op' = [op EXCEPT ![a].pc = "r_restore"]
        \/ op[a].pc = "r_mark" /\ op' = [op EXCEPT ![a].pc = "r_final"]
    BY <1>6 DEF RecordNewStaged, RecordOldActive, DbStep, Goto
  <2>3. journal'.old = journal.old
    BY <2>1, <2>2, <1>2 DEF RollbackSteps, Journals
  <2>4. row
    BY <2>2, <1>2 DEF RollbackSteps
  <2>5. Packages'
    BY <2>1, <2>4, <1>1 DEF Packages, InstalledPackageKept, Current, fs
  <2>6. Holds(a)'
    BY <2>1, <2>2, <2>3, <1>1, StepFields DEF Holds, fs, UpdateSteps, UninstallSteps, PreparedSteps
  <2> QED BY <2>5, <2>6
<1>7. CASE FinishRollback(a)
  <2>1. /\ revState' = [revState EXCEPT ![journal.new] = "failed"]
        /\ journal' = NoJournal /\ UNCHANGED <<fs, row>> /\ op[a].pc = "r_final"
    BY <1>7 DEF FinishRollback, CommitRollback
  <2>2. op[a].pc \in RollbackSteps
    BY <2>1 DEF RollbackSteps
  <2>3. Packages'
    BY <2>1, <2>2, <1>1, <1>2 DEF Packages, InstalledPackageKept, Current, fs, StoreTypeOK
  <2>4. op'[a].pc \in {"b_load", "idle"}
    BY <1>7, StepFields DEF FinishRollback, ReturnReleasing, Goto, Idle, IInv, TypeOK, MemTypeOK
  <2> QED BY <2>3, <2>4, UnplacedHoldsNext DEF UnplacedSteps
<1>8. CASE ReconciliationRefused(a)
  <2>1. UNCHANGED places /\ op'[a].pc = "idle"
    BY <1>8, <1>1 DEF ReconciliationRefused, places, db, Idle, IInv, TypeOK, MemTypeOK
  <2> QED BY <2>1, <1>1, PlacesKept, UnplacedHoldsNext DEF UnplacedSteps
<1> QED BY <1>3, <1>4, <1>5, <1>6, <1>7, <1>8 DEF Reconcile

\* A rename or a removal takes the current revision's package from one of its
\* two places only to put it at the other.
LEMMA MovePlaces ==
  ASSUME IInv, IInv', Placement, NEW w \in Workers,
         Moves(w)
  PROVE  Packages' /\ Holds(w)' /\ lease = w
PROOF
<1> USE NoRevAssumption, ActorAssumption DEF At, Moves
<1>1. /\ op[w] \in Operations /\ Own(w) /\ Holds(w) /\ Packages
      /\ StoreTypeOK /\ StoreTypeOK' /\ Registry
      /\ w # Boot /\ w \in Actors
  BY DEF IInv, TypeOK, MemTypeOK, Ownership, Placement, Actors
<1>2. UNCHANGED <<row, revState, journal>>
  BY DEF Prepare, RetainOld, ActivateNew, ActivateInstall, UndoInstall,
     MoveToTombstone, UndoUninstall, RemoveExpiredPackage, FsStep, db
<1>3. lease = w
  BY <1>1
  DEF Prepare, RetainOld, ActivateNew, ActivateInstall, UndoInstall,
      MoveToTombstone, UndoUninstall, RemoveExpiredPackage, Own, LeasedSteps,
      UpdateSteps, InstallSteps, UninstallSteps, RemovalSteps
<1>4. ASSUME \A r \in Revs : retained'[r] \in {NoRev, r},
             row => \E r \in Current : active' = r \/ retained'[r] = r
      PROVE  Packages'
  BY <1>1, <1>2, <1>4 DEF Packages, InstalledPackageKept, Current
<1>5. CASE Prepare(w, "u_prepare", "u_journal") \/ Prepare(w, "i_prepare", "i_activate")
  <2>1. PICK step \in {"u_journal", "i_activate"} :
          /\ op' = [op EXCEPT ![w].pc = step]
          /\ step = "u_journal" => op[w].pc = "u_prepare"
          /\ op[w].pc \in {"u_prepare", "i_prepare"}
          /\ staging' = [staging EXCEPT ![op[w].new] = op[w].new]
          /\ UNCHANGED <<active, retained>>
    BY <1>5 DEF Prepare, FsStep, Goto
  <2>2. Packages'
    BY <2>1, <1>1, <1>4 DEF Packages, InstalledPackageKept
  <2>3. op[w].new \in Revs /\ (step = "u_journal" => row)
    BY <2>1, <1>1 DEF Own, StagedSteps, Holds, UpdateSteps
  <2>4. op'[w].pc = step /\ op'[w].new = op[w].new
    BY <2>1, <1>1, StepFields
  <2>5. staging'[op[w].new] = op[w].new
    BY <2>1, <2>3, <1>1 DEF StoreTypeOK
  <2>6. Holds(w)'
    BY <2>1, <2>3, <2>4, <2>5, <1>2 DEF Holds, UpdateSteps, UninstallSteps, PreparedSteps
  <2> QED BY <2>2, <2>6, <1>3
<1>6. CASE RetainOld(w)
  <2>1. /\ op[w].pc = "u_retain" /\ op' = [op EXCEPT ![w].pc = "u_old_retained"]
        /\ active # NoRev /\ retained[op[w].old] = NoRev
        /\ active' = NoRev /\ staging' = staging
        /\ retained' = [retained EXCEPT ![op[w].old] = active]
    BY <1>6 DEF RetainOld, FsStep, Goto, ActiveToRetained
  <2>2. /\ op[w].old \in Revs /\ revState[op[w].old] = "current" /\ row
        /\ staging[op[w].new] = op[w].new
    BY <2>1, <1>1 DEF Own, Holds, UpdateSteps, PreparedSteps
  <2>3. active = op[w].old
    BY <2>1, <2>2, <1>1, CurrentPlaced
  <2>4. retained'[op[w].old] = op[w].old
    BY <2>1, <2>2, <2>3, <1>1 DEF StoreTypeOK
  <2>5. Packages'
    BY <2>1, <2>2, <2>3, <2>4, <1>1, <1>4 DEF Packages, Current, StoreTypeOK
  <2>6. op'[w].pc = "u_old_retained" /\ op'[w].new = op[w].new /\ op'[w].old = op[w].old
    BY <2>1, <1>1, StepFields
  <2>7. Holds(w)'
    BY <2>1, <2>2, <2>4, <2>6, <1>2 DEF Holds, UpdateSteps, UninstallSteps, PreparedSteps
  <2> QED BY <2>5, <2>7, <1>3
<1>7. CASE ActivateNew(w)
  <2>1. /\ op[w].pc = "u_activate" /\ op' = [op EXCEPT ![w].pc = "u_new_active"]
        /\ active' = staging[op[w].new] /\ retained' = retained
    BY <1>7 DEF ActivateNew, FsStep, Goto, StagingToActive
  <2>2. /\ op[w].old \in Revs /\ revState[op[w].old] = "current" /\ row
        /\ staging[op[w].new] = op[w].new /\ retained[op[w].old] = op[w].old
    BY <2>1, <1>1 DEF Own, Holds, UpdateSteps, PreparedSteps
  <2>3. Packages'
    BY <2>1, <2>2, <1>1, <1>4 DEF Packages, Current
  <2>4. op'[w].pc = "u_new_active" /\ op'[w].new = op[w].new /\ op'[w].old = op[w].old
    BY <2>1, <1>1, StepFields
  <2>5. Holds(w)'
    BY <2>1, <2>2, <2>4, <1>2 DEF Holds, UpdateSteps, UninstallSteps, PreparedSteps
  <2> QED BY <2>3, <2>5, <1>3
<1>8. CASE ActivateInstall(w)
  <2>1. /\ op[w].pc = "i_activate" /\ op' = [op EXCEPT ![w].pc = "i_commit"]
        /\ active = NoRev /\ active' = staging[op[w].new] /\ retained' = retained
    BY <1>8 DEF ActivateInstall, FsStep, Goto, StagingToActive
  <2>2. staging[op[w].new] = op[w].new
    BY <2>1, <1>1 DEF Holds, PreparedSteps
  <2>3. Packages'
    BY <2>1, <1>1, <1>4 DEF Packages, InstalledPackageKept, Current
  <2>4. op'[w].pc = "i_commit" /\ op'[w].new = op[w].new
    BY <2>1, <1>1, StepFields
  <2>5. Holds(w)'
    BY <2>1, <2>2, <2>4, <1>2 DEF Holds, UpdateSteps, UninstallSteps, PreparedSteps
  <2> QED BY <2>3, <2>5, <1>3
<1>9. CASE UndoInstall(w)
  <2>1. /\ op[w].pc = "i_undo" /\ op' = [op EXCEPT ![w].pc = "i_mark"]
        /\ retained' = retained /\ (active' = active \/ active' = NoRev)
    BY <1>9 DEF UndoInstall, Goto, ActiveToStaging, fs
  <2>2. active = op[w].new /\ revState[op[w].new] = "staged"
    BY <2>1, <1>1 DEF Own, Holds, StagedSteps
  <2>3. Packages'
    BY <2>1, <2>2, <1>1, <1>4 DEF Packages, InstalledPackageKept, Current
  <2>4. op'[w].pc = "i_mark"
    BY <2>1, <1>1, StepFields
  <2> QED BY <2>3, <2>4, <1>3, UnplacedHoldsNext DEF UnplacedSteps, Actors
<1>10. CASE MoveToTombstone(w)
  <2>1. /\ op[w].pc = "x_retain" /\ op' = [op EXCEPT ![w].pc = "x_commit"]
        /\ \/ active # NoRev /\ ActiveToRetained(op[w].old)
           \/ active = NoRev /\ UNCHANGED <<active, retained>>
    BY <1>10 DEF MoveToTombstone, FsStep, Goto, fs
  <2>2. op[w].old \in Revs /\ revState[op[w].old] = "current" /\ row
    BY <2>1, <1>1 DEF Own, Holds, UninstallSteps
  <2>3. active = op[w].old \/ retained[op[w].old] = op[w].old
    BY <2>2, <1>1, CurrentPlaced
  <2>4. retained'[op[w].old] = op[w].old
    BY <2>1, <2>2, <2>3, <1>1 DEF ActiveToRetained, StoreTypeOK
  <2>5. \A r \in Revs : retained'[r] \in {NoRev, r}
    BY <2>1, <2>2, <2>3, <1>1 DEF ActiveToRetained, Packages, StoreTypeOK
  <2>6. Packages'
    BY <2>2, <2>4, <2>5, <1>4 DEF Current
  <2>7. op'[w].pc = "x_commit" /\ op'[w].old = op[w].old
    BY <2>1, <1>1, StepFields
  <2>8. Holds(w)'
    BY <2>2, <2>4, <2>7, <1>2 DEF Holds, UpdateSteps, UninstallSteps, PreparedSteps
  <2> QED BY <2>6, <2>8, <1>3
<1>11. CASE UndoUninstall(w)
  <2>1. /\ op[w].pc = "x_undo" /\ op'[w].pc = "idle"
        /\ \/ retained[op[w].old] # NoRev /\ RetainedToActive(op[w].old)
           \/ UNCHANGED <<active, retained>>
    BY <1>11, <1>1 DEF UndoUninstall, ReturnReleasing, Idle, fs, IInv, TypeOK, MemTypeOK
  <2>2. op[w].old \in Revs /\ revState[op[w].old] = "current" /\ row
    BY <2>1, <1>1 DEF Own, Holds, UninstallSteps
  <2>3. ASSUME UNCHANGED <<active, retained>> PROVE Packages'
    BY <2>3, <1>1, <1>2 DEF Packages, InstalledPackageKept, Current
  <2>4. ASSUME retained[op[w].old] # NoRev, RetainedToActive(op[w].old)
        PROVE  Packages'
    <3>1. /\ active' = op[w].old
          /\ retained' = [retained EXCEPT ![op[w].old] = NoRev]
      BY <2>2, <2>4, <1>1 DEF Packages, RetainedToActive
    <3>2. \A r \in Revs : retained'[r] \in {NoRev, r}
      BY <2>2, <3>1, <1>1 DEF Packages, StoreTypeOK
    <3>3. op[w].old \in Current /\ active' = op[w].old
      BY <2>2, <3>1 DEF Current
    <3> QED BY <3>2, <3>3, <1>4
  <2>5. Holds(w)'
    BY <2>1, <1>1, UnplacedHoldsNext DEF UnplacedSteps
  <2> QED BY <2>1, <2>3, <2>4, <2>5, <1>3
<1>12. CASE RemoveExpiredPackage(w)
  <2>1. /\ op[w].pc = "k_remove" /\ op' = [op EXCEPT ![w].pc = "k_delete"]
        /\ active' = active
        /\ retained' = retained \/ retained' = [retained EXCEPT ![op[w].new] = NoRev]
    BY <1>12 DEF RemoveExpiredPackage, RemoveRecordedPackage, FsStep, Goto
  <2>2. op[w].new \in Revs /\ revState[op[w].new] # "current"
    BY <2>1, <1>1 DEF Own, RemovalSteps
  <2>3. Packages'
    BY <2>1, <2>2, <1>1, <1>4 DEF Packages, InstalledPackageKept, Current, StoreTypeOK
  <2>4. op'[w].pc = "k_delete"
    BY <2>1, <1>1, StepFields
  <2> QED BY <2>3, <2>4, <1>1, <1>3, UnplacedHoldsNext DEF UnplacedSteps
<1> QED BY <1>5, <1>6, <1>7, <1>8, <1>9, <1>10, <1>11, <1>12

\* Registering, failing or deleting a revision that is not current moves no
\* package, and a journal is only written for an installed agent.
LEMMA SameCurrent ==
  ASSUME Packages, UNCHANGED fs, row' = row,
         \A r \in Revs : revState'[r] = "current" <=> revState[r] = "current",
         journal' = NoJournal \/ row
  PROVE  Packages'
PROOF
  BY DEF Packages, InstalledPackageKept, Current, fs

\* Neither do the commits: the revision they make current lies where they say.
LEMMA WritePlaces ==
  ASSUME IInv, IInv', Placement, NEW w \in Workers,
         Writes(w)
  PROVE  Packages' /\ Holds(w)' /\ lease = w
PROOF
<1> USE NoRevAssumption, ActorAssumption DEF At, Writes
<1>1. /\ op[w] \in Operations /\ Own(w) /\ Holds(w) /\ Packages
      /\ StoreTypeOK /\ StoreTypeOK' /\ Registry /\ MemTypeOK
      /\ w # Boot /\ w \in Actors
  BY DEF IInv, TypeOK, MemTypeOK, Ownership, Placement, Actors
<1>2. UNCHANGED fs
  BY DEF Stage, PrepareFails, WriteJournal, RecordOldRetained, RecordNewActive,
     CommitUpdate, FinishInstall, MarkInstallFailed, FinishUninstall,
     DeleteExpiredRevision, DbStep
<1>3. lease = w
  BY <1>1
  DEF Stage, PrepareFails, WriteJournal, RecordOldRetained, RecordNewActive,
      CommitUpdate, FinishInstall, MarkInstallFailed, FinishUninstall,
      DeleteExpiredRevision, Own, LeasedSteps, UpdateSteps, InstallSteps,
      UninstallSteps, RemovalSteps
<1>4. CASE Stage(w, "u_stage", "u_prepare") \/ Stage(w, "i_stage", "i_prepare")
  <2>1. PICK n \in Unused, step \in {"u_prepare", "i_prepare"} :
          /\ CreateStagedRevision(n)
          /\ op' = [op EXCEPT ![w] = [@ EXCEPT !.pc = step, !.new = n]]
          /\ step = "u_prepare" => op[w].pc = "u_stage"
    BY <1>4 DEF Stage
  <2>2. Packages'
    BY <2>1, <1>1, <1>2, SameCurrent
    DEF CreateStagedRevision, Unused, StoreTypeOK, Packages
  <2>3. op'[w].pc = step
    BY <2>1, <1>1 DEF MemTypeOK, Operations
  <2>4. (step = "u_prepare" => row) /\ row' = row
    BY <2>1, <1>1 DEF Holds, UpdateSteps, CreateStagedRevision
  <2>5. Holds(w)'
    BY <2>3, <2>4 DEF Holds, UpdateSteps, UninstallSteps, PreparedSteps
  <2> QED BY <2>2, <2>5, <1>3
<1>5. CASE PrepareFails(w) \/ MarkInstallFailed(w)
  <2>1. /\ MarkRevisionFailed(op[w].new) /\ op' = [op EXCEPT ![w] = Idle]
        /\ op[w].pc \in StagedSteps
    BY <1>5 DEF PrepareFails, MarkInstallFailed, ReturnReleasing, StagedSteps
  <2>2. Packages'
    BY <2>1, <1>1, <1>2, SameCurrent
    DEF MarkRevisionFailed, Own, StoreTypeOK, Packages
  <2>3. op'[w].pc = "idle"
    BY <2>1, <1>1 DEF MemTypeOK, Idle
  <2> QED BY <2>2, <2>3, <1>1, <1>3, UnplacedHoldsNext DEF UnplacedSteps
<1>6. CASE WriteJournal(w)
  <2>1. /\ op[w].pc = "u_journal" /\ op' = [op EXCEPT ![w].pc = "u_unmap"]
        /\ UNCHANGED <<row, revState>>
    BY <1>6 DEF WriteJournal, DbStep, Goto, PersistJournal
  <2>2. row /\ staging[op[w].new] = op[w].new
    BY <2>1, <1>1 DEF Holds, UpdateSteps, PreparedSteps
  <2>3. op'[w].pc = "u_unmap" /\ op'[w].new = op[w].new
    BY <2>1, <1>1, StepFields
  <2>4. Packages'
    BY <2>1, <2>2, <1>1, <1>2, SameCurrent
  <2>5. Holds(w)'
    BY <2>1, <2>2, <2>3, <1>2 DEF Holds, fs, UpdateSteps, UninstallSteps, PreparedSteps
  <2> QED BY <2>4, <2>5, <1>3
<1>7. CASE RecordOldRetained(w) \/ RecordNewActive(w)
  <2>1. /\ \/ op[w].pc = "u_old_retained" /\ op' = [op EXCEPT ![w].pc = "u_activate"]
           \/ op[w].pc = "u_new_active" /\ op' = [op EXCEPT ![w].pc = "u_commit"]
        /\ UNCHANGED <<row, revState>>
    BY <1>7 DEF RecordOldRetained, RecordNewActive, DbStep, Goto, RecordPhase
  <2>2. row
    BY <2>1, <1>1 DEF Holds, UpdateSteps
  <2>3. Packages'
    BY <2>1, <2>2, <1>1, <1>2, SameCurrent
  <2>4. \/ op[w].pc = "u_old_retained" /\ op'[w].pc = "u_activate"
        \/ op[w].pc = "u_new_active" /\ op'[w].pc = "u_commit"
    BY <2>1, <1>1, StepFields
  <2>5. op'[w].new = op[w].new /\ op'[w].old = op[w].old
    BY <2>1, <1>1, StepFields
  <2>6. Holds(w)'
    BY <2>1, <2>2, <2>4, <2>5, <1>1, <1>2
    DEF Holds, fs, UpdateSteps, UninstallSteps, PreparedSteps
  <2> QED BY <2>3, <2>6, <1>3
<1>8. CASE CommitUpdate(w)
  <2>1. /\ op[w].pc = "u_commit" /\ op' = [op EXCEPT ![w].pc = "t_setup"]
        /\ CommitSwitch(op[w].old, op[w].new)
    BY <1>8 DEF CommitUpdate, Goto
  <2>2. op[w].new \in Revs /\ active = op[w].new /\ op[w].old # op[w].new
    BY <2>1, <1>1 DEF Own, Holds, JournaledSteps, CommitSwitch
  <2>3. op[w].new \in Current' /\ active' = op[w].new
    BY <2>1, <2>2, <1>2 DEF CommitSwitch, Current, fs
  <2>4. Packages'
    BY <2>1, <2>3, <1>1, <1>2
    DEF CommitSwitch, Packages, InstalledPackageKept, fs
  <2>5. op'[w].pc = "t_setup"
    BY <2>1, <1>1, StepFields
  <2> QED BY <2>4, <2>5, <1>1, <1>3, UnplacedHoldsNext DEF UnplacedSteps
<1>9. CASE FinishInstall(w)
  <2>1. /\ op[w].pc = "i_commit" /\ op' = [op EXCEPT ![w].pc = "t_setup"]
        /\ CommitInstall(op[w].new)
    BY <1>9 DEF FinishInstall, Goto
  <2>2. op[w].new \in Revs /\ active = op[w].new
    BY <2>1, <1>1 DEF Own, Holds, StagedSteps
  <2>3. op[w].new \in Current' /\ active' = op[w].new
    BY <2>1, <2>2, <1>1, <1>2 DEF CommitInstall, Current, fs, StoreTypeOK
  <2>4. Packages'
    BY <2>1, <2>3, <1>1, <1>2
    DEF CommitInstall, Packages, InstalledPackageKept, fs
  <2>5. op'[w].pc = "t_setup"
    BY <2>1, <1>1, StepFields
  <2> QED BY <2>4, <2>5, <1>1, <1>3, UnplacedHoldsNext DEF UnplacedSteps
<1>10. CASE FinishUninstall(w)
  <2>1. CommitUninstall(op[w].old) /\ op'[w].pc = "idle"
    BY <1>10, <1>1 DEF FinishUninstall, ReturnReleasing, MemTypeOK, Idle
  <2>2. Packages'
    BY <2>1, <1>1, <1>2
    DEF CommitUninstall, UninstallCommittable, Packages, InstalledPackageKept, fs
  <2> QED BY <2>1, <2>2, <1>1, <1>3, UnplacedHoldsNext DEF UnplacedSteps
<1>11. CASE DeleteExpiredRevision(w)
  <2>1. /\ op[w].pc = "k_delete" /\ op'[w].pc = "idle"
        /\ UNCHANGED <<row, journal>>
        /\ \/ revState' = revState
           \/ revState' = [revState EXCEPT ![op[w].new] = "deleted"]
    BY <1>11, <1>1
    DEF DeleteExpiredRevision, DeleteRevision, ReturnReleasing, MemTypeOK,
        Idle, db
  <2>2. op[w].new \in Revs /\ revState[op[w].new] # "current"
    BY <2>1, <1>1 DEF Own, RemovalSteps
  <2>3. Packages'
    BY <2>1, <2>2, <1>1, <1>2, SameCurrent DEF StoreTypeOK, Packages
  <2> QED BY <2>1, <2>3, <1>1, <1>3, UnplacedHoldsNext DEF UnplacedSteps
<1> QED BY <1>4, <1>5, <1>6, <1>7, <1>8, <1>9, <1>10, <1>11

\* Steps at which an operation has neither moved nor written anything yet, or
\* does no more.
ReadySteps == {"idle", "u_wait", "i_wait", "x_wait", "k_wait", "t_map",
               "c_setup", "c_map", "i_stage", "k_remove", "r_plan"}

\* Where the steps that leave the places alone lead to.
LEMMA QuietSteps ==
  ASSUME IInv, NEW w \in Workers, Quiet(w)
  PROVE  \/ op'[w].pc \in ReadySteps
         \/ StartUpdate(w) \/ StartUninstall(w)
         \/ Unmap(w, "u_unmap", "u_retain") \/ Unmap(w, "x_unmap", "x_retain")
         \/ InstallFails(w) \/ UninstallFails(w)
PROOF
<1> USE NoRevAssumption, ActorAssumption DEF At
<1>1. op[w] \in Operations /\ MemTypeOK /\ w \in Actors
  BY DEF IInv, TypeOK, MemTypeOK, Actors
<1>2. CASE \/ BeginUpdate(w) \/ BeginInstall(w) \/ BeginSetup(w)
           \/ BeginUninstall(w) \/ BeginCleanup(w)
           \/ ActivationFails(w) \/ StartInstall(w) \/ StartCleanup(w)
           \/ SaveSetupState(w) \/ RecordSetup(w)
  <2>1. CASE \/ BeginUpdate(w) \/ BeginInstall(w) \/ BeginUninstall(w)
             \/ BeginCleanup(w) \/ ActivationFails(w) \/ StartInstall(w)
             \/ RecordSetup(w)
    <3>1. \E step \in ReadySteps : op' = [op EXCEPT ![w].pc = step]
      BY <2>1
      DEF BeginUpdate, BeginInstall, BeginUninstall, BeginCleanup, Begin,
          ActivationFails, StartInstall, RecordSetup, DbStep, Goto,
          ReadySteps
    <3> QED BY <3>1, <1>1, StepFields
  <2>2. CASE BeginSetup(w) \/ StartCleanup(w) \/ SaveSetupState(w)
    <3>1. op'[w].pc \in {"c_setup", "k_remove", "t_map"}
      <4>1. CASE BeginSetup(w)
        BY <4>1, <1>1 DEF BeginSetup, MemTypeOK, Operations
      <4>2. CASE StartCleanup(w)
        <5>1. PICK r \in Revs : op' = [op EXCEPT ![w] = [@ EXCEPT !.pc = "k_remove", !.new = r]]
          BY <4>2 DEF StartCleanup
        <5> QED BY <5>1, <1>1 DEF MemTypeOK, Operations
      <4>3. CASE SaveSetupState(w)
        <5>1. PICK complete \in BOOLEAN :
                op' = [op EXCEPT ![w] = [@ EXCEPT !.pc = "t_map",
                         !.def = IF complete THEN op[w].new ELSE NoRev]]
          BY <4>3 DEF SaveSetupState
        <5> QED BY <5>1, <1>1 DEF MemTypeOK, Operations
      <4> QED BY <2>2, <4>1, <4>2, <4>3
    <3> QED BY <3>1 DEF ReadySteps
  <2> QED BY <1>2, <2>1, <2>2
<1>3. CASE \/ TombstoneFails(w) \/ Drop(w) \/ RefuseUpdate(w)
           \/ ArchiveRefused(w) \/ RefuseActivation(w)
           \/ PublishDefinition(w) \/ RefuseInstall(w) \/ RefuseSetup(w)
           \/ PublishSetup(w) \/ RefuseUninstall(w) \/ RefuseCleanup(w)
  <2>1. op'[w].pc = "idle"
    BY <1>3, <1>1
    DEF TombstoneFails, Drop, RefuseUpdate, ArchiveRefused, RefuseActivation,
        PublishDefinition, RefuseInstall, RefuseSetup, PublishSetup,
        RefuseUninstall, RefuseCleanup, Refuse, ReturnReleasing, MemTypeOK,
        Idle
  <2> QED BY <2>1 DEF ReadySteps
<1> QED BY <1>2, <1>3 DEF Quiet, Request

\* The remaining steps of a worker leave the places alone.
LEMMA QuietPlaces ==
  ASSUME IInv, Placement, NEW w \in Workers,
         Quiet(w)
  PROVE  Packages' /\ Holds(w)' /\ UNCHANGED places
PROOF
<1> USE NoRevAssumption, ActorAssumption DEF At, Quiet
<1>1. /\ op[w] \in Operations /\ Own(w) /\ Holds(w) /\ Packages /\ MemTypeOK
      /\ w # Boot /\ w \in Actors
  BY DEF IInv, TypeOK, MemTypeOK, Ownership, Placement, Actors
<1>2. UNCHANGED places
  BY DEF places, db, Request, BeginUpdate, BeginInstall, BeginSetup,
     BeginUninstall, BeginCleanup, Begin, ActivationFails, TombstoneFails,
     Drop, StartUpdate, RefuseUpdate, ArchiveRefused, RefuseActivation, Unmap,
     PublishDefinition, StartInstall, RefuseInstall, InstallFails, RefuseSetup,
     PublishSetup, StartUninstall, RefuseUninstall, UninstallFails,
     StartCleanup, RefuseCleanup, Refuse, SaveSetupState, SaveSetup,
     RecordSetup, DbStep
<1>3. Packages'
  BY <1>1, <1>2, PlacesKept
<1>4. CASE StartUpdate(w) \/ StartUninstall(w)
  <2>1. CASE StartUpdate(w)
    <3>1. PICK o \in Current :
            row /\ op' = [op EXCEPT ![w] = [@ EXCEPT !.pc = "u_stage", !.old = o]]
      BY <2>1 DEF StartUpdate
    <3>2. row /\ op'[w].pc = "u_stage"
      BY <3>1, <1>1 DEF MemTypeOK, Operations
    <3>3. Holds(w)'
      BY <3>2, <1>2 DEF Holds, places, fs, UpdateSteps, UninstallSteps, PreparedSteps
    <3> QED BY <3>3, <1>2, <1>3
  <2>2. CASE StartUninstall(w)
    <3>1. PICK r \in Current, d \in {map, active} \cup {retained[q] : q \in Revs} :
            op' = [op EXCEPT ![w] = [@ EXCEPT !.pc = "x_unmap", !.old = r,
                                              !.ready = setup, !.def = d]]
      BY <2>2 DEF StartUninstall, Current
    <3>2. row /\ op'[w].pc = "x_unmap" /\ op'[w].old = r /\ revState[r] = "current"
      BY <2>2, <3>1, <1>1 DEF StartUninstall, UninstallAdmissible, MemTypeOK, Operations, Current
    <3>3. Holds(w)'
      BY <3>2, <1>2 DEF Holds, places, fs, UpdateSteps, UninstallSteps, PreparedSteps
    <3> QED BY <3>3, <1>2, <1>3
  <2> QED BY <1>4, <2>1, <2>2
<1>5. CASE \/ Unmap(w, "u_unmap", "u_retain") \/ Unmap(w, "x_unmap", "x_retain")
           \/ InstallFails(w) \/ UninstallFails(w)
  <2>1. CASE \/ Unmap(w, "u_unmap", "u_retain") \/ Unmap(w, "x_unmap", "x_retain")
    <3>1. PICK step \in {"u_retain", "x_retain"} :
            /\ op' = [op EXCEPT ![w] = [@ EXCEPT !.pc = step, !.prev = map]]
            /\ op[w].pc = IF step = "u_retain" THEN "u_unmap" ELSE "x_unmap"
      BY <2>1 DEF Unmap
    <3>2. op'[w].pc = step /\ op'[w].old = op[w].old /\ op'[w].new = op[w].new
      BY <3>1, <1>1 DEF MemTypeOK, Operations
    <3>3. Holds(w)'
      BY <3>1, <3>2, <1>1, <1>2
      DEF Holds, places, fs, UpdateSteps, UninstallSteps, PreparedSteps
    <3> QED BY <3>3, <1>2, <1>3
  <2>2. CASE InstallFails(w) \/ UninstallFails(w)
    <3>1. PICK step \in {"i_undo", "x_undo"} :
            /\ op' = [op EXCEPT ![w].pc = step]
            /\ op[w].pc = IF step = "i_undo" THEN "i_commit" ELSE "x_commit"
      BY <2>2 DEF InstallFails, UninstallFails, Goto
    <3>2. op'[w].pc = step /\ op'[w].old = op[w].old /\ op'[w].new = op[w].new
      BY <3>1, <1>1, StepFields
    <3>3. Holds(w)'
      BY <3>1, <3>2, <1>1, <1>2
      DEF Holds, places, fs, UpdateSteps, UninstallSteps, PreparedSteps
    <3> QED BY <3>3, <1>2, <1>3
  <2> QED BY <1>5, <2>1, <2>2
<1>6. CASE op'[w].pc \in ReadySteps
  BY <1>6, <1>1, <1>2, <1>3, UnplacedHoldsNext DEF ReadySteps, UnplacedSteps
<1> QED BY <1>4, <1>5, <1>6, QuietSteps

\* No step of a worker disturbs the placement.
LEMMA WorkerPlacement ==
  ASSUME IInv, IInv', Placement, NEW w \in Workers,
         Request(w) \/ Continue(w) \/ Fault(w) \/ Reconcile(w)
  PROVE  Placement'
PROOF
<1>1. Contract(w) /\ w \in Actors
  BY WorkerSteps DEF Actors
<1>2. CASE Reconcile(w)
  <2>1. Packages' /\ Holds(w)'
    BY <1>1, <1>2, ReconcilePlaces
  <2>2. op[w].pc \in RollbackSteps
    BY <1>2
    DEF Reconcile, PlanReconciliation, StageNew, RecordNewStaged, RestoreOld,
        RecordOldActive, FinishRollback, ReconciliationRefused, At,
        RollbackSteps
  <2>3. lease = w
    BY <1>1, <2>2, ActorAssumption DEF IInv, Ownership, Own, LeasedSteps
  <2> QED BY <1>1, <2>1, <2>3, PlacementFrame
<1>3. CASE Moves(w)
  BY <1>1, <1>3, MovePlaces, PlacementFrame
<1>4. CASE Writes(w)
  BY <1>1, <1>4, WritePlaces, PlacementFrame
<1>5. CASE Quiet(w)
  BY <1>1, <1>5, QuietPlaces, PlacementFrame
<1> QED BY <1>2, <1>3, <1>4, <1>5, StepKinds

\* Nor does the startup sequence: bootstrap adopts an unregistered package,
\* and only when no agent is installed.
LEMMA StartupPlacement ==
  ASSUME IInv, IInv', Placement,
         Crash \/ Restart \/ LoadInstalled \/ Reconcile(Boot)
  PROVE  Placement'
PROOF
<1> USE NoRevAssumption, ActorAssumption DEF At, Actors
<1>1. /\ Packages /\ Registry /\ MemTypeOK /\ StoreTypeOK /\ Exclusion
      /\ MemTypeOK' /\ Exclusion'
  BY DEF Placement, IInv, TypeOK
<1>2. CASE Crash
  <2>1. UNCHANGED places /\ \A a \in Actors : op'[a].pc = "idle"
    BY <1>2 DEF Crash, places, db, Idle
  <2> QED BY <2>1, <1>1, PlacesKept, UnplacedHoldsNext DEF UnplacedSteps, Placement
<1>3. ASSUME Packages', Holds(Boot)', process # "up",
             \A w \in Workers : op'[w] = op[w]
      PROVE  Placement'
  <2>1. \A w \in Workers : op'[w].pc = "idle"
    BY <1>1, <1>3 DEF Exclusion
  <2>2. \A w \in Workers : Holds(w)'
    BY <2>1, UnplacedHoldsNext DEF UnplacedSteps
  <2> QED BY <1>3, <2>2 DEF Placement
<1>4. CASE Restart
  <2>1. /\ UNCHANGED places /\ process = "down"
        /\ op' = [op EXCEPT ![Boot].pc = IF journal = NoJournal THEN "b_load" ELSE "r_plan"]
    BY <1>4 DEF Restart, places, db, Goto
  <2>2. op'[Boot].pc \in {"b_load", "r_plan"} /\ \A w \in Workers : op'[w] = op[w]
    BY <2>1, <1>1 DEF MemTypeOK
  <2> QED BY <2>1, <2>2, <1>1, <1>3, PlacesKept, UnplacedHoldsNext DEF UnplacedSteps
<1>5. CASE LoadInstalled
  <2>1. /\ UNCHANGED <<fs, row, journal>> /\ op[Boot].pc = "b_load"
        /\ op' = [op EXCEPT ![Boot] = Idle] /\ BootstrapRevision
    BY <1>5 DEF LoadInstalled
  <2>2. op'[Boot].pc = "idle" /\ \A w \in Workers : op'[w] = op[w]
    BY <2>1, <1>1 DEF MemTypeOK, Idle
  <2>3. process # "up"
    BY <2>1, <1>1 DEF Exclusion
  <2>4. Packages'
    BY <2>1, <1>1
    DEF Packages, InstalledPackageKept, BootstrapRevision, Current, Registry,
        OneCurrentRevision, fs
  <2> QED BY <2>2, <2>3, <2>4, <1>3, UnplacedHoldsNext DEF UnplacedSteps
<1>6. CASE Reconcile(Boot)
  <2>1. Packages' /\ Holds(Boot)'
    BY <1>6, ReconcilePlaces
  <2>2. op[Boot].pc \in RollbackSteps
    BY <1>6
    DEF Reconcile, PlanReconciliation, StageNew, RecordNewStaged, RestoreOld,
        RecordOldActive, FinishRollback, ReconciliationRefused, RollbackSteps
  <2>3. process # "up"
    BY <2>2, <1>1 DEF Exclusion, RollbackSteps
  <2>4. \A w \in Workers : op'[w] = op[w]
    BY <1>6, <1>1
    DEF Reconcile, PlanReconciliation, StageNew, RecordNewStaged, RestoreOld,
        RecordOldActive, FinishRollback, ReconciliationRefused, FsStep,
        DbStep, Goto, MemTypeOK
  <2> QED BY <2>1, <2>3, <2>4, <1>3
<1> QED BY <1>2, <1>4, <1>5, <1>6

\* Both initial states have every package in its place.
LEMMA InitPlacement == Init => Placement
PROOF
<1> SUFFICES ASSUME Init PROVE Placement
  OBVIOUS
<1>1. PICK r \in Revs \cup {NoRev} : StoreInit(r)
  BY DEF Init
<1>2. Packages
  BY <1>1, NoRevAssumption DEF StoreInit, Packages, InstalledPackageKept, Current
<1>3. \A a \in Actors : op[a].pc = "idle"
  BY DEF Init, Idle
<1> QED BY <1>2, <1>3, UnplacedHolds DEF Placement, UnplacedSteps

\* The placement is inductive relative to IInv.
LEMMA NextPlacement == IInv /\ IInv' /\ Placement /\ [Next]_vars => Placement'
PROOF
<1> SUFFICES ASSUME IInv, IInv', Placement, [Next]_vars PROVE Placement'
  OBVIOUS
<1>1. CASE UNCHANGED vars
  BY <1>1 DEF vars, mem, fs, db, Placement, Packages, InstalledPackageKept,
     Current, Holds
<1> QED BY <1>1, WorkerPlacement, StartupPlacement DEF Next, Actors

\* Packages lie where the placement says in every reachable state.
LEMMA PlacementInvariant == Spec => [](IInv /\ Placement)
PROOF
<1>1. Init => IInv /\ Placement
  BY InitIInv, InitPlacement
<1>2. IInv /\ Placement /\ [Next]_vars => (IInv /\ Placement)'
  BY NextIInv, NextPlacement
<1> QED BY <1>1, <1>2, PTL DEF Spec

\* The package of an installed agent's current revision is never lost,
\* whatever operations, faults and restarts overlap.
THEOREM InstalledKept == Spec => []InstalledPackageKept
PROOF
  BY PlacementInvariant, PTL DEF Placement, Packages

\* Only an uninstall deletes the agents row.
LEMMA RowOnlyDropped ==
  ASSUME Next, row, ~row' PROVE \E w \in Workers : FinishUninstall(w)
PROOF
<1>1. ASSUME NEW w \in Workers, Request(w) \/ Fault(w), row, ~row' PROVE FALSE
  BY <1>1 DEF Request, BeginUpdate, BeginInstall, BeginSetup, BeginUninstall,
     BeginCleanup, Begin, Fault, PrepareFails, ActivationFails, TombstoneFails,
     Drop, MarkRevisionFailed, db
<1>2. ASSUME NEW w \in Workers, Continue(w), ~FinishUninstall(w), row, ~row' PROVE FALSE
  BY <1>2
  DEF Continue, StartUpdate, RefuseUpdate, ArchiveRefused, Stage, Prepare,
      WriteJournal, RefuseActivation, Unmap, RetainOld, RecordOldRetained,
      ActivateNew, RecordNewActive, CommitUpdate, SaveSetupState,
      PublishDefinition, StartInstall, ActivateInstall, RefuseInstall,
      FinishInstall, InstallFails, UndoInstall, MarkInstallFailed, RecordSetup,
      RefuseSetup, PublishSetup, StartUninstall, RefuseUninstall,
      MoveToTombstone, UninstallFails, UndoUninstall, StartCleanup,
      RefuseCleanup, RemoveExpiredPackage, DeleteExpiredRevision, FsStep,
      DbStep, Refuse, CreateStagedRevision, PersistJournal, RecordPhase,
      CommitSwitch, SaveSetup, CommitInstall, MarkRevisionFailed,
      DeleteRevision, db
<1>3. ASSUME NEW a \in Actors, Reconcile(a), row, ~row' PROVE FALSE
  BY <1>3
  DEF Reconcile, PlanReconciliation, StageNew, RecordNewStaged, RestoreOld,
      RecordOldActive, FinishRollback, ReconciliationRefused, FsStep, DbStep,
      RecordPhase, CommitRollback, db
<1>4. ASSUME Crash \/ Restart \/ LoadInstalled, row, ~row' PROVE FALSE
  BY <1>4 DEF Crash, Restart, LoadInstalled, db
<1> QED BY <1>1, <1>2, <1>3, <1>4 DEF Next

\* An uninstall that deletes the agents row has its package at the tombstone
\* path that the row of the revision then names.
THEOREM UninstallKeeps == Spec => UninstallKeepsPackage
PROOF
<1>1. ASSUME IInv, IInv', Placement, [Next]_vars, row, ~row'
      PROVE  \E r \in Current : retained'[r] = r /\ revPath'[r] = "retained"
  <2>1. PICK w \in Workers : FinishUninstall(w)
    <3>1. vars' # vars
      BY <1>1 DEF vars, db
    <3> QED BY <1>1, <3>1, RowOnlyDropped
  <2>2. Own(w) /\ Holds(w) /\ StoreTypeOK
    BY <1>1 DEF IInv, TypeOK, Ownership, Placement, Actors
  <2> QED
    BY <2>1, <2>2
    DEF FinishUninstall, CommitUninstall, UninstallCommittable, Own, Holds,
        UninstallSteps, At, Current, fs, StoreTypeOK
<1>2. IInv /\ Placement /\ (IInv /\ Placement)' /\ [Next]_vars
        => [row /\ ~row' => \E r \in Current : retained'[r] = r /\ revPath'[r] = "retained"]_vars
  BY <1>1
<1> QED BY <1>2, PlacementInvariant, PTL DEF Spec, UninstallKeepsPackage

-----------------------------------------------------------------------------
(* What cleanup takes away                                                  *)

\* An actor is only ever inside an operation that the workers may run.
Allowed(a) ==
  /\ op[a].pc \in InstallSteps => "install" \in Kinds
  /\ op[a].pc \in UninstallSteps => "uninstall" \in Kinds
  /\ op[a].pc \in CleanupSteps => "cleanup" \in Kinds

\* A step of an operation leads to a step of the same operation or out of it.
LEMMA StaysAllowed ==
  ASSUME IInv, NEW w \in Workers, Allowed(w),
         Request(w) \/ Continue(w) \/ Fault(w) \/ Reconcile(w)
  PROVE  Allowed(w)'
PROOF
<1> USE ActorAssumption DEF At, InstallSteps, UninstallSteps, CleanupSteps
<1>1. op[w] \in Operations /\ MemTypeOK /\ w \in Actors
  BY DEF IInv, TypeOK, MemTypeOK, Actors
<1>2. ASSUME NEW step, op' = [op EXCEPT ![w].pc = step],
             \/ step \notin InstallSteps \cup UninstallSteps \cup CleanupSteps
             \/ step = "i_wait" /\ "install" \in Kinds
             \/ step = "x_wait" /\ "uninstall" \in Kinds
             \/ step = "k_wait" /\ "cleanup" \in Kinds
             \/ step \in InstallSteps /\ op[w].pc \in InstallSteps
             \/ step \in UninstallSteps /\ op[w].pc \in UninstallSteps
             \/ step \in CleanupSteps /\ op[w].pc \in CleanupSteps
      PROVE  Allowed(w)'
  <2>1. op'[w].pc = step
    BY <1>1, <1>2, StepFields
  <2> QED BY <2>1, <1>2 DEF Allowed
<1>3. ASSUME op'[w] = Idle PROVE Allowed(w)'
  BY <1>3 DEF Allowed, Idle
<1>4. CASE Moves(w) /\ ~UndoUninstall(w)
  <2>1. PICK step : /\ op' = [op EXCEPT ![w].pc = step]
                    /\ <<op[w].pc, step>> \in
                         {<<"u_prepare", "u_journal">>, <<"i_prepare", "i_activate">>,
                          <<"u_retain", "u_old_retained">>, <<"u_activate", "u_new_active">>,
                          <<"i_activate", "i_commit">>, <<"i_undo", "i_mark">>,
                          <<"x_retain", "x_commit">>, <<"k_remove", "k_delete">>}
    BY <1>4 DEF Moves, Prepare, RetainOld, ActivateNew, ActivateInstall, UndoInstall,
       MoveToTombstone, RemoveExpiredPackage, FsStep, Goto
  <2> QED BY <2>1, <1>2
<1>5. CASE \/ WriteJournal(w) \/ RecordOldRetained(w) \/ RecordNewActive(w)
           \/ CommitUpdate(w) \/ FinishInstall(w) \/ InstallFails(w)
           \/ UninstallFails(w) \/ StartInstall(w) \/ RecordSetup(w)
           \/ ActivationFails(w)
  <2>1. PICK step : /\ op' = [op EXCEPT ![w].pc = step]
                    /\ \/ step \in {"u_unmap", "u_activate", "u_commit", "t_setup", "c_map", "r_plan"}
                       \/ <<op[w].pc, step>> \in
                            {<<"i_commit", "i_undo">>, <<"x_commit", "x_undo">>, <<"i_wait", "i_stage">>}
    BY <1>5 DEF WriteJournal, RecordOldRetained, RecordNewActive, CommitUpdate,
       FinishInstall, InstallFails, UninstallFails, StartInstall, RecordSetup,
       ActivationFails, DbStep, Goto
  <2> QED BY <2>1, <1>2
<1>6. CASE \/ BeginUpdate(w) \/ BeginInstall(w) \/ BeginUninstall(w) \/ BeginCleanup(w)
  <2>1. \/ op' = [op EXCEPT ![w].pc = "u_wait"]
        \/ op' = [op EXCEPT ![w].pc = "i_wait"] /\ "install" \in Kinds
        \/ op' = [op EXCEPT ![w].pc = "x_wait"] /\ "uninstall" \in Kinds
        \/ op' = [op EXCEPT ![w].pc = "k_wait"] /\ "cleanup" \in Kinds
    BY <1>6 DEF BeginUpdate, BeginInstall, BeginUninstall, BeginCleanup, Begin, Goto
  <2> QED BY <2>1, <1>2
<1>7. CASE \/ UndoUninstall(w) \/ PrepareFails(w) \/ MarkInstallFailed(w)
           \/ FinishUninstall(w) \/ DeleteExpiredRevision(w)
           \/ TombstoneFails(w) \/ Drop(w) \/ RefuseUpdate(w)
           \/ ArchiveRefused(w) \/ RefuseActivation(w)
           \/ PublishDefinition(w) \/ RefuseInstall(w) \/ RefuseSetup(w)
           \/ PublishSetup(w) \/ RefuseUninstall(w) \/ RefuseCleanup(w)
           \/ ReconciliationRefused(w)
  <2>1. op'[w] = Idle
    BY <1>7, <1>1
    DEF UndoUninstall, PrepareFails, MarkInstallFailed, FinishUninstall,
        DeleteExpiredRevision, TombstoneFails, Drop, RefuseUpdate,
        ArchiveRefused, RefuseActivation, PublishDefinition, RefuseInstall,
        RefuseSetup, PublishSetup, RefuseUninstall, RefuseCleanup,
        ReconciliationRefused, Refuse, ReturnReleasing, MemTypeOK
  <2> QED BY <2>1, <1>3
<1>8. ASSUME \/ op'[w].pc \notin InstallSteps \cup UninstallSteps \cup CleanupSteps
             \/ op'[w].pc \in InstallSteps /\ op[w].pc \in InstallSteps
             \/ op'[w].pc \in UninstallSteps /\ op[w].pc \in UninstallSteps
             \/ op'[w].pc \in CleanupSteps /\ op[w].pc \in CleanupSteps
      PROVE  Allowed(w)'
  BY <1>8 DEF Allowed
<1>9. CASE \/ StartUpdate(w) \/ StartUninstall(w) \/ StartCleanup(w)
           \/ Stage(w, "u_stage", "u_prepare") \/ Stage(w, "i_stage", "i_prepare")
           \/ Unmap(w, "u_unmap", "u_retain") \/ Unmap(w, "x_unmap", "x_retain")
           \/ BeginSetup(w) \/ SaveSetupState(w)
  <2>1. CASE StartUpdate(w)
    <3>1. PICK o \in Current : op' = [op EXCEPT ![w] = [@ EXCEPT !.pc = "u_stage", !.old = o]]
      BY <2>1 DEF StartUpdate
    <3>2. op'[w].pc = "u_stage"
      BY <3>1, <1>1 DEF MemTypeOK, Operations
    <3> QED BY <3>2, <1>8
  <2>2. CASE StartUninstall(w)
    <3>1. PICK r \in Current, d \in {map, active} \cup {retained[q] : q \in Revs} :
            op' = [op EXCEPT ![w] = [@ EXCEPT !.pc = "x_unmap", !.old = r,
                                              !.ready = setup, !.def = d]]
      BY <2>2 DEF StartUninstall, Current
    <3>2. op'[w].pc = "x_unmap" /\ op[w].pc = "x_wait"
      BY <2>2, <3>1, <1>1 DEF StartUninstall, MemTypeOK, Operations
    <3> QED BY <3>2, <1>8
  <2>3. CASE StartCleanup(w)
    <3>1. PICK r \in Revs : op' = [op EXCEPT ![w] = [@ EXCEPT !.pc = "k_remove", !.new = r]]
      BY <2>3 DEF StartCleanup
    <3>2. op'[w].pc = "k_remove" /\ op[w].pc = "k_wait"
      BY <2>3, <3>1, <1>1 DEF StartCleanup, MemTypeOK, Operations
    <3> QED BY <3>2, <1>8
  <2>4. CASE Stage(w, "u_stage", "u_prepare") \/ Stage(w, "i_stage", "i_prepare")
    <3>1. PICK n \in Unused, step \in {"u_prepare", "i_prepare"} :
            /\ op' = [op EXCEPT ![w] = [@ EXCEPT !.pc = step, !.new = n]]
            /\ op[w].pc = IF step = "u_prepare" THEN "u_stage" ELSE "i_stage"
      BY <2>4 DEF Stage
    <3>2. op'[w].pc = step
      BY <3>1, <1>1 DEF MemTypeOK, Operations
    <3> QED BY <3>1, <3>2, <1>8
  <2>5. CASE Unmap(w, "u_unmap", "u_retain") \/ Unmap(w, "x_unmap", "x_retain")
    <3>1. PICK step \in {"u_retain", "x_retain"} :
            /\ op' = [op EXCEPT ![w] = [@ EXCEPT !.pc = step, !.prev = map]]
            /\ op[w].pc = IF step = "u_retain" THEN "u_unmap" ELSE "x_unmap"
      BY <2>5 DEF Unmap
    <3>2. op'[w].pc = step
      BY <3>1, <1>1 DEF MemTypeOK, Operations
    <3> QED BY <3>1, <3>2, <1>8
  <2>6. CASE BeginSetup(w)
    <3>1. op'[w].pc = "c_setup"
      BY <2>6, <1>1 DEF BeginSetup, MemTypeOK, Operations
    <3> QED BY <3>1, <1>8
  <2>7. CASE SaveSetupState(w)
    <3>1. PICK complete \in BOOLEAN :
            op' = [op EXCEPT ![w] = [@ EXCEPT !.pc = "t_map",
                     !.def = IF complete THEN op[w].new ELSE NoRev]]
      BY <2>7 DEF SaveSetupState
    <3>2. op'[w].pc = "t_map"
      BY <3>1, <1>1 DEF MemTypeOK, Operations
    <3> QED BY <3>2, <1>8
  <2> QED BY <1>9, <2>1, <2>2, <2>3, <2>4, <2>5, <2>6, <2>7
<1>10. CASE Reconcile(w) /\ ~ReconciliationRefused(w)
  <2>1. \/ op'[w] = Idle
        \/ \E step \in RollbackSteps : op' = [op EXCEPT ![w].pc = step]
    BY <1>10, <1>1
    DEF Reconcile, PlanReconciliation, StageNew, RecordNewStaged, RestoreOld,
        RecordOldActive, FinishRollback, FsStep, DbStep, Goto, ReturnReleasing,
        RollbackSteps, MemTypeOK
  <2> QED BY <2>1, <1>2, <1>3 DEF RollbackSteps
<1> QED BY <1>4, <1>5, <1>6, <1>7, <1>9, <1>10, StepKinds DEF Moves, Writes, Quiet, Request

\* The kinds of operation are an invariant too, beside the two above.
LEMMA AllowedInvariant == Spec => [](IInv /\ Placement /\ \A a \in Actors : Allowed(a))
PROOF
<1> USE ActorAssumption DEF Actors, InstallSteps, UninstallSteps, CleanupSteps
<1>1. Init => \A a \in Actors : Allowed(a)
  BY DEF Init, Allowed, Idle
<1>2. ASSUME IInv, IInv', \A a \in Actors : Allowed(a), [Next]_vars
      PROVE  (\A a \in Actors : Allowed(a))'
  <2>1. Allowed(Boot)'
    BY <1>2 DEF IInv, Exclusion, Allowed, RollbackSteps
  <2>2. ASSUME NEW w \in Workers, op'[w] = op[w] PROVE Allowed(w)'
    BY <1>2, <2>2 DEF Allowed
  <2>3. ASSUME NEW w \in Workers, Request(w) \/ Continue(w) \/ Fault(w) \/ Reconcile(w)
        PROVE  (\A a \in Actors : Allowed(a))'
    <3>1. \A b \in Workers \ {w} : op'[b] = op[b]
      BY <1>2, <2>3, WorkerSteps DEF Contract, IInv, TypeOK, MemTypeOK
    <3> QED BY <1>2, <2>1, <2>2, <2>3, <3>1, StaysAllowed
  <2>4. CASE Crash \/ Restart \/ LoadInstalled \/ Reconcile(Boot)
    <3>1. ASSUME NEW w \in Workers PROVE op'[w] = op[w] \/ op'[w].pc = "idle"
      BY <1>2, <2>4
      DEF Crash, Restart, LoadInstalled, Reconcile, PlanReconciliation,
          StageNew, RecordNewStaged, RestoreOld, RecordOldActive,
          FinishRollback, ReconciliationRefused, FsStep, DbStep, Goto, IInv,
          TypeOK, MemTypeOK, Idle
    <3>2. ASSUME NEW w \in Workers PROVE Allowed(w)'
      BY <3>1, <2>2 DEF Allowed
    <3> QED BY <2>1, <3>2
  <2>5. CASE UNCHANGED vars
    BY <1>2, <2>5 DEF vars, mem, Allowed
  <2> QED BY <1>2, <2>3, <2>4, <2>5 DEF Next
<1>3. (IInv /\ Placement /\ \A a \in Actors : Allowed(a)) /\ [Next]_vars
        => (IInv /\ Placement /\ \A a \in Actors : Allowed(a))'
  BY <1>2, NextIInv, NextPlacement
<1> QED BY <1>1, <1>3, InitIInv, InitPlacement, PTL DEF Spec

\* Only the cleanup of expired revisions takes a retained package away that
\* no current revision has any more.
LEMMA PreviousStays ==
  ASSUME "cleanup" \notin Kinds, IInv, Placement, \A a \in Actors : Allowed(a),
         PreviousPackageKept, [Next]_vars
  PROVE  PreviousPackageKept'
PROOF
<1> USE NoRevAssumption, ActorAssumption DEF At
<1>1. Packages /\ StoreTypeOK /\ Registry
  BY DEF Placement, IInv, TypeOK
<1>2. ASSUME \A r \in Revs : /\ revState'[r] = "previous" => revState[r] = "previous"
                             /\ revState[r] # "current" => retained'[r] = retained[r]
      PROVE  PreviousPackageKept'
  BY <1>2 DEF PreviousPackageKept
<1>3. ASSUME NEW w \in Workers, Moves(w) PROVE PreviousPackageKept'
  <2>1. Own(w) /\ Holds(w) /\ Allowed(w)
    BY DEF IInv, Ownership, Placement, Actors
  <2>2. ~RemoveExpiredPackage(w) /\ UNCHANGED revState
    BY <1>3, <2>1
    DEF Moves, Prepare, RetainOld, ActivateNew, ActivateInstall, UndoInstall,
        MoveToTombstone, UndoUninstall, RemoveExpiredPackage, FsStep, db,
        Allowed, CleanupSteps
  <2>3. CASE RetainOld(w) \/ MoveToTombstone(w) \/ UndoUninstall(w)
    <3>1. op[w].old \in Revs /\ revState[op[w].old] = "current"
      BY <2>1, <2>3
      DEF RetainOld, MoveToTombstone, UndoUninstall, Own, Holds, UpdateSteps, UninstallSteps
    <3>2. retained' = retained \/ \E r : retained' = [retained EXCEPT ![op[w].old] = r]
      BY <2>3
      DEF RetainOld, MoveToTombstone, UndoUninstall, ActiveToRetained, RetainedToActive, fs
    <3> QED BY <3>1, <3>2, <2>2, <1>1, <1>2 DEF StoreTypeOK
  <2>4. CASE ~(RetainOld(w) \/ MoveToTombstone(w) \/ UndoUninstall(w))
    BY <1>2, <1>3, <2>2, <2>4
    DEF Moves, Prepare, ActivateNew, ActivateInstall, UndoInstall,
        StagingToActive, ActiveToStaging, fs
  <2> QED BY <2>3, <2>4
<1>4. ASSUME NEW w \in Workers, Writes(w) PROVE PreviousPackageKept'
  <2>1. Own(w) /\ Holds(w)
    BY DEF IInv, Ownership, Placement, Actors
  <2>2. UNCHANGED fs
    BY <1>4
    DEF Writes, Stage, PrepareFails, WriteJournal, RecordOldRetained,
        RecordNewActive, CommitUpdate, FinishInstall, MarkInstallFailed,
        FinishUninstall, DeleteExpiredRevision, DbStep
  <2>3. CASE CommitUpdate(w)
    <3>1. CommitSwitch(op[w].old, op[w].new) /\ retained[op[w].old] = op[w].old
      BY <2>1, <2>3 DEF CommitUpdate, Holds
    <3> QED BY <3>1, <2>2 DEF CommitSwitch, PreviousPackageKept, fs
  <2>4. CASE ~CommitUpdate(w)
    <3>1. \/ revState' = revState
          \/ \E r \in Revs, s \in {"staged", "failed", "current", "uninstalled", "deleted"} :
               revState' = [revState EXCEPT ![r] = s]
      BY <1>4, <2>1, <2>4
      DEF Writes, Stage, PrepareFails, WriteJournal, RecordOldRetained,
          RecordNewActive, FinishInstall, MarkInstallFailed, FinishUninstall,
          DeleteExpiredRevision, CreateStagedRevision, MarkRevisionFailed,
          PersistJournal, RecordPhase, CommitInstall, CommitUninstall,
          DeleteRevision, Unused, db, Own, StagedSteps, UninstallSteps,
          RemovalSteps
    <3>2. retained' = retained
      BY <2>2 DEF fs
    <3> QED BY <3>1, <3>2, <1>1, <1>2 DEF StoreTypeOK
  <2> QED BY <2>3, <2>4
<1>5. ASSUME NEW a \in Actors, Reconcile(a) PROVE PreviousPackageKept'
  <2>1. Own(a)
    BY DEF IInv, Ownership
  <2>2. CASE StageNew(a) \/ RestoreOld(a)
    <3>1. /\ revState' = revState
          /\ \/ retained' = retained
             \/ retained' = [retained EXCEPT ![journal.old] = NoRev]
      BY <2>2 DEF StageNew, RestoreOld, ActiveToStaging, RetainedToActive, FsStep, db
    <3>2. journal.old \in Revs /\ revState[journal.old] = "current"
      BY <2>1, <2>2, <1>1
      DEF StageNew, RestoreOld, Own, RollbackSteps, StoreTypeOK, Journals,
          Registry, JournalIntact, JournalRevisionsValid
    <3> QED BY <3>1, <3>2, <1>1, <1>2 DEF StoreTypeOK
  <2>3. CASE ~(StageNew(a) \/ RestoreOld(a))
    <3>1. /\ UNCHANGED fs
          /\ \/ revState' = revState
             \/ revState' = [revState EXCEPT ![journal.new] = "failed"]
      BY <1>5, <2>3
      DEF Reconcile, PlanReconciliation, RecordNewStaged, RecordOldActive,
          FinishRollback, ReconciliationRefused, DbStep, RecordPhase,
          CommitRollback, db
    <3> QED BY <3>1, <1>1, <1>2 DEF StoreTypeOK, fs
  <2> QED BY <2>2, <2>3
<1>6. CASE Crash \/ Restart \/ LoadInstalled
  <2>1. /\ UNCHANGED fs
        /\ \/ revState' = revState
           \/ \E r \in Revs : revState' = [revState EXCEPT ![r] = "current"]
    BY <1>6 DEF Crash, Restart, LoadInstalled, BootstrapRevision, Unused, db
  <2> QED BY <2>1, <1>1, <1>2 DEF StoreTypeOK, fs
<1>7. ASSUME UNCHANGED places PROVE PreviousPackageKept'
  BY <1>7 DEF PreviousPackageKept, places, fs
<1>8. CASE UNCHANGED vars
  BY <1>7, <1>8 DEF vars, places, db
<1> QED
  BY <1>3, <1>4, <1>5, <1>6, <1>7, <1>8, StepKinds, QuietPlaces DEF Next

\* As long as no retention cleanup runs, the package that an update replaced
\* stays at the path below .selu-revisions that its row names.
THEOREM PreviousKept ==
  ASSUME "cleanup" \notin Kinds PROVE Spec => []PreviousPackageKept
PROOF
<1>1. Init => PreviousPackageKept
  BY DEF Init, StoreInit, PreviousPackageKept
<1>2. IInv /\ Placement /\ (\A a \in Actors : Allowed(a)) /\ PreviousPackageKept /\ [Next]_vars
        => PreviousPackageKept'
  BY PreviousStays
<1> QED BY <1>1, <1>2, AllowedInvariant, PTL DEF Spec

-----------------------------------------------------------------------------
(* The shapes of an interrupted switch                                      *)

Untouched == <<FALSE, TRUE, TRUE>>
Swapped == <<TRUE, TRUE, FALSE>>

Shape(phases, state) ==
  journal.phase \in phases /\ FsState(journal.old, journal.new) = state

\* Where the renames and their records stand at each step of the switch and of
\* its rollback.
Follows(a) ==
  /\ op[a].pc \in {"u_unmap", "u_retain"} => Shape({"prepared"}, Clean)
  /\ op[a].pc = "u_old_retained" => Shape({"prepared"}, Untouched)
  /\ op[a].pc = "u_activate" => Shape({"old_retained"}, Untouched)
  /\ op[a].pc = "u_new_active" => Shape({"old_retained"}, Swapped)
  /\ op[a].pc = "u_commit" => Shape({"new_active"}, Swapped)
  /\ op[a].pc = "r_stage" => Shape({"old_retained", "new_active"}, Swapped)
  /\ op[a].pc = "r_new_staged" => Shape({"old_retained", "new_active"}, Untouched)
  /\ op[a].pc = "r_restore" => Shape(Phases \ {"rollback_old_active"}, Untouched)
  /\ op[a].pc \in {"r_mark", "r_final"} => Shape(Phases, Clean)

Recoverable == journal # NoJournal => PlanOf(journal) # "unsafe"
Shaped == Recoverable /\ \A a \in Actors : Follows(a)

\* A worker disturbs no other's shape, for the same reason as its placement.
LEMMA ShapeFrame ==
  ASSUME IInv, Shaped, NEW w \in Workers, Contract(w),
         UNCHANGED places \/ lease = w, Recoverable', Follows(w)'
  PROVE  Shaped'
PROOF
<1> USE ActorAssumption DEF Actors
<1>1. process = "up"
  BY DEF Contract, IInv, Exclusion
<1>2. ASSUME NEW b \in Actors, b # w PROVE Follows(b)'
  <2>1. op'[b] = op[b] /\ Follows(b) /\ Own(b)
    BY <1>2 DEF Contract, Shaped, IInv, Ownership, TypeOK, MemTypeOK
  <2>2. CASE op[b].pc \in LeasedSteps
    <3>1. b # Boot
      BY <1>1, <2>2 DEF IInv, Exclusion, At, LeasedSteps, UpdateSteps, RollbackSteps,
         InstallSteps, UninstallSteps, RemovalSteps
    <3>2. lease = b
      BY <2>1, <2>2, <3>1 DEF Own
    <3>3. UNCHANGED places
      BY <1>2, <3>2
    <3> QED BY <2>1, <3>3 DEF Follows, Shape, FsState, places, fs
  <2>3. CASE op[b].pc \notin LeasedSteps
    BY <2>1, <2>3 DEF Follows, LeasedSteps, UpdateSteps, RollbackSteps
  <2> QED BY <2>2, <2>3
<1> QED BY <1>2 DEF Shaped

\* Steps about which Follows says nothing.
LooseSteps == Steps \ {"u_unmap", "u_retain", "u_old_retained", "u_activate",
                       "u_new_active", "u_commit", "r_stage", "r_new_staged",
                       "r_restore", "r_mark", "r_final"}

\* A step to a loose step needs to show nothing.
LEMMA LooseFollows == ASSUME NEW a \in Actors, op'[a].pc \in LooseSteps PROVE Follows(a)'
PROOF
  BY DEF Follows, LooseSteps

\* Reconciliation goes from one recoverable shape to the next.
LEMMA ReconcileShapes ==
  ASSUME IInv, IInv', Shaped, NEW a \in Actors, Reconcile(a)
  PROVE  Recoverable' /\ Follows(a)'
PROOF
<1> USE NoRevAssumption, ActorAssumption DEF At
<1>1. /\ op[a] \in Operations /\ Own(a) /\ Follows(a) /\ Recoverable
      /\ StoreTypeOK /\ MemTypeOK
  BY DEF IInv, TypeOK, MemTypeOK, Ownership, Shaped
<1>2. op[a].pc \in RollbackSteps
  BY DEF Reconcile, PlanReconciliation, StageNew, RecordNewStaged, RestoreOld,
     RecordOldActive, FinishRollback, ReconciliationRefused, RollbackSteps
<1>3. /\ journal # NoJournal /\ journal \in Journals
      /\ journal.old \in Revs /\ journal.new \in Revs /\ journal.phase \in Phases
  BY <1>1, <1>2 DEF Own, StoreTypeOK, Journals
<1>4. CASE PlanReconciliation(a)
  <2>1. UNCHANGED <<fs, journal>>
    BY <1>4 DEF PlanReconciliation, db
  <2>2. journal' = journal /\ FsState(journal.old, journal.new)' = FsState(journal.old, journal.new)
    BY <2>1 DEF FsState, fs
  <2>3. \/ PlanOf(journal) = "keep_prior_active" /\ op'[a].pc = "r_mark"
        \/ PlanOf(journal) = "restore_retained" /\ op'[a].pc = "r_restore"
        \/ PlanOf(journal) = "stage_new_then_restore" /\ op'[a].pc = "r_stage"
    BY <1>4, StepFields DEF PlanReconciliation, Goto
  <2>4. Recoverable'
    BY <2>2, <1>1 DEF Recoverable, PlanOf, ReconciliationPlan
  <2>5. \/ op'[a].pc = "r_mark" /\ Shape(Phases, Clean)
        \/ op'[a].pc = "r_restore" /\ Shape(Phases \ {"rollback_old_active"}, Untouched)
        \/ op'[a].pc = "r_stage" /\ Shape({"old_retained", "new_active"}, Swapped)
    BY <2>3, <1>3 DEF PlanOf, ReconciliationPlan, Shape, Clean, Untouched, Swapped
  <2> QED BY <2>2, <2>4, <2>5 DEF Follows, Shape
<1>5. CASE StageNew(a)
  <2>1. /\ op[a].pc = "r_stage" /\ op'[a].pc = "r_new_staged"
        /\ active' = NoRev /\ retained' = retained /\ active # NoRev
        /\ staging' = [staging EXCEPT ![journal.new] = active]
        /\ journal' = journal
    BY <1>5, StepFields DEF StageNew, ActiveToStaging, FsStep, Goto, db
  <2>2. Shape({"old_retained", "new_active"}, Untouched)'
    BY <2>1, <1>1, <1>3 DEF Follows, Shape, FsState, Swapped, Untouched, StoreTypeOK
  <2>3. Recoverable'
    BY <2>1, <2>2 DEF Recoverable, PlanOf, ReconciliationPlan, Shape, Untouched, Clean
  <2> QED BY <2>1, <2>2, <2>3 DEF Follows
<1>6. CASE RecordNewStaged(a)
  <2>1. /\ op[a].pc = "r_new_staged" /\ op'[a].pc = "r_restore"
        /\ journal' = [journal EXCEPT !.phase = "rollback_new_staged"]
        /\ UNCHANGED fs
    BY <1>6, StepFields DEF RecordNewStaged, RecordPhase, DbStep, Goto
  <2>2. Shape(Phases \ {"rollback_old_active"}, Untouched)'
    BY <2>1, <1>1, <1>3 DEF Follows, Shape, FsState, fs, Phases, Journals
  <2>3. Recoverable'
    BY <2>1, <2>2 DEF Recoverable, PlanOf, ReconciliationPlan, Shape, Untouched, Clean
  <2> QED BY <2>1, <2>2, <2>3 DEF Follows
<1>7. CASE RestoreOld(a)
  <2>1. /\ op[a].pc = "r_restore" /\ op'[a].pc = "r_mark"
        /\ active' = retained[journal.old] /\ retained[journal.old] # NoRev
        /\ retained' = [retained EXCEPT ![journal.old] = NoRev]
        /\ staging' = staging /\ journal' = journal
    BY <1>7, StepFields DEF RestoreOld, RetainedToActive, FsStep, Goto, db
  <2>2. Shape(Phases, Clean)'
    BY <2>1, <1>1, <1>3 DEF Follows, Shape, FsState, Clean, Untouched, StoreTypeOK
  <2>3. Recoverable'
    BY <2>1, <2>2 DEF Recoverable, PlanOf, ReconciliationPlan, Shape
  <2> QED BY <2>1, <2>2, <2>3 DEF Follows
<1>8. CASE RecordOldActive(a)
  <2>1. /\ op[a].pc = "r_mark" /\ op'[a].pc = "r_final"
        /\ journal' = [journal EXCEPT !.phase = "rollback_old_active"]
        /\ UNCHANGED fs
    BY <1>8, StepFields DEF RecordOldActive, RecordPhase, DbStep, Goto
  <2>2. Shape(Phases, Clean)'
    BY <2>1, <1>1, <1>3 DEF Follows, Shape, FsState, fs, Phases, Journals
  <2>3. Recoverable'
    BY <2>1, <2>2 DEF Recoverable, PlanOf, ReconciliationPlan, Shape
  <2> QED BY <2>1, <2>2, <2>3 DEF Follows
<1>9. CASE FinishRollback(a) \/ ReconciliationRefused(a)
  <2>1. op'[a].pc \in {"idle", "b_load"}
    BY <1>9, <1>1, StepFields
    DEF FinishRollback, ReconciliationRefused, ReturnReleasing, Goto, Idle, MemTypeOK
  <2>2. Recoverable'
    BY <1>9, <1>1
    DEF FinishRollback, CommitRollback, ReconciliationRefused, Recoverable,
        PlanOf, ReconciliationPlan, FsState, fs, db
  <2> QED BY <2>1, <2>2, LooseFollows DEF LooseSteps, Steps, RollbackSteps
<1> QED BY <1>4, <1>5, <1>6, <1>7, <1>8, <1>9 DEF Reconcile

\* So does the switch, when no other kind of operation moves packages.
LEMMA SwitchShapes ==
  ASSUME Kinds \subseteq {"update", "setup"}, IInv, IInv', Placement, Shaped,
         NEW w \in Workers, Allowed(w), Moves(w) \/ Writes(w) \/ Quiet(w)
  PROVE  Recoverable' /\ Follows(w)'
PROOF
<1> USE NoRevAssumption, ActorAssumption DEF At
<1>1. /\ op[w] \in Operations /\ Own(w) /\ Follows(w) /\ Recoverable /\ Holds(w)
      /\ StoreTypeOK /\ MemTypeOK /\ w \in Actors /\ StoreTypeOK'
  BY DEF IInv, TypeOK, MemTypeOK, Ownership, Shaped, Actors, Placement
<1>2. op[w].pc \notin InstallSteps \cup UninstallSteps \cup CleanupSteps
  BY DEF Allowed
<1>3. op[w].pc \in JournaledSteps =>
        /\ journal # NoJournal /\ journal \in Journals
        /\ op[w].old = journal.old /\ op[w].new = journal.new
        /\ journal.old \in Revs /\ journal.new \in Revs
  BY <1>1 DEF Own, StoreTypeOK, Journals
<1>4. CASE Prepare(w, "u_prepare", "u_journal")
  <2>1. /\ op[w].pc = "u_prepare" /\ op'[w].pc = "u_journal"
        /\ staging' = [staging EXCEPT ![op[w].new] = op[w].new]
        /\ UNCHANGED <<active, retained, journal>>
    BY <1>1, <1>4, StepFields DEF Prepare, FsStep, Goto, db
  <2>2. op[w].new \in Revs /\ journal.new # op[w].new
    BY <2>1, <1>1 DEF Own, StagedSteps
  <2>3. FsState(journal.old, journal.new)' = FsState(journal.old, journal.new)
    BY <2>1, <2>2, <1>1 DEF FsState, StoreTypeOK
  <2>4. Recoverable'
    BY <2>1, <2>3, <1>1 DEF Recoverable, PlanOf, ReconciliationPlan
  <2> QED BY <2>1, <2>4, <1>1, LooseFollows DEF LooseSteps, Steps, UpdateSteps
<1>5. CASE RetainOld(w)
  <2>1. /\ op[w].pc = "u_retain" /\ op'[w].pc = "u_old_retained"
        /\ active # NoRev /\ active' = NoRev /\ staging' = staging
        /\ retained' = [retained EXCEPT ![op[w].old] = active]
        /\ journal' = journal
    BY <1>1, <1>5, StepFields DEF RetainOld, ActiveToRetained, FsStep, Goto, db
  <2>2. Shape({"prepared"}, Untouched)'
    BY <2>1, <1>1, <1>3 DEF JournaledSteps, Follows, Shape, FsState, Clean, Untouched, StoreTypeOK
  <2>3. Recoverable'
    BY <2>1, <2>2 DEF Recoverable, PlanOf, ReconciliationPlan, Shape, Untouched, Clean
  <2> QED BY <2>1, <2>2, <2>3 DEF Follows
<1>6. CASE ActivateNew(w)
  <2>1. /\ op[w].pc = "u_activate" /\ op'[w].pc = "u_new_active"
        /\ staging[op[w].new] # NoRev /\ active' = staging[op[w].new]
        /\ staging' = [staging EXCEPT ![op[w].new] = NoRev]
        /\ retained' = retained /\ journal' = journal
    BY <1>1, <1>6, StepFields DEF ActivateNew, StagingToActive, FsStep, Goto, db
  <2>2. Shape({"old_retained"}, Swapped)'
    BY <2>1, <1>1, <1>3 DEF JournaledSteps, Follows, Shape, FsState, Swapped, Untouched, StoreTypeOK
  <2>3. Recoverable'
    BY <2>1, <2>2 DEF Recoverable, PlanOf, ReconciliationPlan, Shape, Untouched, Clean, Swapped
  <2> QED BY <2>1, <2>2, <2>3 DEF Follows
<1>7. CASE WriteJournal(w)
  <2>1. /\ op[w].pc = "u_journal" /\ op'[w].pc = "u_unmap"
        /\ journal' = [old |-> op[w].old, new |-> op[w].new, phase |-> "prepared"]
        /\ FsState(op[w].old, op[w].new) = Clean /\ UNCHANGED fs
    BY <1>1, <1>7, StepFields DEF WriteJournal, PersistJournal, DbStep, Goto
  <2>2. Shape({"prepared"}, Clean)'
    BY <2>1 DEF Shape, FsState, fs
  <2>3. Recoverable'
    BY <2>1, <2>2 DEF Recoverable, PlanOf, ReconciliationPlan, Shape
  <2> QED BY <2>1, <2>2, <2>3 DEF Follows
<1>8. CASE RecordOldRetained(w)
  <2>1. /\ op[w].pc = "u_old_retained" /\ op'[w].pc = "u_activate"
        /\ journal' = [journal EXCEPT !.phase = "old_retained"] /\ UNCHANGED fs
    BY <1>1, <1>8, StepFields DEF RecordOldRetained, RecordPhase, DbStep, Goto
  <2>2. Shape({"old_retained"}, Untouched)'
    BY <2>1, <1>1, <1>3 DEF JournaledSteps, Follows, Shape, FsState, fs, Journals
  <2>3. Recoverable'
    BY <2>1, <2>2 DEF Recoverable, PlanOf, ReconciliationPlan, Shape, Untouched, Clean
  <2> QED BY <2>1, <2>2, <2>3 DEF Follows
<1>9. CASE RecordNewActive(w)
  <2>1. /\ op[w].pc = "u_new_active" /\ op'[w].pc = "u_commit"
        /\ journal' = [journal EXCEPT !.phase = "new_active"] /\ UNCHANGED fs
    BY <1>1, <1>9, StepFields DEF RecordNewActive, RecordPhase, DbStep, Goto
  <2>2. Shape({"new_active"}, Swapped)'
    BY <2>1, <1>1, <1>3 DEF JournaledSteps, Follows, Shape, FsState, fs, Journals
  <2>3. Recoverable'
    BY <2>1, <2>2 DEF Recoverable, PlanOf, ReconciliationPlan, Shape, Untouched, Clean, Swapped
  <2> QED BY <2>1, <2>2, <2>3 DEF Follows
<1>10. CASE CommitUpdate(w)
  <2>1. op'[w].pc = "t_setup" /\ journal' = NoJournal
    BY <1>1, <1>10, StepFields DEF CommitUpdate, CommitSwitch, Goto
  <2> QED BY <2>1, <1>1, LooseFollows DEF Recoverable, LooseSteps, Steps
<1>11. CASE Stage(w, "u_stage", "u_prepare") \/ PrepareFails(w)
  <2>1. UNCHANGED <<fs, journal>>
    BY <1>11 DEF Stage, PrepareFails, CreateStagedRevision, MarkRevisionFailed
  <2>2. op'[w].pc \in {"u_prepare", "idle"}
    <3>1. CASE Stage(w, "u_stage", "u_prepare")
      <4>1. PICK n \in Unused : op' = [op EXCEPT ![w] = [@ EXCEPT !.pc = "u_prepare", !.new = n]]
        BY <3>1 DEF Stage
      <4> QED BY <4>1, <1>1 DEF MemTypeOK, Operations
    <3>2. CASE PrepareFails(w)
      BY <3>2, <1>1 DEF PrepareFails, ReturnReleasing, MemTypeOK, Idle
    <3> QED BY <1>11, <3>1, <3>2
  <2>3. Recoverable'
    BY <2>1, <1>1 DEF Recoverable, PlanOf, ReconciliationPlan, FsState, fs
  <2> QED BY <2>2, <2>3, <1>1, LooseFollows DEF LooseSteps, Steps, UpdateSteps
<1>12. CASE Unmap(w, "u_unmap", "u_retain")
  <2>1. op[w].pc = "u_unmap" /\ op'[w].pc = "u_retain" /\ UNCHANGED <<fs, journal>>
    BY <1>1, <1>12 DEF Unmap, MemTypeOK, Operations, db
  <2> QED
    BY <2>1, <1>1
    DEF Follows, Shape, Recoverable, PlanOf, ReconciliationPlan, FsState, fs
<1>13. CASE Quiet(w) /\ ~Unmap(w, "u_unmap", "u_retain")
  <2>1. UNCHANGED <<fs, journal>>
    BY <1>13, QuietPlaces DEF places
  <2>2. Recoverable'
    BY <2>1, <1>1 DEF Recoverable, PlanOf, ReconciliationPlan, FsState, fs
  <2>3. op'[w].pc \in LooseSteps
    <3>1. op'[w].pc \in ReadySteps \/ StartUpdate(w)
      BY <1>2, <1>13, QuietSteps
      DEF Unmap, StartUninstall, InstallFails, UninstallFails, InstallSteps,
          UninstallSteps
    <3>2. ASSUME StartUpdate(w) PROVE op'[w].pc = "u_stage"
      <4>1. PICK o \in Current : op' = [op EXCEPT ![w] = [@ EXCEPT !.pc = "u_stage", !.old = o]]
        BY <3>2 DEF StartUpdate
      <4> QED BY <4>1, <1>1 DEF MemTypeOK, Operations
    <3> QED
      BY <3>1, <3>2
      DEF ReadySteps, LooseSteps, Steps, UpdateSteps, InstallSteps,
          UninstallSteps, CleanupSteps, RollbackSteps
  <2> QED BY <2>2, <2>3, <1>1, LooseFollows
<1>14. Moves(w) => \/ Prepare(w, "u_prepare", "u_journal") \/ RetainOld(w) \/ ActivateNew(w)
  BY <1>2
  DEF Moves, Prepare, ActivateInstall, UndoInstall, MoveToTombstone,
      UndoUninstall, RemoveExpiredPackage, InstallSteps, UninstallSteps, CleanupSteps
<1>15. Writes(w) => \/ Stage(w, "u_stage", "u_prepare") \/ PrepareFails(w)
                    \/ WriteJournal(w) \/ RecordOldRetained(w)
                    \/ RecordNewActive(w) \/ CommitUpdate(w)
  BY <1>2
  DEF Writes, Stage, FinishInstall, MarkInstallFailed, FinishUninstall,
      DeleteExpiredRevision, InstallSteps, UninstallSteps, CleanupSteps
<1> QED BY <1>4, <1>5, <1>6, <1>7, <1>8, <1>9, <1>10, <1>11, <1>12, <1>13, <1>14, <1>15

\* The startup sequence reads the shape it finds.
LEMMA StartupShapes ==
  ASSUME IInv, IInv', Shaped, Crash \/ Restart \/ LoadInstalled \/ Reconcile(Boot)
  PROVE  Shaped'
PROOF
<1> USE ActorAssumption DEF At, Actors
<1>1. MemTypeOK /\ Exclusion /\ Recoverable
  BY DEF IInv, TypeOK, Shaped
<1>2. ASSUME UNCHANGED <<fs, journal>> PROVE Recoverable'
  BY <1>1, <1>2 DEF Recoverable, PlanOf, ReconciliationPlan, FsState, fs
<1>3. CASE Crash
  <2>1. UNCHANGED <<fs, journal>> /\ \A a \in Actors : op'[a].pc = "idle"
    BY <1>3 DEF Crash, Idle, db
  <2> QED BY <2>1, <1>2, LooseFollows DEF LooseSteps, Steps, Shaped
<1>4. ASSUME Recoverable', Follows(Boot)', process # "up", \A w \in Workers : op'[w] = op[w]
      PROVE  Shaped'
  <2>1. \A w \in Workers : op'[w].pc = "idle"
    BY <1>1, <1>4 DEF Exclusion
  <2> QED BY <2>1, <1>4, LooseFollows DEF LooseSteps, Steps, Shaped
<1>5. CASE Restart \/ LoadInstalled
  <2>1. UNCHANGED <<fs, journal>> /\ process # "up"
    BY <1>1, <1>5 DEF Restart, LoadInstalled, Exclusion, db
  <2>2. \/ op' = [op EXCEPT ![Boot] = Idle]
        \/ \E step \in {"b_load", "r_plan"} : op' = [op EXCEPT ![Boot].pc = step]
    BY <1>5 DEF Restart, LoadInstalled, Goto
  <2>3. op'[Boot].pc \in {"idle", "b_load", "r_plan"} /\ \A w \in Workers : op'[w] = op[w]
    BY <2>2, <1>1 DEF MemTypeOK, Operations, Idle
  <2> QED
    BY <2>1, <2>3, <1>2, <1>4, LooseFollows DEF LooseSteps, Steps, RollbackSteps
<1>6. CASE Reconcile(Boot)
  <2>1. Recoverable' /\ Follows(Boot)'
    BY <1>6, ReconcileShapes
  <2>2. op[Boot].pc \in RollbackSteps
    BY <1>6
    DEF Reconcile, PlanReconciliation, StageNew, RecordNewStaged, RestoreOld,
        RecordOldActive, FinishRollback, ReconciliationRefused, RollbackSteps
  <2>3. process # "up"
    BY <2>2, <1>1 DEF Exclusion, RollbackSteps
  <2>4. \A w \in Workers : op'[w] = op[w]
    BY <1>6, <1>1
    DEF Reconcile, PlanReconciliation, StageNew, RecordNewStaged, RestoreOld,
        RecordOldActive, FinishRollback, ReconciliationRefused, FsStep,
        DbStep, Goto, MemTypeOK
  <2> QED BY <2>1, <2>3, <2>4, <1>4
<1> QED BY <1>3, <1>5, <1>6

\* The shapes are inductive while agents are only updated and set up.
LEMMA NextShaped ==
  ASSUME Kinds \subseteq {"update", "setup"}, IInv, IInv', Placement, Shaped,
         \A a \in Actors : Allowed(a), [Next]_vars
  PROVE  Shaped'
PROOF
<1>1. ASSUME NEW w \in Workers, Request(w) \/ Continue(w) \/ Fault(w) \/ Reconcile(w)
      PROVE  Shaped'
  <2>1. Contract(w) /\ Allowed(w) /\ Own(w) /\ w # Boot /\ w \in Actors
    BY <1>1, WorkerSteps, ActorAssumption DEF Actors, IInv, Ownership
  <2>2. CASE Reconcile(w)
    <3>1. op[w].pc \in RollbackSteps
      BY <2>2
      DEF Reconcile, PlanReconciliation, StageNew, RecordNewStaged, RestoreOld,
          RecordOldActive, FinishRollback, ReconciliationRefused, At,
          RollbackSteps
    <3>2. lease = w
      BY <2>1, <3>1 DEF Own, LeasedSteps
    <3> QED BY <2>1, <2>2, <3>2, ReconcileShapes, ShapeFrame
  <2>3. CASE Moves(w) \/ Writes(w) \/ Quiet(w)
    BY <2>1, <2>3, SwitchShapes, MovePlaces, WritePlaces, QuietPlaces, ShapeFrame
  <2> QED BY <1>1, <2>2, <2>3, StepKinds
<1>2. CASE UNCHANGED vars
  BY <1>2
  DEF vars, mem, fs, db, Shaped, Recoverable, PlanOf, ReconciliationPlan,
      FsState, Follows, Shape
<1> QED BY <1>1, <1>2, StartupShapes DEF Next, Actors

\* As long as agents are only updated and set up, the directories and the
\* recorded phase form a shape that reconciliation can undo, at every instant
\* of a switch and of its rollback, whoever interrupts it.
THEOREM JournalStaysRecoverable ==
  ASSUME Kinds \subseteq {"update", "setup"} PROVE Spec => []JournalRecoverable
PROOF
<1>1. Init => Shaped
  BY DEF Init, StoreInit, Shaped, Recoverable, Follows, Idle
<1>2. IInv /\ IInv' /\ Placement /\ (\A a \in Actors : Allowed(a)) /\ Shaped /\ [Next]_vars
        => Shaped'
  BY NextShaped
<1>3. IInv /\ Shaped => JournalRecoverable
  BY DEF IInv, Registry, JournalIntact, Shaped, Recoverable, JournalRecoverable
<1> QED BY <1>1, <1>2, <1>3, AllowedInvariant, PTL DEF Spec

-----------------------------------------------------------------------------
(* The abstract switch                                                      *)

\* No switch is under way: what lies at the active path is the package of the
\* current revision.
InSync == journal = NoJournal => active = Registered

\* The registry names the only current revision.
LEMMA RegisteredIs ==
  ASSUME Registry
  PROVE  /\ \A r \in Revs : revState[r] = "current" => Registered = r
         /\ Current = {} => Registered = NoRev
PROOF
  BY DEF Registry, OneCurrentRevision, Registered, Current

\* The same of the next state.
LEMMA RegisteredIsNext ==
  ASSUME Registry'
  PROVE  /\ \A r \in Revs : revState'[r] = "current" => Registered' = r
         /\ Current' = {} => Registered' = NoRev
PROOF
  BY DEF Registry, OneCurrentRevision, Registered, Current

\* An abandoned switch serves the package of the revision it did not replace.
LEMMA ServedIsRegistered ==
  ASSUME IInv, Placement, InSync PROVE Served = Registered
PROOF
<1> USE NoRevAssumption
<1>1. Packages /\ StoreTypeOK /\ Registry
  BY DEF Placement, IInv, TypeOK
<1>2. CASE journal = NoJournal
  BY <1>2 DEF InSync, Served
<1>3. CASE journal # NoJournal
  <2>1. row /\ journal.old \in Revs /\ revState[journal.old] = "current"
    BY <1>1, <1>3
    DEF Packages, StoreTypeOK, Journals, Registry, JournalIntact, JournalRevisionsValid
  <2>2. Registered = journal.old
    BY <1>1, <2>1, RegisteredIs
  <2>3. active = journal.old \/ retained[journal.old] = journal.old
    BY <1>1, <2>1, CurrentPlaced
  <2>4. retained[journal.old] \in {NoRev, journal.old}
    BY <1>1, <2>1 DEF Packages
  <2> QED BY <1>3, <2>2, <2>3, <2>4, <2>1 DEF Served
<1> QED BY <1>2, <1>3

\* The same of the next state.
LEMMA ServedIsRegisteredNext ==
  ASSUME IInv', Placement', InSync' PROVE Served' = Registered'
PROOF
<1> USE NoRevAssumption
<1>1. Packages' /\ StoreTypeOK' /\ Registry'
  BY DEF Placement, IInv, TypeOK
<1>2. CASE journal' = NoJournal
  BY <1>2 DEF InSync, Served
<1>3. CASE journal' # NoJournal
  <2>1. row' /\ journal'.old \in Revs /\ revState'[journal'.old] = "current"
    BY <1>1, <1>3
    DEF Packages, StoreTypeOK, Journals, Registry, JournalIntact, JournalRevisionsValid
  <2>2. Registered' = journal'.old
    BY <1>1, <2>1, RegisteredIsNext
  <2>3. active' = journal'.old \/ retained'[journal'.old] = journal'.old
    BY <1>1, <2>1, <2>2, RegisteredIsNext DEF Packages, InstalledPackageKept, Current
  <2>4. retained'[journal'.old] \in {NoRev, journal'.old}
    BY <1>1, <2>1 DEF Packages
  <2> QED BY <1>3, <2>2, <2>3, <2>4, <2>1 DEF Served
<1> QED BY <1>2, <1>3

\* Only the commit of an update replaces the current revision, and outside a
\* switch nothing else moves the active package.
LEMMA SwitchStep ==
  ASSUME Kinds \subseteq {"update", "setup", "cleanup"}, IInv, IInv', Placement,
         InSync, \A a \in Actors : Allowed(a), [Next]_vars
  PROVE  /\ InSync'
         /\ \/ Registered' = Registered
            \/ \E w \in Workers : CommitUpdate(w) /\ Registered = op[w].old /\ Registered' = op[w].new
PROOF
<1> USE NoRevAssumption, ActorAssumption DEF At
<1>1. Packages /\ StoreTypeOK /\ Registry /\ StoreTypeOK' /\ Registry'
  BY DEF Placement, IInv, TypeOK
<1>2. ASSUME \A r \in Revs : revState'[r] = "current" <=> revState[r] = "current"
      PROVE  Registered' = Registered
  <2>1. Current' = Current
    BY <1>2 DEF Current
  <2> QED BY <2>1 DEF Registered
<1>3. ASSUME active' = active, journal' = journal, Registered' = Registered
      PROVE  InSync'
  BY <1>3 DEF InSync
<1>4. ASSUME UNCHANGED places PROVE InSync' /\ Registered' = Registered
  <2>1. Registered' = Registered
    BY <1>2, <1>4 DEF places
  <2> QED BY <1>3, <1>4, <2>1 DEF places, fs
<1>5. journal # NoJournal =>
        /\ row /\ journal \in Journals /\ journal.old \in Revs /\ journal.new \in Revs
        /\ revState[journal.old] = "current" /\ revState[journal.new] = "staged"
        /\ \A p \in Phases : [journal EXCEPT !.phase = p] # NoJournal
  BY <1>1
  DEF Packages, StoreTypeOK, Journals, NoJournal, Registry, JournalIntact, JournalRevisionsValid
<1>6. ASSUME NEW w \in Workers, Moves(w) PROVE InSync' /\ Registered' = Registered
  <2>1. Own(w) /\ Allowed(w)
    BY DEF IInv, Ownership, Actors
  <2>2. op[w].pc \notin InstallSteps \cup UninstallSteps
    BY <2>1 DEF Allowed
  <2>3. UNCHANGED <<revState, journal>>
    BY <1>6
    DEF Moves, Prepare, RetainOld, ActivateNew, ActivateInstall, UndoInstall,
        MoveToTombstone, UndoUninstall, RemoveExpiredPackage, FsStep, db
  <2>4. Registered' = Registered
    BY <2>3, <1>2
  <2>5. CASE RetainOld(w) \/ ActivateNew(w)
    <3>1. journal # NoJournal
      BY <2>1, <2>5 DEF RetainOld, ActivateNew, Own, JournaledSteps
    <3> QED BY <3>1, <2>3, <2>4 DEF InSync
  <2>6. CASE ~(RetainOld(w) \/ ActivateNew(w))
    <3>1. active' = active
      BY <1>6, <2>2, <2>6
      DEF Moves, Prepare, ActivateInstall, UndoInstall, MoveToTombstone,
          UndoUninstall, RemoveExpiredPackage, RemoveRecordedPackage,
          InstallSteps, UninstallSteps
    <3> QED BY <3>1, <2>3, <2>4, <1>3
  <2> QED BY <2>5, <2>6
<1>7. ASSUME NEW w \in Workers, Writes(w)
      PROVE  /\ InSync'
             /\ \/ Registered' = Registered
                \/ CommitUpdate(w) /\ Registered = op[w].old /\ Registered' = op[w].new
  <2>1. Own(w) /\ Holds(w) /\ Allowed(w)
    BY DEF IInv, Ownership, Placement, Actors
  <2>2. op[w].pc \notin InstallSteps \cup UninstallSteps
    BY <2>1 DEF Allowed
  <2>3. CASE CommitUpdate(w)
    <3>1. /\ op[w].old \in Revs /\ op[w].new \in Revs /\ active = op[w].new
          /\ revState[op[w].old] = "current"
          /\ revState'[op[w].new] = "current" /\ UNCHANGED fs
      BY <2>1, <2>3
      DEF CommitUpdate, CommitSwitch, Own, Holds, UpdateSteps, JournaledSteps
    <3>2. Registered = op[w].old /\ Registered' = op[w].new
      BY <3>1, <1>1, RegisteredIs, RegisteredIsNext
    <3> QED BY <2>3, <3>1, <3>2 DEF InSync, fs
  <2>4. CASE WriteJournal(w) \/ RecordOldRetained(w) \/ RecordNewActive(w)
    <3>1. revState' = revState
      BY <2>4 DEF WriteJournal, RecordOldRetained, RecordNewActive, PersistJournal, RecordPhase
    <3>2. journal' # NoJournal
      <4>1. CASE WriteJournal(w)
        BY <2>1, <4>1 DEF WriteJournal, PersistJournal, Own, UpdateSteps, NoJournal
      <4>2. CASE RecordOldRetained(w) \/ RecordNewActive(w)
        BY <1>5, <4>2 DEF RecordOldRetained, RecordNewActive, RecordPhase, Phases
      <4> QED BY <2>4, <4>1, <4>2
    <3> QED BY <3>1, <3>2, <1>2 DEF InSync
  <2>5. CASE Stage(w, "u_stage", "u_prepare") \/ PrepareFails(w) \/ DeleteExpiredRevision(w)
    <3>1. /\ UNCHANGED <<fs, journal>>
          /\ \/ revState' = revState
             \/ \E r \in Revs, s \in {"staged", "failed", "deleted"} :
                  revState[r] # "current" /\ revState' = [revState EXCEPT ![r] = s]
      BY <2>5, <2>1
      DEF Stage, PrepareFails, DeleteExpiredRevision, CreateStagedRevision,
          MarkRevisionFailed, DeleteRevision, Unused, Own, StagedSteps,
          RemovalSteps, db
    <3>2. Registered' = Registered
      BY <3>1, <1>1, <1>2 DEF StoreTypeOK
    <3> QED BY <3>1, <3>2, <1>3 DEF fs
  <2> QED
    BY <1>7, <2>2, <2>3, <2>4, <2>5
    DEF Writes, Stage, FinishInstall, MarkInstallFailed, FinishUninstall,
        InstallSteps, UninstallSteps
<1>8. ASSUME NEW a \in Actors, Reconcile(a) PROVE InSync' /\ Registered' = Registered
  <2>1. Own(a)
    BY DEF IInv, Ownership
  <2>2. journal # NoJournal
    BY <1>8, <2>1
    DEF Own, RollbackSteps, Reconcile, PlanReconciliation, StageNew,
        RecordNewStaged, RestoreOld, RecordOldActive, FinishRollback,
        ReconciliationRefused
  <2>3. CASE FinishRollback(a)
    <3>1. /\ UNCHANGED fs /\ FsState(journal.old, journal.new) = Clean
          /\ revState' = [revState EXCEPT ![journal.new] = "failed"]
      BY <2>3 DEF FinishRollback, CommitRollback
    <3>2. Registered' = Registered
      BY <3>1, <2>2, <1>1, <1>2, <1>5 DEF StoreTypeOK
    <3>3. active = journal.old
      BY <3>1, <2>2, <1>1, <1>5, CurrentPlaced DEF FsState, Clean
    <3>4. Registered = journal.old
      BY <2>2, <1>1, <1>5, RegisteredIs
    <3> QED BY <3>1, <3>2, <3>3, <3>4 DEF InSync, fs
  <2>4. CASE ~FinishRollback(a)
    <3>1. /\ revState' = revState
          /\ \/ journal' = journal
             \/ \E p \in Phases : journal' = [journal EXCEPT !.phase = p]
      BY <1>8, <2>4
      DEF Reconcile, PlanReconciliation, StageNew, RecordNewStaged,
          RestoreOld, RecordOldActive, ReconciliationRefused, FsStep, DbStep,
          RecordPhase, Phases, db
    <3> QED BY <3>1, <2>2, <1>2, <1>5 DEF InSync
  <2> QED BY <2>3, <2>4
<1>9. CASE Crash \/ Restart
  BY <1>4, <1>9 DEF Crash, Restart, places, db
<1>10. CASE LoadInstalled
  <2>1. Current = {} => active = NoRev
    <3>1. Current = {} => journal = NoJournal
      BY <1>5 DEF Current
    <3> QED BY <3>1, <1>1, RegisteredIs DEF InSync
  <2>2. UNCHANGED places
    BY <1>10, <2>1 DEF LoadInstalled, BootstrapRevision, places
  <2> QED BY <2>2, <1>4
<1>11. CASE UNCHANGED vars
  BY <1>4, <1>11 DEF vars, places, db
<1>12. ASSUME NEW w \in Workers, Quiet(w) PROVE InSync' /\ Registered' = Registered
  BY <1>4, <1>12, QuietPlaces
<1> QED
  BY <1>6, <1>7, <1>8, <1>9, <1>10, <1>11, <1>12, StepKinds DEF Next

\* Updates, setups and cleanups replace the package that the agent runs and
\* the revision that the registry calls current in one step, in spite of two
\* renames, three journal writes, failures and crashes.
THEOREM SwitchImplemented ==
  ASSUME Kinds \subseteq {"update", "setup", "cleanup"}
  PROVE  Spec => ImplementsSwitch
PROOF
<1>1. Init => InSync /\ Switch!Init
  <2>1. ASSUME Init PROVE InSync /\ Switch!Init
    <3>1. PICK r \in Revs \cup {NoRev} : StoreInit(r)
      BY <2>1 DEF Init
    <3>2. Registered = r
      <4>1. CASE r = NoRev
        BY <3>1, <4>1, NoRevAssumption DEF StoreInit, Registered, Current
      <4>2. CASE r # NoRev
        <5>1. Current = {r}
          BY <3>1, <4>2 DEF StoreInit, Current
        <5> QED BY <5>1 DEF Registered
      <4> QED BY <4>1, <4>2
    <3>3. active = r /\ Served = r
      BY <3>1 DEF StoreInit, Served
    <3> QED BY <3>2, <3>3 DEF InSync, Switch!Init
  <2> QED BY <2>1
<1>2. IInv /\ IInv' /\ Placement /\ (\A a \in Actors : Allowed(a)) /\ InSync /\ [Next]_vars
        => InSync'
  BY SwitchStep
<1>3. /\ IInv /\ IInv' /\ Placement /\ Placement' /\ (\A a \in Actors : Allowed(a))
      /\ InSync /\ InSync' /\ [Next]_vars
      => [Switch!Switch]_<<Served, Registered>>
  <2> SUFFICES ASSUME IInv, IInv', Placement, Placement', \A a \in Actors : Allowed(a),
                      InSync, InSync', [Next]_vars
               PROVE  [Switch!Switch]_<<Served, Registered>>
    OBVIOUS
  <2>1. Served = Registered /\ Served' = Registered'
    BY ServedIsRegistered, ServedIsRegisteredNext
  <2>2. CASE Registered' = Registered
    BY <2>1, <2>2
  <2>3. ASSUME NEW w \in Workers, CommitUpdate(w), Registered = op[w].old, Registered' = op[w].new
        PROVE  Switch!Switch
    <3>1. /\ op[w].old \in Revs /\ op[w].new \in Revs
          /\ revState[op[w].old] = "current" /\ revState[op[w].new] = "staged"
      BY <2>3, ActorAssumption
      DEF IInv, Ownership, Own, Actors, At, CommitUpdate, CommitSwitch,
          UpdateSteps, JournaledSteps
    <3>2. op[w].old # NoRev /\ op[w].new \in Revs \ {op[w].old}
      BY <3>1, NoRevAssumption
    <3> QED BY <2>1, <2>3, <3>2 DEF Switch!Switch
  <2> QED BY <2>2, <2>3, SwitchStep
<1> QED
  BY <1>1, <1>2, <1>3, AllowedInvariant, PTL DEF Spec, ImplementsSwitch, Switch!Spec
=============================================================================
