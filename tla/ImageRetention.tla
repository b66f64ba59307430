---------------------------- MODULE ImageRetention ----------------------------
(***************************************************************************)
(* Managed Docker images (services/docker_storage.rs): the images recorded *)
(* for package revisions and for Selu's own services, the preview and the  *)
(* cleanup that removes what nothing needs, and the users of images that   *)
(* run at the same time: deployments of a package (agents/marketplace.rs), *)
(* capability containers (capabilities/runner.rs), the updater sidecar,    *)
(* and whoever uses Docker on the same machine.                            *)
(*                                                                         *)
(* One agent whose package names one image by a tag; the image a tag means *)
(* changes in the registry.  Revisions, rows and references are tables.    *)
(* PackageActivation has the deployments in detail; the days of the code   *)
(* are ticks of the clock here.                                            *)
(***************************************************************************)
EXTENDS Naturals

CONSTANTS
  AgentImages, SystemImages,
  Revisions,
  Starters,      \* invocations that start a container
  Grace,         \* ticks before a staged, failed or untracked image may go (7 days)
  Retention,     \* ticks a previous or uninstalled revision is kept (30, 14 days)
  MaxTime, MaxFaults

NamesAssumption == "none" \notin AgentImages \cup SystemImages
TimesAssumption == Grace \in Nat /\ Retention \in Nat

VARIABLES
  now,
  tag,           \* the image that the tag means in the registry
  local,         \* the image that the tag means in Docker, or None
  docker,        \* images present in Docker
  aliased,       \* images that have a tag of another repository
  rows,          \* managed_docker_images: first_seen_at, or 0
  revision,      \* agent_package_revisions
  refs,          \* managed_docker_image_refs: revision and image
  sysrefs,       \* managed_docker_system_refs: image, state, deadline
  system,        \* the sidecar: images in use, and an update under way
  containers,    \* containers of the agent's capability, and their images
  ready,         \* docker_storage_state.bootstrap_status
  excl,          \* who holds the maintenance lease exclusively, or None
  starter,       \* invocations; one that has begun holds the lease, shared
  deploy, cleanup, review, faults

registry == <<tag, local, aliased>>
tables == <<rows, revision, refs, sysrefs>>
lease == <<excl, starter>>
vars == <<now, registry, docker, tables, system, containers, ready, lease,
          deploy, cleanup, review, faults>>

None == "none"
Forever == 99
Images == AgentImages \cup SystemImages
Current(r) == revision[r].state = "current"
Free == excl = None /\ \A s \in Starters : starter[s] = [pc |-> "idle"]
Enter(who) == Free /\ excl' = who
Leave == excl' = None

Init ==
  /\ now = 1 /\ faults = 0
  /\ tag \in AgentImages
  /\ system \in [current : SystemImages, previous : {None}, until : {0}, updating : {FALSE}]
  /\ revision = [r \in Revisions |-> [state |-> "none", until |-> 0]]
  \* A package installed before images were tracked has no revision yet.
  /\ local \in {None, tag}
  /\ docker = {system.current} \cup ({local} \ {None})
  /\ rows = [i \in Images |-> 0]
  /\ refs = {} /\ sysrefs = {} /\ aliased = {} /\ containers = {}
  /\ ready = (local = None)
  /\ excl = None /\ starter = [s \in Starters |-> [pc |-> "idle"]]
  /\ deploy = [pc |-> "idle"] /\ cleanup = [pc |-> "idle"] /\ review = {}

-----------------------------------------------------------------------------
(* Recording an image, and the deployments that do it                       *)

Seen(i) == rows' = [rows EXCEPT ![i] = IF @ = 0 THEN now ELSE @]
SetState(r, state, until) == revision' = [revision EXCEPT ![r] = [state |-> state, until |-> until]]

\* Another image under the same tag is displaced to a failed revision.
Record(r, i) ==
  LET displaced == {p \in refs : p[1] = r /\ p[2] # i} IN
  /\ Seen(i)
  /\ IF displaced = {}
     THEN refs' = refs \cup {<<r, i>>} /\ UNCHANGED revision
     ELSE /\ ~Current(r)
          /\ \E q \in Revisions :
               /\ revision[q].state = "none"
               /\ SetState(q, "failed", now + Grace)
               /\ refs' = (refs \ displaced) \cup {<<r, i>>} \cup {<<q, p[2]>> : p \in displaced}

Deploying(pc) ==
  /\ deploy.pc = pc
  /\ UNCHANGED <<now, tag, aliased, sysrefs, system, containers, ready, starter,
                 cleanup, review, faults>>

Stage(r) ==
  /\ Deploying("idle")
  /\ Enter("deploy")
  /\ revision[r].state = "none"
  /\ SetState(r, "staged", now + Grace)
  /\ deploy' = [pc |-> "pull", id |-> r]
  /\ UNCHANGED <<local, docker, rows, refs>>

\* Once for every capability that names the tag.
Pull ==
  /\ Deploying("pull")
  /\ local' = tag /\ docker' = docker \cup {tag}
  /\ deploy' = [deploy EXCEPT !.pc = "record"]
  /\ UNCHANGED <<rows, revision, refs, excl>>

RecordPulled ==
  /\ Deploying("record")
  /\ local # None
  /\ Record(deploy.id, local)
  /\ \E pc \in {"pull", "activate"} : deploy' = [deploy EXCEPT !.pc = pc]
  /\ UNCHANGED <<local, docker, excl>>

\* What was current is kept as the previous revision; what was previous is given up.
Activate ==
  /\ Deploying("activate")
  /\ revision' = [r \in Revisions |->
        CASE r = deploy.id -> [state |-> "current", until |-> Forever]
          [] Current(r) -> [state |-> "previous", until |-> now + Retention]
          [] revision[r].state = "previous" -> [state |-> "failed", until |-> now + Grace]
          [] OTHER -> revision[r]]
  /\ Leave /\ deploy' = [pc |-> "idle"]
  /\ UNCHANGED <<local, docker, rows, refs>>

MarkFailed ==
  /\ Deploying("pull") \/ Deploying("record") \/ Deploying("activate")
  /\ SetState(deploy.id, "failed", now + Grace)
  /\ Leave /\ deploy' = [pc |-> "idle"]
  /\ UNCHANGED <<local, docker, rows, refs>>

Uninstall(r) ==
  /\ Deploying("idle")
  /\ Free /\ UNCHANGED excl
  /\ Current(r)
  /\ SetState(r, "uninstalled", now + Retention)
  /\ UNCHANGED <<deploy, local, docker, rows, refs>>

-----------------------------------------------------------------------------
(* Capability containers                                                    *)

Running(s, pc) ==
  /\ starter[s].pc = pc
  /\ UNCHANGED <<now, tag, local, aliased, tables, system, ready, excl, deploy,
                 cleanup, review, faults>>

Pin(r) == {i \in Images : <<r, i>> \in refs}

\* With the shared lease: the manifest must be the current revision's still.
BeginStart(s, r) ==
  /\ Running(s, "idle")
  /\ excl = None
  /\ Current(r)
  /\ \E i \in Images : /\ Pin(r) = {i}
                      /\ starter' = [starter EXCEPT ![s] = [pc |-> "ensure", image |-> i]]
  /\ UNCHANGED <<docker, containers>>

\* A missing pin is pulled by its digest, never by the tag; it may fail.
EnsureImage(s) ==
  /\ Running(s, "ensure")
  /\ \/ docker' = docker \cup {starter[s].image}
        /\ starter' = [starter EXCEPT ![s].pc = "create"]
     \/ starter[s].image \notin docker
        /\ starter' = [starter EXCEPT ![s] = [pc |-> "idle"]] /\ UNCHANGED docker
  /\ UNCHANGED containers

\* The container is created from the image's id.
CreateContainer(s) ==
  /\ Running(s, "create")
  /\ containers' = IF starter[s].image \in docker
                   THEN containers \cup {starter[s].image} ELSE containers
  /\ starter' = [starter EXCEPT ![s] = [pc |-> "idle"]]
  /\ UNCHANGED docker

StopContainer(i) ==
  /\ i \in containers
  /\ containers' = containers \ {i}
  /\ UNCHANGED <<now, registry, docker, tables, system, ready, lease, deploy, cleanup,
                 review, faults>>

-----------------------------------------------------------------------------
(* The updater, other users of Docker, and the passage of time              *)

Outside(newFaults) ==
  /\ faults' = faults + newFaults /\ faults' <= MaxFaults
  /\ UNCHANGED <<tables, containers, ready, lease, deploy, review>>

\* The update is requested under the shared lease; the lease ends before it.
BeginUpdate ==
  /\ excl = None
  /\ ~system.updating
  /\ system' = [system EXCEPT !.updating = TRUE]
  /\ Outside(1)
  /\ UNCHANGED <<now, registry, docker, cleanup>>

FinishUpdate(i) ==
  /\ system.updating
  /\ system' = IF i = system.current THEN [system EXCEPT !.updating = FALSE]
               ELSE [current |-> i, previous |-> system.current,
                     until |-> now + Retention, updating |-> FALSE]
  /\ docker' = docker \cup {i}
  /\ Outside(0)
  /\ UNCHANGED <<now, registry, cleanup>>

MoveTag(i) ==
  /\ tag' = i /\ tag # i
  /\ Outside(1)
  /\ UNCHANGED <<now, local, aliased, docker, system, cleanup>>

\* A cleanup that has just checked the tags of this image does not know.
AddAlias(i) ==
  /\ i \in docker \ aliased
  /\ aliased' = aliased \cup {i}
  /\ cleanup' = IF cleanup.pc = "delete" /\ cleanup.gone = i
                THEN [cleanup EXCEPT !.late = TRUE] ELSE cleanup
  /\ Outside(1)
  /\ UNCHANGED <<now, tag, local, docker, system>>

Prune(i) ==
  /\ i \in docker \ (containers \cup {system.current})
  /\ docker' = docker \ {i}
  /\ local' = IF local = i THEN None ELSE local
  /\ Outside(1)
  /\ UNCHANGED <<now, tag, aliased, system, cleanup>>

Tick ==
  /\ now < MaxTime /\ now' = now + 1
  /\ Outside(0)
  /\ UNCHANGED <<registry, docker, system, cleanup>>

-----------------------------------------------------------------------------
(* Preview and cleanup                                                      *)

\* Only images of the managed repositories alone are taken over.
Inventory == {i \in SystemImages : i \in docker \ aliased}
Protected == {system.current} \cup (IF system.previous = None THEN {} ELSE {system.previous})

\* The sidecar's account is fresh and whole, and no job runs.
ValidMetadata == ~system.updating

\* Each image that the account protects must be in the inventory; what it no
\* longer protects is superseded.
Sync ==
  /\ ValidMetadata
  /\ Protected \subseteq Inventory
  /\ rows' = [i \in Images |-> IF i \in Inventory /\ rows[i] = 0 THEN now ELSE rows[i]]
  /\ sysrefs' =
       {[image |-> system.current, state |-> "current", until |-> Forever]}
       \cup (IF system.previous = None THEN {}
             ELSE {[image |-> system.previous, state |-> "previous", until |-> system.until]})
       \cup {IF s.state = "superseded" THEN s
             ELSE [image |-> s.image, state |-> "superseded", until |-> now + Grace] :
             s \in {t \in sysrefs : t.image \notin Protected}}

RefsOf(i, sys) ==
  {revision[p[1]] : p \in {q \in refs : q[2] = i}}
  \cup {[state |-> s.state, until |-> s.until] : s \in {t \in sys : t.image = i}}

Reclaimable(i, used, seen, sys) ==
  /\ seen[i] # 0 /\ i \notin used
  /\ IF RefsOf(i, sys) = {} THEN seen[i] + Grace <= now
     ELSE \A r \in RefsOf(i, sys) : r.state # "current" /\ r.until <= now

Used == containers \cup {system.current}
Quiet == UNCHANGED <<now, registry, system, containers, starter, deploy, faults>>

Preview ==
  /\ Free /\ UNCHANGED excl
  /\ ready
  /\ Sync
  /\ review' = {i \in Images : Reclaimable(i, Used, rows', sysrefs')}
  /\ Quiet
  /\ UNCHANGED <<docker, revision, refs, ready, cleanup>>

\* By hand, with the images the admin has reviewed, or once a day.
BeginCleanup ==
  /\ Enter("cleanup")
  /\ ready
  /\ \E manual \in BOOLEAN :
        cleanup' = [pc |-> "metadata", manual |-> manual, confirmed |-> review]
  /\ Quiet
  /\ UNCHANGED <<docker, tables, ready, review>>

Cleaning(pc) == cleanup.pc = pc /\ Quiet /\ UNCHANGED <<ready, review>>
EndCleanup == Leave /\ cleanup' = [pc |-> "idle"]

\* Mutant: an update under way does not stop the cleanup.
RefreshAnyway ==
  /\ Cleaning("metadata")
  /\ rows' = [i \in Images |-> IF i \in Inventory /\ rows[i] = 0 THEN now ELSE rows[i]]
  /\ cleanup' = [cleanup EXCEPT !.pc = "expire"]
  /\ UNCHANGED <<docker, revision, refs, sysrefs, excl>>

Refresh ==
  /\ Cleaning("metadata")
  /\ Sync
  /\ cleanup' = [cleanup EXCEPT !.pc = "expire"]
  /\ UNCHANGED <<docker, revision, refs, excl>>

\* Metadata that is missing, stale or inconsistent; no list of containers.
Blocked ==
  /\ Cleaning("metadata") \/ Cleaning("decide")
  /\ EndCleanup
  /\ UNCHANGED <<docker, tables>>

Expired == {r \in Revisions : revision[r].state \notin {"none", "current"} /\ revision[r].until <= now}

\* A package that cannot be removed keeps its revision.
ExpirePackages ==
  /\ Cleaning("expire")
  /\ \E gone \in SUBSET Expired :
        /\ revision' = [r \in Revisions |->
              IF r \in gone THEN [state |-> "none", until |-> 0] ELSE revision[r]]
        /\ refs' = {p \in refs : p[1] \notin gone}
  /\ cleanup' = [cleanup EXCEPT !.pc = "decide"]
  /\ UNCHANGED <<docker, rows, sysrefs, excl>>

\* Nothing is removed that the admin has not seen in the preview.
Decide ==
  LET todo == {i \in Images : Reclaimable(i, Used, rows, sysrefs)} IN
  /\ Cleaning("decide")
  /\ IF cleanup.manual /\ todo # cleanup.confirmed
     THEN EndCleanup
     ELSE cleanup' = [pc |-> "remove", todo |-> todo] /\ UNCHANGED excl
  /\ UNCHANGED <<docker, tables>>

\* The repositories of each image are checked again before it goes.
CheckImage(i) ==
  /\ Cleaning("remove")
  /\ i \in cleanup.todo
  /\ cleanup' = IF i \in aliased THEN [cleanup EXCEPT !.todo = @ \ {i}]
                ELSE [pc |-> "delete", todo |-> cleanup.todo, gone |-> i, late |-> FALSE]
  /\ UNCHANGED <<docker, tables, excl>>

\* Without force: Docker refuses an image that a container uses, and one with the tags of
\* two repositories.
RemoveImage ==
  LET i == cleanup.gone IN
  /\ Cleaning("delete")
  /\ \/ /\ i \in aliased \cup Used
        /\ cleanup' = [pc |-> "remove", todo |-> cleanup.todo \ {i}]
        /\ UNCHANGED docker
     \/ /\ i \notin Used /\ ~(i \in aliased /\ local = i)
        /\ cleanup' = [pc |-> "forget", todo |-> cleanup.todo, gone |-> i]
        /\ docker' = docker \ {i}
  /\ UNCHANGED <<tables, excl>>

\* The references of the row go with it.
ForgetImage ==
  LET i == cleanup.gone IN
  /\ Cleaning("forget")
  /\ rows' = [rows EXCEPT ![i] = 0]
  /\ refs' = {p \in refs : p[2] # i}
  /\ sysrefs' = {s \in sysrefs : s.image # i}
  /\ cleanup' = [pc |-> "remove", todo |-> cleanup.todo \ {i}]
  /\ UNCHANGED <<docker, revision, excl>>

FinishCleanup ==
  /\ Cleaning("remove")
  /\ cleanup.todo = {}
  /\ EndCleanup
  /\ UNCHANGED <<docker, tables>>

-----------------------------------------------------------------------------
(* Startup                                                                  *)

\* An installed package without a revision gets one, with the image that its
\* tag means in Docker, unless the revision has a record already.
Adopt(r) ==
  /\ excl = "bootstrap"
  /\ local # None
  /\ Seen(local)
  /\ IF \E q \in Revisions : Current(q)
     THEN /\ Current(r) /\ Pin(r) = {}
          /\ UNCHANGED revision
     ELSE /\ revision[r].state = "none"
          /\ SetState(r, "current", Forever)
  /\ refs' = refs \cup {<<r, local>>}

\* Old containers are removed; the lease, the handlers and the review go.
Restart ==
  /\ faults < MaxFaults /\ faults' = faults + 1
  /\ containers' = {} /\ ready' = FALSE /\ review' = {}
  /\ excl' = "bootstrap" /\ starter' = [s \in Starters |-> [pc |-> "idle"]]
  /\ deploy' = [pc |-> "idle"] /\ cleanup' = [pc |-> "idle"]
  /\ UNCHANGED <<now, registry, docker, tables, system>>

\* A package that cannot be read leaves the cleanup blocked.
Bootstrap ==
  /\ excl = "bootstrap" \/ (~ready /\ excl = None)
  /\ \/ \E r \in Revisions : Adopt(r) /\ ready' = TRUE
     \/ ready' \in BOOLEAN /\ UNCHANGED <<rows, revision, refs>>
  /\ excl' = None
  /\ UNCHANGED <<now, registry, docker, sysrefs, system, containers, starter, deploy,
                 cleanup, review, faults>>

Next ==
  \/ \E r \in Revisions : Stage(r) \/ Uninstall(r)
  \/ Pull \/ RecordPulled \/ Activate \/ MarkFailed
  \/ \E s \in Starters :
        \/ \E r \in Revisions : BeginStart(s, r)
        \/ EnsureImage(s) \/ CreateContainer(s)
  \/ \E i \in AgentImages : StopContainer(i) \/ MoveTag(i)
  \/ BeginUpdate \/ Tick
  \/ \E i \in SystemImages : FinishUpdate(i)
  \/ \E i \in Images : AddAlias(i) \/ Prune(i) \/ CheckImage(i)
  \/ Preview \/ BeginCleanup \/ Refresh \/ Blocked \/ ExpirePackages \/ Decide
  \/ RemoveImage \/ ForgetImage \/ FinishCleanup
  \/ Restart \/ Bootstrap

Spec == Init /\ [][Next]_vars

-----------------------------------------------------------------------------
(* Properties                                                               *)

InRetention(i) ==
  \E r \in Revisions : <<r, i>> \in refs
                       /\ (Current(r) \/ revision[r].until > now)

(* A cleanup never removes an image from Docker that at that moment a       *)
(* container uses, that the current revision or one in its retention time   *)
(* names, that the sidecar needs to go back, or that carries a tag of some  *)
(* other repository, unless the tag was added after the last check; by      *)
(* whatever path the candidates were found before.                          *)
CleanupSpares ==
  excl = "cleanup" /\ cleanup' # cleanup =>
    \A i \in docker \ docker' :
       /\ i \notin containers /\ ~InRetention(i)
       /\ i \in aliased => cleanup.late
       /\ i # system.current /\ (i = system.previous => system.until <= now)

(* A container starts from the image recorded for the revision that is      *)
(* current at that moment, and from no other, even if the tag has moved,    *)
(* the image had to be restored, or a deployment began in between.          *)
StartsThePinned ==
  \A i \in containers' \ containers :
    \E r \in Revisions : Current(r) /\ Pin(r) = {i}

(* Deployments, starts, cleanups and updates of the system overlap, and     *)
(* still every step is both.                                                *)
ImagesInUseKept == [][CleanupSpares /\ StartsThePinned]_vars
=============================================================================
