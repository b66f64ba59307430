--------------------------- MODULE CapabilityPool ---------------------------
(* The pool of capability containers (capabilities/mod.rs CapabilityEngine and
   capabilities/runner.rs). A tool call finds or starts the container of its
   key: one per session and capability, or one for every session when the
   capability is shared. Calls of a shared capability take a permit of a
   semaphore first, and a reaper stops shared containers that nobody used for
   a while. A container is started before it is entered in the map, with no
   lock held, so two calls may start one each.

   Semaphores have generations: the reaper drops one that calls may still hold
   permits of. A container's name is reused only when nothing refers to it.

   To stop a container is to take its policy from the proxy and then to ask
   Docker to remove it. A refusal is logged and nothing else: the container
   runs on, and nothing of the process knows it any more.                   *)
EXTENDS Naturals, FiniteSets

CONSTANTS Callers,        \* tasks that run a tool call
          Sessions,       \* chat sessions
          SharedCaps,     \* capabilities whose manifest says sharing: shared
          PrivateCaps,    \* the others
          Containers,     \* bound on the containers that exist at a time
          MaxConcurrent,  \* max_concurrent of a shared capability
          MaxSemaphores,  \* bound on the semaphores ever created
          MaxFaults       \* bound on deaths, failed starts, refused removals, stops of the process

VARIABLES call,      \* where each task is, and what it holds
          active,    \* the map: key -> container
          running,   \* the containers Docker runs
          registry,  \* the containers with a policy in the egress proxy
          sems,      \* shared capability -> generation of its semaphore, 0 if none
          created,   \* semaphores created so far
          lastUsed,  \* shared_last_invoked: "never", "recent", or "idle" past the timeout
          reaper,    \* the idle reaper: what it decided to close
          stopping,  \* containers without a policy whose removal is awaited under the map's lock
          lost,      \* history: running containers that the process forgot
          up,        \* the process runs
          faults

vars == <<call, active, running, registry, sems, created, lastUsed, reaper, stopping, lost, up, faults>>

None == "none"

\* No container is called like the absence of one.
ASSUME PoolAssumption == None \notin Containers

Caps == SharedCaps \cup PrivateCaps
Keys == [of : {"shared"}, cap : SharedCaps] \cup [of : Sessions, cap : PrivateCaps]
KeyOf(cap, s) == IF cap \in SharedCaps THEN [of |-> "shared", cap |-> cap] ELSE [of |-> s, cap |-> cap]

Idle == [pc |-> "idle"]
Working(key, kind) == [pc |-> "look", key |-> key, kind |-> kind, box |-> None, sem |-> 0, permit |-> FALSE, retried |-> FALSE]
At(c, pc) == up /\ call[c].pc = pc
Goes(c, pc) == call' = [call EXCEPT ![c].pc = pc]
Ends(c) == call' = [call EXCEPT ![c] = Idle]

Shared(c) == call[c].key.cap \in SharedCaps
Holding(cap, g) == {c \in Callers : call[c].pc # "idle" /\ call[c].key.cap = cap /\ call[c].permit /\ call[c].sem = g}
Boxes == {call[c].box : c \in {d \in Callers : call[d].pc # "idle"}} \cup {active[k] : k \in Keys} \cup running \cup registry
Fresh == Containers \ Boxes

AtRest == [pc |-> "rest", close |-> {}, left |-> {}]

Init == /\ call = [c \in Callers |-> Idle]
        /\ active = [k \in Keys |-> None]
        /\ running = {} /\ registry = {} /\ stopping = {} /\ lost = {}
        /\ sems = [cap \in SharedCaps |-> 0] /\ created = 0
        /\ lastUsed = [cap \in SharedCaps |-> "never"]
        /\ reaper = AtRest
        /\ up = TRUE /\ faults = 0

Fault == faults < MaxFaults /\ faults' = faults + 1

(* Whoever takes a container out of the map, or does not put his own there,
   stops it under the write lock of the map: its policy goes, and the lock is
   kept until Docker has answered. Nobody looks at the map meanwhile.       *)
Unlocked == stopping = {}
Stop(boxes) == Unlocked /\ registry' = registry \ boxes /\ stopping' = boxes \cap running

RemoveContainer(box) ==
  /\ up /\ box \in stopping
  /\ stopping' = stopping \ {box} /\ running' = running \ {box}
  /\ UNCHANGED <<call, active, registry, sems, created, lastUsed, reaper, lost, up, faults>>

RemovalRefused(box) ==
  /\ up /\ box \in stopping /\ Fault
  /\ stopping' = stopping \ {box} /\ lost' = lost \cup {box}
  /\ UNCHANGED <<call, active, running, registry, sems, created, lastUsed, reaper, up>>

-----------------------------------------------------------------------------
(* A call. Tools of a shared capability queue for a permit; transfers of
   artifacts go to the container without one.                               *)
BeginTool(c, cap, s) ==
  /\ At(c, "idle")
  /\ call' = [call EXCEPT ![c] = [Working(KeyOf(cap, s), "tool") EXCEPT !.pc = IF cap \in SharedCaps THEN "queue" ELSE "look"]]
  /\ UNCHANGED <<active, running, registry, sems, created, lastUsed, reaper, stopping, lost, up, faults>>

UploadArtifact(c, cap, s) ==
  /\ At(c, "idle") /\ call' = [call EXCEPT ![c] = Working(KeyOf(cap, s), "transfer")]
  /\ UNCHANGED <<active, running, registry, sems, created, lastUsed, reaper, stopping, lost, up, faults>>

DownloadArtifact(c, cap, s) ==
  /\ At(c, "idle") /\ call' = [call EXCEPT ![c] = Working(KeyOf(cap, s), "transfer")]
  /\ UNCHANGED <<active, running, registry, sems, created, lastUsed, reaper, stopping, lost, up, faults>>

GetSemaphore(c) ==
  /\ At(c, "queue")
  /\ LET cap == call[c].key.cap
         g == IF sems[cap] = 0 THEN created + 1 ELSE sems[cap]
     IN /\ g <= MaxSemaphores
        /\ sems' = [sems EXCEPT ![cap] = g]
        /\ created' = IF g > created THEN g ELSE created
        /\ call' = [call EXCEPT ![c].pc = "acquire", ![c].sem = g]
  /\ UNCHANGED <<active, running, registry, lastUsed, reaper, stopping, lost, up, faults>>

Acquire(c) ==
  /\ At(c, "acquire")
  /\ Cardinality(Holding(call[c].key.cap, call[c].sem)) < MaxConcurrent
  /\ call' = [call EXCEPT ![c].pc = "mark", ![c].permit = TRUE]
  /\ UNCHANGED <<active, running, registry, sems, created, lastUsed, reaper, stopping, lost, up, faults>>

AcquireTimesOut(c) ==
  /\ At(c, "acquire") /\ Ends(c)
  /\ UNCHANGED <<active, running, registry, sems, created, lastUsed, reaper, stopping, lost, up, faults>>

MarkInvoked(c) ==
  /\ At(c, "mark") /\ Goes(c, "look")
  /\ lastUsed' = [lastUsed EXCEPT ![call[c].key.cap] = "recent"]
  /\ UNCHANGED <<active, running, registry, sems, created, reaper, stopping, lost, up, faults>>

(* get_or_start: the map is read, the lock dropped. *)
Look(c) ==
  /\ At(c, "look") /\ Unlocked
  /\ LET box == active[call[c].key] IN
       call' = IF box # None THEN [call EXCEPT ![c].pc = "reuse", ![c].box = box]
                             ELSE [call EXCEPT ![c].pc = "start"]
  /\ UNCHANGED <<active, running, registry, sems, created, lastUsed, reaper, stopping, lost, up, faults>>

UpdatePolicy(c) ==
  /\ At(c, "reuse") /\ Goes(c, "call")
  /\ registry' = registry \cup {call[c].box}
  /\ UNCHANGED <<active, running, sems, created, lastUsed, reaper, stopping, lost, up, faults>>

StartContainer(c) ==
  /\ At(c, "start")
  /\ \E box \in Fresh : /\ running' = running \cup {box}
                        /\ call' = [call EXCEPT ![c].pc = "register", ![c].box = box]
  /\ UNCHANGED <<active, registry, sems, created, lastUsed, reaper, stopping, lost, up, faults>>

(* No pinned image, or Docker refuses. *)
StartRefused(c) ==
  /\ At(c, "start") /\ Fault /\ Ends(c)
  /\ UNCHANGED <<active, running, registry, sems, created, lastUsed, reaper, stopping, lost, up>>

Register(c) ==
  /\ At(c, "register") /\ Goes(c, "ready")
  /\ registry' = registry \cup {call[c].box}
  /\ UNCHANGED <<active, running, sems, created, lastUsed, reaper, stopping, lost, up, faults>>

BecomesReady(c) ==
  /\ At(c, "ready") /\ call[c].box \in running /\ Goes(c, "connect")
  /\ UNCHANGED <<active, running, registry, sems, created, lastUsed, reaper, stopping, lost, up, faults>>

(* Not to be inspected, dead or never ready: the start undoes itself, without a lock. *)
NeverReady(c) ==
  /\ up /\ call[c].pc \in {"register", "ready"} /\ Goes(c, "undo")
  /\ IF call[c].box \in running THEN Fault ELSE UNCHANGED faults
  /\ registry' = registry \ {call[c].box}
  /\ UNCHANGED <<active, running, sems, created, lastUsed, reaper, stopping, lost, up>>

(* Docker may refuse this removal too, as part of the fault that led here. *)
UndoStart(c) ==
  /\ At(c, "undo") /\ Ends(c)
  /\ \/ running' = running \ {call[c].box} /\ UNCHANGED lost
     \/ call[c].box \in running /\ lost' = lost \cup {call[c].box} /\ UNCHANGED running
  /\ UNCHANGED <<active, registry, sems, created, lastUsed, reaper, stopping, up, faults>>

Connect(c) ==
  /\ At(c, "connect") /\ call[c].box \in running /\ Goes(c, "publish")
  /\ UNCHANGED <<active, running, registry, sems, created, lastUsed, reaper, stopping, lost, up, faults>>

(* The error is returned as it is: nothing stops the container. *)
ConnectFails(c) ==
  /\ At(c, "connect") /\ Ends(c)
  /\ IF call[c].box \in running THEN Fault ELSE UNCHANGED faults
  /\ lost' = lost \cup ({call[c].box} \cap running)
  /\ UNCHANGED <<active, running, registry, sems, created, lastUsed, reaper, stopping, up>>

\* Mutant: the entry of the other task is replaced by ours.
PublishOver(c) ==
  /\ At(c, "publish") /\ Unlocked /\ Goes(c, "call")
  /\ active' = [active EXCEPT ![call[c].key] = call[c].box]
  /\ UNCHANGED <<running, registry, sems, created, lastUsed, reaper, stopping, lost, up, faults>>

(* Another task may have started the same container meanwhile: ours is
   stopped and theirs is used.                                              *)
Publish(c) ==
  LET key == call[c].key
      mine == call[c].box
      other == active[key]
  IN /\ At(c, "publish")
     /\ IF other # None
        THEN /\ Stop({mine}) /\ UNCHANGED active
             /\ call' = [call EXCEPT ![c].pc = "call", ![c].box = other]
        ELSE /\ Unlocked /\ active' = [active EXCEPT ![key] = mine] /\ Goes(c, "call")
             /\ UNCHANGED <<registry, stopping>>
     /\ UNCHANGED <<running, sems, created, lastUsed, reaper, lost, up, faults>>

Invoke(c) ==
  /\ At(c, "call") /\ call[c].box \in running /\ Goes(c, "calling")
  /\ UNCHANGED <<active, running, registry, sems, created, lastUsed, reaper, stopping, lost, up, faults>>

Answer(c) ==
  /\ At(c, "calling") /\ call[c].box \in running /\ Ends(c)
  /\ UNCHANGED <<active, running, registry, sems, created, lastUsed, reaper, stopping, lost, up, faults>>

(* The container is gone. A tool call of a shared capability tries once more
   when the error reads like a broken connection.                           *)
Breaks(c) ==
  /\ up /\ call[c].pc \in {"call", "calling"} /\ call[c].box \notin running
  /\ \/ Shared(c) /\ call[c].kind = "tool" /\ ~call[c].retried /\ Goes(c, "recover")
     \/ Ends(c)
  /\ UNCHANGED <<active, running, registry, sems, created, lastUsed, reaper, stopping, lost, up, faults>>

(* remove_active takes whatever the map has for the key by now. *)
Recover(c) ==
  /\ At(c, "recover")
  /\ call' = [call EXCEPT ![c].pc = "look", ![c].retried = TRUE, ![c].box = None]
  /\ active' = [active EXCEPT ![call[c].key] = None]
  /\ Stop({active[call[c].key]})
  /\ UNCHANGED <<running, sems, created, lastUsed, reaper, lost, up, faults>>

Step(c) ==
  \/ GetSemaphore(c) \/ Acquire(c) \/ AcquireTimesOut(c) \/ MarkInvoked(c)
  \/ Look(c) \/ UpdatePolicy(c) \/ StartContainer(c) \/ StartRefused(c) \/ Register(c)
  \/ BecomesReady(c) \/ NeverReady(c) \/ UndoStart(c) \/ Connect(c) \/ ConnectFails(c) \/ Publish(c)
  \/ Invoke(c) \/ Answer(c) \/ Breaks(c) \/ Recover(c)

-----------------------------------------------------------------------------
(* Tear-down: the entries go and their containers stop, under the write lock. *)
Close(keys) ==
  /\ active' = [k \in Keys |-> IF k \in keys THEN None ELSE active[k]]
  /\ Stop({active[k] : k \in keys})

CloseSession(s) ==
  /\ up /\ \E k \in Keys : k.of = s /\ active[k] # None
  /\ Close({k \in Keys : k.of = s})
  /\ UNCHANGED <<call, running, sems, created, lastUsed, reaper, lost, up, faults>>

CloseCapability(cap) ==
  /\ up /\ \E k \in Keys : k.cap = cap /\ active[k] # None
  /\ Close({k \in Keys : k.cap = cap})
  /\ UNCHANGED <<call, running, sems, created, lastUsed, reaper, lost, up, faults>>

(* The reaper: decide, stop one after the other, forget. *)
Reapable(cap) == lastUsed[cap] = "idle" /\ Holding(cap, sems[cap]) = {}

ReaperScans ==
  /\ up /\ reaper.pc = "rest" /\ \E cap \in SharedCaps : Reapable(cap)
  /\ LET idle == {cap \in SharedCaps : Reapable(cap)} IN reaper' = [pc |-> "close", close |-> idle, left |-> idle]
  /\ UNCHANGED <<call, active, running, registry, sems, created, lastUsed, stopping, lost, up, faults>>

ReaperStops(cap) ==
  /\ up /\ cap \in reaper.left
  /\ reaper' = [reaper EXCEPT !.left = @ \ {cap}]
  /\ Close({KeyOf(cap, "shared")})
  /\ UNCHANGED <<call, running, sems, created, lastUsed, lost, up, faults>>

ReaperForgets ==
  /\ up /\ reaper.pc = "close" /\ reaper.left = {}
  /\ reaper' = AtRest
  /\ sems' = [cap \in SharedCaps |-> IF cap \in reaper.close THEN 0 ELSE sems[cap]]
  /\ lastUsed' = [cap \in SharedCaps |-> IF cap \in reaper.close THEN "never" ELSE lastUsed[cap]]
  /\ UNCHANGED <<call, active, running, registry, created, stopping, lost, up, faults>>

GoesIdle(cap) ==
  /\ lastUsed[cap] = "recent" /\ lastUsed' = [lastUsed EXCEPT ![cap] = "idle"]
  /\ UNCHANGED <<call, active, running, registry, sems, created, reaper, stopping, lost, up, faults>>

Dies(box) ==
  /\ box \in running /\ Fault
  /\ running' = running \ {box} /\ stopping' = stopping \ {box} /\ lost' = lost \ {box}
  /\ UNCHANGED <<call, active, registry, sems, created, lastUsed, reaper, up>>

(* The memory of the process goes; a graceful shutdown stops what it can of
   the map, a crash nothing. The next start removes what is left in Docker,
   and goes on without what Docker does not remove.                         *)
ProcessEnds ==
  /\ up /\ Fault /\ up' = FALSE
  /\ \E gone \in SUBSET (stopping \cup {active[k] : k \in Keys}) : running' = running \ gone
  /\ call' = [c \in Callers |-> Idle]
  /\ active' = [k \in Keys |-> None]
  /\ registry' = {} /\ stopping' = {} /\ lost' = {}
  /\ sems' = [cap \in SharedCaps |-> 0] /\ lastUsed' = [cap \in SharedCaps |-> "never"]
  /\ reaper' = AtRest
  /\ UNCHANGED created

CleanupStale ==
  /\ ~up /\ up' = TRUE
  /\ \E kept \in SUBSET running :
       /\ running' = kept /\ lost' = kept
       /\ IF kept = {} THEN UNCHANGED faults ELSE Fault
  /\ UNCHANGED <<call, active, registry, sems, created, lastUsed, reaper, stopping>>

Next ==
  \/ \E c \in Callers : Step(c)
  \/ \E c \in Callers, cap \in Caps, s \in Sessions :
       BeginTool(c, cap, s) \/ UploadArtifact(c, cap, s) \/ DownloadArtifact(c, cap, s)
  \/ \E s \in Sessions : CloseSession(s)
  \/ \E cap \in Caps : CloseCapability(cap)
  \/ ReaperScans \/ ReaperForgets
  \/ \E cap \in SharedCaps : ReaperStops(cap) \/ GoesIdle(cap)
  \/ \E box \in Containers : RemoveContainer(box) \/ RemovalRefused(box) \/ Dies(box)
  \/ ProcessEnds \/ CleanupStale

Spec == Init /\ [][Next]_vars

-----------------------------------------------------------------------------
(* A container that takes calls has its policy in the egress proxy for as
   long as it runs, whoever reuses, replaces or stops containers meanwhile:
   without it every tunnel the tool opens is refused. A container that is
   being stopped, or that Docker did not remove, loses its policy under the
   calls that still use it.                                                 *)
PolicyInPlace ==
  \A c \in Callers : call[c].pc \in {"call", "calling"} /\ call[c].box \in running =>
    call[c].box \in registry \cup stopping \cup lost

(* No container is left running without an owner: it is in the map, where
   the tear-downs find it, or the task that starts it still holds it, or
   Docker was asked to remove it. There are two exceptions: a start whose
   connection failed, and a container that Docker refused to remove, whether
   a start that failed, a tear-down or the clean-up of the next process
   asked. They run until the next start of the process.                     *)
OwnedOrLost ==
  up => \A box \in running :
    \/ \E k \in Keys : active[k] = box
    \/ \E c \in Callers : call[c].pc \in {"register", "ready", "undo", "connect", "publish"} /\ call[c].box = box
    \/ box \in stopping \cup lost

(* Together: the map, Docker and the proxy agree on the containers, but for
   those that the process forgot.                                           *)
ContainersAccounted == PolicyInPlace /\ OwnedOrLost
=============================================================================
