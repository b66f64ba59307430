-------------------------------- MODULE Volumes --------------------------------
(* The volumes of tools (capabilities/mod.rs, capabilities/runner.rs). A tool of
   a session mounts the workspace of the session and the cache of the user, which
   Docker creates with the container. Rows name the volumes for their removal: a
   workspace goes when all capabilities have left it for its time to live, by a
   task that looks every fifteen minutes; a cache is purged by hand. Neither
   knows of calls that are about to start a container.

   One user. A workspace row is "recent", "expired" (active, past its time to
   live) or "none" (a destroyed row is never read again). The time to live is a
   day, and no turn lasts that long. The container of a call is started once its
   volumes are touched; CapabilityPool has what may happen to it.                                    *)
EXTENDS Naturals

CONSTANTS Turns, SessionIds, Caps,
          MaxFaults     \* bound on restarts

VARIABLES turn, workspace,
          volume,       \* sessions whose workspace volume exists in Docker
          cache,        \* cache_volumes: capabilities with an active row
          cacheVolume,  \* capabilities whose cache volume exists
          boxes,        \* containers, by session and capability
          sweeper, purge,
          overtaken,    \* history: volumes whose row went while they were needed
          faults

storage == <<workspace, volume, cache, cacheVolume, boxes, overtaken>>
keepers == <<sweeper, purge>>
vars == <<turn, storage, keepers, faults>>

None == "none"
Resting == [pc |-> "rest"]
Idle == [pc |-> "idle"]
At(u, pc) == turn[u].pc = pc
To(u, pc) == turn' = [turn EXCEPT ![u].pc = pc]

Init == /\ turn = [u \in Turns |-> Idle]
        /\ workspace = [p \in SessionIds \X Caps |-> None]
        /\ volume = {} /\ cache = {} /\ cacheVolume = {} /\ boxes = {} /\ overtaken = {}
        /\ sweeper = Resting /\ purge = Resting /\ faults = 0

-----------------------------------------------------------------------------
(* Tool calls                                                               *)

Calls == UNCHANGED <<keepers, faults>>

(* The workspace row is touched first, then that of the cache. *)
TouchWorkspace(u, s, c) ==
  /\ At(u, "idle") /\ turn' = [turn EXCEPT ![u] = [pc |-> "touch", sid |-> s, cap |-> c]]
  /\ workspace' = [workspace EXCEPT ![<<s, c>>] = "recent"]
  /\ UNCHANGED <<volume, cache, cacheVolume, boxes, overtaken>> /\ Calls

TouchCache(u) ==
  /\ At(u, "touch") /\ To(u, "start")
  /\ cache' = cache \cup {turn[u].cap}
  /\ UNCHANGED <<workspace, volume, cacheVolume, boxes, overtaken>> /\ Calls

(* Docker creates the volumes that a container mounts. *)
StartBox(u) ==
  /\ At(u, "start") /\ To(u, "work")
  /\ boxes' = boxes \cup {<<turn[u].sid, turn[u].cap>>}
  /\ volume' = volume \cup {turn[u].sid}
  /\ cacheVolume' = cacheVolume \cup {turn[u].cap}
  /\ UNCHANGED <<workspace, cache, overtaken>> /\ Calls

StartFails(u) ==
  /\ At(u, "start") /\ turn' = [turn EXCEPT ![u] = Idle]
  /\ UNCHANGED storage /\ Calls

EndCall(u) ==
  /\ At(u, "work") /\ turn' = [turn EXCEPT ![u] = Idle]
  /\ UNCHANGED storage /\ Calls

-----------------------------------------------------------------------------
(* The background tasks, and the removal of a cache                         *)

Kept == UNCHANGED <<turn, faults>>
Close(s) == boxes' = {b \in boxes : b[1] # s}

(* A session is put to rest by the time since it was opened, even if a turn
   still works in it.                                                       *)
CloseIdle(s) ==
  /\ \E b \in boxes : b[1] = s
  /\ Close(s)
  /\ UNCHANGED <<workspace, volume, cache, cacheVolume, overtaken, keepers>> /\ Kept

RowsOf(s) == {c \in Caps : workspace[s, c] # None}
Expired(s) == RowsOf(s) # {} /\ \A c \in RowsOf(s) : workspace[s, c] = "expired"

SweeperReads ==
  /\ sweeper.pc = "rest" /\ \E s \in SessionIds : Expired(s)
  /\ sweeper' = [pc |-> "close", left |-> {s \in SessionIds : Expired(s)}]
  /\ UNCHANGED <<storage, purge>> /\ Kept

SweeperCloses(s) ==
  /\ sweeper.pc = "close" /\ s \in sweeper.left
  /\ Close(s)
  /\ sweeper' = [pc |-> "remove", left |-> sweeper.left, sid |-> s]
  /\ UNCHANGED <<workspace, volume, cache, cacheVolume, overtaken, purge>> /\ Kept

Mounted(s) == \E c \in Caps : <<s, c>> \in boxes

(* Docker refuses to remove a volume that a container mounts; a warning. *)
SweeperRemoves ==
  /\ sweeper.pc = "remove" /\ sweeper' = [sweeper EXCEPT !.pc = "mark"]
  /\ volume' = IF Mounted(sweeper.sid) THEN volume ELSE volume \ {sweeper.sid}
  /\ UNCHANGED <<workspace, cache, cacheVolume, boxes, overtaken, purge>> /\ Kept

NeededBy(s) == \E u \in Turns : turn[u].pc \in {"touch", "start"} /\ turn[u].sid = s
SweeperMarks ==
  LET s == sweeper.sid IN
  /\ sweeper.pc = "mark"
  /\ workspace' = [p \in SessionIds \X Caps |-> IF p[1] = s THEN None ELSE workspace[p]]
  /\ overtaken' = IF s \in volume \/ NeededBy(s) THEN overtaken \cup {s} ELSE overtaken
  /\ sweeper' = IF sweeper.left = {s} THEN Resting ELSE [pc |-> "close", left |-> sweeper.left \ {s}]
  /\ UNCHANGED <<volume, cache, cacheVolume, boxes, purge>> /\ Kept

(* The purge of a cache: the row, its volume, the mark. *)
PurgeReads(c) ==
  /\ purge.pc = "rest" /\ c \in cache
  /\ purge' = [pc |-> "remove", cap |-> c]
  /\ UNCHANGED <<storage, sweeper>> /\ Kept

PurgeRemoves ==
  /\ purge.pc = "remove" /\ purge' = [purge EXCEPT !.pc = "mark"]
  /\ cacheVolume' = IF \E b \in boxes : b[2] = purge.cap THEN cacheVolume ELSE cacheVolume \ {purge.cap}
  /\ UNCHANGED <<workspace, volume, cache, boxes, overtaken, sweeper>> /\ Kept

PurgeMarks ==
  LET c == purge.cap IN
  /\ purge.pc = "mark" /\ purge' = Resting
  /\ cache' = cache \ {c}
  /\ overtaken' = IF c \in cacheVolume \/ \E u \in Turns : At(u, "start") /\ turn[u].cap = c
                  THEN overtaken \cup {c} ELSE overtaken
  /\ UNCHANGED <<workspace, volume, cacheVolume, boxes, sweeper>> /\ Kept

-----------------------------------------------------------------------------
(* Time, and the restart, which removes the containers left in Docker       *)

Expires(s, c) ==
  /\ workspace[s, c] = "recent" /\ \A u \in Turns : turn[u].pc # "idle" => turn[u].sid # s
  /\ workspace' = [workspace EXCEPT ![<<s, c>>] = "expired"]
  /\ UNCHANGED <<volume, cache, cacheVolume, boxes, overtaken, keepers>> /\ Kept

Restart ==
  /\ faults < MaxFaults /\ faults' = faults + 1
  /\ turn' = [u \in Turns |-> Idle] /\ boxes' = {}
  /\ sweeper' = Resting /\ purge' = Resting
  /\ UNCHANGED <<workspace, volume, cache, cacheVolume, overtaken>>

Next ==
  \/ \E u \in Turns :
       \/ \E s \in SessionIds, c \in Caps : TouchWorkspace(u, s, c)
       \/ TouchCache(u) \/ StartBox(u) \/ StartFails(u) \/ EndCall(u)
  \/ \E s \in SessionIds :
       \/ CloseIdle(s) \/ SweeperCloses(s)
       \/ \E c \in Caps : Expires(s, c)
  \/ SweeperReads \/ SweeperRemoves \/ SweeperMarks
  \/ \E c \in Caps : PurgeReads(c)
  \/ PurgeRemoves \/ PurgeMarks
  \/ Restart

Spec == Init /\ [][Next]_vars

-----------------------------------------------------------------------------
(* Each volume in Docker has a row by which it is found and removed later;
   except one that a call needed while its row was marked destroyed.        *)
VolumesRecorded ==
  /\ \A s \in volume : RowsOf(s) # {} \/ s \in overtaken
  /\ \A c \in cacheVolume : c \in cache \/ c \in overtaken
=============================================================================
