----------------------------- MODULE MCCapabilities -----------------------------
(* The tools of an agent, for TLC: the containers of its capabilities, the       *)
(* policy for their network, and the sessions and volumes in which they work.    *)
(* The four share no state, so each behaviour is one of a single part, chosen at *)
(* the start.  Callers and containers may be permuted, and with them turns and    *)
(* sessions, for which the same model values stand.                              *)
EXTENDS CapabilityPool, TLC

CONSTANTS c1, c2, k1, k2,
          NetworkCallers, Hosts, LogCapacity, MaxChanges,
          Threads, Agents, Turns, SessionIds, VolumeCaps

VARIABLES part,
          manifest, exclusive, decided, pending, answered, cache, resolving, registered, log,
          session, thread, bound, turn, idler, worked, disturbed, failures,
          task, workspace, volume, cached, cacheVolume, boxes, sweeper, purge, overlooked, restarts

Network == INSTANCE CapabilityNetwork WITH Callers <- NetworkCallers, call <- resolving
Opened == INSTANCE Sessions WITH faults <- failures
Mounts == INSTANCE Volumes WITH Caps <- VolumeCaps, turn <- task, cache <- cached,
                                overtaken <- overlooked, faults <- restarts

ASSUME SessionNames == Opened!NamesAssumption

networkVars ==
    <<manifest, exclusive, decided, pending, answered, cache, resolving, registered, log>>
sessionVars == <<session, thread, bound, turn, idler, worked, disturbed, failures>>
volumeVars ==
    <<task, workspace, volume, cached, cacheVolume, boxes, sweeper, purge, overlooked, restarts>>
allVars == <<part, vars, networkVars, sessionVars, volumeVars>>

\* A manifest of each mode.
Manifests ==
    {[mode |-> "none", hosts |-> {}], [mode |-> "allowlist", hosts |-> Hosts], [mode |-> "any", hosts |-> {}]}

Untouched == [access |-> "allow", hosts |-> [h \in Hosts |-> "unset"]]

\* The user has decided about hosts already.  The parts that do not run in a behaviour
\* start in one way, and so does a container for which the user's rows are not read.
MCInit ==
    /\ part \in {"containers", "network", "sessions", "volumes"}
    /\ Init /\ Network!Init /\ Opened!Init /\ Mounts!Init
    /\ manifest \in Manifests /\ decided[1].access = "allow"
    /\ part # "network" => exclusive
    /\ part # "network" \/ ~exclusive => manifest.mode = "allowlist" /\ decided = <<Untouched>>

MCNext ==
    \/ part = "containers" /\ Next /\ UNCHANGED <<part, networkVars, sessionVars, volumeVars>>
    \/ part = "network" /\ Network!Next /\ UNCHANGED <<part, vars, sessionVars, volumeVars>>
    \/ part = "sessions" /\ Opened!Next /\ UNCHANGED <<part, vars, networkVars, volumeVars>>
    \/ part = "volumes" /\ Mounts!Next /\ UNCHANGED <<part, vars, networkVars, sessionVars>>

MCSpec == MCInit /\ [][MCNext]_allVars

Symmetry == Permutations({c1, c2}) \cup Permutations({k1, k2})

\* Of CapabilityNetwork.
UserDecides == Network!UserDecides

\* Of Sessions and Volumes: what an agent keeps in a session stays in its reach,
\* and what Docker keeps for it in the reach of the clean-up.
SessionsKept == Opened!OneSession /\ Mounts!VolumesRecorded
=============================================================================
