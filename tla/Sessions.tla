------------------------------- MODULE Sessions -------------------------------
(* Sessions (agents/session.rs, agents/thread.rs, main.rs). An agent works for a
   user in a session; a thread is bound to one session for each agent that works
   in it, the agent it was created for and those it delegates to. What a tool
   keeps in its workspace it finds again through the session alone. Every five
   minutes sessions without activity are put to rest. Turns, perhaps several in
   one thread, meet that and each other at every await.

   One user on one pipe; the containers and volumes of a session are Volumes.                        *)
EXTENDS Naturals

CONSTANTS Threads, Agents,
          Turns,        \* turns at a time, delegated ones included
          SessionIds,   \* bound on the sessions ever created
          MaxFaults     \* bound on restarts, failing statements, deleted threads

VARIABLES session,      \* rows of sessions: their agent, and active, stale, idle
          thread,       \* threads.session_id of each thread
          bound,        \* thread_agent_sessions
          turn,
          idler,        \* the task that puts sessions to rest
          worked,       \* history: thread, agent and session of the turns begun
          disturbed,    \* history: thread and agent whose openings overlapped, or
                        \* whose schedule runs with another agent than its thread
          faults

vars == <<session, thread, bound, turn, idler, worked, disturbed, faults>>

None == "none"
Gone == "gone"

\* No agent or session is called like the absence of one.
NamesAssumption == None \notin Agents /\ None \notin SessionIds /\ Gone \notin SessionIds

Idle == [pc |-> "idle"]

Opening == {"choose", "create", "insert", "bind", "resume", "fresh", "backfill", "attach"}
At(u, pc) == turn[u].pc = pc
To(u, pc) == turn' = [turn EXCEPT ![u].pc = pc]
Unused == {s \in SessionIds : session[s].state = None}
Of(a) == {s \in SessionIds : session[s].agent = a}
Touched(s) == session' = [session EXCEPT ![s].state = "active"]

Init == /\ session = [s \in SessionIds |-> [agent |-> None, state |-> None]]
        /\ thread = [t \in Threads |-> None]
        /\ bound = [p \in Threads \X Agents |-> None]
        /\ turn = [u \in Turns |-> Idle]
        /\ idler = {} /\ worked = {} /\ disturbed = {} /\ faults = 0

Fault == faults < MaxFaults /\ faults' = faults + 1

-----------------------------------------------------------------------------
(* Opening a session                                                        *)

Begins(u, t, a, pc) ==
  /\ At(u, "idle")
  /\ turn' = [turn EXCEPT ![u] = [pc |-> pc, thread |-> t, agent |-> a, sid |-> None]]
  /\ UNCHANGED <<session, thread, worked, faults, idler>>

Overlaps(t, a) == \E v \in Turns : turn[v].pc \in Opening /\ turn[v].thread = t /\ turn[v].agent = a
Disturb(t, a, does) == disturbed' = IF does THEN disturbed \cup {<<t, a>>} ELSE disturbed

(* A message that replies to no thread gets one, with a session of its own if
   the agent keeps threads apart.                                           *)
BeginThread(u, t, a) ==
  /\ thread[t] = None /\ \A v \in Turns : turn[v].pc # "idle" => turn[v].thread # t
  /\ \E pc \in {"choose", "create"} : Begins(u, t, a, pc)
  /\ UNCHANGED <<bound, disturbed>>

(* In a transaction: an active session of the agent, or else a new one. *)
ReuseActive(u) ==
  /\ At(u, "choose")
  /\ \/ \E s \in Of(turn[u].agent) :
          /\ session[s].state \in {"active", "stale"}
          /\ Touched(s) /\ turn' = [turn EXCEPT ![u].pc = "insert", ![u].sid = s]
     \/ /\ \A s \in Of(turn[u].agent) : session[s].state = "idle"
        /\ To(u, "create") /\ UNCHANGED session
  /\ UNCHANGED <<thread, bound, worked, disturbed, faults, idler>>

Create(u, from, next) ==
  /\ At(u, from)
  /\ \E s \in Unused :
       /\ session' = [session EXCEPT ![s] = [agent |-> turn[u].agent, state |-> "active"]]
       /\ turn' = [turn EXCEPT ![u].pc = next, ![u].sid = s]
  /\ UNCHANGED <<thread, bound, worked, disturbed, faults, idler>>

CreateForThread(u) == Create(u, "create", "insert")

InsertThread(u) ==
  /\ At(u, "insert") /\ To(u, "bind")
  /\ thread' = [thread EXCEPT ![turn[u].thread] = turn[u].sid]
  /\ UNCHANGED <<session, bound, worked, disturbed, faults, idler>>

SetBinding(u, allowed) ==
  bound' = IF allowed THEN [bound EXCEPT ![<<turn[u].thread, turn[u].agent>>] = turn[u].sid] ELSE bound

(* The reference to a thread deleted meanwhile is refused. *)
BindThread(u) ==
  /\ At(u, "bind")
  /\ SetBinding(u, thread[turn[u].thread] # Gone)
  /\ IF thread[turn[u].thread] # Gone THEN To(u, "resume") ELSE turn' = [turn EXCEPT ![u] = Idle]
  /\ UNCHANGED <<session, thread, worked, disturbed, faults, idler>>

(* A reply in the thread, or a delegation to another agent there. *)
BeginTurn(u, t, a) ==
  /\ thread[t] \in SessionIds /\ Begins(u, t, a, "resume")
  /\ Disturb(t, a, Overlaps(t, a))
  /\ UNCHANGED bound

(* A schedule runs again in its thread: the session of the thread is bound to
   the agent of this run, which the user may have replaced.                 *)
BeginScheduled(u, t, a) ==
  /\ thread[t] \in SessionIds /\ Begins(u, t, a, "resume")
  /\ bound' = [bound EXCEPT ![<<t, a>>] = thread[t]]
  /\ Disturb(t, a, Overlaps(t, a) \/ thread[t] \notin Of(a))

Works(u, s) == worked' = worked \cup {<<turn[u].thread, turn[u].agent, s>>}

\* Mutant: a session at rest is not resumed.
ResumeActive(u) ==
  LET t == turn[u].thread  a == turn[u].agent
      s == IF bound[t, a] # None THEN bound[t, a] ELSE thread[t]
      known == s \in Of(a) /\ session[s].state # "idle"
  IN /\ At(u, "resume")
     /\ IF known THEN Touched(s) ELSE UNCHANGED session
     /\ IF known /\ bound[t, a] # None THEN Works(u, s) ELSE UNCHANGED worked
     /\ turn' = [turn EXCEPT ![u].sid = IF known THEN s ELSE None,
                   ![u].pc = IF ~known THEN "fresh" ELSE IF bound[t, a] # None THEN "work" ELSE "backfill"]
     /\ UNCHANGED <<thread, bound, disturbed, faults, idler>>

(* The session bound to the thread and the agent, or the one the thread was
   created with if that is the agent's; active or at rest.                  *)
Resume(u) ==
  LET t == turn[u].thread  a == turn[u].agent
      s == IF bound[t, a] # None THEN bound[t, a] ELSE thread[t]
      known == s \in Of(a)
  IN /\ At(u, "resume")
     /\ IF known THEN Touched(s) ELSE UNCHANGED session
     /\ IF known /\ bound[t, a] # None THEN Works(u, s) ELSE UNCHANGED worked
     /\ turn' = [turn EXCEPT ![u].sid = IF known THEN s ELSE None,
                   ![u].pc = IF ~known THEN "fresh" ELSE IF bound[t, a] # None THEN "work" ELSE "backfill"]
     /\ UNCHANGED <<thread, bound, disturbed, faults, idler>>

Backfill(u) ==
  /\ At(u, "backfill")
  /\ SetBinding(u, thread[turn[u].thread] # Gone)
  /\ IF thread[turn[u].thread] # Gone THEN To(u, "work") /\ Works(u, turn[u].sid)
     ELSE turn' = [turn EXCEPT ![u] = Idle] /\ UNCHANGED worked
  /\ UNCHANGED <<session, thread, disturbed, faults, idler>>

CreateFresh(u) == Create(u, "fresh", "attach")

(* Bound if the thread still exists; whatever was bound meanwhile is replaced. *)
Attach(u) ==
  /\ At(u, "attach") /\ To(u, "work") /\ Works(u, turn[u].sid)
  /\ SetBinding(u, thread[turn[u].thread] # Gone)
  /\ UNCHANGED <<session, thread, disturbed, faults, idler>>

(* A statement fails, and the turn with it. *)
OpenFails(u) ==
  /\ turn[u].pc \in Opening /\ Fault
  /\ turn' = [turn EXCEPT ![u] = Idle]
  /\ UNCHANGED <<session, thread, bound, worked, disturbed, idler>>

DeleteThread(t) ==
  /\ thread[t] \in SessionIds /\ Fault
  /\ thread' = [thread EXCEPT ![t] = Gone]
  /\ bound' = [p \in Threads \X Agents |-> IF p[1] = t THEN None ELSE bound[p]]
  /\ UNCHANGED <<session, turn, worked, disturbed, idler>>

EndTurn(u) ==
  /\ At(u, "work") /\ turn' = [turn EXCEPT ![u] = Idle]
  /\ UNCHANGED <<session, thread, bound, worked, disturbed, faults, idler>>

-----------------------------------------------------------------------------
(* Sessions at rest, and the restart                                        *)

GoesStale(s) ==
  /\ session[s].state = "active" /\ session' = [session EXCEPT ![s].state = "stale"]
  /\ UNCHANGED <<thread, bound, turn, worked, disturbed, faults, idler>>

IdlerReads ==
  /\ idler = {} /\ \E s \in SessionIds : session[s].state = "stale"
  /\ idler' = {s \in SessionIds : session[s].state = "stale"}
  /\ UNCHANGED <<session, thread, bound, turn, worked, disturbed, faults>>

(* Each that was read, resumed since or not; its containers are stopped. *)
IdlerMarks(s) ==
  /\ s \in idler /\ idler' = idler \ {s}
  /\ session' = [session EXCEPT ![s].state = "idle"]
  /\ UNCHANGED <<thread, bound, turn, worked, disturbed, faults>>

Restart ==
  /\ Fault
  /\ turn' = [u \in Turns |-> Idle] /\ idler' = {}
  /\ UNCHANGED <<session, thread, bound, worked, disturbed>>

Next ==
  \/ \E u \in Turns :
       \/ \E t \in Threads, a \in Agents : BeginThread(u, t, a) \/ BeginTurn(u, t, a) \/ BeginScheduled(u, t, a)
       \/ ReuseActive(u) \/ CreateForThread(u) \/ InsertThread(u) \/ BindThread(u)
       \/ Resume(u) \/ Backfill(u) \/ CreateFresh(u) \/ Attach(u) \/ OpenFails(u) \/ EndTurn(u)
  \/ \E t \in Threads : DeleteThread(t)
  \/ IdlerReads \/ \E s \in SessionIds : IdlerMarks(s) \/ GoesStale(s)
  \/ Restart

Spec == Init /\ [][Next]_vars

-----------------------------------------------------------------------------
(* An agent that comes back to a thread finds the session it worked in there,
   however often the session was put to rest, a statement failed or the process
   restarted; unless two openings for the agent overlapped, as two delegations
   in one answer of the model do, or the agent of a schedule was replaced.  *)
OneSession ==
  \A t \in Threads, a \in Agents :
    <<t, a>> \notin disturbed /\ thread[t] # Gone =>
      \A r, s \in SessionIds : <<t, a, r>> \in worked /\ <<t, a, s>> \in worked => r = s
=============================================================================
