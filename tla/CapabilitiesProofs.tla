-------------------------- MODULE CapabilitiesProofs --------------------------
(* What an agent's tools rely on, for any callers, sessions, capabilities, hosts,
   threads, turns, volumes and faults, in the composition MCCapabilities:

   - the map of active containers, Docker and the egress proxy agree. The locks
     of capabilities/mod.rs are not held across a start, so what keeps two tasks
     apart is ownership: a container belongs to one entry of the map or to one
     task that starts it. What has no owner is being stopped, or is lost;
   - the network obeys what the user had decided when a call began;
   - an agent finds the session again in which it worked for a thread, because an
     undisturbed agent has one opening at a time there and finds none bound while
     it looks for one;
   - each volume has a row that the clean-up finds.                            *)
EXTENDS Sequences, MCCapabilities, TLAPS

-----------------------------------------------------------------------------
(* The containers                                                           *)

Places == {"queue", "acquire", "mark", "look", "reuse", "start", "register", "ready",
           "undo", "connect", "publish", "call", "calling", "recover"}

\* Only calls of a shared capability queue.
CallStates ==
  {Idle} \cup
  {r \in [pc : Places, key : Keys, kind : {"tool", "transfer"},
          box : Containers \cup {None}, sem : Nat, permit : BOOLEAN, retried : BOOLEAN] :
     r.pc = "queue" => r.key.cap \in SharedCaps}

Typed ==
  /\ call \in [Callers -> CallStates]
  /\ active \in [Keys -> Containers \cup {None}]
  /\ running \subseteq Containers
  /\ sems \in [SharedCaps -> Nat] /\ created \in Nat

Starting(c) == call[c].pc \in {"register", "ready", "undo", "connect", "publish"}

\* A container is the one of a single key, and registered.
MapOwns ==
  /\ \A k \in Keys : active[k] # None => active[k] \in registry
  /\ \A k, l \in Keys : active[k] # None /\ active[k] = active[l] => k = l

\* A container that is being started belongs to its task alone: no other call knows it.
StartsOwn ==
  \A c \in Callers : Starting(c) =>
    /\ call[c].box \in Containers
    /\ \A k \in Keys : active[k] # call[c].box
    /\ \A d \in Callers \ {c} : call[d].pc # "idle" => call[d].box # call[c].box
    /\ call[c].pc \notin {"register", "undo"} => call[c].box \in registry

IInv == Typed /\ MapOwns /\ StartsOwn /\ PolicyInPlace /\ OwnedOrLost

-----------------------------------------------------------------------------
LEMMA InitInvariant == Init => IInv
PROOF
  BY DEF Init, IInv, Typed, MapOwns, StartsOwn, Starting, PolicyInPlace, OwnedOrLost,
         CallStates, Idle

\* A step of a call moves that call alone.
LEMMA OneCallMoves ==
  ASSUME Typed, NEW c \in Callers, Step(c)
  PROVE  /\ up /\ up' /\ call[c] \in CallStates \ {Idle}
         /\ \A d \in Callers \ {c} : call'[d] = call[d]
PROOF
  BY DEF Typed, CallStates, Idle, Step, At, Goes, Ends, GetSemaphore, Acquire, AcquireTimesOut,
         MarkInvoked, Look, UpdatePolicy, StartContainer, StartRefused, Register, BecomesReady,
         NeverReady, UndoStart, Connect, ConnectFails, Publish, Invoke, Answer, Breaks, Recover

LEMMA GoesKeepsType ==
  ASSUME Typed, NEW c \in Callers, call[c] \in CallStates \ {Idle}, NEW pc \in Places \ {"queue"}, Goes(c, pc)
  PROVE  /\ call' \in [Callers -> CallStates]
         /\ call'[c].pc = pc /\ call'[c].box = call[c].box
PROOF
<1>1. [call[c] EXCEPT !.pc = pc] \in CallStates
  BY DEF CallStates, Idle
<1> QED BY <1>1 DEF Typed, Goes, CallStates, Idle

\* Steps that move a call without owning, starting or stopping a container.
QuietStep(c) ==
  \/ GetSemaphore(c) \/ Acquire(c) \/ AcquireTimesOut(c) \/ MarkInvoked(c)
  \/ StartRefused(c) \/ BecomesReady(c) \/ Connect(c)
  \/ Invoke(c) \/ Answer(c) \/ Breaks(c) \/ Look(c)

LEMMA QuietStepKeeps ==
  ASSUME IInv, NEW c \in Callers, QuietStep(c)
  PROVE  IInv'
PROOF
<1> USE DEF QuietStep, At, Ends, Fault
<1>1. /\ up /\ Typed /\ call[c] \in CallStates \ {Idle}
      /\ \A d \in Callers \ {c} : call'[d] = call[d]
  BY OneCallMoves DEF IInv, Step
<1>2. UNCHANGED <<active, running, registry, stopping, lost, up>>
  BY DEF GetSemaphore, Acquire, AcquireTimesOut, MarkInvoked,
         StartRefused, BecomesReady, Connect, Invoke, Answer, Breaks, Look
<1>3. /\ call' \in [Callers -> CallStates]
      /\ sems' \in [SharedCaps -> Nat] /\ created' \in Nat
      /\ Starting(c)' <=> Starting(c)
      /\ Starting(c) => call'[c].box = call[c].box /\ call[c].pc \notin {"register", "undo"}
      /\ Starting(c) => call'[c].pc \notin {"register", "undo"}
      /\ call'[c].pc # "idle" => call'[c].box = call[c].box \/ \E k \in Keys : call'[c].box = active[k]
      /\ call'[c].pc \in {"call", "calling"} => call[c].pc = "call" /\ call'[c].box = call[c].box
  <2> USE DEF Starting, Places
  <2>0. sems \in [SharedCaps -> Nat] /\ created \in Nat
    BY DEF IInv, Typed
  <2>1. CASE GetSemaphore(c)
    <3> DEFINE cap == call[c].key.cap
               g == IF sems[cap] = 0 THEN created + 1 ELSE sems[cap]
    <3>1. call[c].pc = "queue" /\ cap \in SharedCaps
      BY <1>1, <2>1 DEF CallStates, GetSemaphore
    <3>2. g \in Nat
      BY <3>1 DEF IInv, Typed
    <3>3. [call[c] EXCEPT !.pc = "acquire", !.sem = g] \in CallStates
      BY <1>1, <3>2 DEF CallStates, Idle
    <3>4. /\ sems' = [sems EXCEPT ![cap] = g] /\ created' = IF g > created THEN g ELSE created
          /\ call' = [call EXCEPT ![c] = [@ EXCEPT !.pc = "acquire", !.sem = g]]
      BY <2>1 DEF GetSemaphore
    <3> HIDE DEF g
    <3> QED BY <1>1, <3>1, <3>2, <3>3, <3>4 DEF IInv, Typed
  <2>2. CASE Acquire(c)
    <3>1. [call[c] EXCEPT !.pc = "mark", !.permit = TRUE] \in CallStates
      BY <1>1 DEF CallStates, Idle
    <3> QED BY <1>1, <2>2, <3>1 DEF Acquire, IInv, Typed
  <2>3. CASE Look(c)
    <3>1. call[c].key \in Keys /\ active[call[c].key] \in Containers \cup {None}
      BY <1>1 DEF CallStates, IInv, Typed
    <3>2. /\ [call[c] EXCEPT !.pc = "reuse", !.box = active[call[c].key]] \in CallStates
          /\ [call[c] EXCEPT !.pc = "start"] \in CallStates
      BY <1>1, <3>1 DEF CallStates, Idle
    <3>3. CASE active[call[c].key] # None
      <4>1. call' = [call EXCEPT ![c] = [@ EXCEPT !.pc = "reuse", !.box = active[call[c].key]]]
        BY <2>3, <3>3 DEF Look
      <4>2. /\ call'[c].pc = "reuse" /\ call'[c].box = active[call[c].key]
            /\ call' \in [Callers -> CallStates]
        BY <1>1, <3>2, <4>1 DEF IInv, Typed, CallStates, Idle
      <4> QED BY <2>0, <2>3, <3>1, <4>2 DEF Look
    <3>4. CASE active[call[c].key] = None
      <4>1. Goes(c, "start") /\ call[c].pc = "look" /\ UNCHANGED <<sems, created>>
        BY <2>3, <3>4 DEF Look, Goes
      <4> QED BY <1>1, <2>0, <4>1, GoesKeepsType
    <3> QED BY <3>3, <3>4
  <2>4. CASE AcquireTimesOut(c) \/ StartRefused(c) \/ Answer(c)
    <3>1. /\ call' = [call EXCEPT ![c] = Idle] /\ Idle \in CallStates /\ ~Starting(c)
          /\ UNCHANGED <<sems, created>>
      BY <1>1, <2>4 DEF AcquireTimesOut, StartRefused, Answer, CallStates, Idle
    <3> QED BY <1>1, <2>0, <3>1 DEF Typed, Idle
  <2>5. CASE MarkInvoked(c)
    BY <1>1, <2>5, GoesKeepsType, <2>0 DEF MarkInvoked
  <2>6. CASE BecomesReady(c) \/ Connect(c) \/ Invoke(c)
    <3>1. CASE BecomesReady(c)
      BY <1>1, <3>1, GoesKeepsType, <2>0 DEF BecomesReady
    <3>2. CASE Connect(c)
      BY <1>1, <3>2, GoesKeepsType, <2>0 DEF Connect
    <3>3. CASE Invoke(c)
      BY <1>1, <3>3, GoesKeepsType, <2>0 DEF Invoke
    <3> QED BY <2>6, <3>1, <3>2, <3>3
  <2>7. CASE Breaks(c)
    <3>1. CASE Goes(c, "recover")
      BY <1>1, <2>7, <3>1, GoesKeepsType, <2>0 DEF Breaks
    <3>2. CASE Ends(c)
      BY <1>1, <2>7, <3>2 DEF Breaks, IInv, Typed, CallStates, Idle
    <3> QED BY <2>7, <3>1, <3>2 DEF Breaks
  <2> QED BY <2>1, <2>2, <2>3, <2>4, <2>5, <2>6, <2>7
<1>4. Typed'
  BY <1>2, <1>3 DEF IInv, Typed
<1>5. MapOwns'
  BY <1>2 DEF IInv, MapOwns
<1>6. StartsOwn'
  <2> SUFFICES ASSUME NEW d \in Callers, Starting(d)'
               PROVE  /\ call'[d].box \in Containers
                      /\ \A k \in Keys : active'[k] # call'[d].box
                      /\ \A e \in Callers \ {d} : call'[e].pc # "idle" => call'[e].box # call'[d].box
                      /\ call'[d].pc \notin {"register", "undo"} => call'[d].box \in registry'
    BY DEF StartsOwn, Starting
  <2>0. call[c].pc # "idle"
    BY <1>1 DEF CallStates, Idle, Places
  <2>1. Starting(d) /\ call'[d].box = call[d].box /\ call[d].box \in Containers
    BY <1>1, <1>3 DEF IInv, StartsOwn, Starting
  <2>2. /\ \A k \in Keys : active'[k] # call'[d].box
        /\ call'[d].pc \notin {"register", "undo"} => call'[d].box \in registry'
    BY <1>1, <1>2, <1>3, <2>1 DEF IInv, StartsOwn
  <2>3. ASSUME NEW e \in Callers \ {d}, call'[e].pc # "idle" PROVE call'[e].box # call'[d].box
    <3>1. call[e].pc # "idle" /\ call[e].box # call[d].box
      BY <1>1, <2>0, <2>1, <2>3 DEF IInv, StartsOwn
    <3>2. CASE e = c
      BY <1>2, <1>3, <2>1, <2>2, <2>3, <3>1, <3>2
    <3>3. CASE e # c
      BY <1>1, <2>1, <3>1, <3>3
    <3> QED BY <3>2, <3>3
  <2> QED BY <2>1, <2>2, <2>3
<1>7. PolicyInPlace'
  BY <1>1, <1>2, <1>3 DEF IInv, PolicyInPlace
<1>8. OwnedOrLost'
  BY <1>1, <1>2, <1>3 DEF IInv, OwnedOrLost, Starting
<1> QED BY <1>4, <1>5, <1>6, <1>7, <1>8 DEF IInv

\* A policy more disturbs nobody.
LEMMA RegisterKeeps ==
  ASSUME IInv, NEW c \in Callers, UpdatePolicy(c) \/ Register(c)
  PROVE  IInv'
PROOF
<1> USE DEF At
<1>1. /\ up /\ Typed /\ call[c] \in CallStates \ {Idle}
      /\ \A d \in Callers \ {c} : call'[d] = call[d]
  BY OneCallMoves DEF IInv, Step
<1>2. /\ UNCHANGED <<active, running, stopping, lost, up, sems, created>>
      /\ registry' = registry \cup {call[c].box}
  BY DEF UpdatePolicy, Register
<1>3. call' \in [Callers -> CallStates] /\ call'[c].box = call[c].box
  BY <1>1, GoesKeepsType DEF Places, UpdatePolicy, Register
<1>4. Starting(c)' <=> Starting(c)
  <2>1. CASE UpdatePolicy(c)
    BY <1>1, <2>1, GoesKeepsType DEF Places, Starting, UpdatePolicy
  <2>2. CASE Register(c)
    BY <1>1, <2>2, GoesKeepsType DEF Places, Starting, Register
  <2> QED BY <2>1, <2>2
<1>5. Typed'
  BY <1>2, <1>3 DEF IInv, Typed
<1>6. MapOwns'
  BY <1>2 DEF IInv, MapOwns
<1>7. StartsOwn'
  <2>1. \A d \in Callers : /\ call'[d].box = call[d].box
                           /\ Starting(d)' <=> Starting(d)
                           /\ call'[d].pc # "idle" => call[d].pc # "idle"
    <3>1. call[c].pc # "idle"
      BY <1>1 DEF CallStates, Idle, Places
    <3>2. ASSUME NEW d \in Callers \ {c} PROVE Starting(d)' <=> Starting(d)
      BY <1>1 DEF Starting
    <3> QED BY <1>1, <1>3, <1>4, <3>1, <3>2
  <2>2. \A d \in Callers : Starting(d) /\ call'[d].pc \notin {"register", "undo"} => call[d].box \in registry'
    BY <1>1, <1>2 DEF IInv, StartsOwn
  <2> QED BY <1>2, <2>1, <2>2 DEF IInv, StartsOwn, Starting
<1>8. PolicyInPlace'
  BY <1>1, <1>2, <1>3 DEF IInv, PolicyInPlace
<1>9. OwnedOrLost'
  BY <1>1, <1>2, <1>3, <1>4 DEF IInv, OwnedOrLost, Starting
<1> QED BY <1>5, <1>6, <1>7, <1>8, <1>9 DEF IInv

\* A fresh container is nobody's.
LEMMA StartKeeps ==
  ASSUME IInv, NEW c \in Callers, StartContainer(c)
  PROVE  IInv'
PROOF
<1> USE DEF At
<1>1. /\ up /\ call[c] \in CallStates \ {Idle}
      /\ \A d \in Callers \ {c} : call'[d] = call[d]
  BY OneCallMoves DEF IInv, Step
<1>2. PICK new \in Fresh : /\ running' = running \cup {new}
                           /\ call' = [call EXCEPT ![c].pc = "register", ![c].box = new]
  BY DEF StartContainer
<1>3. /\ new \in Containers /\ new \notin registry
      /\ \A d \in Callers : call[d].pc # "idle" => call[d].box # new
      /\ \A k \in Keys : active[k] # new
  BY DEF Fresh, Boxes
<1>4. UNCHANGED <<active, registry, stopping, lost, up, sems, created>> /\ call[c].pc = "start"
  BY DEF StartContainer
<1>5. call' \in [Callers -> CallStates] /\ call'[c].box = new /\ call'[c].pc = "register"
  BY <1>1, <1>2, <1>3 DEF IInv, Typed, CallStates, Idle, Places
<1>6. Typed'
  BY <1>2, <1>3, <1>4, <1>5 DEF IInv, Typed
<1>7. MapOwns'
  BY <1>4 DEF IInv, MapOwns
<1>8. StartsOwn'
  BY <1>1, <1>3, <1>4, <1>5 DEF IInv, StartsOwn, Starting
<1>9. PolicyInPlace'
  BY <1>1, <1>2, <1>3, <1>4, <1>5 DEF IInv, PolicyInPlace
<1>10. OwnedOrLost'
  BY <1>1, <1>2, <1>4, <1>5 DEF IInv, OwnedOrLost, Starting
<1> QED BY <1>6, <1>7, <1>8, <1>9, <1>10 DEF IInv

\* A start that fails takes back its own policy, and then stops its container or loses it.
LEMMA FailedStartKeeps ==
  ASSUME IInv, NEW c \in Callers, NeverReady(c) \/ UndoStart(c) \/ ConnectFails(c)
  PROVE  IInv'
PROOF
<1> USE DEF At, Ends, Goes
<1>1. /\ up /\ up' /\ Typed /\ call[c] \in CallStates \ {Idle} /\ Starting(c)
      /\ \A d \in Callers \ {c} : call'[d] = call[d]
  BY OneCallMoves DEF IInv, Step, Starting, NeverReady, UndoStart, ConnectFails
<1> DEFINE mine == call[c].box
<1>2. UNCHANGED <<active, stopping, sems, created>>
  BY DEF NeverReady, UndoStart, ConnectFails
<1>3. /\ \A k \in Keys : active[k] # mine
      /\ \A d \in Callers \ {c} : call[d].pc # "idle" => call[d].box # mine
  BY <1>1 DEF IInv, StartsOwn
<1>4. CASE NeverReady(c)
  <2>1. /\ call' \in [Callers -> CallStates] /\ call'[c].pc = "undo" /\ call'[c].box = mine
        /\ registry' = registry \ {mine} /\ UNCHANGED <<running, lost>>
    BY <1>1, <1>4, GoesKeepsType DEF NeverReady, Places
  <2>2. Typed'
    BY <1>2, <2>1 DEF IInv, Typed
  <2>3. MapOwns'
    BY <1>2, <1>3, <2>1 DEF IInv, MapOwns
  <2>4. StartsOwn'
    BY <1>1, <1>2, <1>3, <2>1 DEF IInv, StartsOwn, Starting
  <2>5. PolicyInPlace'
    BY <1>1, <1>2, <1>3, <2>1 DEF IInv, PolicyInPlace
  <2>6. OwnedOrLost'
    BY <1>1, <1>2, <2>1 DEF IInv, OwnedOrLost, Starting
  <2> QED BY <2>2, <2>3, <2>4, <2>5, <2>6 DEF IInv
<1>5. CASE UndoStart(c) \/ ConnectFails(c)
  <2>1. /\ call' = [call EXCEPT ![c] = Idle] /\ registry' = registry /\ running' \subseteq running
        /\ lost \subseteq lost' /\ (mine \in running' => mine \in lost')
        /\ running \ {mine} \subseteq running'
    BY <1>5 DEF UndoStart, ConnectFails
  <2>2. call' \in [Callers -> CallStates] /\ call'[c].pc = "idle"
    BY <1>1, <2>1 DEF Typed, CallStates, Idle
  <2>3. Typed'
    BY <1>2, <2>1, <2>2 DEF IInv, Typed
  <2>4. MapOwns'
    BY <1>2, <2>1 DEF IInv, MapOwns
  <2>5. StartsOwn'
    BY <1>1, <1>2, <2>1, <2>2 DEF IInv, StartsOwn, Starting
  <2>6. PolicyInPlace'
    BY <1>1, <1>2, <2>1, <2>2 DEF IInv, PolicyInPlace
  <2>7. OwnedOrLost'
    BY <1>1, <1>2, <2>1, <2>2 DEF IInv, OwnedOrLost, Starting
  <2> QED BY <2>3, <2>4, <2>5, <2>6, <2>7 DEF IInv
<1> QED BY <1>4, <1>5

\* Of two tasks that started a container for one key, the second stops its own.
LEMMA PublishKeeps ==
  ASSUME IInv, NEW c \in Callers, Publish(c)
  PROVE  IInv'
PROOF
<1> USE DEF At, Goes
<1> DEFINE key == call[c].key
           mine == call[c].box
           other == active[key]
<1>1. /\ up /\ call[c] \in CallStates \ {Idle} /\ call[c].pc = "publish" /\ Starting(c)
      /\ \A d \in Callers \ {c} : call'[d] = call[d]
  BY OneCallMoves DEF IInv, Step, Publish, Starting
<1>2. key \in Keys /\ other \in Containers \cup {None} /\ call'[c].pc = "call"
  BY <1>1 DEF IInv, Typed, CallStates, Idle, Publish
<1>3. /\ mine \in Containers /\ mine \in registry /\ mine # None
      /\ \A k \in Keys : active[k] # mine
      /\ \A d \in Callers \ {c} : call[d].pc # "idle" => call[d].box # mine
  BY <1>1, PoolAssumption DEF IInv, StartsOwn
<1>4. UNCHANGED <<running, lost, up, sems, created>>
  BY DEF Publish
<1>5. CASE other # None
  <2>1. /\ registry' = registry \ {mine} /\ active' = active
        /\ stopping = {} /\ stopping' = {mine} \cap running
        /\ call' = [call EXCEPT ![c].pc = "call", ![c].box = other]
    BY <1>5 DEF Publish, Stop, Unlocked
  <2>2. call' \in [Callers -> CallStates] /\ call'[c].box = other
    BY <1>1, <1>2, <2>1 DEF IInv, Typed, CallStates, Idle, Places
  <2>3. Typed'
    BY <1>4, <2>1, <2>2 DEF IInv, Typed
  <2>4. MapOwns'
    BY <1>3, <2>1 DEF IInv, MapOwns
  <2>5. StartsOwn'
    <3>1. ~Starting(c)' /\ active' = active /\ \A x : x # mine /\ x \in registry => x \in registry'
      BY <1>2, <2>1 DEF Starting
    <3>2. \A d \in Callers : Starting(d) => call[d].box # call'[c].box
      BY <1>2, <1>5, <2>2 DEF IInv, StartsOwn
    <3> QED BY <1>1, <1>3, <3>1, <3>2 DEF IInv, StartsOwn, Starting
  <2>6. other \in registry'
    BY <1>2, <1>3, <1>5, <2>1 DEF IInv, MapOwns
  <2>7. PolicyInPlace'
    BY <1>1, <1>3, <1>4, <2>1, <2>2, <2>6 DEF IInv, PolicyInPlace
  <2>8. OwnedOrLost'
    BY <1>1, <1>2, <1>4, <2>1 DEF IInv, OwnedOrLost, Starting
  <2> QED BY <2>3, <2>4, <2>5, <2>7, <2>8 DEF IInv
<1>6. CASE other = None
  <2>1. /\ UNCHANGED <<registry, stopping>>
        /\ active' = [active EXCEPT ![key] = mine]
        /\ call' = [call EXCEPT ![c].pc = "call"]
    BY <1>6 DEF Publish
  <2>2. call' \in [Callers -> CallStates] /\ call'[c].box = mine
    BY <1>1, <2>1 DEF IInv, Typed, CallStates, Idle, Places
  <2>3. active' \in [Keys -> Containers \cup {None}]
    BY <1>2, <1>3, <2>1 DEF IInv, Typed
  <2>4. Typed'
    BY <1>4, <2>1, <2>2, <2>3 DEF IInv, Typed
  <2>5. active'[key] = mine /\ \A k \in Keys \ {key} : active'[k] = active[k]
    BY <1>2, <2>1 DEF IInv, Typed
  <2>6. MapOwns'
    BY <1>3, <2>1, <2>5 DEF IInv, MapOwns
  <2>7. StartsOwn'
    BY <1>1, <1>2, <1>3, <2>1, <2>5 DEF IInv, StartsOwn, Starting
  <2>8. PolicyInPlace'
    BY <1>1, <1>3, <1>4, <2>1, <2>2 DEF IInv, PolicyInPlace
  <2>9. OwnedOrLost'
    <3> SUFFICES ASSUME NEW box \in running
                 PROVE  \/ \E k \in Keys : active'[k] = box
                        \/ \E d \in Callers : Starting(d)' /\ call'[d].box = box
                        \/ box \in stopping' \cup lost'
      BY <1>4 DEF OwnedOrLost, Starting
    <3>1. CASE \E k \in Keys : active[k] = box
      <4>1. PICK k \in Keys : active[k] = box
        BY <3>1
      <4>2. k # key
        BY <1>6, <4>1, PoolAssumption DEF IInv, Typed
      <4> QED BY <2>5, <4>1, <4>2
    <3>2. CASE \E d \in Callers : Starting(d) /\ call[d].box = box
      BY <1>1, <1>2, <2>5, <3>2 DEF Starting
    <3>3. CASE box \in stopping \cup lost
      BY <1>4, <2>1, <3>3
    <3> QED BY <1>1, <3>1, <3>2, <3>3 DEF IInv, OwnedOrLost, Starting
  <2> QED BY <2>4, <2>6, <2>7, <2>8, <2>9 DEF IInv
<1> QED BY <1>5, <1>6

-----------------------------------------------------------------------------
(* Closing entries of the map                                               *)

\* Entries go together with their containers: nobody else had these.
LEMMA CloseKeeps ==
  ASSUME IInv, up, NEW keys \in SUBSET Keys, Close(keys),
         UNCHANGED <<call, running, sems, created, lost, up>>
  PROVE  IInv'
PROOF
<1> DEFINE gone == {active[k] : k \in keys}
<1>1. /\ stopping = {} /\ stopping' = gone \cap running /\ registry' = registry \ gone
      /\ \A k \in Keys : active'[k] = IF k \in keys THEN None ELSE active[k]
  BY DEF Close, Stop, Unlocked
<1>2. Typed'
  BY DEF IInv, Typed, Close, Stop
<1>3. \A k \in Keys \ keys : active[k] # None => active[k] \notin gone
  BY DEF IInv, MapOwns
<1>4. MapOwns'
  BY <1>1, <1>3 DEF IInv, MapOwns
<1>5. \A c \in Callers : Starting(c) => call[c].box \notin gone /\ call[c].box # None
  BY PoolAssumption DEF IInv, StartsOwn
<1>6. StartsOwn'
  BY <1>1, <1>5 DEF IInv, StartsOwn, Starting
<1>7. PolicyInPlace'
  BY <1>1 DEF IInv, PolicyInPlace
<1>8. OwnedOrLost'
  BY <1>1 DEF IInv, OwnedOrLost
<1> QED BY <1>2, <1>4, <1>6, <1>7, <1>8 DEF IInv

\* remove_active closes whatever the key has by now.
LEMMA RecoverKeeps ==
  ASSUME IInv, NEW c \in Callers, Recover(c)
  PROVE  IInv'
PROOF
<1> USE DEF At
<1> DEFINE key == call[c].key
           gone == active[key]
<1>1. /\ up /\ call[c] \in CallStates \ {Idle} /\ ~Starting(c)
      /\ \A d \in Callers \ {c} : call'[d] = call[d]
  BY OneCallMoves DEF IInv, Step, Recover, Starting
<1>2. /\ stopping = {} /\ stopping' = {gone} \cap running /\ registry' = registry \ {gone}
      /\ active' = [active EXCEPT ![key] = None]
      /\ UNCHANGED <<running, sems, created, lost, up>>
  BY DEF Recover, Stop, Unlocked
<1>3. call' \in [Callers -> CallStates] /\ call'[c].pc = "look" /\ call'[c].box = None /\ ~Starting(c)'
  BY <1>1 DEF IInv, Typed, CallStates, Idle, Places, Starting, Recover
<1>4. key \in Keys /\ active'[key] = None /\ \A k \in Keys \ {key} : active'[k] = active[k]
  BY <1>1, <1>2 DEF IInv, Typed, CallStates
<1>5. Typed'
  BY <1>2, <1>3, <1>4 DEF IInv, Typed
<1>6. MapOwns'
  BY <1>2, <1>4 DEF IInv, MapOwns
<1>7. StartsOwn'
  BY <1>1, <1>2, <1>3, <1>4, PoolAssumption DEF IInv, StartsOwn, Starting
<1>8. PolicyInPlace'
  BY <1>1, <1>2, <1>3 DEF IInv, PolicyInPlace
<1>9. OwnedOrLost'
  BY <1>1, <1>2, <1>3, <1>4 DEF IInv, OwnedOrLost, Starting
<1> QED BY <1>5, <1>6, <1>7, <1>8, <1>9 DEF IInv

\* Docker removes a container that is being stopped, or refuses to.
LEMMA RemovalKeeps ==
  ASSUME IInv, NEW box \in Containers, RemoveContainer(box) \/ RemovalRefused(box) \/ Dies(box)
  PROVE  IInv'
PROOF
<1>1. /\ UNCHANGED <<call, active, registry, sems, created, up>> /\ running' \subseteq running
      /\ \A b \in stopping \cup lost : b \in running' => b \in stopping' \cup lost'
  BY DEF RemoveContainer, RemovalRefused, Dies
<1> QED BY <1>1 DEF IInv, Typed, MapOwns, StartsOwn, Starting, PolicyInPlace, OwnedOrLost

\* The end of the process forgets the map, its successor what Docker does not remove.
LEMMA ProcessKeeps ==
  ASSUME IInv, ProcessEnds \/ CleanupStale
  PROVE  IInv'
PROOF
<1>1. CASE ProcessEnds
  <2>1. /\ call' = [c \in Callers |-> Idle] /\ active' = [k \in Keys |-> None]
        /\ sems' = [cap \in SharedCaps |-> 0] /\ created' = created
        /\ running' \subseteq running /\ ~up'
    BY <1>1 DEF ProcessEnds
  <2>2. Typed'
    BY <2>1 DEF IInv, Typed, CallStates
  <2> QED BY <2>1, <2>2 DEF IInv, MapOwns, StartsOwn, Starting, PolicyInPlace, OwnedOrLost, Idle
<1>2. CASE CleanupStale
  <2>1. /\ UNCHANGED <<call, active, registry, sems, created, stopping>>
        /\ running' \subseteq running /\ lost' = running'
    BY <1>2 DEF CleanupStale
  <2> QED BY <2>1 DEF IInv, Typed, MapOwns, StartsOwn, Starting, PolicyInPlace, OwnedOrLost
<1> QED BY <1>1, <1>2

LEMMA BeginKeeps ==
  ASSUME IInv, NEW c \in Callers, NEW cap \in Caps, NEW s \in Sessions,
         BeginTool(c, cap, s) \/ UploadArtifact(c, cap, s) \/ DownloadArtifact(c, cap, s)
  PROVE  IInv'
PROOF
<1> DEFINE new == [pc |-> call'[c].pc, key |-> KeyOf(cap, s), kind |-> call'[c].kind,
                   box |-> None, sem |-> 0, permit |-> FALSE, retried |-> FALSE]
<1>1. KeyOf(cap, s) \in Keys /\ KeyOf(cap, s).cap = cap
  BY DEF KeyOf, Keys, Caps
<1>2. /\ call' = [call EXCEPT ![c] = new] /\ new.pc \in {"queue", "look"} /\ new.kind \in {"tool", "transfer"}
      /\ UNCHANGED <<active, running, registry, sems, created, stopping, lost, up>> /\ up
      /\ call[c].pc = "idle" /\ (new.pc = "queue" => cap \in SharedCaps)
  BY DEF IInv, Typed, BeginTool, UploadArtifact, DownloadArtifact, Working, At
<1>3. new \in CallStates
  BY <1>1, <1>2 DEF CallStates, Places
<1>4. call' \in [Callers -> CallStates]
  BY <1>2, <1>3 DEF IInv, Typed
<1>5. /\ \A d \in Callers \ {c} : call'[d] = call[d]
      /\ call'[c].pc \in {"queue", "look"} /\ call'[c].box = None
  BY <1>2 DEF IInv, Typed
<1> QED BY <1>2, <1>4, <1>5, PoolAssumption DEF IInv, Typed, MapOwns, StartsOwn, Starting, PolicyInPlace, OwnedOrLost

-----------------------------------------------------------------------------
LEMMA NextInvariant == IInv /\ [Next]_vars => IInv'
PROOF
<1> SUFFICES ASSUME IInv, [Next]_vars PROVE IInv'
  OBVIOUS
<1>1. ASSUME NEW c \in Callers, Step(c) PROVE IInv'
  BY <1>1, QuietStepKeeps, RegisterKeeps, StartKeeps, FailedStartKeeps, PublishKeeps, RecoverKeeps
  DEF Step, QuietStep
<1>2. ASSUME NEW c \in Callers, NEW cap \in Caps, NEW s \in Sessions,
             BeginTool(c, cap, s) \/ UploadArtifact(c, cap, s) \/ DownloadArtifact(c, cap, s)
      PROVE  IInv'
  BY <1>2, BeginKeeps
<1>3. ASSUME NEW s \in Sessions, CloseSession(s) PROVE IInv'
  BY <1>3, CloseKeeps DEF CloseSession
<1>4. ASSUME NEW cap \in Caps, CloseCapability(cap) PROVE IInv'
  BY <1>4, CloseKeeps DEF CloseCapability
<1>5. ASSUME NEW cap \in SharedCaps, ReaperStops(cap) PROVE IInv'
  <2>1. {KeyOf(cap, "shared")} \in SUBSET Keys
    BY DEF KeyOf, Keys
  <2> QED BY <1>5, <2>1, CloseKeeps DEF ReaperStops
<1>6. CASE ReaperScans \/ ReaperForgets \/ (\E cap \in SharedCaps : GoesIdle(cap))
  BY <1>6 DEF ReaperScans, ReaperForgets, GoesIdle, IInv, Typed, MapOwns, StartsOwn, Starting,
              PolicyInPlace, OwnedOrLost
<1>7. ASSUME NEW box \in Containers, RemoveContainer(box) \/ RemovalRefused(box) \/ Dies(box)
      PROVE  IInv'
  BY <1>7, RemovalKeeps
<1>8. CASE ProcessEnds \/ CleanupStale
  BY <1>8, ProcessKeeps
<1>9. CASE UNCHANGED vars
  BY <1>9 DEF vars, IInv, Typed, MapOwns, StartsOwn, Starting, PolicyInPlace, OwnedOrLost
<1> QED BY <1>1, <1>2, <1>3, <1>4, <1>5, <1>6, <1>7, <1>8, <1>9 DEF Next

\* A running container that takes calls has its policy, and none runs without an owner,
\* but for those that are being stopped, whose connection failed, or that Docker refused to
\* remove: however calls of capabilities/mod.rs start, publish, reuse, recover and tear
\* down, and wherever the process stops.
THEOREM PoolAccounted == Spec => []ContainersAccounted
PROOF
<1>1. IInv => ContainersAccounted
  BY DEF IInv, ContainersAccounted
<1> QED BY <1>1, InitInvariant, NextInvariant, PTL DEF Spec

-----------------------------------------------------------------------------
(* What a user decided about the network                                    *)

NetworkStages == {"idle", "access", "hosts", "store", "resolved", "start", "reuse", "running"}
Policies == [mode : Network!Modes \cup {"absent"}, allowed : SUBSET Hosts, denied : SUBSET Hosts]
NetworkCalls == [pc : NetworkStages, policy : Policies, stale : BOOLEAN, access : {"allow", "deny"},
                 raced : BOOLEAN, begun : Nat, since : Nat]
Sourced == [policy : Policies, stale : BOOLEAN]
Declared == [mode : Network!Modes, hosts : SUBSET Hosts]

NetworkTyped ==
  /\ manifest \in Declared
  /\ decided \in Seq(Network!Decisions)
  /\ answered \in 1 .. Len(decided) /\ pending \subseteq 1 .. Len(decided)
  /\ cache \in Sourced /\ registered \in Sourced
  /\ resolving \in [NetworkCallers -> NetworkCalls]

\* What a manifest and the user's decisions from the n-th on can resolve to, the access
\* and the hosts being read one after the other.
After(ds, n) == {ds[i] : i \in n .. Len(ds)}
Views(m, ds, n) == {Network!Effective(m, d[1].access, d[2].hosts) : d \in After(ds, n) \X After(ds, n)}
AccessRead(x, ds, n) == \E d \in After(ds, n) : x = d.access

\* What is cached or registered is such a policy, or overtaken.
Grounded(p, m, ds, n) == p # Network!None /\ ~p.stale => p.policy \in Views(m, ds, n)

\* So is what a call has, and one that no answer overtook has read what the user was told last.
Faithful(r, m, ds, told) ==
  /\ r.pc \in {"resolved", "start", "reuse"} /\ ~r.stale => r.policy \in Views(m, ds, r.begun)
  /\ r.pc = "hosts" => AccessRead(r.access, ds, r.begun) /\ (~r.raced => AccessRead(r.access, ds, told))
  /\ r.pc = "store" => r.policy \in Views(m, ds, r.begun) /\ (~r.raced => r.policy \in Views(m, ds, told))

InNetwork(c) == resolving[c].pc # "idle"

\* A call looks back at least to the beginning of every call beside it.
Told(c) ==
  InNetwork(c) =>
    /\ 1 <= resolving[c].since /\ resolving[c].since <= resolving[c].begun /\ resolving[c].begun <= answered
    /\ \A d \in NetworkCallers : InNetwork(d) => resolving[c].since <= resolving[d].begun

Held(c) ==
  resolving[c].pc \in {"start", "running"} => Grounded(registered, manifest, decided, resolving[c].since)

NetworkInv ==
  /\ NetworkTyped
  /\ \A c \in NetworkCallers : Told(c)
  /\ exclusive => /\ \A c \in NetworkCallers : Faithful(resolving[c], manifest, decided, answered) /\ Held(c)
                  /\ Grounded(cache, manifest, decided, answered)

Grown(ds, es) == es = ds \/ \E d \in Network!Decisions : es = Append(ds, d)

\* A policy that could be resolved stays one, and one of later decisions is one of earlier.
LEMMA ViewsGrow ==
  ASSUME NEW m, NEW ds \in Seq(Network!Decisions), NEW es, Grown(ds, es),
         NEW n \in Nat, NEW k \in Nat, 1 <= n, n <= k
  PROVE  Views(m, ds, k) \subseteq Views(m, es, n) /\ After(ds, k) \subseteq After(es, n)
PROOF
<1>1. After(ds, k) \subseteq After(es, n)
  <2> SUFFICES ASSUME NEW i \in k .. Len(ds) PROVE ds[i] \in After(es, n)
    BY DEF After
  <2>1. es[i] = ds[i] /\ i \in n .. Len(es)
    BY DEF Grown
  <2> QED BY <2>1 DEF After
<1> QED BY <1>1 DEF Views

LEMMA FaithfulGrows ==
  ASSUME NEW r \in NetworkCalls, NEW m, NEW ds \in Seq(Network!Decisions), NEW es, Grown(ds, es),
         NEW n \in Nat, 1 <= n, r.pc # "idle" => 1 <= r.begun, Faithful(r, m, ds, n)
  PROVE  Faithful(r, m, es, n)
PROOF
<1>1. r.begun \in Nat
  BY DEF NetworkCalls
<1>2. Views(m, ds, n) \subseteq Views(m, es, n) /\ After(ds, n) \subseteq After(es, n)
  BY ViewsGrow
<1>3. ASSUME r.pc # "idle"
      PROVE  /\ Views(m, ds, r.begun) \subseteq Views(m, es, r.begun)
             /\ After(ds, r.begun) \subseteq After(es, r.begun)
  <2> DEFINE b == r.begun
  <2>1. b \in Nat /\ 1 <= b /\ b <= b
    BY <1>1, <1>3
  <2> HIDE DEF b
  <2>2. Views(m, ds, b) \subseteq Views(m, es, b) /\ After(ds, b) \subseteq After(es, b)
    BY <2>1, ViewsGrow
  <2> QED BY <2>2 DEF b
<1> QED BY <1>2, <1>3 DEF Faithful, AccessRead

LEMMA LastIsLater ==
  ASSUME NEW ds \in Seq(Network!Decisions), NEW n \in Nat, n <= Len(ds), 1 <= n
  PROVE  ds[Len(ds)] \in Network!Decisions /\ ds[Len(ds)] \in After(ds, n)
PROOF
<1>1. Len(ds) \in 1 .. Len(ds) /\ Len(ds) \in n .. Len(ds)
  OBVIOUS
<1> QED BY <1>1 DEF After

\* An access and a list of hosts that were both decided resolve to a policy among them.
LEMMA ViewsHave ==
  ASSUME NEW m, NEW ds, NEW n, NEW x, AccessRead(x, ds, n), NEW b \in After(ds, n)
  PROVE  Network!Effective(m, x, b.hosts) \in Views(m, ds, n)
PROOF
<1>1. PICK a \in After(ds, n) : x = a.access
  BY DEF AccessRead
<1> DEFINE d == <<a, b>>
<1>2. d \in After(ds, n) \X After(ds, n) /\ d[1] = a /\ d[2] = b
  OBVIOUS
<1> HIDE DEF d
<1> QED BY <1>1, <1>2 DEF Views

LEMMA EffectiveTyped ==
  ASSUME NEW m \in Declared, NEW x, NEW hosts
  PROVE  Network!Effective(m, x, hosts) \in Policies
PROOF
<1> DEFINE denied == {h \in Hosts : hosts[h] = "deny"}
           allowed == (m.hosts \cup {h \in Hosts : hosts[h] = "allow"}) \ denied
           mode == IF m.mode = "none" /\ allowed # {} THEN "allowlist" ELSE m.mode
<1>1. denied \subseteq Hosts /\ allowed \subseteq Hosts /\ mode \in Network!Modes
  BY DEF Declared, Network!Modes
<1>2. Network!Effective(m, x, hosts) = IF x = "deny" THEN Network!Nothing
                                       ELSE [mode |-> mode, allowed |-> allowed, denied |-> denied]
  BY DEF Network!Effective
<1> HIDE DEF denied, allowed, mode
<1> QED BY <1>1, <1>2 DEF Policies, Network!Nothing, Network!Modes

\* A policy of the decisions from the n-th on agrees with whatever stayed the same since.
LEMMA ViewsRespect ==
  ASSUME NetworkTyped, NEW n \in Nat, NEW policy \in Views(manifest, decided, n), NEW h \in Hosts
  PROVE  Network!Respects(policy, n, h)
PROOF
<1>1. PICK a \in Network!Later(n), b \in Network!Later(n) :
        policy = Network!Effective(manifest, a.access, b.hosts)
  BY DEF Views, After, Network!Later
<1> DEFINE denied == {g \in Hosts : b.hosts[g] = "deny"}
           allowed == (manifest.hosts \cup {g \in Hosts : b.hosts[g] = "allow"}) \ denied
           mode == IF manifest.mode = "none" /\ allowed # {} THEN "allowlist" ELSE manifest.mode
<1>2. policy = IF a.access = "deny" THEN Network!Nothing
               ELSE [mode |-> mode, allowed |-> allowed, denied |-> denied]
  BY <1>1 DEF Network!Effective
<1>3. /\ h \in denied <=> b.hosts[h] = "deny"
      /\ h \in allowed <=> (h \in manifest.hosts \/ b.hosts[h] = "allow") /\ b.hosts[h] # "deny"
      /\ manifest.mode \in {"none", "any", "allowlist"}
      /\ h \in allowed => mode \in {"any", "allowlist"}
      /\ mode = "any" <=> manifest.mode = "any"
  BY DEF NetworkTyped, Declared, Network!Modes
<1> HIDE DEF denied, allowed, mode
<1>4. Network!Allows(policy, h) <=>
        a.access # "deny" /\ b.hosts[h] # "deny" /\ (b.hosts[h] = "allow" \/ Network!Declares(h))
  BY <1>2, <1>3 DEF Network!Allows, Network!Nothing, Network!Declares
<1> QED BY <1>1, <1>4 DEF Network!Respects

-----------------------------------------------------------------------------
\* What is decided, cached and registered stays as it is or grows older, and calls move
\* one at a time: each conjunct speaks of what the step changes.
LEMMA CallMoves ==
  ASSUME NetworkInv, NEW c \in NetworkCallers, NEW r \in NetworkCalls,
         resolving' = [resolving EXCEPT ![c] = r],
         r.pc # "idle" =>
           /\ 1 <= r.since /\ r.since <= r.begun /\ r.begun <= answered
           /\ \A d \in NetworkCallers : InNetwork(d) => r.since <= resolving[d].begun
           /\ InNetwork(c) => r.begun = resolving[c].begun
           /\ ~InNetwork(c) => r.begun = answered,
         UNCHANGED <<manifest, exclusive, decided, answered, pending>>,
         cache' \in Sourced, registered' \in Sourced,
         exclusive => /\ Faithful(r, manifest, decided, answered)
                      /\ Grounded(cache', manifest, decided, answered)
                      /\ \A d \in NetworkCallers : Held(d)'
  PROVE  NetworkInv'
PROOF
<1>1. /\ resolving' \in [NetworkCallers -> NetworkCalls] /\ resolving'[c] = r
      /\ \A d \in NetworkCallers \ {c} : resolving'[d] = resolving[d]
  BY DEF NetworkInv, NetworkTyped
<1>2. NetworkTyped'
  BY <1>1 DEF NetworkInv, NetworkTyped
<1>3. ASSUME NEW d \in NetworkCallers PROVE Told(d)'
  <2>0. /\ \A e \in NetworkCallers : resolving[e].begun \in Nat /\ resolving[e].since \in Nat
        /\ answered \in Nat /\ r.begun \in Nat /\ r.since \in Nat
    BY DEF NetworkInv, NetworkTyped, NetworkCalls
  <2>1. CASE d = c
    BY <1>1, <2>0, <2>1 DEF Told, InNetwork
  <2>2. CASE d # c /\ InNetwork(d)
    <3>1. resolving[d].since <= answered
      BY <2>0, <2>2 DEF NetworkInv, Told
    <3>2. InNetwork(c)' => resolving[d].since <= r.begun
      BY <1>1, <2>0, <2>2, <3>1 DEF NetworkInv, Told, InNetwork
    <3> QED BY <1>1, <2>2, <3>2 DEF NetworkInv, Told, InNetwork
  <2>3. CASE d # c /\ ~InNetwork(d)
    BY <1>1, <2>3 DEF Told, InNetwork
  <2> QED BY <2>1, <2>2, <2>3
<1>4. ASSUME exclusive, NEW d \in NetworkCallers PROVE Faithful(resolving'[d], manifest, decided, answered)
  BY <1>1, <1>4 DEF NetworkInv
<1> QED BY <1>2, <1>3, <1>4 DEF NetworkInv

\* As long as nothing is registered anew, the calls that were held stay so.
LEMMA StillHeld ==
  ASSUME NetworkInv, exclusive, NEW c \in NetworkCallers, NEW r \in NetworkCalls,
         resolving' = [resolving EXCEPT ![c] = r], UNCHANGED <<manifest, decided, registered>>,
         \/ r.pc \notin {"start", "running"}
         \/ registered = Network!None
         \/ resolving[c].pc \in {"start", "running"} /\ r.since = resolving[c].since
  PROVE  \A d \in NetworkCallers : Held(d)'
PROOF
<1>1. /\ resolving'[c] = r
      /\ \A d \in NetworkCallers \ {c} : resolving'[d] = resolving[d]
  BY DEF NetworkInv, NetworkTyped
<1>2. \A d \in NetworkCallers : Held(d)
  BY DEF NetworkInv
<1> QED BY <1>1, <1>2 DEF Held, Grounded

\* What a call registers is a policy that every call beside it may have.
LEMMA NewlyHeld ==
  ASSUME NetworkInv, exclusive, NEW c \in NetworkCallers, NEW r \in NetworkCalls,
         resolving[c].pc \in {"reuse", "start"}, r.since = resolving[c].since,
         resolving' = [resolving EXCEPT ![c] = r], UNCHANGED <<manifest, decided>>,
         registered' = [policy |-> resolving[c].policy, stale |-> resolving[c].stale]
  PROVE  \A d \in NetworkCallers : Held(d)'
PROOF
<1>1. /\ resolving'[c] = r
      /\ \A d \in NetworkCallers \ {c} : resolving'[d] = resolving[d]
      /\ resolving[c].begun \in Nat /\ decided \in Seq(Network!Decisions)
      /\ \A d \in NetworkCallers : resolving[d].since \in Nat
  BY DEF NetworkInv, NetworkTyped, NetworkCalls
<1>2. ~resolving[c].stale => resolving[c].policy \in Views(manifest, decided, resolving[c].begun)
  BY DEF NetworkInv, Faithful
<1> SUFFICES ASSUME NEW d \in NetworkCallers, resolving'[d].pc \in {"start", "running"}, ~resolving[c].stale
             PROVE  resolving[c].policy \in Views(manifest, decided, resolving'[d].since)
  BY DEF Held, Grounded
<1>3. resolving'[d].since = resolving[d].since /\ InNetwork(d) /\ InNetwork(c)
  BY <1>1 DEF InNetwork
<1>4. 1 <= resolving[d].since /\ resolving[d].since <= resolving[c].begun
  BY <1>3 DEF NetworkInv, Told
<1>5. Grown(decided, decided)
  BY DEF Grown
<1> QED BY <1>1, <1>2, <1>3, <1>4, <1>5, ViewsGrow

LEMMA CallsStart ==
  ASSUME NetworkInv, NEW c \in NetworkCallers, Network!ReadCache(c) \/ Network!UseManifest(c)
  PROVE  NetworkInv'
PROOF
<1>1. PICK oldest \in Network!Moments, pc \in {"resolved", "access"}, found \in Sourced :
        /\ ~InNetwork(c) /\ \A n \in Network!Moments : oldest <= n
        /\ resolving' = [resolving EXCEPT ![c] =
             [pc |-> pc, policy |-> found.policy, stale |-> found.stale, access |-> "allow",
              raced |-> FALSE, begun |-> answered, since |-> oldest]]
        /\ UNCHANGED <<manifest, exclusive, decided, pending, answered, cache, registered>>
        /\ exclusive /\ pc = "resolved" => found = cache /\ cache # Network!None
  <2>0. ASSUME NEW pc \in {"resolved", "access"}, NEW found \in Sourced, Network!Begins(c, pc, found)
        PROVE  /\ ~InNetwork(c)
               /\ UNCHANGED <<manifest, exclusive, decided, pending, answered, cache, registered>>
               /\ \E oldest \in Network!Moments :
                    /\ \A n \in Network!Moments : oldest <= n
                    /\ resolving' = [resolving EXCEPT ![c] =
                         [pc |-> pc, policy |-> found.policy, stale |-> found.stale, access |-> "allow",
                          raced |-> FALSE, begun |-> answered, since |-> oldest]]
    BY <2>0 DEF Network!Begins, InNetwork
  <2>1. CASE Network!ReadCache(c) /\ cache # Network!None
    <3>1. Network!Begins(c, "resolved", cache) /\ cache \in Sourced
      BY <2>1 DEF Network!ReadCache, NetworkInv, NetworkTyped
    <3> QED BY <2>0, <2>1, <3>1
  <2>2. CASE Network!ReadCache(c) /\ cache = Network!None
    <3>1. Network!Begins(c, "access", Network!None) /\ Network!None \in Sourced
      BY <2>2 DEF Network!ReadCache, NetworkInv, NetworkTyped
    <3> QED BY <2>0, <2>2, <3>1
  <2>3. CASE Network!UseManifest(c)
    <3> DEFINE found == [policy |-> Network!ManifestAlone, stale |-> FALSE]
    <3>1. found \in Sourced
      BY DEF Network!ManifestAlone, NetworkInv, NetworkTyped, Declared, Sourced, Policies
    <3>2. Network!Begins(c, "resolved", found) /\ ~exclusive
      BY <2>3 DEF Network!UseManifest
    <3> HIDE DEF found
    <3> QED BY <2>0, <3>1, <3>2
  <2> QED BY <2>1, <2>2, <2>3
<1> DEFINE r == [pc |-> pc, policy |-> found.policy, stale |-> found.stale, access |-> "allow",
                 raced |-> FALSE, begun |-> answered, since |-> oldest]
<1>2. /\ answered \in Nat /\ 1 <= answered
      /\ \A d \in NetworkCallers : InNetwork(d) => resolving[d].begun \in Nat /\ 1 <= resolving[d].begun
  <2>1. \A d \in NetworkCallers : resolving[d].begun \in Nat /\ resolving[d].since \in Nat
    BY DEF NetworkInv, NetworkTyped, NetworkCalls
  <2> QED BY <2>1 DEF NetworkInv, NetworkTyped, Told
<1>3. /\ oldest \in Nat /\ 1 <= oldest /\ oldest <= answered
      /\ \A d \in NetworkCallers : InNetwork(d) => oldest <= resolving[d].begun
  BY <1>1, <1>2 DEF Network!Moments, Network!Busy, InNetwork
<1>4. r \in NetworkCalls
  BY <1>2, <1>3 DEF NetworkCalls, NetworkStages, Sourced
<1>5. exclusive => Faithful(r, manifest, decided, answered)
  BY <1>1 DEF Faithful, NetworkInv, Grounded
<1>6. r.pc \notin {"start", "running"} /\ r.begun = answered /\ r.since = oldest
  OBVIOUS
<1>7. resolving' = [resolving EXCEPT ![c] = r]
  BY <1>1
<1> HIDE DEF r
<1>8. exclusive => \A d \in NetworkCallers : Held(d)'
  BY <1>1, <1>4, <1>6, <1>7, StillHeld
<1>9. /\ cache' \in Sourced /\ registered' \in Sourced
      /\ exclusive => Grounded(cache', manifest, decided, answered)
  BY <1>1 DEF NetworkInv, NetworkTyped
<1>10. /\ 1 <= r.since /\ r.since <= r.begun /\ r.begun <= answered
       /\ \A d \in NetworkCallers : InNetwork(d) => r.since <= resolving[d].begun
       /\ ~InNetwork(c) /\ r.begun = answered
  BY <1>1, <1>2, <1>3, <1>6
<1>11. UNCHANGED <<manifest, exclusive, decided, answered, pending>>
  BY <1>1
<1> QED BY <1>4, <1>5, <1>7, <1>8, <1>9, <1>10, <1>11, CallMoves

LEMMA CallsMove ==
  ASSUME NetworkInv, NEW c \in NetworkCallers,
         \/ Network!ReadAccess(c) \/ Network!ReadHosts(c) \/ Network!StoreCache(c) \/ Network!Look(c)
         \/ Network!RegisterPolicy(c) \/ Network!Publish(c) \/ Network!Finish(c)
  PROVE  NetworkInv'
PROOF
<1> DEFINE r == resolving'[c]
           now == decided[Len(decided)]
<1>1. /\ resolving \in [NetworkCallers -> NetworkCalls] /\ resolving[c] \in NetworkCalls
      /\ manifest \in Declared /\ decided \in Seq(Network!Decisions) /\ answered \in 1 .. Len(decided)
      /\ UNCHANGED <<manifest, exclusive, decided, pending, answered>>
      /\ InNetwork(c) /\ Told(c)
      /\ cache \in Sourced /\ registered \in Sourced
  BY DEF NetworkInv, NetworkTyped, InNetwork, Network!ReadAccess, Network!ReadHosts, Network!StoreCache, Network!Look,
         Network!RegisterPolicy, Network!Publish, Network!Finish, Network!Moves, Network!Busy
<1>2. /\ resolving[c].begun \in Nat /\ resolving[c].since \in Nat
      /\ 1 <= resolving[c].begun /\ resolving[c].begun <= answered /\ answered \in Nat
  BY <1>1 DEF Told, NetworkCalls
<1>3. /\ now \in Network!Decisions /\ now \in After(decided, resolving[c].begun)
      /\ now \in After(decided, answered)
  BY <1>1, <1>2, LastIsLater
<1>4. exclusive => /\ Faithful(resolving[c], manifest, decided, answered)
                   /\ Grounded(cache, manifest, decided, answered)
  BY DEF NetworkInv
<1> HIDE DEF now
<1>5. ASSUME NEW s \in NetworkCalls, resolving' = [resolving EXCEPT ![c] = s],
             s.pc # "idle" => s.begun = resolving[c].begun /\ s.since = resolving[c].since,
             cache' \in Sourced, registered' \in Sourced,
             exclusive => /\ Faithful(s, manifest, decided, answered)
                          /\ Grounded(cache', manifest, decided, answered)
                          /\ \A d \in NetworkCallers : Held(d)'
      PROVE  NetworkInv'
  BY <1>1, <1>5, CallMoves DEF Told
<1>6. CASE Network!ReadAccess(c)
  <2> DEFINE s == [resolving[c] EXCEPT !.pc = "hosts", !.access = now.access]
  <2>1. /\ resolving' = [resolving EXCEPT ![c] = s] /\ UNCHANGED <<cache, registered>>
    BY <1>6 DEF Network!ReadAccess, Network!Now, now
  <2>2. /\ s \in NetworkCalls /\ s.pc = "hosts" /\ s.access = now.access
        /\ s.begun = resolving[c].begun /\ s.since = resolving[c].since
    BY <1>1, <1>3 DEF NetworkCalls, NetworkStages, Network!Decisions
  <2> HIDE DEF s
  <2>3. Faithful(s, manifest, decided, answered)
    BY <1>3, <2>2 DEF Faithful, AccessRead
  <2> QED BY <1>1, <1>4, <1>5, <2>1, <2>2, <2>3, StillHeld
<1>7. CASE Network!ReadHosts(c)
  <2> DEFINE p == Network!Effective(manifest, resolving[c].access, now.hosts)
             s == [resolving[c] EXCEPT !.pc = "store", !.access = "allow", !.policy = p]
  <2>1. /\ resolving' = [resolving EXCEPT ![c] = s] /\ UNCHANGED <<cache, registered>> /\ resolving[c].pc = "hosts"
    BY <1>7 DEF Network!ReadHosts, Network!Now, now
  <2>2. p \in Policies
    BY <1>1, EffectiveTyped
  <2>3. exclusive => /\ p \in Views(manifest, decided, resolving[c].begun)
                     /\ ~resolving[c].raced => p \in Views(manifest, decided, answered)
    <3>1. exclusive => /\ AccessRead(resolving[c].access, decided, resolving[c].begun)
                       /\ ~resolving[c].raced => AccessRead(resolving[c].access, decided, answered)
      BY <1>4, <2>1 DEF Faithful
    <3> QED BY <1>3, <3>1, ViewsHave
  <2> HIDE DEF p
  <2>4. /\ s \in NetworkCalls /\ s.pc = "store" /\ s.policy = p /\ s.raced = resolving[c].raced
        /\ s.begun = resolving[c].begun /\ s.since = resolving[c].since
    BY <1>1, <2>2 DEF NetworkCalls, NetworkStages
  <2> HIDE DEF s
  <2>5. exclusive => Faithful(s, manifest, decided, answered)
    BY <2>3, <2>4 DEF Faithful
  <2> QED BY <1>1, <1>4, <1>5, <2>1, <2>4, <2>5, StillHeld
<1>8. CASE Network!StoreCache(c)
  <2> DEFINE s == [resolving[c] EXCEPT !.pc = "resolved", !.raced = FALSE]
  <2>1. /\ resolving' = [resolving EXCEPT ![c] = s] /\ UNCHANGED registered /\ resolving[c].pc = "store"
        /\ cache' = [policy |-> resolving[c].policy, stale |-> resolving[c].raced]
    BY <1>8 DEF Network!StoreCache
  <2>2. /\ s \in NetworkCalls /\ s.pc = "resolved" /\ s.policy = resolving[c].policy
        /\ s.begun = resolving[c].begun /\ s.since = resolving[c].since /\ cache' \in Sourced
    BY <1>1, <2>1 DEF NetworkCalls, NetworkStages, Sourced
  <2> HIDE DEF s
  <2>3. exclusive => Faithful(s, manifest, decided, answered) /\ Grounded(cache', manifest, decided, answered)
    BY <1>4, <2>1, <2>2 DEF Faithful, Grounded
  <2> QED BY <1>1, <1>5, <2>1, <2>2, <2>3, StillHeld
<1>9. CASE Network!Look(c)
  <2> DEFINE pc == IF registered = Network!None THEN "start" ELSE "reuse"
             s == [resolving[c] EXCEPT !.pc = pc]
  <2>1. /\ resolving' = [resolving EXCEPT ![c] = s] /\ UNCHANGED <<cache, registered>>
        /\ resolving[c].pc = "resolved"
    BY <1>9 DEF Network!Look
  <2>2. /\ s \in NetworkCalls /\ s.pc \in {"start", "reuse"} /\ s.policy = resolving[c].policy
        /\ s.stale = resolving[c].stale /\ s.begun = resolving[c].begun /\ s.since = resolving[c].since
        /\ s.pc = "start" => registered = Network!None
    BY <1>1 DEF NetworkCalls, NetworkStages
  <2> HIDE DEF s
  <2>3. exclusive => Faithful(s, manifest, decided, answered)
    BY <1>4, <2>1, <2>2 DEF Faithful
  <2> QED BY <1>1, <1>4, <1>5, <2>1, <2>2, <2>3, StillHeld
<1>10. CASE Network!RegisterPolicy(c) \/ Network!Publish(c)
  <2> DEFINE s == [resolving[c] EXCEPT !.pc = "running", !.policy = Network!Absent, !.stale = FALSE]
  <2>1. /\ resolving' = [resolving EXCEPT ![c] = s] /\ UNCHANGED cache /\ resolving[c].pc \in {"reuse", "start"}
        /\ \/ registered' = [policy |-> resolving[c].policy, stale |-> resolving[c].stale]
           \/ UNCHANGED registered /\ resolving[c].pc = "start"
    BY <1>10 DEF Network!RegisterPolicy, Network!Publish, Network!Runs, Network!Own
  <2>2. /\ s \in NetworkCalls /\ s.pc = "running"
        /\ s.begun = resolving[c].begun /\ s.since = resolving[c].since /\ registered' \in Sourced
    <3>1. Network!Absent \in Policies
      BY DEF Policies, Network!Absent
    <3>2. registered' \in Sourced
      BY <1>1, <2>1 DEF NetworkCalls, Sourced
    <3> QED BY <1>1, <3>1, <3>2 DEF NetworkCalls, NetworkStages
  <2> HIDE DEF s
  <2>3. Faithful(s, manifest, decided, answered)
    BY <2>2 DEF Faithful
  <2>4. exclusive => \A d \in NetworkCallers : Held(d)'
    BY <1>1, <2>1, <2>2, StillHeld, NewlyHeld
  <2> QED BY <1>1, <1>4, <1>5, <2>1, <2>2, <2>3, <2>4
<1>11. CASE Network!Finish(c)
  <2> DEFINE s == Network!Idle
  <2>1. resolving' = [resolving EXCEPT ![c] = s] /\ UNCHANGED <<cache, registered>>
    BY <1>11 DEF Network!Finish
  <2>2. s \in NetworkCalls /\ s.pc = "idle"
    BY DEF NetworkCalls, NetworkStages, Policies, Network!Idle, Network!Absent
  <2> HIDE DEF s
  <2>3. Faithful(s, manifest, decided, answered)
    BY <2>2 DEF Faithful
  <2> QED BY <1>1, <1>4, <1>5, <2>1, <2>2, <2>3, StillHeld
<1> QED BY <1>6, <1>7, <1>8, <1>9, <1>10, <1>11

\* A decision that is saved takes nothing back from what could be resolved before it.
LEMMA DecisionsKeep ==
  ASSUME NetworkInv, NEW d \in Network!Decisions, Network!Saves(d)
  PROVE  NetworkInv'
PROOF
<1>1. /\ decided \in Seq(Network!Decisions) /\ decided' = Append(decided, d)
      /\ decided' \in Seq(Network!Decisions) /\ Len(decided') = Len(decided) + 1
      /\ pending' = pending \cup {Len(decided) + 1}
      /\ UNCHANGED <<manifest, exclusive, answered, cache, resolving, registered>>
  BY DEF Network!Saves, NetworkInv, NetworkTyped
<1>2. Grown(decided, decided') /\ answered \in Nat /\ 1 <= answered
  BY <1>1 DEF Grown, NetworkInv, NetworkTyped
<1>3. NetworkTyped'
  <2> DEFINE n == Len(decided)
  <2>1. n \in Nat /\ pending \subseteq 1 .. n /\ answered \in 1 .. n
    BY <1>1 DEF NetworkInv, NetworkTyped
  <2>2. pending' = pending \cup {n + 1} /\ answered' = answered /\ Len(decided') = n + 1
    BY <1>1
  <2> HIDE DEF n
  <2>3. pending \cup {n + 1} \subseteq 1 .. n + 1 /\ answered \in 1 .. n + 1
    BY <2>1
  <2> QED BY <1>1, <2>2, <2>3 DEF NetworkInv, NetworkTyped
<1>4. \A c \in NetworkCallers : Told(c)'
  BY <1>1 DEF NetworkInv, Told, InNetwork
<1>5. ASSUME exclusive, NEW c \in NetworkCallers PROVE Faithful(resolving[c], manifest, decided', answered) /\ Held(c)'
  <2>1. /\ resolving[c] \in NetworkCalls /\ resolving[c].since \in Nat /\ resolving[c].begun \in Nat
        /\ resolving[c].pc # "idle" => 1 <= resolving[c].since /\ 1 <= resolving[c].begun
    BY DEF NetworkInv, NetworkTyped, NetworkCalls, Told, InNetwork
  <2>2. Faithful(resolving[c], manifest, decided', answered)
    BY <1>1, <1>2, <1>5, <2>1, FaithfulGrows DEF NetworkInv
  <2>3. ASSUME resolving[c].pc \in {"start", "running"}
        PROVE  Views(manifest, decided, resolving[c].since) \subseteq Views(manifest, decided', resolving[c].since)
    <3> DEFINE n == resolving[c].since
    <3>1. n \in Nat /\ 1 <= n /\ n <= n
      BY <2>1, <2>3
    <3> HIDE DEF n
    <3>2. Views(manifest, decided, n) \subseteq Views(manifest, decided', n)
      BY <1>1, <1>2, <3>1, ViewsGrow
    <3> QED BY <3>2 DEF n
  <2>4. Held(c)
    BY <1>5 DEF NetworkInv
  <2> QED BY <1>1, <2>2, <2>3, <2>4 DEF Held, Grounded
<1>6. exclusive => Grounded(cache, manifest, decided', answered)
  BY <1>1, <1>2, ViewsGrow DEF NetworkInv, Grounded
<1> QED BY <1>1, <1>3, <1>4, <1>5, <1>6 DEF NetworkInv

\* An answer leaves no cached policy behind, but with the calls that it overtakes.
LEMMA AnswersKeep ==
  ASSUME NetworkInv, NEW n \in pending, Network!Invalidate(n)
  PROVE  NetworkInv'
PROOF
<1>1. /\ cache' = Network!None /\ answered' = (IF n > answered THEN n ELSE answered)
      /\ pending' = pending \ {n} /\ UNCHANGED <<manifest, exclusive, decided, registered>>
      /\ n \in 1 .. Len(decided) /\ answered \in 1 .. Len(decided)
  BY DEF Network!Invalidate, NetworkInv, NetworkTyped
<1>2. ASSUME NEW c \in NetworkCallers
      PROVE  /\ resolving'[c] = [resolving[c] EXCEPT !.raced = @ \/ resolving[c].pc \in {"hosts", "store"}]
             /\ resolving[c] \in NetworkCalls
             /\ resolving'[c] \in NetworkCalls
             /\ resolving'[c].pc = resolving[c].pc /\ resolving'[c].policy = resolving[c].policy
             /\ resolving'[c].stale = resolving[c].stale /\ resolving'[c].access = resolving[c].access
             /\ resolving'[c].begun = resolving[c].begun /\ resolving'[c].since = resolving[c].since
             /\ resolving[c].pc \in {"hosts", "store"} => resolving'[c].raced
  <2>1. resolving[c] \in NetworkCalls
    BY DEF NetworkInv, NetworkTyped
  <2>2. resolving'[c] = [resolving[c] EXCEPT !.raced = @ \/ resolving[c].pc \in {"hosts", "store"}]
    BY DEF Network!Invalidate
  <2>3. (resolving[c].raced \/ resolving[c].pc \in {"hosts", "store"}) \in BOOLEAN
    OBVIOUS
  <2> QED BY <2>1, <2>2, <2>3 DEF NetworkCalls
<1>3. resolving' = [c \in NetworkCallers |-> resolving'[c]]
  BY DEF Network!Invalidate
<1>4. NetworkTyped'
  <2>1. resolving' \in [NetworkCallers -> NetworkCalls]
    BY <1>2, <1>3
  <2>2. Network!None \in Sourced
    BY DEF Network!None, Network!Absent, Sourced, Policies
  <2> QED BY <1>1, <2>1, <2>2 DEF NetworkInv, NetworkTyped
<1>5. answered <= answered' /\ answered \in Nat /\ answered' \in Nat
  BY <1>1
<1>6. ASSUME NEW c \in NetworkCallers PROVE Told(c)'
  <2>1. \A d \in NetworkCallers : /\ resolving[d].begun \in Nat
                                  /\ resolving'[d].begun = resolving[d].begun
                                  /\ InNetwork(d)' <=> InNetwork(d)
    BY <1>2 DEF InNetwork, NetworkCalls
  <2>2. Told(c)
    BY DEF NetworkInv
  <2>3. /\ resolving[c].since \in Nat /\ resolving'[c].since = resolving[c].since
        /\ resolving'[c].pc = resolving[c].pc
    BY <1>2 DEF NetworkCalls
  <2> QED BY <1>5, <2>1, <2>2, <2>3 DEF Told, InNetwork
<1>7. ASSUME exclusive, NEW c \in NetworkCallers PROVE Faithful(resolving'[c], manifest, decided, answered') /\ Held(c)'
  <2>1. Faithful(resolving[c], manifest, decided, answered) /\ Held(c)
    BY <1>7 DEF NetworkInv
  <2> QED BY <1>1, <1>2, <2>1 DEF Faithful, Held
<1>8. Grounded(cache', manifest, decided, answered')
  BY <1>1 DEF Grounded
<1> QED BY <1>1, <1>4, <1>6, <1>7, <1>8 DEF NetworkInv

\* What stops or goes stale by itself is forgotten, not changed.
LEMMA ForgettingKeeps ==
  ASSUME NetworkInv, Network!Expire \/ Network!Deregister
  PROVE  NetworkInv'
PROOF
<1>0. Network!None \in Sourced /\ Network!Idle \in NetworkCalls /\ Network!Idle.pc = "idle"
  BY DEF Network!None, Network!Absent, Sourced, Policies, Network!Idle, NetworkCalls, NetworkStages
<1>1. /\ UNCHANGED <<manifest, exclusive, decided, pending, answered>>
      /\ cache' \in {cache, Network!None} /\ registered' \in {registered, Network!None}
      /\ \A c \in NetworkCallers : resolving'[c] \in {resolving[c], Network!Idle}
      /\ resolving' \in [NetworkCallers -> NetworkCalls]
  BY <1>0 DEF Network!Expire, Network!Deregister, NetworkInv, NetworkTyped
<1>2. NetworkTyped'
  BY <1>0, <1>1 DEF NetworkInv, NetworkTyped
<1>3. \A c \in NetworkCallers : Told(c)'
  BY <1>0, <1>1 DEF NetworkInv, Told, InNetwork
<1>4. ASSUME exclusive, NEW c \in NetworkCallers PROVE Faithful(resolving'[c], manifest, decided, answered) /\ Held(c)'
  <2>1. Faithful(resolving[c], manifest, decided, answered) /\ Held(c)
    BY <1>4 DEF NetworkInv
  <2>2. CASE resolving'[c] = resolving[c]
    BY <1>1, <2>1, <2>2 DEF Held, Grounded
  <2>3. CASE resolving'[c] = Network!Idle
    BY <1>0, <2>3 DEF Faithful, Held
  <2> QED BY <1>1, <2>2, <2>3
<1>5. exclusive => Grounded(cache', manifest, decided, answered)
  BY <1>1 DEF NetworkInv, Grounded
<1> QED BY <1>1, <1>2, <1>3, <1>4, <1>5 DEF NetworkInv

\* NetworkInv is inductive.
LEMMA NetworkKept == Network!Spec => []NetworkInv
PROOF
<1>1. ASSUME Network!Init PROVE NetworkInv
  <2>1. /\ Network!None \in Sourced /\ Network!Idle \in NetworkCalls /\ Network!Idle.pc = "idle"
    BY DEF Network!None, Network!Absent, Sourced, Policies, Network!Idle, NetworkCalls, NetworkStages
  <2>2. PICK rows \in Network!Decisions : decided = <<rows>>
    BY <1>1 DEF Network!Init
  <2>3. decided \in Seq(Network!Decisions) /\ Len(decided) = 1
    BY <2>2
  <2>4. NetworkTyped
    BY <1>1, <2>1, <2>3 DEF Network!Init, NetworkTyped, Declared
  <2>5. \A c \in NetworkCallers : resolving[c].pc = "idle"
    BY <1>1, <2>1 DEF Network!Init
  <2>6. cache = Network!None
    BY <1>1 DEF Network!Init
  <2> QED BY <2>4, <2>5, <2>6 DEF NetworkInv, Told, InNetwork, Faithful, Held, Grounded
<1>2. ASSUME NetworkInv, Network!Next PROVE NetworkInv'
  <2>0. Network!Now \in Network!Decisions
    BY <1>2 DEF NetworkInv, NetworkTyped, Network!Now
  <2>1. ASSUME NEW acc \in {"allow", "deny"}, Network!SetAccess(acc) PROVE NetworkInv'
    <3>1. [Network!Now EXCEPT !.access = acc] \in Network!Decisions
      BY <2>0 DEF Network!Decisions
    <3> QED BY <1>2, <2>1, <3>1, DecisionsKeep DEF Network!SetAccess
  <2>2. ASSUME NEW h \in Hosts, NEW choice \in {"allow", "deny", "unset"},
               Network!Saves([Network!Now EXCEPT !.hosts[h] = choice])
        PROVE  NetworkInv'
    <3>1. [Network!Now EXCEPT !.hosts[h] = choice] \in Network!Decisions
      BY <2>0 DEF Network!Decisions, Network!Choices
    <3> QED BY <1>2, <2>2, <3>1, DecisionsKeep
  <2>3. ASSUME NEW n \in pending, Network!Invalidate(n) PROVE NetworkInv'
    BY <1>2, <2>3, AnswersKeep
  <2>4. CASE Network!Expire \/ Network!Deregister
    BY <1>2, <2>4, ForgettingKeeps
  <2>5. CASE Network!DrainLog \/ \E h \in Hosts : Network!Tunnel(h) \/ Network!PlainRequest(h)
    <3>1. UNCHANGED <<manifest, exclusive, decided, pending, answered, cache, resolving, registered>>
      BY <2>5 DEF Network!DrainLog, Network!Tunnel, Network!PlainRequest
    <3> QED BY <1>2, <3>1 DEF NetworkInv, NetworkTyped, Told, InNetwork, Held
  <2>6. ASSUME NEW c \in NetworkCallers,
               \/ Network!ReadCache(c) \/ Network!UseManifest(c) \/ Network!ReadAccess(c)
               \/ Network!ReadHosts(c) \/ Network!StoreCache(c) \/ Network!Look(c)
               \/ Network!RegisterPolicy(c) \/ Network!Publish(c) \/ Network!Finish(c)
        PROVE  NetworkInv'
    BY <1>2, <2>6, CallsStart, CallsMove
  <2> QED BY <1>2, <2>1, <2>2, <2>3, <2>4, <2>5, <2>6
          DEF Network!Next, Network!SetHost, Network!RemoveHost
<1>3. ASSUME NetworkInv, UNCHANGED Network!vars PROVE NetworkInv'
  BY <1>3 DEF NetworkInv, NetworkTyped, Told, InNetwork, Held, Network!vars
<1> QED BY <1>1, <1>2, <1>3, PTL DEF Network!Spec

-----------------------------------------------------------------------------
(* The composition of the four parts                                        *)

\* A behaviour of the composition is one of each part, which rests unless it
\* was chosen.
LEMMA PartsRun == MCSpec => Network!Spec /\ Opened!Spec /\ Mounts!Spec
PROOF
<1>1. MCInit => Network!Init /\ Opened!Init /\ Mounts!Init
  BY DEF MCInit
<1>2. [MCNext]_allVars => /\ [Network!Next]_(Network!vars)
                          /\ [Opened!Next]_(Opened!vars)
                          /\ [Mounts!Next]_(Mounts!vars)
  BY DEF MCNext, allVars, networkVars, sessionVars, volumeVars, Network!vars,
         Opened!vars, Mounts!vars, Mounts!storage, Mounts!keepers
<1> QED BY <1>1, <1>2, PTL DEF MCSpec, Network!Spec, Opened!Spec, Mounts!Spec

\* For any callers, hosts, changes and calls: while a call runs in an exclusive container,
\* the policy registered for it agrees, for every host, with each decision that stayed the
\* same since the call began, and any call it began beside, unless that policy was cached
\* by a call that an answer overtook between its reads and its store.
THEOREM UserIsObeyed == MCSpec => []UserDecides
PROOF
<1>1. ASSUME NetworkInv PROVE UserDecides
  <2> SUFFICES ASSUME NEW c \in NetworkCallers, exclusive, resolving[c].pc = "running",
                      registered # Network!None, ~registered.stale, NEW h \in Hosts
               PROVE  Network!Respects(registered.policy, resolving[c].since, h)
    BY DEF UserDecides, Network!UserDecides
  <2>1. registered.policy \in Views(manifest, decided, resolving[c].since)
    BY <1>1 DEF NetworkInv, Held, Grounded
  <2>2. NetworkTyped /\ resolving[c].since \in Nat
    BY <1>1 DEF NetworkInv, NetworkTyped, NetworkCalls
  <2> QED BY <2>1, <2>2, ViewsRespect
<1> QED BY <1>1, NetworkKept, PartsRun, PTL

-----------------------------------------------------------------------------
(* The volumes                                                              *)

CallStatesOfMounts ==
  {Mounts!Idle} \cup [pc : {"touch", "start", "work"}, sid : SessionIds, cap : VolumeCaps]

MountsTyped ==
  /\ task \in [Turns -> CallStatesOfMounts]
  /\ workspace \in [SessionIds \X VolumeCaps -> {"none", "recent", "expired"}]
  /\ volume \subseteq SessionIds /\ cacheVolume \subseteq VolumeCaps

HasRow(s) == (\E c \in VolumeCaps : workspace[s, c] # "none") \/ s \in overlooked
HasCacheRow(c) == c \in cached \/ c \in overlooked

\* A call that is about to create its volumes has touched their rows.
Covered(u) ==
  /\ task[u].pc \in {"touch", "start"} => HasRow(task[u].sid)
  /\ task[u].pc = "start" => HasCacheRow(task[u].cap)

\* Each volume has its row, and so has each call that is about to create one;
\* or a task that did not know of it has marked the row.
MountsInv ==
  /\ MountsTyped
  /\ \A s \in volume : HasRow(s)
  /\ \A c \in cacheVolume : HasCacheRow(c)
  /\ \A u \in Turns : Covered(u)

\* What a call holds when it works.
LEMMA CallTyped ==
  ASSUME MountsTyped, NEW u \in Turns, task[u].pc \in {"touch", "start", "work"}
  PROVE  /\ task[u] \in [pc : {"touch", "start", "work"}, sid : SessionIds, cap : VolumeCaps]
         /\ task[u].sid \in SessionIds /\ task[u].cap \in VolumeCaps
PROOF
<1>1. task[u] # Mounts!Idle
  BY DEF Mounts!Idle
<1> QED BY <1>1 DEF MountsTyped, CallStatesOfMounts

\* Where no row is lost, only what is new needs one.
LEMMA RowsSuffice ==
  ASSUME MountsInv, MountsTyped',
         \A s \in SessionIds : HasRow(s) => HasRow(s)',
         \A c \in VolumeCaps : HasCacheRow(c) => HasCacheRow(c)',
         \A s \in volume' : s \in volume \/ HasRow(s)',
         \A c \in cacheVolume' : c \in cacheVolume \/ HasCacheRow(c)',
         \A u \in Turns : task'[u] = task[u] \/ Covered(u)'
  PROVE  MountsInv'
PROOF
<1>1. \A s \in volume' : HasRow(s)'
  BY DEF MountsInv, MountsTyped
<1>2. \A c \in cacheVolume' : HasCacheRow(c)'
  BY DEF MountsInv, MountsTyped
<1>3. ASSUME NEW u \in Turns, task'[u] = task[u] PROVE Covered(u)'
  <2>1. Covered(u)
    BY DEF MountsInv
  <2>2. ASSUME NEW s \in SessionIds, HasRow(s), task[u].sid = s PROVE HasRow(task[u].sid)'
    BY <1>3, <2>2 DEF HasRow
  <2>3. ASSUME NEW c \in VolumeCaps, HasCacheRow(c), task[u].cap = c PROVE HasCacheRow(task[u].cap)'
    BY <1>3, <2>3 DEF HasCacheRow
  <2> QED BY <1>3, <2>1, <2>2, <2>3, CallTyped DEF Covered, MountsInv, HasRow, HasCacheRow
<1>4. \A u \in Turns : Covered(u)'
  BY <1>3
<1> QED BY <1>1, <1>2, <1>4 DEF MountsInv

\* A step of a call gives it its rows before its volumes.
LEMMA CallsKeepRows ==
  ASSUME MountsInv, NEW u \in Turns,
         \/ \E s \in SessionIds, c \in VolumeCaps : Mounts!TouchWorkspace(u, s, c)
         \/ Mounts!TouchCache(u) \/ Mounts!StartBox(u) \/ Mounts!StartFails(u) \/ Mounts!EndCall(u)
  PROVE  MountsInv'
PROOF
<1>0. MountsTyped /\ Covered(u)
  BY DEF MountsInv
<1>1. ASSUME NEW s \in SessionIds, NEW c \in VolumeCaps, Mounts!TouchWorkspace(u, s, c)
      PROVE  MountsInv'
  <2> DEFINE r == [pc |-> "touch", sid |-> s, cap |-> c]
  <2>1. /\ task' = [task EXCEPT ![u] = r]
        /\ workspace' = [workspace EXCEPT ![<<s, c>>] = "recent"]
        /\ UNCHANGED <<volume, cached, cacheVolume, overlooked>>
    BY <1>1 DEF Mounts!TouchWorkspace
  <2>2. \A q \in SessionIds, d \in VolumeCaps :
          workspace'[q, d] = IF q = s /\ d = c THEN "recent" ELSE workspace[q, d]
    BY <1>0, <2>1 DEF MountsTyped
  <2>3. r \in CallStatesOfMounts
    BY DEF CallStatesOfMounts
  <2>4. MountsTyped'
    BY <1>0, <2>1, <2>3 DEF MountsTyped
  <2>5. ASSUME NEW q \in SessionIds, HasRow(q) PROVE HasRow(q)'
    <3>1. \A d \in VolumeCaps : workspace[q, d] # "none" => workspace'[q, d] # "none"
      BY <2>2
    <3> QED BY <2>1, <2>5, <3>1 DEF HasRow
  <2>6. HasRow(s)'
    BY <2>2 DEF HasRow
  <2>7. task'[u] = r /\ \A v \in Turns \ {u} : task'[v] = task[v]
    BY <1>0, <2>1 DEF MountsTyped
  <2>8. Covered(u)'
    <3>1. task'[u].sid = s /\ task'[u].pc = "touch"
      BY <2>7
    <3> QED BY <2>6, <3>1 DEF Covered, HasRow
  <2>9. \A d \in VolumeCaps : HasCacheRow(d) => HasCacheRow(d)'
    BY <2>1 DEF HasCacheRow
  <2> QED BY <2>1, <2>4, <2>5, <2>7, <2>8, <2>9, RowsSuffice
<1>2. CASE Mounts!TouchCache(u)
  <2>1. /\ task[u].pc = "touch" /\ task' = [task EXCEPT ![u].pc = "start"]
        /\ cached' = cached \cup {task[u].cap}
        /\ UNCHANGED <<workspace, volume, cacheVolume, overlooked>>
    BY <1>2 DEF Mounts!TouchCache, Mounts!At, Mounts!To
  <2>2. task[u] \in [pc : {"touch", "start", "work"}, sid : SessionIds, cap : VolumeCaps]
    BY <1>0, <2>1, CallTyped
  <2>3. [task[u] EXCEPT !.pc = "start"] \in CallStatesOfMounts
    BY <2>2 DEF CallStatesOfMounts
  <2>4. MountsTyped'
    BY <1>0, <2>1, <2>3 DEF MountsTyped
  <2>5. /\ task'[u].pc = "start" /\ task'[u].sid = task[u].sid /\ task'[u].cap = task[u].cap
        /\ \A v \in Turns \ {u} : task'[v] = task[v]
    BY <1>0, <2>1, <2>2 DEF MountsTyped
  <2>6. Covered(u)'
    <3>1. HasRow(task[u].sid)
      BY <1>0, <2>1 DEF Covered
    <3> DEFINE s == task[u].sid
    <3>2. (\E c \in VolumeCaps : workspace[s, c] # "none") \/ s \in overlooked
      BY <3>1 DEF HasRow
    <3>3. s = task'[u].sid
      BY <2>5
    <3> HIDE DEF s
    <3>4. (\E c \in VolumeCaps : workspace'[s, c] # "none") \/ s \in overlooked'
      BY <2>1, <3>2
    <3>5. HasRow(task[u].sid)'
      BY <3>3, <3>4 DEF HasRow
    <3>6. HasCacheRow(task[u].cap)'
      BY <2>1, <2>5 DEF HasCacheRow
    <3> QED BY <3>5, <3>6 DEF Covered, HasRow, HasCacheRow
  <2> QED BY <2>1, <2>4, <2>5, <2>6, RowsSuffice DEF HasRow, HasCacheRow
<1>3. CASE Mounts!StartBox(u)
  <2>1. /\ task[u].pc = "start" /\ task' = [task EXCEPT ![u].pc = "work"]
        /\ volume' = volume \cup {task[u].sid} /\ cacheVolume' = cacheVolume \cup {task[u].cap}
        /\ UNCHANGED <<workspace, cached, overlooked>>
    BY <1>3 DEF Mounts!StartBox, Mounts!At, Mounts!To
  <2>2. /\ task[u] \in [pc : {"touch", "start", "work"}, sid : SessionIds, cap : VolumeCaps]
        /\ task[u].sid \in SessionIds /\ task[u].cap \in VolumeCaps
    BY <1>0, <2>1, CallTyped
  <2>3. [task[u] EXCEPT !.pc = "work"] \in CallStatesOfMounts
    BY <2>2 DEF CallStatesOfMounts
  <2>4. MountsTyped'
    BY <1>0, <2>1, <2>2, <2>3 DEF MountsTyped
  <2>5. /\ task'[u].pc = "work" /\ \A v \in Turns \ {u} : task'[v] = task[v]
    BY <1>0, <2>1, <2>2 DEF MountsTyped
  <2>6. Covered(u)' /\ HasRow(task[u].sid) /\ HasCacheRow(task[u].cap)
    BY <1>0, <2>1, <2>5 DEF Covered
  <2> QED BY <2>1, <2>4, <2>5, <2>6, RowsSuffice DEF HasRow, HasCacheRow
<1>4. CASE Mounts!StartFails(u) \/ Mounts!EndCall(u)
  <2>1. /\ task' = [task EXCEPT ![u] = Mounts!Idle]
        /\ UNCHANGED <<workspace, volume, cached, cacheVolume, overlooked>>
    BY <1>4 DEF Mounts!StartFails, Mounts!EndCall, Mounts!storage
  <2>2. MountsTyped'
    BY <1>0, <2>1 DEF MountsTyped, CallStatesOfMounts
  <2>3. task'[u].pc = "idle" /\ \A v \in Turns \ {u} : task'[v] = task[v]
    BY <1>0, <2>1 DEF MountsTyped, Mounts!Idle
  <2>4. Covered(u)'
    BY <2>3 DEF Covered
  <2> QED BY <2>1, <2>2, <2>3, <2>4, RowsSuffice DEF HasRow, HasCacheRow
<1> QED BY <1>1, <1>2, <1>3, <1>4

\* A row that is marked is missed by nobody, or its volume counts as overlooked.
LEMMA MarksKeepRows ==
  ASSUME MountsInv, Mounts!SweeperMarks \/ Mounts!PurgeMarks
  PROVE  MountsInv'
PROOF
<1>0. MountsTyped
  BY DEF MountsInv
<1>1. CASE Mounts!SweeperMarks
  <2> DEFINE s == sweeper.sid
  <2>1. /\ workspace' = [p \in SessionIds \X VolumeCaps |->
                           IF p[1] = s THEN "none" ELSE workspace[p]]
        /\ overlooked' = IF s \in volume \/ Mounts!NeededBy(s) THEN overlooked \cup {s} ELSE overlooked
        /\ UNCHANGED <<task, volume, cached, cacheVolume>>
    BY <1>1 DEF Mounts!SweeperMarks, Mounts!None, Mounts!Kept
  <2>2. MountsTyped'
    BY <1>0, <2>1 DEF MountsTyped
  <2> HIDE DEF s
  <2>3. ASSUME NEW q \in SessionIds, HasRow(q), q = s => s \in overlooked' PROVE HasRow(q)'
    BY <2>1, <2>3 DEF HasRow
  <2>4. \A q \in volume' : HasRow(q)'
    BY <1>0, <2>1, <2>3 DEF MountsInv, MountsTyped
  <2>5. \A c \in cacheVolume' : HasCacheRow(c)'
    BY <2>1 DEF MountsInv, HasCacheRow
  <2>6. ASSUME NEW u \in Turns PROVE Covered(u)'
    <3>1. Covered(u)
      BY DEF MountsInv
    <3>2. task[u].pc = "start" => HasCacheRow(task[u].cap)'
      BY <2>1, <3>1 DEF Covered, HasCacheRow
    <3>3. CASE task[u].pc \in {"touch", "start"}
      <4>1. task[u].sid \in SessionIds /\ HasRow(task[u].sid)
        BY <1>0, <3>1, <3>3, CallTyped DEF Covered
      <4>2. task[u].sid = s => s \in overlooked'
        BY <2>1, <3>3 DEF Mounts!NeededBy
      <4>3. HasRow(task[u].sid)'
        BY <2>3, <4>1, <4>2, <2>1 DEF HasRow
      <4> QED BY <2>1, <3>2, <4>3 DEF Covered, HasCacheRow
    <3>4. CASE task[u].pc \notin {"touch", "start"}
      BY <2>1, <3>4 DEF Covered
    <3> QED BY <3>3, <3>4
  <2> QED BY <2>2, <2>4, <2>5, <2>6 DEF MountsInv
<1>2. CASE Mounts!PurgeMarks
  <2> DEFINE c == purge.cap
  <2>1. /\ cached' = cached \ {c}
        /\ overlooked' = IF c \in cacheVolume \/ \E u \in Turns : Mounts!At(u, "start") /\ task[u].cap = c
                         THEN overlooked \cup {c} ELSE overlooked
        /\ UNCHANGED <<task, workspace, volume, cacheVolume>>
    BY <1>2 DEF Mounts!PurgeMarks, Mounts!Kept
  <2>2. MountsTyped'
    BY <1>0, <2>1 DEF MountsTyped
  <2> HIDE DEF c
  <2>3. \A q \in volume' : HasRow(q)'
    BY <2>1 DEF MountsInv, HasRow
  <2>4. \A d \in cacheVolume' : HasCacheRow(d)'
    BY <2>1 DEF MountsInv, HasCacheRow
  <2>5. ASSUME NEW u \in Turns PROVE Covered(u)'
    <3>1. Covered(u)
      BY DEF MountsInv
    <3>2. task[u].pc = "start" /\ task[u].cap = c => c \in overlooked'
      BY <2>1 DEF Mounts!At
    <3> QED BY <2>1, <3>1, <3>2 DEF Covered, HasRow, HasCacheRow
  <2> QED BY <2>2, <2>3, <2>4, <2>5 DEF MountsInv
<1> QED BY <1>1, <1>2

\* MountsInv is inductive.
LEMMA RowsKept == Mounts!Spec => []MountsInv
PROOF
<1>1. ASSUME Mounts!Init PROVE MountsInv
  <2>1. /\ task = [u \in Turns |-> Mounts!Idle]
        /\ workspace = [p \in SessionIds \X VolumeCaps |-> "none"]
        /\ volume = {} /\ cacheVolume = {}
    BY <1>1 DEF Mounts!Init, Mounts!None
  <2>2. MountsTyped
    BY <2>1 DEF MountsTyped, CallStatesOfMounts
  <2>3. \A u \in Turns : Covered(u)
    BY <2>1 DEF Covered, Mounts!Idle
  <2> QED BY <2>1, <2>2, <2>3 DEF MountsInv
<1>2. ASSUME MountsInv, [Mounts!Next]_(Mounts!vars) PROVE MountsInv'
  <2>0. MountsTyped
    BY <1>2 DEF MountsInv
  <2>1. CASE \/ \E s \in SessionIds : Mounts!CloseIdle(s) \/ Mounts!SweeperCloses(s)
             \/ Mounts!SweeperReads \/ Mounts!SweeperRemoves \/ Mounts!PurgeRemoves
             \/ UNCHANGED Mounts!vars \/ \E c \in VolumeCaps : Mounts!PurgeReads(c)
    <3>1. /\ UNCHANGED <<task, workspace, cached, overlooked>>
          /\ volume' \subseteq volume /\ cacheVolume' \subseteq cacheVolume
      BY <2>1 DEF Mounts!CloseIdle, Mounts!SweeperCloses, Mounts!SweeperReads,
                  Mounts!SweeperRemoves, Mounts!PurgeReads, Mounts!PurgeRemoves,
                  Mounts!Kept, Mounts!storage, Mounts!keepers, Mounts!vars
    <3>2. MountsTyped'
      BY <2>0, <3>1 DEF MountsTyped
    <3> QED BY <1>2, <3>1, <3>2, RowsSuffice DEF HasRow, HasCacheRow
  <2>2. ASSUME NEW s \in SessionIds, NEW c \in VolumeCaps, Mounts!Expires(s, c)
        PROVE  MountsInv'
    <3>1. /\ workspace' = [workspace EXCEPT ![<<s, c>>] = "expired"]
          /\ UNCHANGED <<task, volume, cached, cacheVolume, overlooked>>
      BY <2>2 DEF Mounts!Expires, Mounts!Kept
    <3>2. /\ MountsTyped'
          /\ \A r \in SessionIds, d \in VolumeCaps :
               workspace'[r, d] = IF r = s /\ d = c THEN "expired" ELSE workspace[r, d]
      BY <2>0, <3>1 DEF MountsTyped
    <3>3. ASSUME NEW r \in SessionIds, HasRow(r) PROVE HasRow(r)'
      <4>1. \A d \in VolumeCaps : workspace[r, d] # "none" => workspace'[r, d] # "none"
        BY <3>2
      <4> QED BY <3>1, <3>3, <4>1 DEF HasRow
    <3>4. \A d \in VolumeCaps : HasCacheRow(d) => HasCacheRow(d)'
      BY <3>1 DEF HasCacheRow
    <3> QED BY <1>2, <3>1, <3>2, <3>3, <3>4, RowsSuffice
  <2>3. CASE Mounts!Restart
    <3>1. /\ task' = [u \in Turns |-> Mounts!Idle]
          /\ UNCHANGED <<workspace, volume, cached, cacheVolume, overlooked>>
      BY <2>3 DEF Mounts!Restart
    <3>2. MountsTyped'
      BY <2>0, <3>1 DEF MountsTyped, CallStatesOfMounts
    <3>3. \A u \in Turns : Covered(u)'
      BY <3>1 DEF Covered, Mounts!Idle
    <3> QED BY <1>2, <3>1, <3>2, <3>3, RowsSuffice DEF HasRow, HasCacheRow
  <2> QED
    BY <1>2, <2>1, <2>2, <2>3, CallsKeepRows, MarksKeepRows DEF Mounts!Next
<1> QED BY <1>1, <1>2, PTL DEF Mounts!Spec

-----------------------------------------------------------------------------
(* One session of an agent in a thread                                      *)

Founding == {"choose", "create", "insert"}
Begun == [pc : Opened!Opening \cup {"work"}, thread : Threads, agent : Agents,
          sid : SessionIds \cup {"none"}]
Rows == {[agent |-> "none", state |-> "none"]}
        \cup [agent : Agents, state : {"active", "stale", "idle"}]
Owned(s) == session[s].agent \in Agents

SessionsTyped ==
  /\ session \in [SessionIds -> Rows]
  /\ thread \in [Threads -> SessionIds \cup {"none", "gone"}]
  /\ bound \in [Threads \X Agents -> SessionIds \cup {"none"}]
  /\ turn \in [Turns -> {Opened!Idle} \cup Begun]
  /\ worked \subseteq Threads \X Agents \X SessionIds
  /\ \A s \in idler : s \in SessionIds /\ Owned(s)
  /\ \A t \in Threads : thread[t] \in SessionIds => Owned(thread[t])

\* A thread is inserted by the one turn that began it, and nothing refers to
\* it before; what a turn is about to bind is a session of its agent.
Founded(u) ==
  /\ turn[u].pc \in Founding =>
       /\ thread[turn[u].thread] = "none"
       /\ \A v \in Turns : turn[v].pc # "idle" /\ turn[v].thread = turn[u].thread => v = u
  /\ turn[u].pc \notin Founding \cup {"idle"} => thread[turn[u].thread] # "none"
  /\ turn[u].pc \in {"insert", "bind", "backfill", "attach"} =>
       turn[u].sid \in SessionIds /\ session[turn[u].sid].agent = turn[u].agent

Unused(t, a) ==
  thread[t] = "none" => bound[t, a] = "none" /\ \A s \in SessionIds : <<t, a, s>> \notin worked

Opens(u, t, a) == turn[u].pc \in Opened!Opening /\ turn[u].thread = t /\ turn[u].agent = a
InThread(t, a) == thread[t] \in SessionIds /\ session[thread[t]].agent = a

\* Undisturbed, an agent has one opening at a time in a thread, works in the
\* session that is bound, and finds none bound as long as it looks for one.
Orderly(t, a) ==
  /\ \A u, v \in Turns : Opens(u, t, a) /\ Opens(v, t, a) => u = v
  /\ bound[t, a] # "none" => /\ session[bound[t, a]].agent = a
                             /\ InThread(t, a) => bound[t, a] = thread[t]
  /\ \A s \in SessionIds : <<t, a, s>> \in worked => s = bound[t, a]
  /\ \A u \in Turns : Opens(u, t, a) =>
       /\ turn[u].pc \in {"bind", "backfill"} => thread[t] = turn[u].sid
       /\ turn[u].pc \in {"fresh", "attach"} => ~InThread(t, a)
       /\ turn[u].pc # "resume" => bound[t, a] = "none"

Undisturbed(t, a) == <<t, a>> \notin disturbed /\ thread[t] # "gone"

SessionsInv ==
  /\ SessionsTyped
  /\ \A u \in Turns : Founded(u)
  /\ \A t \in Threads, a \in Agents : Unused(t, a) /\ (Undisturbed(t, a) => Orderly(t, a))

-----------------------------------------------------------------------------
\* What a turn that has begun holds.
LEMMA TurnTyped ==
  ASSUME SessionsTyped, NEW u \in Turns, turn[u].pc # "idle"
  PROVE  /\ turn[u] \in Begun
         /\ turn[u].thread \in Threads /\ turn[u].agent \in Agents
         /\ turn[u].sid \in SessionIds \cup {"none"}
         /\ turn[u].pc \in Opened!Opening \cup {"work"}
PROOF
<1>1. turn[u] # Opened!Idle
  BY DEF Opened!Idle
<1>2. turn[u] \in Begun
  BY <1>1 DEF SessionsTyped
<1> QED BY <1>2 DEF Begun

Moved(u, pc, sid) ==
  /\ turn' \in [Turns -> {Opened!Idle} \cup Begun]
  /\ turn'[u].pc = pc /\ turn'[u].sid = sid
  /\ turn'[u].thread = turn[u].thread /\ turn'[u].agent = turn[u].agent
  /\ \A v \in Turns \ {u} : turn'[v] = turn[v]

\* A turn goes on with its thread and its agent.
LEMMA TurnMoves ==
  ASSUME SessionsTyped, NEW u \in Turns, turn[u].pc # "idle",
         NEW pc \in Opened!Opening \cup {"work"}, NEW sid \in SessionIds \cup {"none"},
         turn' = [turn EXCEPT ![u].pc = pc, ![u].sid = sid]
  PROVE  Moved(u, pc, sid)
PROOF
<1>1. turn[u] \in Begun
  BY TurnTyped
<1> DEFINE r == [turn[u] EXCEPT !.pc = pc, !.sid = sid]
<1>2. /\ r \in Begun /\ r.pc = pc /\ r.sid = sid
      /\ r.thread = turn[u].thread /\ r.agent = turn[u].agent
  BY <1>1 DEF Begun
<1>3. turn' = [turn EXCEPT ![u] = r]
  BY <1>1 DEF SessionsTyped
<1> HIDE DEF r
<1> QED BY <1>2, <1>3 DEF Moved, SessionsTyped

\* The same, where the session it holds stays.
LEMMA TurnMovesTo ==
  ASSUME SessionsTyped, NEW u \in Turns, turn[u].pc # "idle",
         NEW pc \in Opened!Opening \cup {"work"}, Opened!To(u, pc)
  PROVE  Moved(u, pc, turn[u].sid)
PROOF
<1>1. turn[u] \in Begun
  BY TurnTyped
<1> DEFINE r == [turn[u] EXCEPT !.pc = pc]
<1>2. /\ r \in Begun /\ r.pc = pc /\ r.sid = turn[u].sid
      /\ r.thread = turn[u].thread /\ r.agent = turn[u].agent
  BY <1>1 DEF Begun
<1>3. turn' = [turn EXCEPT ![u] = r]
  BY <1>1 DEF SessionsTyped, Opened!To
<1> HIDE DEF r
<1> QED BY <1>2, <1>3 DEF Moved, SessionsTyped

\* A turn ends.
LEMMA TurnEnds ==
  ASSUME SessionsTyped, NEW u \in Turns, turn' = [turn EXCEPT ![u] = Opened!Idle]
  PROVE  /\ turn' \in [Turns -> {Opened!Idle} \cup Begun] /\ turn'[u].pc = "idle"
         /\ \A v \in Turns \ {u} : turn'[v] = turn[v]
PROOF BY DEF SessionsTyped, Opened!Idle

\* What a step does to the rows of sessions.
OwnersKept ==
  /\ session' \in [SessionIds -> Rows]
  /\ \A s \in SessionIds : Owned(s) => session'[s].agent = session[s].agent

\* A session that has an owner keeps it when its state changes.
LEMMA StateChanges ==
  ASSUME SessionsTyped, NEW s \in SessionIds, Owned(s),
         NEW state \in {"active", "stale", "idle"}, session' = [session EXCEPT ![s].state = state]
  PROVE  OwnersKept
PROOF
<1>1. session[s] \in [agent : Agents, state : {"active", "stale", "idle"}]
  BY SessionNames DEF SessionsTyped, Rows, Owned, Opened!NamesAssumption, Opened!None
<1> DEFINE r == [session[s] EXCEPT !.state = state]
<1>2. r \in Rows /\ r.agent = session[s].agent
  BY <1>1 DEF Rows
<1>3. session' = [session EXCEPT ![s] = r]
  BY DEF SessionsTyped
<1> HIDE DEF r
<1> QED BY <1>2, <1>3 DEF OwnersKept, SessionsTyped

\* A new session is one that had no owner.
LEMMA SessionCreated ==
  ASSUME SessionsTyped, NEW s \in Opened!Unused, NEW a \in Agents,
         session' = [session EXCEPT ![s] = [agent |-> a, state |-> "active"]]
  PROVE  /\ OwnersKept /\ s \in SessionIds /\ session'[s].agent = a
         /\ ~Owned(s) /\ \A r \in SessionIds \ {s} : session'[r] = session[r]
PROOF
<1>1. s \in SessionIds /\ session[s].state = "none"
  BY DEF Opened!Unused, Opened!None
<1>2. ~Owned(s)
  BY <1>1, SessionNames DEF SessionsTyped, Rows, Owned, Opened!NamesAssumption, Opened!None
<1>3. [agent |-> a, state |-> "active"] \in Rows
  BY DEF Rows
<1> QED BY <1>1, <1>2, <1>3 DEF OwnersKept, SessionsTyped

\* Who owns the session of a thread does not change.
LEMMA InThreadKept ==
  ASSUME SessionsTyped, OwnersKept, NEW t \in Threads, NEW a \in Agents, thread'[t] = thread[t]
  PROVE  InThread(t, a)' <=> InThread(t, a)
PROOF BY DEF SessionsTyped, OwnersKept, InThread

\* A pair of a thread and an agent that a step does not touch.
LEMMA OrderlyKept ==
  ASSUME SessionsTyped, OwnersKept, NEW t \in Threads, NEW a \in Agents, Orderly(t, a),
         thread'[t] = thread[t], bound'[t, a] = bound[t, a],
         \A s \in SessionIds : <<t, a, s>> \in worked' => <<t, a, s>> \in worked,
         \A v \in Turns : Opens(v, t, a)' => turn'[v] = turn[v]
  PROVE  Orderly(t, a)'
PROOF
<1>1. InThread(t, a)' <=> InThread(t, a)
  BY InThreadKept
<1>2. \A v \in Turns : Opens(v, t, a)' => Opens(v, t, a) /\ turn'[v] = turn[v]
  BY DEF Opens
<1>3. bound[t, a] # "none" => session'[bound[t, a]].agent = session[bound[t, a]].agent
  BY DEF SessionsTyped, OwnersKept, Orderly, Owned
<1> QED BY <1>1, <1>2, <1>3 DEF Orderly

\* A turn that a step leaves alone, in a thread that the step leaves alone.
LEMMA FoundedKept ==
  ASSUME SessionsTyped, OwnersKept, NEW v \in Turns, Founded(v), turn'[v] = turn[v],
         turn[v].pc # "idle" =>
           \/ thread'[turn[v].thread] = thread[turn[v].thread]
           \/ turn[v].pc \notin Founding /\ thread'[turn[v].thread] # "none",
         turn[v].pc \in Founding =>
           \A w \in Turns : turn'[w].pc # "idle" /\ turn'[w].thread = turn[v].thread =>
                              turn[w].pc # "idle" /\ turn[w].thread = turn[v].thread
  PROVE  Founded(v)'
PROOF
<1>1. turn[v].pc \in {"insert", "bind", "backfill", "attach"} =>
        session'[turn[v].sid].agent = turn[v].agent
  <2> SUFFICES ASSUME turn[v].pc \in {"insert", "bind", "backfill", "attach"}
               PROVE  session'[turn[v].sid].agent = turn[v].agent
    OBVIOUS
  <2>1. turn[v].sid \in SessionIds /\ session[turn[v].sid].agent = turn[v].agent
    BY DEF Founded
  <2>2. turn[v].agent \in Agents
    BY TurnTyped
  <2> QED BY <2>1, <2>2 DEF OwnersKept, Owned
<1>2. turn[v].pc \in Founding => turn[v].pc # "idle"
  BY DEF Founding
<1>3. turn[v].pc \in Founding => thread'[turn[v].thread] = "none"
  BY <1>2 DEF Founded
<1>4. turn[v].pc \notin Founding \cup {"idle"} => thread'[turn[v].thread] # "none"
  BY DEF Founded
<1>5. turn[v].pc \in Founding =>
        \A w \in Turns : turn'[w].pc # "idle" /\ turn'[w].thread = turn[v].thread => w = v
  BY DEF Founded
<1> QED BY <1>1, <1>3, <1>4, <1>5 DEF Founded

\* A step that only ends turns, changes the state of sessions or deletes threads.
LEMMA EndsKeep ==
  ASSUME SessionsInv, OwnersKept,
         turn' \in [Turns -> {Opened!Idle} \cup Begun],
         \A v \in Turns : turn'[v] = turn[v] \/ turn'[v].pc = "idle",
         thread' \in [Threads -> SessionIds \cup {"none", "gone"}],
         \A t \in Threads : thread'[t] = thread[t] \/ (thread[t] # "none" /\ thread'[t] = "gone"),
         bound' \in [Threads \X Agents -> SessionIds \cup {"none"}],
         \A t \in Threads, a \in Agents : thread'[t] = thread[t] => bound'[t, a] = bound[t, a],
         worked' = worked, disturbed' = disturbed,
         \A s \in idler' : s \in SessionIds /\ Owned(s)
  PROVE  SessionsInv'
PROOF
<1>0. SessionsTyped
  BY DEF SessionsInv
<1>1. SessionsTyped'
  <2>1. \A s \in idler' : s \in SessionIds /\ Owned(s)'
    BY DEF OwnersKept, Owned
  <2>2. \A t \in Threads : thread'[t] \in SessionIds => session'[thread'[t]].agent \in Agents
    BY <1>0, SessionNames DEF SessionsTyped, OwnersKept, Owned, Opened!NamesAssumption, Opened!Gone
  <2> QED BY <1>0, <2>1, <2>2 DEF SessionsTyped, OwnersKept, Owned
<1>2. ASSUME NEW u \in Turns PROVE Founded(u)'
  <2>1. CASE turn'[u].pc = "idle"
    BY <2>1 DEF Founded, Founding
  <2>2. CASE turn'[u].pc # "idle" /\ turn'[u] = turn[u]
    <3>1. turn[u].thread \in Threads
      BY <1>0, <2>2, TurnTyped
    <3>2. Founded(u)
      BY DEF SessionsInv
    <3>3. \A w \in Turns : turn'[w].pc # "idle" => turn'[w] = turn[w]
      OBVIOUS
    <3>4. turn[u].pc \in Founding => thread[turn[u].thread] = "none"
      BY <3>2 DEF Founded
    <3> QED BY <1>0, <2>2, <3>1, <3>2, <3>3, <3>4, FoundedKept
  <2> QED BY <2>1, <2>2
<1>3. ASSUME NEW t \in Threads, NEW a \in Agents
      PROVE  Unused(t, a)' /\ (Undisturbed(t, a)' => Orderly(t, a)')
  <2>1. Unused(t, a) /\ (Undisturbed(t, a) => Orderly(t, a))
    BY DEF SessionsInv
  <2>2. CASE thread'[t] = thread[t]
    <3>1. \A v \in Turns : Opens(v, t, a)' => turn'[v] = turn[v]
      BY DEF Opens, Opened!Opening
    <3> QED BY <1>0, <2>1, <2>2, <3>1, OrderlyKept DEF Unused, Undisturbed
  <2>3. CASE thread'[t] = "gone"
    BY <2>3 DEF Unused, Undisturbed
  <2> QED BY <2>2, <2>3
<1> QED BY <1>1, <1>2, <1>3 DEF SessionsInv

\* What is bound and where is worked changes for one thread and agent alone.
OnlyPair(t, a) ==
  /\ bound' \in [Threads \X Agents -> SessionIds \cup {"none"}]
  /\ \A p \in (Threads \X Agents) \ {<<t, a>>} : bound'[p] = bound[p]
  /\ worked' \subseteq Threads \X Agents \X SessionIds
  /\ \A p \in worked' \ worked : \E s \in SessionIds : p = <<t, a, s>>

\* A turn that goes on in its thread answers for its own thread and agent alone.
LEMMA MovesKeep ==
  ASSUME SessionsInv, OwnersKept, NEW u \in Turns, turn[u].pc # "idle",
         NEW pc \in Opened!Opening \cup {"work"}, NEW sid \in SessionIds \cup {"none"},
         Moved(u, pc, sid), thread' = thread, disturbed' = disturbed, idler' = idler,
         NEW t \in Threads, NEW a \in Agents, t = turn[u].thread, a = turn[u].agent,
         pc \in Founding <=> turn[u].pc \in Founding,
         pc \in {"insert", "bind", "backfill", "attach"} =>
           sid \in SessionIds /\ session'[sid].agent = a,
         OnlyPair(t, a), Unused(t, a)',
         Undisturbed(t, a) /\ Orderly(t, a) => Orderly(t, a)'
  PROVE  SessionsInv'
PROOF
<1>0. SessionsTyped
  BY DEF SessionsInv
<1>1. SessionsTyped'
  <2>1. \A s \in idler' : s \in SessionIds /\ Owned(s)'
    BY <1>0 DEF SessionsTyped, OwnersKept, Owned
  <2>2. \A r \in Threads : thread'[r] \in SessionIds => session'[thread'[r]].agent \in Agents
    BY <1>0 DEF SessionsTyped, OwnersKept, Owned
  <2> QED BY <1>0, <2>1, <2>2 DEF SessionsTyped, OwnersKept, Owned, Moved, OnlyPair
<1>2. ASSUME NEW v \in Turns PROVE Founded(v)'
  <2>1. Founded(v) /\ Founded(u)
    BY DEF SessionsInv
  <2>2. \A w \in Turns : turn'[w].pc # "idle" => turn[w].pc # "idle" /\ turn'[w].thread = turn[w].thread
    BY DEF Moved
  <2>3. CASE v # u
    <3>1. turn'[v] = turn[v]
      BY <2>3 DEF Moved
    <3> QED BY <1>0, <2>1, <2>2, <3>1, FoundedKept
  <2>4. CASE v = u
    <3>1. turn'[u].pc = pc /\ turn'[u].sid = sid /\ turn'[u].thread = t /\ turn'[u].agent = a
      BY DEF Moved
    <3>2. pc # "idle"
      BY DEF Opened!Opening
    <3>3. pc \in Founding =>
            /\ thread'[t] = "none"
            /\ \A w \in Turns : turn'[w].pc # "idle" /\ turn'[w].thread = t => w = u
      BY <2>1, <2>2 DEF Founded
    <3>4. pc \notin Founding \cup {"idle"} => thread'[t] # "none"
      BY <2>1 DEF Founded
    <3> QED BY <2>4, <3>1, <3>2, <3>3, <3>4 DEF Founded
  <2> QED BY <2>3, <2>4
<1>3. ASSUME NEW r \in Threads, NEW b \in Agents
      PROVE  Unused(r, b)' /\ (Undisturbed(r, b)' => Orderly(r, b)')
  <2>1. Unused(r, b) /\ (Undisturbed(r, b)' => Orderly(r, b))
    BY DEF SessionsInv, Undisturbed
  <2>2. CASE r = t /\ b = a
    BY <2>1, <2>2 DEF Undisturbed
  <2>3. CASE ~(r = t /\ b = a)
    <3>1. bound'[r, b] = bound[r, b]
      BY <2>3 DEF OnlyPair
    <3>2. \A s \in SessionIds : <<r, b, s>> \in worked' => <<r, b, s>> \in worked
      BY <2>3 DEF OnlyPair
    <3>3. \A v \in Turns : Opens(v, r, b)' => turn'[v] = turn[v]
      BY <2>3 DEF Opens, Moved
    <3> QED BY <1>0, <2>1, <3>1, <3>2, <3>3, OrderlyKept DEF Unused
  <2> QED BY <2>2, <2>3
<1> QED BY <1>1, <1>2, <1>3 DEF SessionsInv

-----------------------------------------------------------------------------
(* Turns that begin                                                         *)

\* A turn that begins answers for its own thread and agent alone.
LEMMA BeginsKeep ==
  ASSUME SessionsInv, NEW u \in Turns, NEW t \in Threads, NEW a \in Agents,
         NEW pc \in Opened!Opening, Opened!Begins(u, t, a, pc),
         pc \in {"choose", "create", "resume"},
         bound' \in [Threads \X Agents -> SessionIds \cup {"none"}],
         \A p \in (Threads \X Agents) \ {<<t, a>>} : bound'[p] = bound[p],
         disturbed \subseteq disturbed',
         IF pc = "resume" THEN thread[t] \in SessionIds
         ELSE thread[t] = "none" /\ bound' = bound
              /\ \A v \in Turns : turn[v].pc # "idle" => turn[v].thread # t,
         <<t, a>> \notin disturbed' =>
           /\ \A v \in Turns : ~Opens(v, t, a)
           /\ bound'[t, a] = bound[t, a] \/ (InThread(t, a) /\ bound'[t, a] = thread[t])
  PROVE  SessionsInv'
PROOF
<1> DEFINE r == [pc |-> pc, thread |-> t, agent |-> a, sid |-> "none"]
<1>0. /\ SessionsTyped /\ turn[u].pc = "idle" /\ turn' = [turn EXCEPT ![u] = r]
      /\ UNCHANGED <<session, thread, worked, failures, idler>>
  BY DEF SessionsInv, Opened!Begins, Opened!At, Opened!None
<1>1. OwnersKept
  BY <1>0 DEF OwnersKept, SessionsTyped
<1>2. r \in Begun /\ r.pc = pc /\ r.thread = t /\ r.agent = a
  BY DEF Begun
<1> HIDE DEF r
<1>3. /\ turn' \in [Turns -> {Opened!Idle} \cup Begun]
      /\ turn'[u].pc = pc /\ turn'[u].thread = t /\ turn'[u].agent = a
      /\ \A v \in Turns \ {u} : turn'[v] = turn[v]
  BY <1>0, <1>2 DEF SessionsTyped
<1>4. SessionsTyped'
  BY <1>0, <1>3 DEF SessionsTyped, Owned
<1>5. ASSUME NEW v \in Turns PROVE Founded(v)'
  <2>1. Founded(v)
    BY DEF SessionsInv
  <2>2. CASE v # u
    <3>1. turn'[v] = turn[v]
      BY <1>3, <2>2
    <3>2. ASSUME turn[v].pc \in Founding PROVE turn[v].thread # t
      BY <2>1, <3>2, SessionNames DEF Founded, Founding, Opened!NamesAssumption, Opened!None
    <3>3. turn'[u].thread = t
      BY <1>3
    <3>4. turn[v].pc \in Founding =>
            \A w \in Turns : turn'[w].pc # "idle" /\ turn'[w].thread = turn[v].thread =>
                               turn[w].pc # "idle" /\ turn[w].thread = turn[v].thread
      BY <1>3, <3>2, <3>3
    <3> QED BY <1>0, <1>1, <2>1, <3>1, <3>4, FoundedKept
  <2>3. CASE v = u
    <3>1. turn'[u].pc = pc /\ turn'[u].thread = t
      BY <1>3
    <3>2. pc \in Founding => /\ thread'[t] = "none"
                             /\ \A w \in Turns : turn'[w].pc # "idle" /\ turn'[w].thread = t => w = u
      BY <1>0, <1>3 DEF Founding
    <3>3. pc \notin Founding => thread'[t] # "none"
      BY <1>0, SessionNames DEF Founding, Opened!NamesAssumption, Opened!None
    <3> QED BY <2>3, <3>1, <3>2, <3>3 DEF Founded
  <2> QED BY <2>2, <2>3
<1>6. ASSUME NEW q \in Threads, NEW b \in Agents
      PROVE  Unused(q, b)' /\ (Undisturbed(q, b)' => Orderly(q, b)')
  <2>1. Unused(q, b) /\ (Undisturbed(q, b)' => Orderly(q, b))
    BY <1>0 DEF SessionsInv, Undisturbed
  <2>2. CASE q = t /\ b = a
    <3>1. Unused(t, a)'
      BY <1>0, <2>1, <2>2, SessionNames DEF Unused, Opened!NamesAssumption, Opened!None
    <3>2. ASSUME Undisturbed(t, a)', Orderly(t, a) PROVE Orderly(t, a)'
      <4>1. /\ <<t, a>> \notin disturbed' /\ \A v \in Turns : ~Opens(v, t, a)
            /\ bound'[t, a] = bound[t, a] \/ (InThread(t, a) /\ bound'[t, a] = thread[t])
        BY <3>2 DEF Undisturbed
      <4>2. \A v \in Turns : Opens(v, t, a)' => v = u
        BY <1>3, <4>1 DEF Opens
      <4>3. InThread(t, a)' <=> InThread(t, a)
        BY <1>0 DEF InThread
      <4>4. turn'[u].pc = pc /\ (pc # "resume" => bound'[t, a] = "none")
        <5>1. pc # "resume" => thread[t] = "none" /\ bound' = bound
          OBVIOUS
        <5> QED BY <1>3, <2>1, <2>2, <5>1 DEF Unused
      <4>5. bound'[t, a] # "none" => /\ session'[bound'[t, a]].agent = a
                                     /\ InThread(t, a)' => bound'[t, a] = thread'[t]
        BY <1>0, <3>2, <4>1, <4>3 DEF Orderly, InThread
      <4>6. \A s \in SessionIds : <<t, a, s>> \in worked' => s = bound'[t, a]
        <5>1. \A s \in SessionIds : <<t, a, s>> \in worked => s = bound[t, a]
          BY <3>2 DEF Orderly
        <5>2. ASSUME NEW s \in SessionIds, bound[t, a] = s, InThread(t, a) PROVE thread[t] = s
          BY <3>2, <5>2, SessionNames DEF Orderly, Opened!NamesAssumption, Opened!None
        <5> QED BY <1>0, <4>1, <5>1, <5>2
      <4> QED BY <4>2, <4>4, <4>5, <4>6 DEF Orderly
    <3> QED BY <2>1, <2>2, <3>1, <3>2
  <2>3. CASE ~(q = t /\ b = a)
    <3>1. bound'[q, b] = bound[q, b]
      BY <2>3
    <3>2. \A v \in Turns : Opens(v, q, b)' => turn'[v] = turn[v]
      BY <1>3, <2>3 DEF Opens
    <3> QED BY <1>0, <1>1, <2>1, <3>1, <3>2, OrderlyKept DEF Unused
  <2> QED BY <2>2, <2>3
<1> QED BY <1>4, <1>5, <1>6 DEF SessionsInv

\* A message begins a thread, replies in one, or a schedule runs in one again.
LEMMA TurnsBegin ==
  ASSUME SessionsInv, NEW u \in Turns, NEW t \in Threads, NEW a \in Agents,
         Opened!BeginThread(u, t, a) \/ Opened!BeginTurn(u, t, a) \/ Opened!BeginScheduled(u, t, a)
  PROVE  SessionsInv'
PROOF
<1>0. SessionsTyped
  BY DEF SessionsInv
<1>1. CASE Opened!BeginThread(u, t, a)
  <2>1. /\ thread[t] = "none" /\ \A v \in Turns : turn[v].pc # "idle" => turn[v].thread # t
        /\ UNCHANGED <<bound, disturbed>>
    BY <1>1 DEF Opened!BeginThread, Opened!None
  <2>2. PICK pc \in {"choose", "create"} : Opened!Begins(u, t, a, pc)
    BY <1>1 DEF Opened!BeginThread
  <2>3. \A v \in Turns : ~Opens(v, t, a)
    BY <2>1 DEF Opens, Opened!Opening
  <2>4. bound' \in [Threads \X Agents -> SessionIds \cup {"none"}]
    BY <1>0, <2>1 DEF SessionsTyped
  <2>5. pc \in Opened!Opening
    BY DEF Opened!Opening
  <2> QED BY <2>1, <2>2, <2>3, <2>4, <2>5, BeginsKeep
<1>2. CASE Opened!BeginTurn(u, t, a)
  <2>1. /\ thread[t] \in SessionIds /\ Opened!Begins(u, t, a, "resume") /\ bound' = bound
        /\ disturbed' = IF Opened!Overlaps(t, a) THEN disturbed \cup {<<t, a>>} ELSE disturbed
    BY <1>2 DEF Opened!BeginTurn, Opened!Disturb
  <2>2. <<t, a>> \notin disturbed' => \A v \in Turns : ~Opens(v, t, a)
    BY <2>1 DEF Opens, Opened!Overlaps
  <2>3. bound' \in [Threads \X Agents -> SessionIds \cup {"none"}]
    BY <1>0, <2>1 DEF SessionsTyped
  <2>4. "resume" \in Opened!Opening
    BY DEF Opened!Opening
  <2> QED BY <2>1, <2>2, <2>3, <2>4, BeginsKeep
<1>3. CASE Opened!BeginScheduled(u, t, a)
  <2>1. /\ thread[t] \in SessionIds /\ Opened!Begins(u, t, a, "resume")
        /\ bound' = [bound EXCEPT ![<<t, a>>] = thread[t]]
        /\ disturbed' = IF Opened!Overlaps(t, a) \/ thread[t] \notin Opened!Of(a)
                        THEN disturbed \cup {<<t, a>>} ELSE disturbed
    BY <1>3 DEF Opened!BeginScheduled, Opened!Disturb
  <2>2. <<t, a>> \notin disturbed' =>
          (\A v \in Turns : ~Opens(v, t, a)) /\ InThread(t, a)
    BY <2>1 DEF Opens, Opened!Overlaps, Opened!Of, InThread
  <2>3. /\ bound' \in [Threads \X Agents -> SessionIds \cup {"none"}]
        /\ bound'[t, a] = thread[t]
        /\ \A p \in (Threads \X Agents) \ {<<t, a>>} : bound'[p] = bound[p]
    BY <1>0, <2>1 DEF SessionsTyped
  <2>4. "resume" \in Opened!Opening
    BY DEF Opened!Opening
  <2> QED BY <2>1, <2>2, <2>3, <2>4, BeginsKeep
<1> QED BY <1>1, <1>2, <1>3

-----------------------------------------------------------------------------
(* A turn that opens a session                                              *)

\* While its opening is the only one, a turn's own part keeps the pair orderly.
LEMMA OpenerMoves ==
  ASSUME NEW u \in Turns, NEW t \in Threads, NEW a \in Agents, NEW pc, NEW sid,
         Opens(u, t, a), Orderly(t, a), Moved(u, pc, sid),
         bound'[t, a] # "none" => /\ session'[bound'[t, a]].agent = a
                                  /\ InThread(t, a)' => bound'[t, a] = thread'[t],
         \A s \in SessionIds : <<t, a, s>> \in worked' => s = bound'[t, a],
         pc \in {"bind", "backfill"} => thread'[t] = sid,
         pc \in {"fresh", "attach"} => ~InThread(t, a)',
         pc \in Opened!Opening \ {"resume"} => bound'[t, a] = "none"
  PROVE  Orderly(t, a)'
PROOF
<1>1. \A v \in Turns : Opens(v, t, a) => v = u
  BY DEF Orderly
<1>2. \A v \in Turns : Opens(v, t, a)' => v = u
  BY <1>1 DEF Opens, Moved
<1>3. turn'[u].pc = pc /\ turn'[u].sid = sid /\ (Opens(u, t, a)' => pc \in Opened!Opening)
  BY DEF Opens, Moved
<1> QED BY <1>2, <1>3 DEF Orderly

\* A step of an opening: what it binds and where it works has to fit its own
\* thread and agent.
Fits(u, t, a, pc, sid) ==
  /\ bound'[t, a] # "none" => /\ session'[bound'[t, a]].agent = a
                              /\ InThread(t, a) => bound'[t, a] = thread[t]
  /\ bound[t, a] # "none" => bound'[t, a] = bound[t, a]
  /\ \A s \in SessionIds : <<t, a, s>> \in worked' => <<t, a, s>> \in worked \/ s = bound'[t, a]
  /\ pc \in {"bind", "backfill"} => thread[t] = sid
  /\ pc \in {"fresh", "attach"} => ~InThread(t, a)
  /\ pc \in Opened!Opening \ {"resume"} => bound'[t, a] = "none"

LEMMA OpeningKeeps ==
  ASSUME SessionsInv, OwnersKept, NEW u \in Turns, turn[u].pc \in Opened!Opening,
         NEW pc \in Opened!Opening \cup {"work"}, NEW sid \in SessionIds \cup {"none"},
         Moved(u, pc, sid), thread' = thread, disturbed' = disturbed, idler' = idler,
         NEW t \in Threads, NEW a \in Agents, t = turn[u].thread, a = turn[u].agent,
         pc \in Founding <=> turn[u].pc \in Founding,
         turn[u].pc \in Founding => UNCHANGED <<bound, worked>>,
         pc \in {"insert", "bind", "backfill", "attach"} =>
           sid \in SessionIds /\ session'[sid].agent = a,
         OnlyPair(t, a),
         Undisturbed(t, a) /\ Orderly(t, a) => Fits(u, t, a, pc, sid)
  PROVE  SessionsInv'
PROOF
<1>0. SessionsTyped /\ turn[u].pc # "idle" /\ Opens(u, t, a)
  BY DEF SessionsInv, Opens, Opened!Opening
<1>1. Unused(t, a)'
  <2>1. CASE turn[u].pc \in Founding
    BY <2>1 DEF SessionsInv, Unused
  <2>2. CASE turn[u].pc \notin Founding
    <3>1. thread[t] # "none"
      BY <1>0, <2>2 DEF SessionsInv, Founded
    <3> QED BY <3>1 DEF Unused
  <2> QED BY <2>1, <2>2
<1>2. ASSUME Undisturbed(t, a), Orderly(t, a) PROVE Orderly(t, a)'
  <2>1. InThread(t, a)' <=> InThread(t, a)
    BY <1>0, InThreadKept
  <2>2. Fits(u, t, a, pc, sid)
    BY <1>2
  <2>3. \A s \in SessionIds : <<t, a, s>> \in worked' => s = bound'[t, a]
    <3>1. \A s \in SessionIds : <<t, a, s>> \in worked => s = bound[t, a]
      BY <1>2 DEF Orderly
    <3>2. \A s \in SessionIds : s # "none"
      BY SessionNames DEF Opened!NamesAssumption, Opened!None
    <3> QED BY <2>2, <3>1, <3>2 DEF Fits
  <2> QED BY <1>0, <1>2, <2>1, <2>2, <2>3, OpenerMoves DEF Fits
<1> QED BY <1>0, <1>1, <1>2, MovesKeep

\* A new thread's session is one of its agent, reused or created.
LEMMA FoundersChoose ==
  ASSUME SessionsInv, NEW u \in Turns, Opened!ReuseActive(u) \/ Opened!CreateForThread(u)
  PROVE  SessionsInv'
PROOF
<1>0. /\ SessionsTyped /\ turn[u].pc \in {"choose", "create"} /\ turn[u].pc # "idle"
      /\ UNCHANGED <<thread, bound, worked, disturbed, failures, idler>>
  BY DEF SessionsInv, Opened!ReuseActive, Opened!CreateForThread, Opened!Create, Opened!At
<1>1. PICK t \in Threads, a \in Agents : t = turn[u].thread /\ a = turn[u].agent
  BY <1>0, TurnTyped
<1>2. thread[t] = "none" /\ bound[t, a] = "none"
  BY <1>0, <1>1 DEF SessionsInv, Founded, Founding, Unused
<1>3. ASSUME OwnersKept, NEW pc \in {"create", "insert"}, NEW sid \in SessionIds \cup {"none"},
             Moved(u, pc, sid), pc = "insert" => sid \in SessionIds /\ session'[sid].agent = a
      PROVE  SessionsInv'
  <2>1. /\ pc \in Founding /\ turn[u].pc \in Founding
        /\ turn[u].pc \in Opened!Opening /\ pc \in Opened!Opening
    BY <1>0 DEF Founding, Opened!Opening
  <2>2. OnlyPair(t, a)
    BY <1>0 DEF OnlyPair, SessionsTyped
  <2>3. Fits(u, t, a, pc, sid)
    BY <1>0, <1>2, <1>3 DEF Fits
  <2> QED BY <1>0, <1>1, <1>3, <2>1, <2>2, <2>3, OpeningKeeps
<1>4. CASE Opened!ReuseActive(u)
  <2>1. ASSUME NEW s \in Opened!Of(a), Opened!Touched(s), turn[u].pc = "choose",
               turn' = [turn EXCEPT ![u].pc = "insert", ![u].sid = s]
        PROVE  SessionsInv'
    <3>1. s \in SessionIds /\ session[s].agent = a
      BY <2>1 DEF Opened!Of
    <3>2. OwnersKept
      BY <1>0, <2>1, <3>1, StateChanges DEF Opened!Touched, Owned
    <3>3. Moved(u, "insert", s)
      BY <1>0, <2>1, <3>1, TurnMoves DEF Opened!Opening
    <3> QED BY <1>3, <3>1, <3>2, <3>3 DEF OwnersKept, Owned
  <2>2. ASSUME Opened!To(u, "create"), session' = session PROVE SessionsInv'
    <3>1. OwnersKept
      BY <1>0, <2>2 DEF OwnersKept, SessionsTyped
    <3>2. Moved(u, "create", turn[u].sid) /\ turn[u].sid \in SessionIds \cup {"none"}
      BY <1>0, <2>2, TurnMovesTo, TurnTyped DEF Opened!Opening
    <3> QED BY <1>3, <3>1, <3>2
  <2> QED BY <1>1, <1>4, <2>1, <2>2 DEF Opened!ReuseActive, Opened!At
<1>5. CASE Opened!CreateForThread(u)
  <2>1. PICK s \in Opened!Unused :
          /\ session' = [session EXCEPT ![s] = [agent |-> a, state |-> "active"]]
          /\ turn' = [turn EXCEPT ![u].pc = "insert", ![u].sid = s]
    BY <1>1, <1>5 DEF Opened!CreateForThread, Opened!Create
  <2>2. OwnersKept /\ s \in SessionIds /\ session'[s].agent = a
    BY <1>0, <2>1, SessionCreated
  <2>3. Moved(u, "insert", s)
    BY <1>0, <2>1, <2>2, TurnMoves DEF Opened!Opening
  <2> QED BY <1>3, <2>2, <2>3
<1> QED BY <1>4, <1>5

\* The turn that began a thread inserts it, with a session of its agent.
LEMMA ThreadInserted ==
  ASSUME SessionsInv, NEW u \in Turns, Opened!InsertThread(u)
  PROVE  SessionsInv'
PROOF
<1>0. /\ SessionsTyped /\ turn[u].pc = "insert" /\ turn[u].pc # "idle" /\ turn[u].pc \in Founding
      /\ UNCHANGED <<session, bound, worked, disturbed, failures, idler>>
  BY DEF SessionsInv, Opened!InsertThread, Opened!At, Founding
<1>1. PICK t \in Threads, a \in Agents : t = turn[u].thread /\ a = turn[u].agent
  BY <1>0, TurnTyped
<1>2. PICK s \in SessionIds : s = turn[u].sid /\ session[s].agent = a
  BY <1>0, <1>1 DEF SessionsInv, Founded
<1>3. Moved(u, "bind", s)
  BY <1>0, <1>2, TurnMovesTo DEF Opened!InsertThread, Opened!Opening
<1>4. /\ thread' \in [Threads -> SessionIds \cup {"none", "gone"}]
      /\ thread'[t] = s /\ s # "none" /\ s # "gone"
      /\ \A r \in Threads \ {t} : thread'[r] = thread[r]
  BY <1>0, <1>1, <1>2, SessionNames
     DEF Opened!InsertThread, SessionsTyped, Opened!NamesAssumption, Opened!None, Opened!Gone
<1>5. /\ thread[t] = "none"
      /\ \A v \in Turns : turn[v].pc # "idle" /\ turn[v].thread = t => v = u
  BY <1>0, <1>1 DEF SessionsInv, Founded
<1>6. OwnersKept
  BY <1>0 DEF OwnersKept, SessionsTyped
<1>7. SessionsTyped'
  BY <1>0, <1>2, <1>3, <1>4 DEF SessionsTyped, Moved, Owned
<1>8. ASSUME NEW v \in Turns PROVE Founded(v)'
  <2>1. CASE v = u
    <3>1. turn'[u].pc = "bind" /\ turn'[u].sid = s /\ turn'[u].thread = t /\ turn'[u].agent = a
      BY <1>1, <1>3 DEF Moved
    <3> QED BY <1>0, <1>2, <1>4, <2>1, <3>1 DEF Founded, Founding
  <2>2. CASE v # u
    <3>1. turn'[v] = turn[v] /\ Founded(v)
      BY <1>3, <2>2 DEF Moved, SessionsInv
    <3>2. turn[v].pc # "idle" => turn[v].thread # t /\ turn[v].thread \in Threads
      BY <1>0, <1>5, <2>2, TurnTyped
    <3>3. \A w \in Turns : turn'[w].pc # "idle" => turn[w].pc # "idle" /\ turn'[w].thread = turn[w].thread
      BY <1>0, <1>3 DEF Moved
    <3>4. turn[v].pc # "idle" => thread'[turn[v].thread] = thread[turn[v].thread]
      BY <1>4, <3>2
    <3> QED BY <1>0, <1>6, <3>1, <3>3, <3>4, FoundedKept
  <2> QED BY <2>1, <2>2
<1>9. ASSUME NEW r \in Threads, NEW b \in Agents
      PROVE  Unused(r, b)' /\ (Undisturbed(r, b)' => Orderly(r, b)')
  <2>1. Unused(r, b) /\ (Undisturbed(r, b) => Orderly(r, b))
    BY DEF SessionsInv
  <2>2. CASE r = t
    <3>1. bound'[r, b] = "none" /\ \A q \in SessionIds : <<r, b, q>> \notin worked'
      BY <1>0, <1>5, <2>1, <2>2 DEF Unused
    <3>2. \A v \in Turns : Opens(v, r, b)' => v = u
      BY <1>3, <1>5, <2>2 DEF Opens, Moved, Opened!Opening
    <3>3. turn'[u].pc = "bind" /\ turn'[u].sid = s
      BY <1>3 DEF Moved
    <3> QED BY <1>4, <2>2, <3>1, <3>2, <3>3 DEF Unused, Orderly
  <2>3. CASE r # t
    <3>1. thread'[r] = thread[r]
      BY <1>4, <2>3
    <3>2. \A v \in Turns : Opens(v, r, b)' => turn'[v] = turn[v]
      BY <1>1, <1>3, <2>3 DEF Opens, Moved
    <3> QED BY <1>0, <1>6, <2>1, <3>1, <3>2, OrderlyKept DEF Unused, Undisturbed
  <2> QED BY <2>2, <2>3
<1> QED BY <1>7, <1>8, <1>9 DEF SessionsInv

\* A step of an opening that ends the turn, where the thread is gone.
LEMMA OpeningEnds ==
  ASSUME SessionsInv, NEW u \in Turns, turn' = [turn EXCEPT ![u] = Opened!Idle],
         UNCHANGED <<session, thread, bound, worked, disturbed, idler>>
  PROVE  SessionsInv'
PROOF
<1>0. SessionsTyped
  BY DEF SessionsInv
<1>1. OwnersKept /\ \A s \in idler' : s \in SessionIds /\ Owned(s)
  BY <1>0 DEF OwnersKept, SessionsTyped
<1>2. \A v \in Turns : turn'[v] = turn[v] \/ turn'[v].pc = "idle"
  BY <1>0, TurnEnds
<1>3. turn' \in [Turns -> {Opened!Idle} \cup Begun]
  BY <1>0, TurnEnds
<1> QED BY <1>0, <1>1, <1>2, <1>3, EndsKeep DEF SessionsTyped

\* What a turn binds to its thread and agent, and where it works for them.
BindsHere(t, a, s) ==
  bound' = IF thread[t] # "gone" THEN [bound EXCEPT ![<<t, a>>] = s] ELSE bound
WorksHere(t, a, s) == worked' = worked \/ worked' = worked \cup {<<t, a, s>>}

LEMMA HereOnly ==
  ASSUME SessionsTyped, NEW t \in Threads, NEW a \in Agents, NEW s \in SessionIds,
         BindsHere(t, a, s) \/ bound' = bound, WorksHere(t, a, s)
  PROVE  /\ OnlyPair(t, a)
         /\ \A r \in SessionIds : <<t, a, r>> \in worked' => <<t, a, r>> \in worked \/ r = s
PROOF
<1>1. /\ bound' \in [Threads \X Agents -> SessionIds \cup {"none"}]
      /\ \A p \in (Threads \X Agents) \ {<<t, a>>} : bound'[p] = bound[p]
  BY DEF SessionsTyped, BindsHere
<1>2. /\ worked' \subseteq Threads \X Agents \X SessionIds
      /\ \A p \in worked' \ worked : \E r \in SessionIds : p = <<t, a, r>>
  BY DEF SessionsTyped, WorksHere
<1>3. \A r \in SessionIds : <<t, a, r>> \in worked' => <<t, a, r>> \in worked \/ r = s
  BY DEF WorksHere
<1> QED BY <1>1, <1>2, <1>3 DEF OnlyPair

\* The thread's session is bound to the agent, or the thread is gone.
LEMMA SessionBound ==
  ASSUME SessionsInv, NEW u \in Turns,
         Opened!BindThread(u) \/ Opened!Backfill(u) \/ Opened!Attach(u)
  PROVE  SessionsInv'
PROOF
<1>0. /\ SessionsTyped /\ turn[u].pc \in {"bind", "backfill", "attach"}
      /\ turn[u].pc \in Opened!Opening /\ turn[u].pc # "idle" /\ turn[u].pc \notin Founding
      /\ UNCHANGED <<session, thread, disturbed, failures, idler>>
  BY DEF SessionsInv, Opened!BindThread, Opened!Backfill, Opened!Attach, Opened!At, Opened!Opening, Founding
<1>1. PICK t \in Threads, a \in Agents : t = turn[u].thread /\ a = turn[u].agent
  BY <1>0, TurnTyped
<1>2. PICK s \in SessionIds : s = turn[u].sid /\ session[s].agent = a
  BY <1>0, <1>1 DEF SessionsInv, Founded
<1>3. OwnersKept
  BY <1>0 DEF OwnersKept, SessionsTyped
<1>4. ASSUME NEW pc \in {"resume", "work"}, Opened!To(u, pc),
             BindsHere(t, a, s), WorksHere(t, a, s)
      PROVE  SessionsInv'
  <2>1. Moved(u, pc, s)
    BY <1>0, <1>2, <1>4, TurnMovesTo DEF Opened!Opening
  <2>2. /\ OnlyPair(t, a)
        /\ \A r \in SessionIds : <<t, a, r>> \in worked' => <<t, a, r>> \in worked \/ r = s
    BY <1>0, <1>4, HereOnly
  <2>3. ASSUME Undisturbed(t, a), Orderly(t, a) PROVE Fits(u, t, a, pc, s)
    <3>1. bound'[t, a] = s /\ bound[t, a] = "none"
      BY <1>0, <1>1, <1>4, <2>3 DEF SessionsTyped, Undisturbed, Orderly, Opens, BindsHere
    <3>2. InThread(t, a) => s = thread[t]
      BY <1>0, <1>1, <1>2, <2>3 DEF Orderly, Opens
    <3> QED BY <1>0, <1>2, <2>2, <3>1, <3>2 DEF Fits, Opened!Opening
  <2>4. pc \in Opened!Opening \cup {"work"} /\ pc \notin Founding
    BY DEF Opened!Opening, Founding
  <2>5. pc \notin {"insert", "bind", "backfill", "attach"}
    OBVIOUS
  <2> QED BY <1>0, <1>1, <1>3, <2>1, <2>2, <2>3, <2>4, <2>5, OpeningKeeps
<1>5. ASSUME thread[t] = "gone", bound' = bound, worked' = worked,
             turn' = [turn EXCEPT ![u] = Opened!Idle]
      PROVE  SessionsInv'
  BY <1>0, <1>5, OpeningEnds
<1>6. CASE Opened!BindThread(u)
  <2>1. CASE thread[t] # "gone"
    BY <1>1, <1>2, <1>4, <1>6, <2>1
       DEF Opened!BindThread, Opened!Gone, Opened!SetBinding, BindsHere, WorksHere
  <2>2. CASE thread[t] = "gone"
    BY <1>1, <1>5, <1>6, <2>2 DEF Opened!BindThread, Opened!Gone, Opened!SetBinding
  <2> QED BY <2>1, <2>2
<1>7. CASE Opened!Backfill(u)
  <2>1. CASE thread[t] # "gone"
    BY <1>1, <1>2, <1>4, <1>7, <2>1
       DEF Opened!Backfill, Opened!Gone, Opened!SetBinding, Opened!Works, BindsHere, WorksHere
  <2>2. CASE thread[t] = "gone"
    BY <1>1, <1>5, <1>7, <2>2 DEF Opened!Backfill, Opened!Gone, Opened!SetBinding
  <2> QED BY <2>1, <2>2
<1>8. CASE Opened!Attach(u)
  BY <1>1, <1>2, <1>4, <1>8
     DEF Opened!Attach, Opened!Gone, Opened!SetBinding, Opened!Works, BindsHere, WorksHere
<1> QED BY <1>6, <1>7, <1>8

\* A turn takes up the session that is bound, or the thread's own.
LEMMA SessionResumed ==
  ASSUME SessionsInv, NEW u \in Turns, Opened!Resume(u)
  PROVE  SessionsInv'
PROOF
<1>0. /\ SessionsTyped /\ turn[u].pc = "resume"
      /\ turn[u].pc \in Opened!Opening /\ turn[u].pc # "idle" /\ turn[u].pc \notin Founding
      /\ UNCHANGED <<thread, bound, disturbed, failures, idler>>
  BY DEF SessionsInv, Opened!Resume, Opened!At, Opened!Opening, Founding
<1>1. PICK t \in Threads, a \in Agents : t = turn[u].thread /\ a = turn[u].agent
  BY <1>0, TurnTyped
<1> DEFINE s == IF bound[t, a] # "none" THEN bound[t, a] ELSE thread[t]
           known == s \in Opened!Of(a)
           sid == IF known THEN s ELSE "none"
           pc == IF ~known THEN "fresh" ELSE IF bound[t, a] # "none" THEN "work" ELSE "backfill"
<1>2. /\ IF known THEN Opened!Touched(s) ELSE UNCHANGED session
      /\ IF known /\ bound[t, a] # "none" THEN worked' = worked \cup {<<t, a, s>>} ELSE UNCHANGED worked
      /\ turn' = [turn EXCEPT ![u].sid = sid, ![u].pc = pc]
  BY <1>1 DEF Opened!Resume, Opened!None, Opened!Works
<1>3. known => s \in SessionIds /\ session[s].agent = a
  BY DEF Opened!Of
<1>4. bound[t, a] \in SessionIds \cup {"none"}
  BY <1>0 DEF SessionsTyped
<1>5. /\ sid \in SessionIds \cup {"none"} /\ pc \in Opened!Opening \cup {"work"} /\ pc \notin Founding
  BY <1>3 DEF Opened!Opening, Founding
<1>6. OwnersKept /\ (known => session'[s].agent = a)
  <2>1. CASE known
    BY <1>0, <1>2, <1>3, <2>1, StateChanges DEF Opened!Touched, Owned, OwnersKept
  <2>2. CASE ~known
    BY <1>0, <1>2, <2>2 DEF OwnersKept, SessionsTyped
  <2> QED BY <2>1, <2>2
<1>7. \/ worked' = worked
      \/ known /\ s = bound[t, a] /\ WorksHere(t, a, s)
  BY <1>2 DEF WorksHere
<1>8. /\ OnlyPair(t, a)
      /\ \A r \in SessionIds : <<t, a, r>> \in worked' => <<t, a, r>> \in worked \/ r = bound[t, a]
  <2>1. CASE worked' = worked
    BY <1>0, <2>1 DEF OnlyPair, SessionsTyped
  <2>2. ASSUME known, s = bound[t, a], WorksHere(t, a, s)
        PROVE  /\ OnlyPair(t, a)
               /\ \A r \in SessionIds : <<t, a, r>> \in worked' => <<t, a, r>> \in worked \/ r = bound[t, a]
    <3>1. PICK b \in SessionIds : b = bound[t, a] /\ WorksHere(t, a, b)
      BY <1>3, <2>2
    <3> HIDE DEF s, known, sid, pc
    <3> QED BY <1>0, <3>1, HereOnly
  <2> QED BY <1>7, <2>1, <2>2
<1>9. ASSUME Undisturbed(t, a), Orderly(t, a) PROVE Fits(u, t, a, pc, sid)
  <2>1. bound[t, a] # "none" \/ InThread(t, a) => known
    BY <1>4, <1>9 DEF Orderly, InThread, Opened!Of
  <2>2. bound[t, a] # "none" => /\ session'[bound[t, a]].agent = a
                                /\ InThread(t, a) => bound[t, a] = thread[t]
    BY <1>6, <1>9, <2>1 DEF Orderly
  <2>3. /\ pc = "backfill" => bound[t, a] = "none" /\ sid = thread[t]
        /\ pc = "fresh" => ~known
        /\ pc \in {"backfill", "fresh", "work"}
    OBVIOUS
  <2>4. /\ pc # "bind" /\ pc # "attach"
        /\ pc \in Opened!Opening => pc # "work"
    BY DEF Opened!Opening
  <2> HIDE DEF s, known, pc, sid
  <2> QED BY <1>0, <1>8, <2>1, <2>2, <2>3, <2>4 DEF Fits
<1>10. pc \in {"insert", "bind", "backfill", "attach"} => sid \in SessionIds /\ session'[sid].agent = a
  BY <1>3, <1>6
<1>11. turn' = [turn EXCEPT ![u].pc = pc, ![u].sid = sid]
  BY <1>0, <1>2 DEF SessionsTyped
<1> HIDE DEF s, known, pc, sid
<1>12. Moved(u, pc, sid)
  BY <1>0, <1>5, <1>11, TurnMoves
<1> QED BY <1>0, <1>1, <1>5, <1>6, <1>8, <1>9, <1>10, <1>12, OpeningKeeps

\* An agent new in the thread gets a session of its own.
LEMMA SessionFresh ==
  ASSUME SessionsInv, NEW u \in Turns, Opened!CreateFresh(u)
  PROVE  SessionsInv'
PROOF
<1>0. /\ SessionsTyped /\ turn[u].pc = "fresh"
      /\ turn[u].pc \in Opened!Opening /\ turn[u].pc # "idle" /\ turn[u].pc \notin Founding
      /\ UNCHANGED <<thread, bound, worked, disturbed, failures, idler>>
  BY DEF SessionsInv, Opened!CreateFresh, Opened!Create, Opened!At, Opened!Opening, Founding
<1>1. PICK t \in Threads, a \in Agents : t = turn[u].thread /\ a = turn[u].agent
  BY <1>0, TurnTyped
<1>2. PICK s \in Opened!Unused :
        /\ session' = [session EXCEPT ![s] = [agent |-> a, state |-> "active"]]
        /\ turn' = [turn EXCEPT ![u].pc = "attach", ![u].sid = s]
  BY <1>1 DEF Opened!CreateFresh, Opened!Create
<1>3. OwnersKept /\ s \in SessionIds /\ session'[s].agent = a
  BY <1>0, <1>2, SessionCreated
<1>4. Moved(u, "attach", s)
  BY <1>0, <1>2, <1>3, TurnMoves DEF Opened!Opening
<1>5. OnlyPair(t, a)
  BY <1>0 DEF OnlyPair, SessionsTyped
<1>6. ASSUME Orderly(t, a) PROVE Fits(u, t, a, "attach", s)
  <2>1. bound[t, a] = "none" /\ ~InThread(t, a)
    BY <1>0, <1>1, <1>6 DEF Orderly, Opens
  <2> QED BY <1>0, <2>1 DEF Fits
<1>7. "attach" \in Opened!Opening /\ "attach" \notin Founding
  BY DEF Opened!Opening, Founding
<1> QED BY <1>0, <1>1, <1>3, <1>4, <1>5, <1>6, <1>7, OpeningKeeps

\* Turns that end, sessions put to rest, threads deleted, and the restart.
LEMMA OthersKeep ==
  ASSUME SessionsInv,
         \/ \E u \in Turns : Opened!OpenFails(u) \/ Opened!EndTurn(u)
         \/ \E t \in Threads : Opened!DeleteThread(t)
         \/ Opened!IdlerReads \/ Opened!Restart
         \/ \E s \in SessionIds : Opened!IdlerMarks(s) \/ Opened!GoesStale(s)
  PROVE  SessionsInv'
PROOF
<1>0. SessionsTyped
  BY DEF SessionsInv
<1>1. ASSUME session' = session, idler' = {} \/ idler' = idler \/ Opened!IdlerReads
      PROVE  OwnersKept /\ \A s \in idler' : s \in SessionIds /\ Owned(s)
  <2>1. \A s \in SessionIds : session[s].state = "stale" => Owned(s)
    BY <1>0 DEF SessionsTyped, Rows, Owned
  <2> QED BY <1>0, <1>1, <2>1 DEF OwnersKept, SessionsTyped, Opened!IdlerReads
<1>2. ASSUME NEW u \in Turns, Opened!OpenFails(u) \/ Opened!EndTurn(u) PROVE SessionsInv'
  BY <1>2, OpeningEnds DEF Opened!OpenFails, Opened!EndTurn
<1>3. ASSUME NEW t \in Threads, Opened!DeleteThread(t) PROVE SessionsInv'
  <2>1. /\ thread[t] \in SessionIds /\ thread' = [thread EXCEPT ![t] = "gone"]
        /\ bound' = [p \in Threads \X Agents |-> IF p[1] = t THEN "none" ELSE bound[p]]
        /\ UNCHANGED <<session, turn, worked, disturbed, idler>>
    BY <1>3 DEF Opened!DeleteThread, Opened!Gone, Opened!None
  <2>2. OwnersKept /\ \A s \in idler' : s \in SessionIds /\ Owned(s)
    BY <1>1, <2>1
  <2>3. /\ turn' \in [Turns -> {Opened!Idle} \cup Begun]
        /\ \A v \in Turns : turn'[v] = turn[v]
    BY <1>0, <2>1 DEF SessionsTyped
  <2>4. /\ thread' \in [Threads -> SessionIds \cup {"none", "gone"}]
        /\ \A r \in Threads : thread'[r] = thread[r] \/ (thread[r] # "none" /\ thread'[r] = "gone")
        /\ thread'[t] # thread[t]
    BY <1>0, <2>1, SessionNames DEF SessionsTyped, Opened!NamesAssumption, Opened!None, Opened!Gone
  <2>5. /\ bound' \in [Threads \X Agents -> SessionIds \cup {"none"}]
        /\ \A r \in Threads, b \in Agents : r # t => bound'[r, b] = bound[r, b]
    BY <1>0, <2>1 DEF SessionsTyped
  <2> QED BY <2>1, <2>2, <2>3, <2>4, <2>5, EndsKeep
<1>4. ASSUME UNCHANGED <<thread, bound, worked, disturbed>>, OwnersKept,
             turn' = turn \/ turn' = [u \in Turns |-> Opened!Idle],
             \A s \in idler' : s \in SessionIds /\ Owned(s)
      PROVE  SessionsInv'
  <2>1. /\ turn' \in [Turns -> {Opened!Idle} \cup Begun]
        /\ \A v \in Turns : turn'[v] = turn[v] \/ turn'[v].pc = "idle"
    BY <1>0, <1>4 DEF SessionsTyped, Opened!Idle
  <2> QED BY <1>0, <1>4, <2>1, EndsKeep DEF SessionsTyped
<1>5. CASE Opened!IdlerReads
  BY <1>1, <1>4, <1>5 DEF Opened!IdlerReads
<1>6. CASE Opened!Restart
  BY <1>1, <1>4, <1>6 DEF Opened!Restart
<1>7. ASSUME NEW s \in SessionIds, NEW state \in {"stale", "idle"}, Owned(s),
             session' = [session EXCEPT ![s].state = state], idler' \subseteq idler,
             UNCHANGED <<thread, bound, turn, worked, disturbed>>
      PROVE  SessionsInv'
  <2>1. OwnersKept
    BY <1>0, <1>7, StateChanges
  <2>2. \A r \in idler' : r \in SessionIds /\ Owned(r)
    BY <1>0, <1>7 DEF SessionsTyped
  <2> QED BY <1>4, <1>7, <2>1, <2>2
<1>8. ASSUME NEW s \in SessionIds, Opened!IdlerMarks(s) PROVE SessionsInv'
  <2>1. Owned(s) /\ idler' \subseteq idler
    BY <1>0, <1>8 DEF SessionsTyped, Opened!IdlerMarks
  <2> QED BY <1>7, <1>8, <2>1 DEF Opened!IdlerMarks
<1>9. ASSUME NEW s \in SessionIds, Opened!GoesStale(s) PROVE SessionsInv'
  <2>1. Owned(s)
    BY <1>0, <1>9 DEF SessionsTyped, Rows, Owned, Opened!GoesStale
  <2> QED BY <1>7, <1>9, <2>1 DEF Opened!GoesStale
<1> QED BY <1>2, <1>3, <1>5, <1>6, <1>8, <1>9

\* No step leaves the invariant of the sessions.
LEMMA SessionsStay == Opened!Spec => []SessionsInv
PROOF
<1>1. ASSUME Opened!Init PROVE SessionsInv
  <2>1. /\ session = [s \in SessionIds |-> [agent |-> "none", state |-> "none"]]
        /\ thread = [t \in Threads |-> "none"]
        /\ bound = [p \in Threads \X Agents |-> "none"]
        /\ turn = [u \in Turns |-> Opened!Idle]
        /\ idler = {} /\ worked = {} /\ disturbed = {}
    BY <1>1 DEF Opened!Init, Opened!None
  <2>2. SessionsTyped
    BY <2>1, SessionNames DEF SessionsTyped, Rows, Opened!NamesAssumption, Opened!None
  <2>3. \A u \in Turns : turn[u].pc = "idle"
    BY <2>1 DEF Opened!Idle
  <2>4. \A u \in Turns : Founded(u)
    BY <2>3 DEF Founded, Founding
  <2>5. \A t \in Threads, a \in Agents : Unused(t, a) /\ Orderly(t, a)
    BY <2>1, <2>3 DEF Unused, Orderly, Opens, Opened!Opening
  <2> QED BY <2>2, <2>4, <2>5 DEF SessionsInv
<1>2. ASSUME SessionsInv, Opened!Next PROVE SessionsInv'
  <2>1. ASSUME NEW u \in Turns, NEW t \in Threads, NEW a \in Agents,
               \/ Opened!BeginThread(u, t, a) \/ Opened!BeginTurn(u, t, a)
               \/ Opened!BeginScheduled(u, t, a)
        PROVE  SessionsInv'
    BY <1>2, <2>1, TurnsBegin
  <2>2. ASSUME NEW u \in Turns,
               \/ Opened!ReuseActive(u) \/ Opened!CreateForThread(u) \/ Opened!InsertThread(u)
               \/ Opened!BindThread(u) \/ Opened!Resume(u) \/ Opened!Backfill(u)
               \/ Opened!CreateFresh(u) \/ Opened!Attach(u)
        PROVE  SessionsInv'
    BY <1>2, <2>2, FoundersChoose, ThreadInserted, SessionBound, SessionResumed, SessionFresh
  <2>3. CASE \/ \E u \in Turns : Opened!OpenFails(u) \/ Opened!EndTurn(u)
             \/ \E t \in Threads : Opened!DeleteThread(t)
             \/ Opened!IdlerReads \/ Opened!Restart
             \/ \E s \in SessionIds : Opened!IdlerMarks(s) \/ Opened!GoesStale(s)
    BY <1>2, <2>3, OthersKeep
  <2> QED BY <1>2, <2>1, <2>2, <2>3 DEF Opened!Next
<1>3. ASSUME SessionsInv, UNCHANGED Opened!vars PROVE SessionsInv'
  <2>1. /\ UNCHANGED <<session, thread, bound, turn, idler, worked, disturbed>>
        /\ SessionsTyped
    BY <1>3 DEF Opened!vars, SessionsInv
  <2>2. OwnersKept /\ \A s \in idler' : s \in SessionIds /\ Owned(s)
    BY <2>1 DEF OwnersKept, SessionsTyped
  <2> QED BY <1>3, <2>1, <2>2, EndsKeep DEF SessionsTyped
<1> QED BY <1>1, <1>2, <1>3, PTL DEF Opened!Spec

\* The sessions in which an agent worked for a thread are the one that is bound.
LEMMA OneAtMost == SessionsInv => Opened!OneSession
PROOF BY DEF SessionsInv, Undisturbed, Orderly, Opened!OneSession, Opened!Gone

-----------------------------------------------------------------------------
\* However often a session was put to rest, a statement failed or the process
\* restarted: an agent that comes back to a thread works where it worked before,
\* and the tables of sessions and volumes account for each volume in Docker.
THEOREM SessionsAreKept == MCSpec => []SessionsKept
PROOF
<1>1. MountsInv => Mounts!VolumesRecorded
  BY DEF MountsInv, HasRow, HasCacheRow, Mounts!VolumesRecorded, Mounts!RowsOf, Mounts!None
<1> QED BY <1>1, OneAtMost, SessionsStay, RowsKept, PartsRun, PTL DEF SessionsKept
=============================================================================
