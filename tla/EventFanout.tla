------------------------------ MODULE EventFanout ------------------------------
(***************************************************************************)
(* Agent events: a turn emits an event (events/mod.rs), the event is       *)
(* stored and broadcast, and the fan-out task (events/fanout.rs) matches   *)
(* it with the subscriptions of the user (api/subscriptions.rs).  A        *)
(* reaction may invoke an agent, whose turn may emit events in its turn.   *)
(*                                                                         *)
(* The table of events survives a crash; the broadcast channel, the        *)
(* fan-out task and the turns do not.  One user, one type of event; the    *)
(* filter expression of a subscription may match or not.                   *)
(***************************************************************************)
EXTENDS Naturals, Sequences, FiniteSets

CONSTANTS
  Events,        \* ids of events
  Notifying,     \* subscriptions that post a message to a pipe
  Invoking,      \* subscriptions that invoke an agent
  Capacity,      \* BUS_CAPACITY, at least one, of the channel
  EmitLimit,     \* DEFAULT_MAX_CHAIN_DEPTH of events/mod.rs
  ChainLimit,    \* max_chain_depth of the configuration
  MaxFaults      \* bound on crashes and failing statements

\* The channel holds an event, and a turn of a user may emit.
ASSUME FanoutAssumption ==
  Capacity \in Nat \ {0} /\ EmitLimit \in Nat \ {0} /\ ChainLimit \in Nat

VARIABLES
  stored,        \* agent_events: state and chain depth
  bus,           \* events broadcast and not received yet
  fan,           \* the event in process_event, and the reactions left
  active,        \* active subscriptions
  turns,         \* agent turns an event has started
  origin,        \* the turns that led to an event, one after the other
  lost,          \* events that a fault or a full channel took away
  faults

vars == <<stored, bus, fan, active, turns, origin, lost, faults>>

Subscriptions == Notifying \cup Invoking
Idle == [pc |-> "recv"]
Unused == {e \in Events : stored[e].state = "none"}

Init ==
  /\ stored = [e \in Events |-> [state |-> "none", depth |-> 0]]
  /\ bus = <<>>
  /\ fan = Idle
  /\ active \in SUBSET Subscriptions
  /\ turns = {}
  /\ origin = [e \in Events |-> 0]
  /\ lost = {}
  /\ faults = 0

-----------------------------------------------------------------------------
\* A full channel drops its oldest event; the receiver is told it lagged.
Broadcast(e) ==
  IF Len(bus) < Capacity
  THEN bus' = Append(bus, e) /\ UNCHANGED lost
  ELSE bus' = Append(Tail(bus), e) /\ lost' = lost \cup {Head(bus)}

\* dispatch_emit_event drops the event of a turn that is too deep.
Emit(e, depth, behind) ==
  /\ e \in Unused
  /\ depth < EmitLimit
  /\ stored' = [stored EXCEPT ![e] = [state |-> "stored", depth |-> depth]]
  /\ origin' = [origin EXCEPT ![e] = behind]
  /\ Broadcast(e)
  /\ UNCHANGED <<fan, active, turns, faults>>

\* A turn of a user, a channel or a schedule has depth zero.
UserTurnEmits(e) == Emit(e, 0, 0)
InvokedTurnEmits(t, e) == t \in turns /\ Emit(e, t.depth, t.behind)

EndTurn(t) ==
  /\ t \in turns
  /\ turns' = turns \ {t}
  /\ UNCHANGED <<stored, bus, fan, active, origin, lost, faults>>

Subscribe(s) ==
  /\ s \notin active /\ active' = active \cup {s}
  /\ UNCHANGED <<stored, bus, fan, turns, origin, lost, faults>>

Unsubscribe(s) ==
  /\ s \in active /\ active' = active \ {s}
  /\ UNCHANGED <<stored, bus, fan, turns, origin, lost, faults>>

-----------------------------------------------------------------------------
(* process_event                                                            *)

Quiet == UNCHANGED <<active, origin, faults>>

Receive ==
  /\ fan = Idle /\ bus # <<>>
  /\ fan' = [pc |-> "session", event |-> Head(bus)]
  /\ bus' = Tail(bus)
  /\ UNCHANGED <<stored, turns, lost>> /\ Quiet

\* The session of the event may be gone: there is nobody to react for.
FindSession ==
  /\ fan.pc = "session"
  /\ \E pc \in {"load", "mark"} : fan' = [fan EXCEPT !.pc = pc]
  /\ UNCHANGED <<stored, bus, turns, lost>> /\ Quiet

LoadSubscriptions ==
  /\ fan.pc = "load"
  /\ fan' = [pc |-> IF active = {} THEN "mark" ELSE "react",
             event |-> fan.event, left |-> active]
  /\ UNCHANGED <<stored, bus, turns, lost>> /\ Quiet

\* Mutant: an error of one reaction ends the processing of the event.
SkipAndStop(s) ==
  /\ fan.pc = "react" /\ s \in fan.left
  /\ fan' = Idle
  /\ UNCHANGED <<stored, bus, turns, lost>> /\ Quiet

Reacted(s) ==
  /\ fan.pc = "react" /\ s \in fan.left
  /\ fan' = [fan EXCEPT !.left = @ \ {s}, !.pc = IF fan.left = {s} THEN "mark" ELSE @]

\* Filtered out, filter or reaction in error, or a notification sent.
ReactOutside(s) ==
  /\ Reacted(s)
  /\ UNCHANGED <<stored, bus, turns, lost>> /\ Quiet

\* Mutant: the turn of the reaction counts as deep as the event.
InvokeAsDeep(s) ==
  /\ s \in Invoking
  /\ Reacted(s)
  /\ stored[fan.event].depth < ChainLimit
  /\ turns' = turns \cup {[event |-> fan.event, sub |-> s, depth |-> stored[fan.event].depth,
                           behind |-> origin[fan.event] + 1]}
  /\ UNCHANGED <<stored, bus, lost>> /\ Quiet

InvokeAgent(s) ==
  /\ s \in Invoking
  /\ Reacted(s)
  /\ stored[fan.event].depth < ChainLimit
  /\ turns' = turns \cup {[event |-> fan.event, sub |-> s, depth |-> stored[fan.event].depth + 1,
                           behind |-> origin[fan.event] + 1]}
  /\ UNCHANGED <<stored, bus, lost>> /\ Quiet

MarkProcessed ==
  /\ fan.pc = "mark"
  /\ stored' = [stored EXCEPT ![fan.event].state = "processed"]
  /\ fan' = Idle
  /\ UNCHANGED <<bus, turns, lost>> /\ Quiet

\* A statement fails: the loop goes on with the next event.
ProcessingFails ==
  /\ fan.pc \in {"session", "load", "mark"}
  /\ faults < MaxFaults /\ faults' = faults + 1
  /\ lost' = lost \cup {fan.event}
  /\ fan' = Idle
  /\ UNCHANGED <<stored, bus, turns, active, origin>>

\* Nothing reads the stored events when the orchestrator starts again.
Crash ==
  /\ faults < MaxFaults /\ faults' = faults + 1
  /\ lost' = lost \cup {e \in Events : stored[e].state = "stored"}
  /\ bus' = <<>> /\ fan' = Idle /\ turns' = {}
  /\ UNCHANGED <<stored, active, origin>>

-----------------------------------------------------------------------------
FanOut ==
  \/ Receive \/ FindSession \/ LoadSubscriptions \/ MarkProcessed
  \/ \E s \in Subscriptions : ReactOutside(s) \/ InvokeAgent(s)

Next ==
  \/ \E e \in Events : UserTurnEmits(e) \/ \E t \in turns : InvokedTurnEmits(t, e)
  \/ \E t \in turns : EndTurn(t)
  \/ \E s \in Subscriptions : Subscribe(s) \/ Unsubscribe(s)
  \/ FanOut \/ ProcessingFails \/ Crash

Spec == Init /\ [][Next]_vars
FairSpec == Spec /\ WF_vars(FanOut)

-----------------------------------------------------------------------------
(* Agents that invoke each other through events come to an end: however     *)
(* events, reactions and turns interleave, no turn has more than the        *)
(* smaller of the two limits of turns behind it.                            *)
ChainBounded ==
  \A t \in turns : t.behind <= EmitLimit /\ t.behind <= ChainLimit

(* An event that no fault and no full channel takes away is marked          *)
(* processed, whatever its filters and its reactions do.                    *)
EventHandled ==
  \A e \in Events : stored[e].state = "stored" ~> (stored[e].state = "processed" \/ e \in lost)
=============================================================================
