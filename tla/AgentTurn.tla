------------------------------ MODULE AgentTurn ------------------------------
(***************************************************************************)
(* Turns of the agent engine over the messages of one thread:              *)
(* agents/engine.rs run_turn and its interceptor task, agents/context.rs   *)
(* build, llm/tool_loop.rs run_loop and llm/context_budget.rs              *)
(* trim_to_budget.                                                         *)
(*                                                                         *)
(* A turn stores the user's message, reads the history of the thread, lets *)
(* the model answer with text or with tool calls, runs the calls, and      *)
(* stores the reply.  A top-level turn of a thread hands every tool        *)
(* message to an interceptor task that stores it at once; a turn without   *)
(* a thread stores them at the end; a delegated turn stores nothing.       *)
(* Nothing keeps two turns off the same thread: the history one of them    *)
(* reads is whatever the other has stored so far.                          *)
(*                                                                         *)
(* A message is its kind and the tool calls it makes or answers.  Every    *)
(* message weighs one unit of the context window.                          *)
(***************************************************************************)
EXTENDS Naturals, FiniteSets, Sequences, SequencesExt

CONSTANTS Turns,          \* the turns that may run on the thread
          Budget,         \* messages that fit the model's context window
          HistoryLimit,   \* rows of history a turn reads
          MaxIterations,  \* max_tool_loop_iterations of the agent; 0 is no limit
          MaxAnswers,     \* bound: answers of one turn that call tools
          MaxCalls,       \* bound: calls the model makes in one answer
          MaxFaults       \* bound: inserts that fail

ASSUME TurnAssumption == {Budget, HistoryLimit, MaxIterations, MaxAnswers, MaxCalls, MaxFaults} \subseteq Nat

VARIABLES threaded,  \* whether the turns belong to a thread
          rows,      \* the messages table, in order of created_at
          turn,      \* the local state of each turn
          faults

vars == <<threaded, rows, turn, faults>>

System == [kind |-> "system", ids |-> <<>>]
User == [kind |-> "user", ids |-> <<>>]
Reply == [kind |-> "reply", ids |-> <<>>]
Calling(cs) == [kind |-> "calls", ids |-> cs]
Result(c) == [kind |-> "result", ids |-> <<c>>]

Ended == {"done", "failed", "panicked"}

Idle == [pc |-> "idle", kind |-> "top", parent |-> {}, ms |-> <<>>, start |-> 0, iter |-> 0,
         batch |-> <<>>, terminal |-> FALSE, out |-> <<>>, sent |-> <<>>, ids |-> <<>>]

Init == /\ threaded \in BOOLEAN
        /\ rows = <<>>
        /\ turn = [t \in Turns |-> Idle]
        /\ faults = 0

Ids(m) == ToSet(m.ids)
Answered(ms) == UNION {Ids(ms[i]) : i \in {j \in DOMAIN ms : ms[j].kind = "result"}}

\* The elements of a sequence at these positions, in their order.
Rank(S, i) == Cardinality({j \in S : j <= i})
Keep(s, S) == [k \in 1 .. Cardinality(S) |-> s[CHOOSE i \in S : Rank(S, i) = k]]

(***************************************************************************)
(* The context.                                                            *)
(***************************************************************************)

\* Mutant: a result stays whether or not its calls did.
SanitizeCallsOnly(ms) ==
    Keep(ms, {i \in DOMAIN ms : ms[i].kind = "calls" => Ids(ms[i]) \subseteq Answered(ms)})

\* The second pass over the history: calls stay when all of them have a result,
\* results stay when their calls did and came before.
Sanitize(ms) ==
    LET whole == {i \in DOMAIN ms : ms[i].kind = "calls" /\ Ids(ms[i]) \subseteq Answered(ms)}
    IN  Keep(ms, {i \in DOMAIN ms :
                    /\ ms[i].kind = "calls" => i \in whole
                    /\ ms[i].kind = "result" => \E j \in whole : j < i /\ Ids(ms[i]) \subseteq Ids(ms[j])})

History ==
    LET live == Keep(rows, {i \in DOMAIN rows : ~rows[i].compacted})
        first == IF Len(live) > HistoryLimit THEN Len(live) - HistoryLimit + 1 ELSE 1
    IN  [i \in 1 .. (Len(live) - first + 1) |-> live[first + i - 1].m]

\* Over budget, the oldest messages after the system prompt go, and with a
\* dropped call its result wherever it is.
Trim(ms) ==
    LET front == CHOOSE k \in 0 .. Len(ms) :
                     /\ \A i \in 1 .. k : ms[i].kind = "system"
                     /\ k = Len(ms) \/ ms[k + 1].kind # "system"
        over  == IF Len(ms) > Budget THEN Len(ms) - Budget ELSE 0
        last  == IF front + over > Len(ms) THEN Len(ms) ELSE front + over
        gone  == UNION {Ids(ms[i]) : i \in {j \in (front + 1) .. last : ms[j].kind = "calls"}}
    IN  Keep(ms, {i \in DOMAIN ms :
                    \/ i <= front
                    \/ i > last /\ ~(ms[i].kind = "result" /\ Ids(ms[i]) \subseteq gone)})

(***************************************************************************)
(* Storing.                                                                *)
(***************************************************************************)

\* The calls of a set in the order the model made them, and an answer to each.
Among(cs, C) == Keep(cs, {i \in DOMAIN cs : cs[i] \in C})
Results(cs) == [i \in DOMAIN cs |-> Result(cs[i])]

Row(t, m) == [m |-> m, by |-> t, compacted |-> FALSE]

Fault == faults < MaxFaults /\ faults' = faults + 1

Set(t, r) == turn' = [turn EXCEPT ![t] = r]

\* A tool message joins the conversation and, in a top-level turn of a thread, the
\* interceptor's channel.
Push(r, new) == [r EXCEPT !.ms = @ \o new,
                          !.sent = IF r.kind = "top" /\ threaded THEN @ \o new ELSE @]

(***************************************************************************)
(* The start of a turn.                                                    *)
(***************************************************************************)

\* The agent asked for, or the default agent; without either the turn fails.
Route(t) ==
    /\ turn[t].pc = "idle"
    /\ \E pc \in {"routed", "failed"} : Set(t, [Idle EXCEPT !.pc = pc])
    /\ UNCHANGED <<threaded, rows, faults>>

\* Session, attachments, and the user message.  The prompt of a schedule is not stored,
\* and a failed insert is logged and the turn goes on.
Begin(t) ==
    /\ turn[t].pc = "routed"
    /\ Set(t, [turn[t] EXCEPT !.pc = "context"])
    /\ rows' \in {rows, Append(rows, Row(t, User))}
    /\ UNCHANGED <<threaded, faults>>

\* dispatch_delegation: a nested turn while its parent waits; it stores nothing.
BeginDelegated(t) ==
    /\ turn[t].pc = "idle"
    /\ \E p \in Turns :
         /\ turn[p].pc = "dispatch" /\ \E c \in ToSet(turn[p].batch) : c.delegates
         /\ Set(t, [Idle EXCEPT !.pc = "context", !.kind = "delegated", !.parent = {p}])
    /\ UNCHANGED <<threaded, rows, faults>>

\* No model is chosen or its provider has no key.
NoProvider(t) ==
    /\ turn[t].pc = "context"
    /\ Set(t, [turn[t] EXCEPT !.pc = "failed"])
    /\ UNCHANGED <<threaded, rows, faults>>

\* context::build; a delegated turn appends its request, which no row holds.
BuildContext(t) ==
    LET asked == IF turn[t].kind = "delegated" THEN <<User>> ELSE <<>>
        ms == Trim(<<System>> \o Sanitize(History) \o asked)
    IN  /\ turn[t].pc = "context"
        /\ Set(t, [turn[t] EXCEPT !.pc = "iterate", !.ms = ms, !.start = Len(ms)])
        /\ UNCHANGED <<threaded, rows, faults>>

(***************************************************************************)
(* The loop.                                                               *)
(***************************************************************************)

\* What is left of a turn that is over.
Over(r, how) == [Idle EXCEPT !.pc = how, !.kind = r.kind, !.sent = r.sent]

\* The head of an iteration: the cap, if there is one, then the budget.
Iterate(t) ==
    /\ turn[t].pc = "iterate"
    /\ IF MaxIterations > 0 /\ turn[t].iter >= MaxIterations
         THEN Set(t, Over(turn[t], "failed"))
         ELSE Set(t, [turn[t] EXCEPT !.pc = "chat", !.ms = Trim(@)])
    /\ UNCHANGED <<threaded, rows, faults>>

\* Leaving the loop: the messages after the initial count are the turn's tool
\* messages.  A slice that starts behind the end panics.  Without an interceptor
\* they are all still to be stored.
Finished(r) ==
    LET out == SubSeq(r.ms, r.start + 1, Len(r.ms))
    IN  IF r.start > Len(r.ms)
          THEN Over(r, "panicked")
          ELSE [r EXCEPT !.pc = "persist", !.out = out,
                         !.sent = IF r.kind = "top" /\ ~threaded THEN out ELSE @]

NextIteration(r) == [r EXCEPT !.pc = "iterate", !.iter = @ + 1, !.batch = <<>>]

\* Mutant: an answer with only malformed calls does not count as an iteration.
RegenerateUncounted(r) == [r EXCEPT !.pc = "iterate"]

\* No call was well formed: the model may correct itself.
Regenerate(r) == NextIteration(r)

\* The model calls tools: one message for all the calls, an error at once for each
\* whose arguments do not fit the schema, and the others to the dispatcher.
TakeCalls(r, cs, valid) ==
    LET told == Push(r, <<Calling(cs)>> \o Results(Among(cs, ToSet(cs) \ valid)))
        rest == Among(cs, valid)
    IN  IF rest = <<>> THEN Regenerate(told)
                       ELSE [told EXCEPT !.pc = "dispatch", !.batch = rest]

\* Text, or some calls with fresh ids, or a list of calls that is empty.
Answer(t) ==
    \/ Set(t, Finished(turn[t]))
    \/ /\ turn[t].iter < MaxAnswers
       /\ \E n \in 0 .. MaxCalls : \E d \in [1 .. n -> BOOLEAN] :
            LET cs == [i \in 1 .. n |->
                         [by |-> t, n |-> turn[t].iter * MaxCalls + i, delegates |-> d[i]]]
            IN  \E valid \in SUBSET ToSet(cs) : Set(t, TakeCalls(turn[t], cs, valid))

\* The streamed answer.
Stream(t) ==
    /\ turn[t].pc = "chat"
    /\ Answer(t)
    /\ UNCHANGED <<threaded, rows, faults>>

\* No stream, a chunk that does not come, an empty answer, or arguments that cannot
\* be read: ask again without streaming.
StreamBreaks(t) ==
    /\ turn[t].pc = "chat"
    /\ Set(t, [turn[t] EXCEPT !.pc = "fallback"])
    /\ UNCHANGED <<threaded, rows, faults>>

Fallback(t) ==
    /\ turn[t].pc = "fallback"
    /\ Answer(t)
    /\ UNCHANGED <<threaded, rows, faults>>

\* The second call fails too: the loop returns the error, and run_turn with it,
\* without waiting for the interceptor.
FallbackFails(t) ==
    /\ turn[t].pc = "fallback"
    /\ Set(t, Over(turn[t], "failed"))
    /\ UNCHANGED <<threaded, rows, faults>>

(***************************************************************************)
(* What the dispatcher answers, by tool.  An error is a result like another.*)
(***************************************************************************)

\* Persistent storage and memory of the agent.
StoringTool == {"done", "ask"}

\* set_schedule and set_reminder.
SchedulingTool == {"done", "ask"}

\* submit_feedback.
FeedbackTool == {"done", "ask"}

\* Image generation and editing.
ImageTool == {"done", "ask"}

\* An empty reply, at once.
SuppressReply == {"terminal"}

\* A policy allows, blocks or asks; a prompt on a channel without buttons is queued.
CapabilityTool == {"done", "terminal", "ask"}

Outcomes(c) ==
    IF c.delegates THEN {"done"}
    ELSE UNION {StoringTool, SchedulingTool, FeedbackTool, ImageTool, SuppressReply, CapabilityTool}

\* All calls run in parallel.  A done, failed or blocked call is answered now, in
\* order; one that needs the user waits; a terminal answer ends the loop, and only
\* when the call was alone.
Dispatch(t) ==
    LET cs == turn[t].batch
    IN  /\ turn[t].pc = "dispatch"
        /\ \A p \in Turns : t \in turn[p].parent => turn[p].pc \in Ended
        /\ \E f \in [ToSet(cs) -> {"done", "terminal", "ask"}] :
             /\ \A c \in ToSet(cs) : f[c] \in Outcomes(c)
             /\ LET ends  == Len(cs) = 1 /\ f[cs[1]] = "terminal"
                    asked == {c \in ToSet(cs) : f[c] = "ask"}
                    told  == IF ends THEN {} ELSE ToSet(cs) \ asked
                IN  Set(t, [Push(turn[t], Results(Among(cs, told)))
                              EXCEPT !.pc = "ask", !.batch = Among(cs, asked), !.terminal = ends])
        /\ UNCHANGED <<threaded, rows, faults>>

\* One question at a time.  A refusal, a dropped sender and ten minutes of silence
\* are the same; a yes runs the call, which may end the loop whatever else ran.
Decide(t) ==
    /\ turn[t].pc = "ask" /\ turn[t].batch # <<>>
    /\ LET rest == [turn[t] EXCEPT !.batch = Tail(@)]
       IN  \/ Set(t, Push(rest, <<Result(Head(turn[t].batch))>>))
           \/ Set(t, [rest EXCEPT !.terminal = TRUE])
    /\ UNCHANGED <<threaded, rows, faults>>

Decided(t) ==
    /\ turn[t].pc = "ask" /\ turn[t].batch = <<>>
    /\ Set(t, IF turn[t].terminal THEN Finished(turn[t])
                                  ELSE NextIteration(turn[t]))
    /\ UNCHANGED <<threaded, rows, faults>>

(***************************************************************************)
(* The interceptor and the end of a turn.                                  *)
(***************************************************************************)

\* It stores every tool message in order, also after the loop has failed, and
\* remembers the id of each one it could store; run_turn does the same after the loop
\* of a turn without a thread.  A failed insert is logged.
Intercept(t) ==
    /\ turn[t].sent # <<>>
    /\ \/ /\ rows' = Append(rows, Row(t, Head(turn[t].sent)))
          /\ Set(t, [turn[t] EXCEPT !.sent = Tail(@),
                                    !.ids = IF turn[t].pc \in Ended THEN @ ELSE Append(@, Len(rows) + 1)])
          /\ UNCHANGED faults
       \/ Fault /\ Set(t, [turn[t] EXCEPT !.sent = Tail(@)]) /\ UNCHANGED rows
    /\ UNCHANGED threaded

\* A turn that delegated keeps the delegation in the history and compacts its other
\* tool messages: the n-th tool message by the n-th remembered id.
OfDelegation(out, m) ==
    \E i \in DOMAIN out : out[i].kind = "calls"
        /\ IF m.kind = "calls" THEN \E c \in Ids(m) : c.delegates
                               ELSE \E c \in Ids(out[i]) \cap Ids(m) : c.delegates

Compacted(r) ==
    IF ~\E i \in DOMAIN r.out : r.out[i].kind = "calls" /\ \E c \in Ids(r.out[i]) : c.delegates
      THEN {}
      ELSE {r.ids[i] : i \in {j \in DOMAIN r.out : j <= Len(r.ids) /\ ~OfDelegation(r.out, r.out[j])}}

\* run_turn when everything is stored: the compaction of a thread, unless its update
\* fails, then the reply unless it is empty.
Persist(t) ==
    /\ turn[t].pc = "persist" /\ turn[t].sent = <<>>
    /\ LET r == turn[t]
           gone == IF threaded /\ r.kind = "top" THEN Compacted(r) ELSE {}
       IN  \E S \in {gone, {}} :
             LET now == [i \in DOMAIN rows |-> [rows[i] EXCEPT !.compacted = @ \/ i \in S]]
             IN  /\ \/ rows' = now
                    \/ r.kind = "top" /\ rows' = Append(now, Row(t, Reply))
                 /\ IF S = gone THEN UNCHANGED faults ELSE Fault
    /\ Set(t, Over(turn[t], "done"))
    /\ UNCHANGED threaded

Step(t) ==
    \/ Begin(t) \/ NoProvider(t) \/ BuildContext(t) \/ Iterate(t) \/ Stream(t) \/ StreamBreaks(t) \/ Fallback(t)
    \/ FallbackFails(t) \/ Dispatch(t) \/ Decide(t) \/ Decided(t) \/ Intercept(t) \/ Persist(t)

Next == \E t \in Turns : Route(t) \/ BeginDelegated(t) \/ Step(t)

Spec == Init /\ [][Next]_vars

-----------------------------------------------------------------------------
(***************************************************************************)
(* Properties.                                                             *)
(***************************************************************************)

Talking(t) == turn[t].pc \in {"chat", "fallback"}

\* What the model is shown is whole: every call it is shown has exactly one result,
\* after the call, and every result has its call.  The history may hold half of an
\* exchange (a failed turn, a terminal tool, a failed insert, another turn at work),
\* the window of rows and the budget may cut between a call and its result.
PairsIntact ==
    \A t \in Turns : Talking(t) =>
        LET ms == turn[t].ms
        IN  /\ \A i \in DOMAIN ms : ms[i].kind = "calls" =>
                 \A c \in Ids(ms[i]) :
                     Cardinality({j \in DOMAIN ms : ms[j].kind = "result" /\ c \in Ids(ms[j])}) = 1
            /\ \A j \in DOMAIN ms : ms[j].kind = "result" =>
                 \E i \in 1 .. (j - 1) : ms[i].kind = "calls" /\ Ids(ms[j]) \subseteq Ids(ms[i])

\* The cap on iterations, where one is set, bounds what the model can make a turn do:
\* every answer that called tools has been counted before the model is asked again, the
\* malformed too, and the count is below the cap.  With no cap it only counts.
LoopBounded ==
    \A t \in Turns : Talking(t) =>
        LET own == {i \in DOMAIN turn[t].ms : \E c \in Ids(turn[t].ms[i]) :
                      turn[t].ms[i].kind = "calls" /\ c.by = t}
        IN  /\ MaxIterations > 0 => turn[t].iter < MaxIterations
            /\ Cardinality(own) <= turn[t].iter

=============================================================================
