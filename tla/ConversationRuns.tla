--------------------------- MODULE ConversationRuns ---------------------------
(***************************************************************************)
(* The durable runs of one conversation (api/conversations.rs): requests   *)
(* that post a message, the executor spawned for each accepted run, the    *)
(* agent turn it drives, the confirmations the turn asks for and the       *)
(* answers to them, the deletion of the conversation, and the restart of   *)
(* the orchestrator with its reconciliation of orphaned runs.              *)
(*                                                                         *)
(* A run is named by the request that inserts it.  Rows of the database    *)
(* survive a restart; everything else is memory of the process.  Events    *)
(* matter here as writes that can fail, and as the only way a client       *)
(* learns of a confirmation.  The agent's language model and tools are     *)
(* external: a turn may ask, act and end at any time.                      *)
(***************************************************************************)
EXTENDS Naturals, FiniteSets

CONSTANTS
  Requests,          \* POST requests, and the runs they start
  Messages,          \* client_message_id; a retry carries it again
  NoMessage,
  MaxAsks,           \* bound on the confirmations asked by a turn
  MaxDisturbances,   \* bound on failing writes and disconnected clients
  MaxRestarts        \* bound on restarts of the orchestrator

ASSUME ConversationAssumption ==
  /\ NoMessage \notin Messages
  /\ MaxAsks \in Nat /\ MaxDisturbances \in Nat /\ MaxRestarts \in Nat

VARIABLES
  thread,          \* the conversation's row exists
  status,          \* conversation_runs.status of each run
  request,         \* progress of each send_message handler
  message,         \* the client_message_id it carries
  executor,        \* progress of each execute_run task
  engine,          \* the agent turn of each run
  asks,            \* confirmations each turn has asked for
  confirmations,   \* pending_confirmations, with their owners
  announced,       \* confirmations of which a client was told
  reply,           \* what was sent to the turn that waits
  decision,        \* progress of the decide_approval handler
  acted,           \* confirmed actions that the turn has performed
  deletion,        \* progress of the delete handler
  disturbances,
  restarts

rows == <<thread, status>>
handlers == <<request, message>>
turn == <<engine, asks, reply, acted>>
approval == <<confirmations, announced, decision>>
bounds == <<disturbances, restarts>>
vars == <<rows, handlers, executor, turn, approval, deletion, bounds>>

Approvals == Requests \X (1..MaxAsks)
Active == {"queued", "running", "waiting_for_approval"}
Terminal == {"completed", "failed", "interrupted"}
HasRow(r) == status[r] \notin {"none", "deleted"}
LiveRequest == {"looked", "admitted", "inserted", "created"}
LiveExecutor == {"start", "turn", "mark", "announce", "finish"}

TypeOK ==
  /\ thread \in BOOLEAN
  /\ status \in [Requests -> {"none", "deleted"} \cup Active \cup Terminal]
  /\ thread \/ \A r \in Requests : ~HasRow(r)   \* foreign key
  /\ request \in [Requests -> {"idle", "answered", "refused"} \cup LiveRequest]
  /\ message \in [Requests -> Messages \cup {NoMessage}]
  /\ executor \in [Requests -> {"none", "ended", "lost"} \cup LiveExecutor]
  /\ engine \in [Requests -> {"off", "working", "asking"}]
  /\ asks \in [Requests -> 0..MaxAsks]
  /\ confirmations \subseteq Approvals
  /\ announced \subseteq Approvals
  /\ reply \in [Approvals -> {"none", "yes", "no"}]
  /\ decision \in [Approvals -> {"none", "sent", "done"}]
  /\ acted \subseteq Approvals
  /\ deletion \in {"idle", "checked", "done"}
  /\ disturbances \in 0..MaxDisturbances
  /\ restarts \in 0..MaxRestarts

Init ==
  /\ thread = TRUE
  /\ status = [r \in Requests |-> "none"]
  /\ request = [r \in Requests |-> "idle"]
  /\ message = [r \in Requests |-> NoMessage]
  /\ executor = [r \in Requests |-> "none"]
  /\ engine = [r \in Requests |-> "off"]
  /\ asks = [r \in Requests |-> 0]
  /\ confirmations = {} /\ announced = {} /\ acted = {}
  /\ reply = [a \in Approvals |-> "none"]
  /\ decision = [a \in Approvals |-> "none"]
  /\ deletion = "idle"
  /\ disturbances = 0 /\ restarts = 0

-----------------------------------------------------------------------------
ActiveRuns == {r \in Requests : status[r] \in Active}
Current(r) == <<r, asks[r]>>

\* An UPDATE finds no row once the conversation is deleted.
SetStatus(r, s) ==
  status' = IF HasRow(r) THEN [status EXCEPT ![r] = s] ELSE status

RequestStep(r, from, to) ==
  request[r] = from /\ request' = [request EXCEPT ![r] = to]
ExecutorStep(r, from, to) ==
  executor[r] = from /\ executor' = [executor EXCEPT ![r] = to]
SetEngine(r, e) == engine' = [engine EXCEPT ![r] = e]

Undisturbed == UNCHANGED bounds
Disturbed ==
  /\ disturbances < MaxDisturbances
  /\ disturbances' = disturbances + 1
  /\ UNCHANGED restarts

-----------------------------------------------------------------------------
(* send_message                                                             *)

\* An idempotent retry is answered with the run it has already started.
Lookup(r) ==
  /\ thread
  /\ \E m \in Messages :
       /\ message' = [message EXCEPT ![r] = m]
       /\ RequestStep(r, "idle",
            IF \E q \in Requests : HasRow(q) /\ message[q] = m
            THEN "answered" ELSE "looked")
  /\ UNCHANGED <<rows, executor, turn, approval, deletion>> /\ Undisturbed

\* conversation.run_in_progress
CountActive(r) ==
  /\ RequestStep(r, "looked", IF ActiveRuns = {} THEN "admitted" ELSE "refused")
  /\ UNCHANGED <<rows, message, executor, turn, approval, deletion>> /\ Undisturbed

\* UNIQUE(user_id, client_message_id); thread_id REFERENCES threads
Insertable(r) ==
  thread /\ \A q \in Requests : HasRow(q) => message[q] # message[r]

\* Mutant: the table does not keep client message ids unique.
InsertAnyRun(r) ==
  /\ RequestStep(r, "admitted", IF thread THEN "inserted" ELSE "refused")
  /\ status' = IF thread THEN [status EXCEPT ![r] = "queued"] ELSE status
  /\ UNCHANGED <<thread, message, executor, turn, approval, deletion>> /\ Undisturbed

InsertRun(r) ==
  /\ RequestStep(r, "admitted", IF Insertable(r) THEN "inserted" ELSE "refused")
  /\ status' = IF Insertable(r) THEN [status EXCEPT ![r] = "queued"] ELSE status
  /\ UNCHANGED <<thread, message, executor, turn, approval, deletion>> /\ Undisturbed

\* run.created
PublishCreated(r) ==
  /\ RequestStep(r, "inserted", IF thread THEN "created" ELSE "refused")
  /\ UNCHANGED <<rows, message, executor, turn, approval, deletion>> /\ Undisturbed

\* message.created, then the executor is spawned.
Spawn(r) ==
  /\ RequestStep(r, "created", IF thread THEN "answered" ELSE "refused")
  /\ executor' = IF thread THEN [executor EXCEPT ![r] = "start"] ELSE executor
  /\ UNCHANGED <<rows, message, turn, approval, deletion>> /\ Undisturbed

\* A database error, or the client disconnects: the handler ends where it is.
Abandon(r) ==
  /\ request[r] \in LiveRequest
  /\ request' = [request EXCEPT ![r] = "refused"]
  /\ UNCHANGED <<rows, message, executor, turn, approval, deletion>> /\ Disturbed

-----------------------------------------------------------------------------
(* execute_run, and the turn it polls                                       *)

\* set_run_status updates the row and publishes run.updated.
Start(r) ==
  /\ ExecutorStep(r, "start", IF thread THEN "turn" ELSE "ended")
  /\ SetStatus(r, "running")
  /\ IF thread THEN SetEngine(r, "working") ELSE UNCHANGED engine
  /\ UNCHANGED <<thread, handlers, asks, reply, acted, approval, deletion>>
  /\ Undisturbed

\* The update or its event cannot be written: the task returns.
StartFails(r) ==
  /\ ExecutorStep(r, "start", "ended")
  /\ UNCHANGED status \/ SetStatus(r, "running")
  /\ UNCHANGED <<thread, handlers, turn, approval, deletion>> /\ Disturbed

\* The turn asks for a confirmation and waits; handle_engine_event keeps the
\* sender and does not poll the turn again before it has returned.
Ask(r) ==
  /\ ExecutorStep(r, "turn", "mark")
  /\ engine[r] = "working" /\ asks[r] < MaxAsks
  /\ SetEngine(r, "asking")
  /\ asks' = [asks EXCEPT ![r] = @ + 1]
  /\ confirmations' = confirmations \cup {<<r, asks[r] + 1>>}
  /\ UNCHANGED <<rows, handlers, reply, acted, announced, decision, deletion>>
  /\ Undisturbed

MarkWaiting(r) ==
  /\ ExecutorStep(r, "mark", "announce")
  /\ SetStatus(r, "waiting_for_approval")
  /\ UNCHANGED <<thread, handlers, turn, approval, deletion>> /\ Undisturbed

MarkWaitingFails(r) ==
  /\ ExecutorStep(r, "mark", "announce")
  /\ UNCHANGED <<rows, handlers, turn, approval, deletion>> /\ Disturbed

\* approval.requested, from which clients learn the approval's id
Announce(r) ==
  /\ ExecutorStep(r, "announce", "turn")
  /\ announced' = announced \cup (IF thread THEN {Current(r)} ELSE {})
  /\ UNCHANGED <<rows, handlers, turn, confirmations, decision, deletion>>
  /\ Undisturbed

AnnounceFails(r) ==
  /\ ExecutorStep(r, "announce", "turn")
  /\ UNCHANGED <<rows, handlers, turn, approval, deletion>> /\ Disturbed

\* The turn goes on with the answer it got; it acts on an approval alone.
Resume(r) ==
  /\ executor[r] = "turn" /\ engine[r] = "asking"
  /\ reply[Current(r)] # "none"
  /\ SetEngine(r, "working")
  /\ acted' = acted \cup (IF reply[Current(r)] = "yes" THEN {Current(r)} ELSE {})
  /\ UNCHANGED <<rows, handlers, executor, asks, reply, approval, deletion>>
  /\ Undisturbed

\* Mutant: the wait may end with the timeout although an answer is there.
ExpireAnyway(r) ==
  /\ executor[r] = "turn" /\ engine[r] = "asking"
  /\ SetEngine(r, "working")
  /\ UNCHANGED <<rows, handlers, executor, asks, reply, acted, approval, deletion>>
  /\ Undisturbed

\* Mutant: the timeout fails the run, but the turn goes on.
ExpireFailingRun(r) ==
  /\ executor[r] = "turn" /\ engine[r] = "asking"
  /\ reply[Current(r)] = "none"
  /\ SetEngine(r, "working") /\ SetStatus(r, "failed")
  /\ UNCHANGED <<thread, handlers, executor, asks, reply, acted, approval, deletion>>
  /\ Undisturbed

\* CONFIRMATION_TIMEOUT_SECS: the sender stays in pending_confirmations.
Expire(r) ==
  /\ executor[r] = "turn" /\ engine[r] = "asking"
  /\ reply[Current(r)] = "none"
  /\ SetEngine(r, "working")
  /\ UNCHANGED <<rows, handlers, executor, asks, reply, acted, approval, deletion>>
  /\ Undisturbed

EndTurn(r) ==
  /\ ExecutorStep(r, "turn", "finish")
  /\ engine[r] = "working"
  /\ SetEngine(r, "off")
  /\ UNCHANGED <<rows, handlers, asks, reply, acted, approval, deletion>>
  /\ Undisturbed

\* Mutant: a failed turn is not written to the run.
FinishCompletedOnly(r) ==
  /\ ExecutorStep(r, "finish", "ended")
  /\ SetStatus(r, "completed") \/ UNCHANGED status
  /\ UNCHANGED <<thread, handlers, turn, approval, deletion>> /\ Undisturbed

Finish(r) ==
  /\ ExecutorStep(r, "finish", "ended")
  /\ \E final \in {"completed", "failed"} : SetStatus(r, final)
  /\ UNCHANGED <<thread, handlers, turn, approval, deletion>> /\ Undisturbed

FinishFails(r) ==
  /\ ExecutorStep(r, "finish", "ended")
  /\ UNCHANGED <<rows, handlers, turn, approval, deletion>> /\ Disturbed

-----------------------------------------------------------------------------
(* decide_approval                                                          *)

\* Answer owner and sender are taken; a turn that waits no more does not hear.
Answer(a) ==
  LET r == a[1] IN
  /\ a \in announced /\ a \in confirmations
  /\ confirmations' = confirmations \ {a}
  /\ decision' = [decision EXCEPT ![a] = "sent"]
  /\ IF engine[r] = "asking" /\ a = Current(r)
     THEN \E v \in {"yes", "no"} : reply' = [reply EXCEPT ![a] = v]
     ELSE UNCHANGED reply
  /\ UNCHANGED <<rows, handlers, executor, engine, asks, acted, announced, deletion>>
  /\ Undisturbed

MarkRunning(a) ==
  /\ decision[a] = "sent"
  /\ decision' = [decision EXCEPT ![a] = "done"]
  /\ SetStatus(a[1], "running")
  /\ UNCHANGED <<thread, handlers, executor, turn, confirmations, announced, deletion>>
  /\ Undisturbed

MarkRunningFails(a) ==
  /\ decision[a] = "sent"
  /\ decision' = [decision EXCEPT ![a] = "done"]
  /\ UNCHANGED <<rows, handlers, executor, turn, confirmations, announced, deletion>>
  /\ Disturbed

-----------------------------------------------------------------------------
(* delete, and the restart of the orchestrator                              *)

CheckDelete ==
  /\ deletion = "idle" /\ thread /\ ActiveRuns = {}
  /\ deletion' = "checked"
  /\ UNCHANGED <<rows, handlers, executor, turn, approval>> /\ Undisturbed

\* delete_conversation: one transaction
DeleteConversation ==
  /\ deletion = "checked"
  /\ deletion' = "done"
  /\ thread' = FALSE
  /\ status' = [r \in Requests |-> IF HasRow(r) THEN "deleted" ELSE status[r]]
  /\ UNCHANGED <<handlers, executor, turn, approval>> /\ Undisturbed

LoseMemory ==
  /\ request' = [r \in Requests |->
                   IF request[r] \in LiveRequest THEN "refused" ELSE request[r]]
  /\ executor' = [r \in Requests |->
                    IF executor[r] \in LiveExecutor THEN "lost" ELSE executor[r]]
  /\ engine' = [r \in Requests |-> "off"]
  /\ confirmations' = {}
  /\ decision' = [a \in Approvals |->
                    IF decision[a] = "sent" THEN "done" ELSE decision[a]]
  /\ deletion' = IF deletion = "checked" THEN "idle" ELSE deletion

\* Mutant: a run that waits for an approval is left as it is.
InterruptExecuting ==
  status' = [r \in Requests |->
               IF status[r] \in {"queued", "running"} THEN "interrupted"
               ELSE status[r]]

\* reconcile_orphaned_runs: one transaction, before the API is served
InterruptOrphans ==
  status' = [r \in Requests |->
               IF status[r] \in Active THEN "interrupted" ELSE status[r]]

Restart ==
  /\ restarts < MaxRestarts
  /\ LoseMemory /\ InterruptOrphans
  /\ restarts' = restarts + 1
  /\ UNCHANGED <<thread, message, asks, reply, acted, announced, disturbances>>

-----------------------------------------------------------------------------
HandlerProceeds(r) ==
  CountActive(r) \/ InsertRun(r) \/ PublishCreated(r) \/ Spawn(r)

ExecutorProceeds(r) ==
  \/ Start(r) \/ MarkWaiting(r) \/ Announce(r)
  \/ Resume(r) \/ Expire(r) \/ EndTurn(r) \/ Finish(r)

Next ==
  \/ \E r \in Requests :
       \/ Lookup(r) \/ HandlerProceeds(r) \/ Abandon(r)
       \/ ExecutorProceeds(r) \/ Ask(r)
       \/ StartFails(r) \/ MarkWaitingFails(r) \/ AnnounceFails(r)
       \/ FinishFails(r)
  \/ \E a \in Approvals : Answer(a) \/ MarkRunning(a) \/ MarkRunningFails(a)
  \/ CheckDelete \/ DeleteConversation \/ Restart

Spec == Init /\ [][Next]_vars

\* tokio polls every task, a turn ends within the limits of the tool loop and
\* a wait within its timeout; nothing forces a question, an answer, a fault, a
\* deletion or a restart.
Fairness ==
  \A r \in Requests :
    /\ WF_vars(HandlerProceeds(r))
    /\ WF_vars(ExecutorProceeds(r))

FairSpec == Spec /\ Fairness

-----------------------------------------------------------------------------
(* Properties                                                               *)

\* However often a message is sent, by retries that overlap or follow a
\* failure or a restart, it is executed once.
MessageExecutedOnce ==
  \A p, q \in Requests :
    /\ executor[p] # "none" /\ executor[q] # "none"
    /\ message[p] = message[q]
    => p = q

\* A run that is reported as over has no turn left that could still act.
FinishedMeansIdle ==
  \A r \in Requests :
    status[r] \in Terminal =>
      executor[r] \notin LiveExecutor /\ engine[r] = "off"

\* Unless a write failed or a client left, no run is left queued or waiting
\* for an approval that nobody executes any more: restarts included.
NoStrandedRun ==
  disturbances = 0 =>
    \A r \in Requests :
      /\ status[r] = "queued" =>
           request[r] \in {"inserted", "created"} \/ executor[r] = "start"
      /\ status[r] = "waiting_for_approval" => executor[r] \in LiveExecutor

\* Every accepted run comes to an end.
RunEnds ==
  \A r \in Requests :
    status[r] = "queued" ~>
      status[r] \in Terminal \cup {"deleted"} \/ disturbances > 0

\* An approval that reaches the waiting turn is acted on.
ApprovalHeard ==
  \A a \in Approvals : reply[a] = "yes" ~> a \in acted \/ restarts > 0

\* "A conversation with an active run is refused so the running engine never
\* writes into a thread that no longer exists."
EngineHasThread ==
  \A r \in Requests : engine[r] # "off" => thread
=============================================================================
