------------------------------- MODULE Channels -------------------------------
(***************************************************************************)
(* One messaging pipe: pipes/inbound.rs (webhook pipes), bluebubbles and   *)
(* telegram adapters, pipes/ingest.rs (a text and a photo sent apart       *)
(* become one message), agents/thread.rs (which thread a reply belongs to) *)
(* and permissions/approval_queue.rs (a tool that must be approved by a    *)
(* reply).                                                                 *)
(*                                                                         *)
(* Every inbound message is a task of its own: it may wait in the          *)
(* aggregation map, finds or creates its thread, is tried as the answer to *)
(* a pending approval, and otherwise runs an agent turn, which may itself  *)
(* ask for approvals and sends a reply.  Tasks interleave at every await.  *)
(*                                                                         *)
(* A turn is its questions and its outcome; what the model says is left    *)
(* out.  A thread is found by the messages Selu sent in it, and by the one *)
(* that began it: the n-th outbound message of thread i is                 *)
(* [thread |-> i, n |-> n].                                                *)
(***************************************************************************)
EXTENDS Naturals, FiniteSets, Sequences, SequencesExt

CONSTANTS Users,        \* allowed senders of the pipe
          Messages,     \* inbound messages
          Transports,   \* transports the pipe may have
          MaxAsks,      \* bound: approvals asked for in a behaviour
          MaxFaults     \* bound: restarts and sends that fail

\* Somebody may write to the pipe.
ASSUME SomeUser == Users # {}

VARIABLES transport, task, slot, threads, rows, senders, faults

vars == <<transport, task, slot, threads, rows, senders, faults>>

Absent == [pc |-> "absent", user |-> CHOOSE u \in Users : TRUE, part |-> "whole", re |-> {},
           holds |-> {}, thread |-> 0, row |-> 0, granted |-> {}]

Init == /\ transport \in Transports
        /\ task = [m \in Messages |-> Absent]
        /\ slot = [u \in Users |-> {}]
        /\ threads = <<>>
        /\ rows = <<>>
        /\ senders = {}
        /\ faults = 0

Step(m, from, to) ==
    /\ task[m].pc = from
    /\ task' = [task EXCEPT ![m].pc = to]

Fault == faults < MaxFaults /\ faults' = faults + 1

-----------------------------------------------------------------------------
(***************************************************************************)
(* Arrival and aggregation.  The map of waiting messages is keyed by the   *)
(* chat, or by the sender on a pipe that names no chat.                    *)
(***************************************************************************)

Key(u) == IF transport \in {"webhook", "silent"} THEN u ELSE CHOOSE v \in Users : TRUE

\* What a user can reply to: a message Selu sent in a thread, or one of a user.
Outbound == UNION {{[thread |-> i, n |-> n] : n \in 1 .. threads[i].out} : i \in DOMAIN threads}
Inbound == {m \in Messages : task[m].pc # "absent"}
Quotes == {{}} \cup {{q} : q \in Outbound \cup Inbound}

\* A message from an allowed sender starts a task; one with text and photo goes on
\* alone.
Received(m) ==
    /\ task[m].pc = "absent"
    /\ \E u \in Users, p \in {"text", "photo", "whole"}, re \in Quotes :
         task' = [task EXCEPT ![m] = [Absent EXCEPT
                    !.pc = IF p = "whole" THEN "ready" ELSE "partial",
                    !.user = u, !.part = p, !.re = re, !.holds = {m}]]
    /\ UNCHANGED <<transport, slot, threads, rows, senders, faults>>

\* A pipe without an outbound address is "silent".
HandleInbound(m) == transport \in {"webhook", "silent"} /\ Received(m)

BlueBubblesWebhook(m) == transport = "bluebubbles" /\ Received(m)

TelegramWebhook(m) == transport = "telegram" /\ Received(m)

\* The receiver of a waiting message is dropped when its window ends.
Deliver(e, tasks, to, re) ==
    IF tasks[e].pc = "waiting"
      THEN [tasks EXCEPT ![e].pc = "ready", ![e].holds = @ \cup to, ![e].re = re] ELSE tasks

\* merge_envelopes takes the metadata of the second message, if it has some; an adapter
\* that then misses what was quoted may still know the first one's.
MergedRe(e, m) ==
    CASE task[m].re # {} \/ transport = "telegram" -> {task[m].re}
      [] task[m].re = {} /\ transport = "bluebubbles" -> {task[e].re}
      [] OTHER -> {task[e].re, {}}

\* aggregate_inbound_envelope, under the lock of the map: complete the waiting
\* message, or let it go and wait in its place.
Aggregate(m) ==
    LET k == Key(task[m].user)
        merges == \E e \in slot[k] : {task[e].part, task[m].part} = {"text", "photo"}
        first == CHOOSE e \in slot[k] : TRUE
    IN  /\ task[m].pc = "partial"
        /\ \E re \in IF merges THEN MergedRe(first, m) ELSE {{}} :
             LET now == CASE slot[k] = {} -> task
                          [] merges -> Deliver(first, task, {m}, re)
                          [] OTHER -> Deliver(first, task, {}, task[first].re)
             IN  task' = [now EXCEPT ![m].pc = IF merges THEN "merged" ELSE "waiting"]
        /\ slot' = [slot EXCEPT ![k] = IF merges THEN {} ELSE {m}]
        /\ UNCHANGED <<transport, threads, rows, senders, faults>>

WindowEnds(m) ==
    /\ Step(m, "waiting", "expired")
    /\ UNCHANGED <<transport, slot, threads, rows, senders, faults>>

\* Mutant: the entry may be another message's by now.
FlushWhoever(m) ==
    LET k == Key(task[m].user)
    IN  /\ task[m].pc = "expired"
        /\ task' = [task EXCEPT ![m].pc = "ready", ![m].holds = @ \cup slot[k]]
        /\ slot' = [slot EXCEPT ![k] = {}]
        /\ UNCHANGED <<transport, threads, rows, senders, faults>>

\* After the window, under the lock: still mine to send, or somebody took it.
Flush(m) ==
    LET k == Key(task[m].user)
    IN  /\ task[m].pc = "expired"
        /\ IF m \in slot[k]
             THEN /\ task' = [task EXCEPT ![m].pc = "ready"]
                  /\ slot' = [slot EXCEPT ![k] = {}]
             ELSE /\ task' = [task EXCEPT ![m].pc = "dropped"]
                  /\ UNCHANGED slot
        /\ UNCHANGED <<transport, threads, rows, senders, faults>>

-----------------------------------------------------------------------------
(***************************************************************************)
(* The thread of a message, and its use as an answer.                      *)
(***************************************************************************)

\* find_thread_by_message_ref: an active thread that has recorded the quoted message.
Quoted(m) == {i \in DOMAIN threads : threads[i].status = "active" /\ task[m].re \cap threads[i].known # {}}

\* The origin of a new thread: of two merged messages the second.  A webhook need not
\* name its messages, or only one of the two.
Origins(m) ==
    LET own == {{x} : x \in task[m].holds}
    IN  CASE transport \in {"webhook", "silent"} -> own \cup {{}}
          [] task[m].holds = {m} -> own
          [] OTHER -> own \ {{m}}

\* What a message was made of, and what it quoted, is not looked at again.
On(m, i) == [task[m] EXCEPT !.pc = "pick", !.thread = i, !.part = "whole", !.re = {}]

FindOrCreateThread(m) ==
    /\ task[m].pc = "ready"
    /\ IF Quoted(m) # {}
         THEN /\ task' = [task EXCEPT ![m] = On(m, CHOOSE i \in Quoted(m) : TRUE)]
              /\ UNCHANGED threads
         ELSE /\ \E known \in Origins(m) :
                   threads' = Append(threads, [status |-> "active", out |-> 0, known |-> known])
              /\ task' = [task EXCEPT ![m] = On(m, Len(threads) + 1)]
    /\ UNCHANGED <<transport, slot, rows, senders, faults>>

Oldest(Mine(_)) ==
    LET open == {i \in DOMAIN rows : rows[i].status = "pending" /\ Mine(i)}
    IN  {i \in open : \A j \in open : i <= j}

\* The first half of a try_resolve: read the oldest pending row.
Pick(m, Mine(_), next, none) ==
    LET found == Oldest(Mine)
    IN  /\ task' = [task EXCEPT ![m].pc = IF found = {} THEN none ELSE next,
                                ![m].row = IF found = {} THEN 0 ELSE CHOOSE i \in found : TRUE]
        /\ UNCHANGED <<transport, slot, threads, rows, senders, faults>>

\* A send into the oneshot of a row reaches its turn while that still waits.
Granting(tasks, r) ==
    LET t == rows[r].by
    IN  IF tasks[t].pc = "waiting_yes" /\ tasks[t].row = r
          THEN [tasks EXCEPT ![t].pc = "turn", ![t].granted = @ \cup {r}] ELSE tasks

\* The second half: mark it approved, take its sender out of the map and use it.
Take(m, none) ==
    LET r == task[m].row
    IN  /\ rows' = [rows EXCEPT ![r].status = "approved"]
        /\ senders' = senders \ {r}
        /\ task' = [(IF r \in senders THEN Granting(task, r) ELSE task)
                      EXCEPT ![m].pc = IF r \in senders THEN "consumed" ELSE none]
        /\ UNCHANGED <<transport, slot, threads, faults>>

\* try_resolve_pending, then try_resolve_pending_for_user_pipe: any message of the
\* user answers the oldest approval of the pipe.
TryResolvePending(m) ==
    \/ /\ task[m].pc = "pick"
       /\ Pick(m, LAMBDA i : rows[i].thread = task[m].thread, "take", "pick_user")
    \/ task[m].pc = "take" /\ Take(m, "pick_user")

TryResolvePendingForUserPipe(m) ==
    \/ /\ task[m].pc = "pick_user"
       /\ Pick(m, LAMBDA i : rows[i].user = task[m].user, "take_user", "routed")
    \/ task[m].pc = "take_user" /\ Take(m, "routed")

\* try_handle_message: a slash command is answered without a turn.
RunCommand(m) ==
    /\ Step(m, "routed", "reply")
    /\ UNCHANGED <<transport, slot, threads, rows, senders, faults>>

BeginTurn(m) ==
    /\ Step(m, "routed", "turn")
    /\ UNCHANGED <<transport, slot, threads, rows, senders, faults>>

-----------------------------------------------------------------------------
(***************************************************************************)
(* The turn of a message.                                                  *)
(***************************************************************************)

\* check_policy_and_dispatch, policy "ask": the row, the prompt, the sender.
CreatePending(m) ==
    /\ task[m].pc = "turn" /\ transport # "silent" /\ Len(rows) < MaxAsks
    /\ rows' = Append(rows, [thread |-> task[m].thread, user |-> task[m].user,
                             status |-> "pending", by |-> m])
    /\ task' = [task EXCEPT ![m].pc = "prompt", ![m].row = Len(rows) + 1]
    /\ UNCHANGED <<transport, slot, threads, senders, faults>>

Sent(m) == threads' = [threads EXCEPT ![task[m].thread].out = @ + 1]

SendPrompt(m) ==
    /\ Step(m, "prompt", "prompted")
    /\ Sent(m)
    /\ UNCHANGED <<transport, slot, rows, senders, faults>>

\* A prompt that cannot be sent blocks the tool and leaves the row.  The Telegram
\* sender reports a failed send as a message without an id.
PromptFails(m) ==
    /\ Fault
    /\ Step(m, "prompt", IF transport = "telegram" THEN "recorded" ELSE "turn")
    /\ UNCHANGED <<transport, slot, threads, rows, senders>>

\* update_reply_guid: from now on a reply to the message finds the thread.
Record(m) ==
    LET i == task[m].thread
    IN  threads' = [threads EXCEPT ![i].known = @ \cup {[thread |-> i, n |-> threads[i].out]}]

RecordPrompt(m) ==
    /\ Step(m, "prompted", "recorded")
    /\ Record(m)
    /\ UNCHANGED <<transport, slot, rows, senders, faults>>

InsertSender(m) ==
    /\ Step(m, "recorded", "waiting_yes")
    /\ senders' = senders \cup {task[m].row}
    /\ UNCHANGED <<transport, slot, threads, rows, faults>>

\* Ten minutes without an answer: the tool is denied; row and sender stay.
ApprovalTimesOut(m) ==
    /\ Step(m, "waiting_yes", "turn")
    /\ UNCHANGED <<transport, slot, threads, rows, senders, faults>>

Own(m) == {r \in DOMAIN rows : rows[r].by = m}

\* Mutant: a failing turn returns before the cleanup.
CleanUpAfterSuccess(m, failed) == IF failed THEN senders ELSE senders \ Own(m)

\* run_turn removes the senders of its loop however the loop ended.
CleanUp(m, failed) == senders \ Own(m)

EndTurn(m) ==
    /\ Step(m, "turn", "reply")
    /\ senders' = CleanUp(m, FALSE)
    /\ UNCHANGED <<transport, slot, threads, rows, faults>>

\* A failed turn fails its thread, one without a text does not; both apologize in a
\* message nobody can reply to.
FailTurn(m) ==
    /\ Fault
    /\ Step(m, "turn", "done")
    /\ senders' = CleanUp(m, TRUE)
    /\ \E status \in {"failed", IF transport = "silent" THEN "completed" ELSE "active"} :
         threads' = [threads EXCEPT ![task[m].thread].status = status, ![task[m].thread].out = @ + 1]
    /\ UNCHANGED <<transport, slot, rows>>

\* The reply leaves with an id, or without one, or not at all.
SentWithId(m) == Step(m, "reply", "replied") /\ Sent(m) /\ UNCHANGED faults

SentWithoutId(m) == Step(m, "reply", "done") /\ Sent(m) /\ UNCHANGED faults

NotSent(m) == Step(m, "reply", "done") /\ Fault /\ UNCHANGED threads

\* OutboundSender::send: the answer may name the message.
ReplyByWebhook(m) ==
    /\ transport = "webhook"
    /\ SentWithId(m) \/ SentWithoutId(m) \/ NotSent(m)
    /\ UNCHANGED <<transport, slot, rows, senders>>

\* The reply to a silent pipe goes nowhere and closes its thread.
ReplyNowhere(m) ==
    /\ transport = "silent"
    /\ Step(m, "reply", "done")
    /\ threads' = [threads EXCEPT ![task[m].thread].status = "completed"]
    /\ UNCHANGED <<transport, slot, rows, senders, faults>>

\* send_bb_message_with_attachments: the id of the text or of the first file sent.
ReplyByBlueBubbles(m) ==
    /\ transport = "bluebubbles"
    /\ SentWithId(m) \/ SentWithoutId(m) \/ NotSent(m)
    /\ UNCHANGED <<transport, slot, rows, senders>>

\* The id of the text: a reply of files only has none.
ReplyByTelegram(m) ==
    /\ transport = "telegram"
    /\ SentWithId(m) \/ SentWithoutId(m) \/ NotSent(m)
    /\ UNCHANGED <<transport, slot, rows, senders>>

RecordReply(m) ==
    /\ Step(m, "replied", "done")
    /\ Record(m)
    /\ UNCHANGED <<transport, slot, rows, senders, faults>>

-----------------------------------------------------------------------------

Over == {"absent", "merged", "dropped", "consumed", "done", "gone"}

\* close_idle_threads: two days without a message.
CloseIdleThread(i) ==
    /\ threads[i].status = "active"
    /\ \A m \in Messages : task[m].thread = i => task[m].pc \in Over
    /\ threads' = [threads EXCEPT ![i].status = "completed"]
    /\ UNCHANGED <<transport, task, slot, rows, senders, faults>>

\* The process restarts: the map, the senders and the tasks are gone, the rows stay.
Restart ==
    /\ Fault
    /\ task' = [m \in Messages |-> IF task[m].pc \in Over THEN task[m] ELSE [task[m] EXCEPT !.pc = "gone"]]
    /\ slot' = [u \in Users |-> {}]
    /\ senders' = {}
    /\ UNCHANGED <<transport, threads, rows>>

Next ==
    \/ \E m \in Messages :
         \/ HandleInbound(m) \/ BlueBubblesWebhook(m) \/ TelegramWebhook(m)
         \/ Aggregate(m) \/ WindowEnds(m) \/ Flush(m)
         \/ FindOrCreateThread(m) \/ TryResolvePending(m) \/ TryResolvePendingForUserPipe(m)
         \/ RunCommand(m) \/ BeginTurn(m) \/ CreatePending(m) \/ SendPrompt(m) \/ PromptFails(m) \/ RecordPrompt(m)
         \/ InsertSender(m) \/ ApprovalTimesOut(m) \/ EndTurn(m) \/ FailTurn(m)
         \/ ReplyByWebhook(m) \/ ReplyNowhere(m) \/ ReplyByBlueBubbles(m) \/ ReplyByTelegram(m)
         \/ RecordReply(m)
    \/ \E i \in DOMAIN threads : CloseIdleThread(i)
    \/ Restart

Spec == Init /\ [][Next]_vars

-----------------------------------------------------------------------------
(***************************************************************************)
(* Properties.                                                             *)
(***************************************************************************)

Dispatching == {m \in Messages : task[m].pc \notin {"absent", "partial", "waiting", "expired", "merged",
                                                    "dropped"}}

\* A message is handed to an agent in at most one envelope: its window may end while
\* another message merges with it or takes its place in the map.
DispatchedOnce ==
    \A m \in Messages : Cardinality({o \in Dispatching : m \in task[o].holds}) <= 1

\* A reply approves one call: every granted call was granted by a message of its own,
\* though several replies may look up the same row before one marks it, and a stale
\* row may stand in front of the live one.
OneReplyOneGrant ==
    LET granted == UNION {task[m].granted : m \in Messages}
        answers == {m \in Messages : task[m].pc = "consumed"}
    IN  \A r \in granted : \E m \in answers :
            task[m].row = r /\ \A n \in answers : task[n].row = r => n = m

\* agents/engine.rs, after the loop: "Clean up any pending approvals created during
\* this tool loop run, regardless of whether the loop succeeded or failed".  A sender
\* that outlived its turn would swallow the next message of the user.
NoSenderLeft == \A r \in senders : task[rows[r].by].pc \notin Over \cup {"reply", "replied"}

\* Together: a reply reaches the one call that waits for it, or no call.
RepliesReachTheirCall == OneReplyOneGrant /\ NoSenderLeft
=============================================================================
