------------------------ MODULE ConversationRunsProofs ------------------------
(***************************************************************************)
(* The safety of ConversationRuns, for any requests and messages, any      *)
(* number of confirmations, faults and restarts.                           *)
(*                                                                         *)
(* None of the three properties is inductive.  What they rest on is that a *)
(* row, once inserted, is never forgotten while the conversation lives     *)
(* (Rows), that the executor of a run is spawned by the handler that       *)
(* inserted it (Handlers), that a turn is polled by an executor (Turns),   *)
(* and that only a run with an executor can ask, and so be the target of   *)
(* an answer (Questions).                                                  *)
(***************************************************************************)
EXTENDS ConversationRuns, TLAPS

\* Runs that were inserted carry different messages, and none is deleted alone.
Rows ==
  /\ thread => \A r \in Requests : status[r] # "deleted"
  /\ \A p, q \in Requests :
       status[p] # "none" /\ status[q] # "none" /\ message[p] = message[q] => p = q

\* What the row of a run is while its handler works, and before.
Handlers ==
  \A r \in Requests :
    /\ request[r] \in {"idle", "looked", "admitted"} => status[r] = "none"
    /\ request[r] \in {"inserted", "created"} => status[r] \in {"queued", "deleted"}
    /\ status[r] = "none" => executor[r] = "none"
    /\ request[r] \in {"inserted", "created"} => executor[r] = "none"

\* A turn belongs to an executor that polls it, and waits with a question.
Turns ==
  \A r \in Requests :
    /\ engine[r] # "off" => executor[r] \in {"turn", "mark", "announce"}
    /\ executor[r] \in {"mark", "announce"} \/ engine[r] = "asking" => asks[r] > 0

\* A question that can still be answered was asked by a run that was started.
Questions ==
  \A a \in Approvals :
    a \in confirmations \/ decision[a] = "sent" => executor[a[1]] # "none"

IInv ==
  /\ TypeOK
  /\ Rows
  /\ Handlers
  /\ Turns
  /\ Questions
  /\ FinishedMeansIdle
  /\ NoStrandedRun

-----------------------------------------------------------------------------
(* The type of the state                                                    *)

LEMMA InitInvariant == Init => IInv
PROOF
  BY ConversationAssumption
  DEF Init, IInv, TypeOK, Rows, Handlers, Turns, Questions, FinishedMeansIdle,
      NoStrandedRun, HasRow, Active, Terminal, LiveRequest, LiveExecutor, Approvals

LEMMA RequestsKeepType ==
  ASSUME TypeOK, NEW r \in Requests,
         Lookup(r) \/ HandlerProceeds(r) \/ Abandon(r)
  PROVE  TypeOK'
PROOF
<1>1. CASE Lookup(r)
  BY <1>1 DEF TypeOK, Lookup, RequestStep, LiveRequest, Undisturbed, bounds, rows,
              turn, approval, HasRow, Active, Terminal
<1>2. CASE CountActive(r)
  BY <1>2 DEF TypeOK, CountActive, RequestStep, LiveRequest, Undisturbed, bounds, rows,
              turn, approval, HasRow, Active, Terminal
<1>3. CASE InsertRun(r)
  BY <1>3 DEF TypeOK, InsertRun, RequestStep, Insertable, LiveRequest, Undisturbed, bounds,
              turn, approval, HasRow, Active, Terminal
<1>4. CASE PublishCreated(r)
  BY <1>4 DEF TypeOK, PublishCreated, RequestStep, LiveRequest, Undisturbed, bounds, rows,
              turn, approval, HasRow, Active, Terminal
<1>5. CASE Spawn(r)
  BY <1>5 DEF TypeOK, Spawn, RequestStep, LiveRequest, LiveExecutor, Undisturbed, bounds,
              rows, turn, approval, HasRow, Active, Terminal
<1>6. CASE Abandon(r)
  BY <1>6, ConversationAssumption
  DEF TypeOK, Abandon, LiveRequest, Disturbed, rows, turn, approval, HasRow, Active, Terminal
<1> QED BY <1>1, <1>2, <1>3, <1>4, <1>5, <1>6 DEF HandlerProceeds

LEMMA ExecutorsKeepType ==
  ASSUME TypeOK, Turns, NEW r \in Requests,
         ExecutorProceeds(r) \/ Ask(r) \/ StartFails(r) \/ MarkWaitingFails(r)
           \/ AnnounceFails(r) \/ FinishFails(r)
  PROVE  TypeOK'
PROOF
<1> USE ConversationAssumption DEF TypeOK, LiveExecutor, HasRow, Active, Terminal, bounds, Approvals
<1>1. CASE Start(r)
  BY <1>1 DEF Start, ExecutorStep, SetStatus, SetEngine, Undisturbed, handlers, approval
<1>2. CASE StartFails(r)
  BY <1>2 DEF StartFails, ExecutorStep, SetStatus, Disturbed, handlers, turn, approval
<1>3. CASE Ask(r)
  BY <1>3 DEF Ask, ExecutorStep, SetEngine, Undisturbed, rows, handlers
<1>4. CASE MarkWaiting(r)
  BY <1>4 DEF MarkWaiting, ExecutorStep, SetStatus, Undisturbed, handlers, turn, approval
<1>5. CASE MarkWaitingFails(r)
  BY <1>5 DEF MarkWaitingFails, ExecutorStep, Disturbed, rows, handlers, turn, approval
<1>6. CASE Announce(r)
  BY <1>6 DEF Announce, Turns, ExecutorStep, Current, Undisturbed, rows, handlers, turn
<1>7. CASE AnnounceFails(r)
  BY <1>7 DEF AnnounceFails, ExecutorStep, Disturbed, rows, handlers, turn, approval
<1>8. CASE Resume(r)
  BY <1>8 DEF Resume, Turns, Current, SetEngine, Undisturbed, rows, handlers, approval
<1>9. CASE Expire(r)
  BY <1>9 DEF Expire, SetEngine, Undisturbed, rows, handlers, approval
<1>10. CASE EndTurn(r)
  BY <1>10 DEF EndTurn, ExecutorStep, SetEngine, Undisturbed, rows, handlers, approval
<1>11. CASE Finish(r)
  BY <1>11 DEF Finish, ExecutorStep, SetStatus, Undisturbed, handlers, turn, approval
<1>12. CASE FinishFails(r)
  BY <1>12 DEF FinishFails, ExecutorStep, Disturbed, rows, handlers, turn, approval
<1> QED BY <1>1, <1>2, <1>3, <1>4, <1>5, <1>6, <1>7, <1>8, <1>9, <1>10, <1>11, <1>12 DEF ExecutorProceeds

LEMMA OthersKeepType ==
  ASSUME TypeOK,
         \/ \E a \in Approvals : Answer(a) \/ MarkRunning(a) \/ MarkRunningFails(a)
         \/ CheckDelete \/ DeleteConversation \/ Restart
  PROVE  TypeOK'
PROOF
<1> USE ConversationAssumption DEF TypeOK, LiveExecutor, HasRow, Active, Terminal, bounds, Approvals
<1>1. ASSUME NEW a \in Approvals, Answer(a) PROVE TypeOK'
  BY <1>1 DEF Answer, Current, Undisturbed, rows, handlers
<1>2. ASSUME NEW a \in Approvals, MarkRunning(a) PROVE TypeOK'
  BY <1>2 DEF MarkRunning, SetStatus, Undisturbed, handlers, turn
<1>3. ASSUME NEW a \in Approvals, MarkRunningFails(a) PROVE TypeOK'
  BY <1>3 DEF MarkRunningFails, Disturbed, rows, handlers, turn
<1>4. CASE CheckDelete
  BY <1>4 DEF CheckDelete, Undisturbed, rows, handlers, turn, approval
<1>5. CASE DeleteConversation
  BY <1>5 DEF DeleteConversation, Undisturbed, handlers, turn, approval
<1>6. CASE Restart
  BY <1>6 DEF Restart, LoseMemory, InterruptOrphans, LiveRequest
<1> QED BY <1>1, <1>2, <1>3, <1>4, <1>5, <1>6

-----------------------------------------------------------------------------
(* The conjuncts of the invariant, one lemma each                           *)

LEMMA RowsKept ==
  ASSUME TypeOK, Rows, Handlers, [Next]_vars PROVE Rows'
PROOF
<1> USE DEF Rows, TypeOK, HasRow
<1>1. ASSUME NEW r \in Requests, Lookup(r) PROVE Rows'
  BY <1>1 DEF Lookup, RequestStep, Handlers, rows
<1>2. ASSUME NEW r \in Requests, InsertRun(r) PROVE Rows'
  BY <1>2 DEF InsertRun, RequestStep, Insertable
<1>3. ASSUME NEW r \in Requests, NEW s \in Active \cup Terminal,
             SetStatus(r, s), UNCHANGED <<thread, message>>
      PROVE  Rows'
  BY <1>3 DEF SetStatus, Active, Terminal
<1>4. CASE DeleteConversation
  BY <1>4 DEF DeleteConversation, handlers
<1>5. CASE Restart
  BY <1>5 DEF Restart, InterruptOrphans, Active
<1>6. CASE UNCHANGED <<thread, status, message>>
  BY <1>6
<1> QED
  BY <1>1, <1>2, <1>3, <1>4, <1>5, <1>6
  DEF Next, HandlerProceeds, ExecutorProceeds, CountActive, PublishCreated, Spawn, Abandon,
      Start, StartFails, Ask, MarkWaiting, MarkWaitingFails, Announce, AnnounceFails, Resume,
      Expire, EndTurn, Finish, FinishFails, Answer, MarkRunning, MarkRunningFails, CheckDelete,
      rows, handlers, vars, Active, Terminal, Approvals

LEMMA HandlersKept ==
  ASSUME TypeOK, Rows, Handlers, Questions, [Next]_vars PROVE Handlers'
PROOF
<1> USE DEF Handlers, TypeOK, HasRow
<1>1. ASSUME NEW r \in Requests, Lookup(r) \/ CountActive(r) \/ PublishCreated(r) \/ Abandon(r)
      PROVE  Handlers'
  BY <1>1 DEF Lookup, CountActive, PublishCreated, Abandon, RequestStep, LiveRequest, rows
<1>2. ASSUME NEW r \in Requests, InsertRun(r) PROVE Handlers'
  BY <1>2 DEF InsertRun, RequestStep
<1>3. ASSUME NEW r \in Requests, Spawn(r) PROVE Handlers'
  BY <1>3 DEF Spawn, RequestStep, rows
<1>4. ASSUME NEW r \in Requests, NEW s \in Active \cup Terminal, executor[r] # "none",
             SetStatus(r, s), UNCHANGED request,
             executor' = executor \/ \E e \in LiveExecutor \cup {"ended"} :
                                       executor' = [executor EXCEPT ![r] = e]
      PROVE  Handlers'
  BY <1>4 DEF SetStatus, Active, Terminal, LiveExecutor
<1>5. ASSUME NEW r \in Requests, executor[r] # "none", UNCHANGED <<status, request>>,
             \E e \in LiveExecutor \cup {"ended"} : executor' = [executor EXCEPT ![r] = e]
      PROVE  Handlers'
  BY <1>5 DEF LiveExecutor
<1>6. CASE DeleteConversation
  BY <1>6 DEF DeleteConversation, handlers
<1>7. CASE Restart
  BY <1>7 DEF Restart, LoseMemory, InterruptOrphans, Active, LiveRequest, LiveExecutor
<1>8. CASE UNCHANGED <<status, request, executor>>
  BY <1>8
<1>9. ASSUME NEW a \in Approvals, MarkRunning(a) PROVE Handlers'
  BY <1>9, <1>4 DEF MarkRunning, Questions, Approvals, Active, handlers
<1> QED
  BY <1>1, <1>2, <1>3, <1>4, <1>5, <1>6, <1>7, <1>8, <1>9
  DEF Next, HandlerProceeds, ExecutorProceeds, ExecutorStep,
      Start, StartFails, Ask, MarkWaiting, MarkWaitingFails, Announce, AnnounceFails, Resume,
      Expire, EndTurn, Finish, FinishFails, Answer, MarkRunningFails, CheckDelete,
      rows, handlers, vars, Active, Terminal, LiveExecutor

LEMMA TurnsKept ==
  ASSUME TypeOK, Handlers, Turns, [Next]_vars PROVE Turns'
PROOF
<1> USE DEF Turns, TypeOK, ExecutorStep, SetEngine, turn
<1>1. ASSUME NEW r \in Requests, Spawn(r) \/ Start(r) PROVE Turns'
  BY <1>1 DEF Spawn, Start, RequestStep, Handlers
<1>2. ASSUME NEW r \in Requests, Ask(r) PROVE Turns'
  BY <1>2 DEF Ask
<1>3. ASSUME NEW r \in Requests, Resume(r) \/ Expire(r) \/ EndTurn(r) PROVE Turns'
  BY <1>3 DEF Resume, Expire, EndTurn
<1>4. ASSUME NEW r \in Requests, MarkWaiting(r) \/ MarkWaitingFails(r) \/ Announce(r) \/ AnnounceFails(r)
      PROVE  Turns'
  BY <1>4 DEF MarkWaiting, MarkWaitingFails, Announce, AnnounceFails
<1>5. ASSUME NEW r \in Requests, StartFails(r) \/ Finish(r) \/ FinishFails(r) PROVE Turns'
  BY <1>5 DEF StartFails, Finish, FinishFails
<1>6. CASE Restart
  BY <1>6 DEF Restart, LoseMemory, LiveExecutor
<1>7. CASE UNCHANGED <<executor, engine, asks>>
  BY <1>7
<1> QED
  BY <1>1, <1>2, <1>3, <1>4, <1>5, <1>6, <1>7
  DEF Next, HandlerProceeds, ExecutorProceeds, Lookup, CountActive, InsertRun, PublishCreated,
      Abandon, Answer, MarkRunning, MarkRunningFails, CheckDelete, DeleteConversation, vars

LEMMA QuestionsKept ==
  ASSUME TypeOK, Questions, [Next]_vars PROVE Questions'
PROOF
<1> USE DEF Questions, TypeOK, ExecutorStep, Approvals, approval
<1>1. ASSUME NEW r \in Requests, Ask(r) PROVE Questions'
  BY <1>1 DEF Ask
<1>2. ASSUME NEW a \in Approvals, Answer(a) \/ MarkRunning(a) \/ MarkRunningFails(a)
      PROVE  Questions'
  BY <1>2 DEF Answer, MarkRunning, MarkRunningFails
<1>3. CASE Restart
  BY <1>3 DEF Restart, LoseMemory
<1>4. ASSUME NEW r \in Requests, NEW e \in LiveExecutor \cup {"ended"},
             executor' = [executor EXCEPT ![r] = e], UNCHANGED <<confirmations, decision>>
      PROVE  Questions'
  BY <1>4 DEF LiveExecutor
<1>5. CASE UNCHANGED <<executor, confirmations, decision>>
  BY <1>5
<1> QED
  BY <1>1, <1>2, <1>3, <1>4, <1>5
  DEF Next, HandlerProceeds, ExecutorProceeds, Lookup, CountActive, InsertRun, PublishCreated,
      Spawn, Abandon, Start, StartFails, MarkWaiting, MarkWaitingFails, Announce, AnnounceFails,
      Resume, Expire, EndTurn, Finish, FinishFails, CheckDelete, DeleteConversation,
      LiveExecutor, vars

LEMMA FinishedKept ==
  ASSUME TypeOK, Handlers, Turns, FinishedMeansIdle, [Next]_vars PROVE FinishedMeansIdle'
PROOF
<1> USE DEF FinishedMeansIdle, TypeOK, HasRow, Terminal, Active, LiveExecutor,
            ExecutorStep, SetStatus, SetEngine, rows, turn
<1>1. ASSUME NEW r \in Requests, InsertRun(r) \/ Spawn(r) PROVE FinishedMeansIdle'
  BY <1>1 DEF InsertRun, Spawn, RequestStep, Handlers
<1>2. ASSUME NEW r \in Requests, Start(r) \/ StartFails(r) PROVE FinishedMeansIdle'
  BY <1>2 DEF Start, StartFails, Turns
<1>3. ASSUME NEW r \in Requests, Ask(r) \/ MarkWaiting(r) \/ MarkWaitingFails(r) \/ Announce(r) \/ AnnounceFails(r)
      PROVE  FinishedMeansIdle'
  BY <1>3 DEF Ask, MarkWaiting, MarkWaitingFails, Announce, AnnounceFails
<1>4. ASSUME NEW r \in Requests, Resume(r) \/ Expire(r) \/ EndTurn(r) PROVE FinishedMeansIdle'
  BY <1>4 DEF Resume, Expire, EndTurn
<1>5. ASSUME NEW r \in Requests, Finish(r) \/ FinishFails(r) PROVE FinishedMeansIdle'
  BY <1>5 DEF Finish, FinishFails, Turns
<1>6. ASSUME NEW a \in Approvals, MarkRunning(a) PROVE FinishedMeansIdle'
  BY <1>6 DEF MarkRunning, Approvals
<1>7. CASE DeleteConversation
  BY <1>7 DEF DeleteConversation
<1>8. CASE Restart
  BY <1>8 DEF Restart, LoseMemory, InterruptOrphans
<1>9. CASE UNCHANGED <<status, executor, engine>>
  BY <1>9
<1> QED
  BY <1>1, <1>2, <1>3, <1>4, <1>5, <1>6, <1>7, <1>8, <1>9
  DEF Next, HandlerProceeds, ExecutorProceeds, Lookup, CountActive, PublishCreated,
      Abandon, Answer, MarkRunningFails, CheckDelete, vars

LEMMA StrandedKept ==
  ASSUME TypeOK, Handlers, NoStrandedRun, [Next]_vars PROVE NoStrandedRun'
PROOF
<1> USE DEF NoStrandedRun, TypeOK, HasRow, Terminal, Active, LiveExecutor, LiveRequest,
            RequestStep, ExecutorStep, SetStatus, Undisturbed, Disturbed, bounds, rows, handlers
<1>1. ASSUME NEW r \in Requests, Lookup(r) \/ CountActive(r) \/ InsertRun(r) PROVE NoStrandedRun'
  BY <1>1 DEF Lookup, CountActive, InsertRun
<1>2. ASSUME NEW r \in Requests, PublishCreated(r) \/ Spawn(r) PROVE NoStrandedRun'
  BY <1>2 DEF PublishCreated, Spawn, Handlers
<1>3. ASSUME NEW r \in Requests, Start(r) PROVE NoStrandedRun'
  BY <1>3 DEF Start, Handlers
<1>4. ASSUME NEW r \in Requests, Ask(r) \/ MarkWaiting(r) \/ Announce(r) \/ Resume(r) \/ Expire(r) \/ EndTurn(r)
      PROVE  NoStrandedRun'
  BY <1>4 DEF Ask, MarkWaiting, Announce, Resume, Expire, EndTurn
<1>5. ASSUME NEW r \in Requests, Finish(r) PROVE NoStrandedRun'
  BY <1>5 DEF Finish
<1>6. ASSUME NEW a \in Approvals, Answer(a) \/ MarkRunning(a) PROVE NoStrandedRun'
  BY <1>6 DEF Answer, MarkRunning, Approvals
<1>7. CASE CheckDelete \/ DeleteConversation
  BY <1>7 DEF CheckDelete, DeleteConversation
<1>8. CASE Restart
  BY <1>8 DEF Restart, LoseMemory, InterruptOrphans
<1>9. CASE Disturbed
  BY <1>9
<1>10. CASE UNCHANGED vars
  BY <1>10 DEF vars
<1> QED
  BY <1>1, <1>2, <1>3, <1>4, <1>5, <1>6, <1>7, <1>8, <1>9, <1>10
  DEF Next, HandlerProceeds, ExecutorProceeds, Abandon, StartFails, MarkWaitingFails,
      AnnounceFails, FinishFails, MarkRunningFails

-----------------------------------------------------------------------------
(* The theorems                                                             *)

LEMMA TypeKept ==
  ASSUME TypeOK, Turns, [Next]_vars PROVE TypeOK'
PROOF
<1>1. CASE UNCHANGED vars
  BY <1>1 DEF vars, rows, handlers, turn, approval, bounds, TypeOK, HasRow
<1> QED
  BY <1>1, RequestsKeepType, ExecutorsKeepType, OthersKeepType DEF Next

\* The inductive invariant, from which the three properties follow.
THEOREM Invariant == Spec => []IInv
PROOF
<1>1. IInv /\ [Next]_vars => IInv'
  BY TypeKept, RowsKept, HandlersKept, TurnsKept, QuestionsKept, FinishedKept, StrandedKept
  DEF IInv
<1> QED BY <1>1, InitInvariant, PTL DEF Spec

\* A message is executed once, however many requests carry it and whenever
\* they arrive, whatever is deleted, fails or restarts in between.
THEOREM ExecutedOnce == Spec => []MessageExecutedOnce
PROOF
<1>1. IInv => MessageExecutedOnce
  BY DEF IInv, Rows, Handlers, MessageExecutedOnce
<1> QED BY <1>1, Invariant, PTL

\* A run whose row says that it is over has no task and no turn any more that
\* could act: late answers, deletions and restarts included.
THEOREM FinishedRunsIdle == Spec => []FinishedMeansIdle
PROOF
<1>1. IInv => FinishedMeansIdle
  BY DEF IInv
<1> QED BY <1>1, Invariant, PTL

\* No run is left queued or waiting that nobody executes, as long as no write
\* fails and no client leaves; after restarts too.
THEOREM RunsKeepExecutor == Spec => []NoStrandedRun
PROOF
<1>1. IInv => NoStrandedRun
  BY DEF IInv
<1> QED BY <1>1, Invariant, PTL
=============================================================================
