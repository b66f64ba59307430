---------------------------- MODULE AutomationProofs ----------------------------
(* Work that nobody waits for, in the composition MCAutomation and for any events,
   subscriptions, schedules, requests, jobs and faults:

   - the depth that an event and a turn carry is all that the code compares with
     its limits; it is the number of turns that really lie behind, across storing,
     broadcasting, losing and fanning out;
   - a job is written under the condition that its status is still the one read,
     and each plan is legal for the status that it read;
   - a row that is still armed as it was when it ran is due later, if ever, and a
     schedule without pipes is about to get one.                               *)
EXTENDS MCAutomation, TLAPS

-----------------------------------------------------------------------------
(* The events                                                               *)

FanStates ==
  {Idle}
    \cup [pc : {"session", "load", "mark"}, event : Events]
    \cup [pc : {"react", "mark"}, event : Events, left : SUBSET Subscriptions]

Typed ==
  /\ stored \in [Events -> [state : {"none", "stored", "processed"}, depth : Nat]]
  /\ bus \in Seq(Events)
  /\ fan \in FanStates
  /\ active \in SUBSET Subscriptions
  /\ turns \subseteq [event : Events, sub : Subscriptions, depth : Nat, behind : Nat]
  /\ origin \in [Events -> Nat]

\* The depth of an event is the number of turns behind it, and below the limit.
EventsCount ==
  \A e \in Events : stored[e].depth = origin[e] /\ stored[e].depth < EmitLimit

\* So is that of a turn, which one of the two limits has let start.
TurnsCount ==
  \A t \in turns : t.depth = t.behind /\ t.depth <= EmitLimit /\ t.depth <= ChainLimit

IInv == Typed /\ EventsCount /\ TurnsCount

-----------------------------------------------------------------------------
LEMMA InitInvariant == Init => IInv
PROOF
  BY FanoutAssumption
  DEF Init, IInv, Typed, EventsCount, TurnsCount, FanStates, Idle

\* What the events and the task of the fan-out can be after a broadcast.
LEMMA BroadcastKeepsType ==
  ASSUME bus \in Seq(Events), NEW e \in Events, Broadcast(e)
  PROVE  bus' \in Seq(Events)
PROOF
<1>1. CASE Len(bus) < Capacity
  BY <1>1 DEF Broadcast
<1>2. CASE ~(Len(bus) < Capacity)
  <2>1. bus # <<>>
    BY <1>2, FanoutAssumption
  <2>2. Tail(bus) \in Seq(Events)
    BY <2>1
  <2> QED BY <1>2, <2>2 DEF Broadcast
<1> QED BY <1>1, <1>2

LEMMA EmitKeeps ==
  ASSUME IInv, NEW e \in Events, NEW depth \in Nat, Emit(e, depth, depth)
  PROVE  IInv'
PROOF
<1>1. bus' \in Seq(Events)
  BY BroadcastKeepsType DEF IInv, Typed, Emit
<1>2. Typed'
  BY <1>1 DEF IInv, Typed, Emit
<1>3. EventsCount'
  BY FanoutAssumption DEF IInv, Typed, EventsCount, Emit
<1>4. TurnsCount'
  BY DEF IInv, TurnsCount, Emit
<1> QED BY <1>2, <1>3, <1>4 DEF IInv

LEMMA ReactionKeepsType ==
  ASSUME fan \in FanStates, NEW s \in Subscriptions, Reacted(s)
  PROVE  fan' \in FanStates /\ fan.event \in Events
PROOF
<1>1. fan \in [pc : {"react", "mark"}, event : Events, left : SUBSET Subscriptions]
  BY DEF FanStates, Idle, Reacted
<1>2. fan' \in [pc : {"react", "mark"}, event : Events, left : SUBSET Subscriptions]
  BY <1>1 DEF Reacted
<1> QED BY <1>1, <1>2 DEF FanStates

\* The steps of users, and of the loop, that start no turn and move no depth.
LEMMA QuietStepsKeep ==
  ASSUME IInv,
         \/ \E t \in turns : EndTurn(t)
         \/ \E s \in Subscriptions :
              Subscribe(s) \/ Unsubscribe(s) \/ ReactOutside(s)
         \/ Receive \/ FindSession \/ LoadSubscriptions \/ ProcessingFails
  PROVE  IInv'
PROOF
<1>1. ASSUME NEW t \in turns, EndTurn(t) PROVE IInv'
  BY <1>1 DEF IInv, Typed, EventsCount, TurnsCount, EndTurn
<1>2. ASSUME NEW s \in Subscriptions, Subscribe(s) \/ Unsubscribe(s) PROVE IInv'
  BY <1>2 DEF IInv, Typed, EventsCount, TurnsCount, Subscribe, Unsubscribe
<1>3. ASSUME NEW s \in Subscriptions, ReactOutside(s) PROVE IInv'
  <2>1. fan' \in FanStates
    BY <1>3, ReactionKeepsType DEF IInv, Typed, ReactOutside
  <2> QED BY <1>3, <2>1 DEF IInv, Typed, EventsCount, TurnsCount, ReactOutside, Quiet
<1>4. CASE Receive
  <2>1. Head(bus) \in Events /\ Tail(bus) \in Seq(Events)
    BY <1>4 DEF Receive, IInv, Typed
  <2> QED BY <1>4, <2>1 DEF Receive, Quiet, IInv, Typed, FanStates, EventsCount, TurnsCount
<1>5. CASE FindSession
  <2>1. fan \in [pc : {"session", "load", "mark"}, event : Events]
    BY <1>5 DEF IInv, Typed, FanStates, Idle, FindSession
  <2>2. fan' \in FanStates
    BY <1>5, <2>1 DEF FanStates, FindSession
  <2> QED BY <1>5, <2>2 DEF FindSession, Quiet, IInv, Typed, EventsCount, TurnsCount
<1>6. CASE LoadSubscriptions
  <2>1. fan.event \in Events
    BY <1>6 DEF IInv, Typed, FanStates, Idle, LoadSubscriptions
  <2>2. fan' \in FanStates
    BY <1>6, <2>1 DEF IInv, Typed, FanStates, LoadSubscriptions
  <2> QED BY <1>6, <2>2 DEF LoadSubscriptions, Quiet, IInv, Typed, EventsCount, TurnsCount
<1>7. CASE ProcessingFails
  BY <1>7 DEF ProcessingFails, IInv, Typed, FanStates, EventsCount, TurnsCount
<1> QED BY <1>1, <1>2, <1>3, <1>4, <1>5, <1>6, <1>7

\* The turn an event starts is one deeper than the event, which is below both limits.
LEMMA InvokeKeeps ==
  ASSUME IInv, NEW s \in Subscriptions, InvokeAgent(s)
  PROVE  IInv'
PROOF
<1>1. fan' \in FanStates /\ fan.event \in Events
  BY ReactionKeepsType DEF IInv, Typed, InvokeAgent
<1> DEFINE e == fan.event
           new == [event |-> e, sub |-> s, depth |-> stored[e].depth + 1,
                   behind |-> origin[e] + 1]
<1>2. /\ stored[e].depth \in Nat /\ stored[e].depth = origin[e]
      /\ stored[e].depth < EmitLimit /\ stored[e].depth < ChainLimit
  BY <1>1 DEF IInv, Typed, EventsCount, InvokeAgent
<1>3. turns' = turns \cup {new}
  BY DEF InvokeAgent
<1>4. new \in [event : Events, sub : Subscriptions, depth : Nat, behind : Nat]
  BY <1>1, <1>2
<1>5. Typed'
  BY <1>1, <1>3, <1>4 DEF IInv, Typed, InvokeAgent, Quiet
<1>6. EventsCount'
  BY DEF IInv, EventsCount, InvokeAgent, Quiet
<1>7. TurnsCount'
  <2>1. new.depth = new.behind /\ new.depth <= EmitLimit /\ new.depth <= ChainLimit
    BY <1>2, FanoutAssumption
  <2> QED BY <1>3, <2>1 DEF IInv, TurnsCount
<1> QED BY <1>5, <1>6, <1>7 DEF IInv

LEMMA MarkKeeps == IInv /\ MarkProcessed => IInv'
PROOF
<1> SUFFICES ASSUME IInv, MarkProcessed PROVE IInv'
  OBVIOUS
<1>1. stored' \in [Events -> [state : {"none", "stored", "processed"}, depth : Nat]]
  BY DEF IInv, Typed, MarkProcessed
<1>2. \A e \in Events : stored'[e].depth = stored[e].depth
  BY DEF IInv, Typed, MarkProcessed
<1> QED BY <1>1, <1>2 DEF IInv, Typed, FanStates, EventsCount, TurnsCount, MarkProcessed, Quiet

LEMMA NextInvariant == IInv /\ [Next]_vars => IInv'
PROOF
<1> SUFFICES ASSUME IInv, [Next]_vars PROVE IInv'
  OBVIOUS
<1>1. ASSUME NEW e \in Events, UserTurnEmits(e) PROVE IInv'
  BY <1>1, EmitKeeps DEF UserTurnEmits
<1>2. ASSUME NEW e \in Events, NEW t \in turns, InvokedTurnEmits(t, e) PROVE IInv'
  <2>1. t.depth \in Nat /\ t.depth = t.behind
    BY <1>2 DEF IInv, Typed, TurnsCount
  <2> QED BY <1>2, <2>1, EmitKeeps DEF InvokedTurnEmits
<1>3. ASSUME NEW s \in Subscriptions, InvokeAgent(s) PROVE IInv'
  BY <1>3, InvokeKeeps
<1>4. CASE MarkProcessed
  BY <1>4, MarkKeeps
<1>5. CASE Crash
  BY <1>5 DEF Crash, IInv, Typed, FanStates, EventsCount, TurnsCount
<1>6. CASE UNCHANGED vars
  BY <1>6 DEF vars, IInv, Typed, EventsCount, TurnsCount
<1> QED BY <1>1, <1>2, <1>3, <1>4, <1>5, <1>6, QuietStepsKeep DEF Next, FanOut

\* Whatever events, reactions and turns interleave, whatever the channel drops and
\* whenever the process stops, every turn that fanout.rs starts has no more turns behind
\* it than either limit allows: agents that react to each other's events come to an end.
THEOREM ChainsEnd == Spec => []ChainBounded
PROOF
<1>1. IInv => ChainBounded
  BY DEF IInv, TurnsCount, ChainBounded
<1> QED BY <1>1, InitInvariant, NextInvariant, PTL DEF Spec

-----------------------------------------------------------------------------
(* The jobs                                                                 *)

JobRows == [status : Job!Statuses, key : Keys, result : BOOLEAN, error : BOOLEAN]
Plans == [pc : Job!Statuses \cup {"complete", "fail"}, id : Jobs, from : Job!Statuses,
          cancel : BOOLEAN]

JobsTyped ==
  /\ job \in [Jobs -> {Job!None} \cup JobRows]
  /\ caller \in [Callers -> {Job!Idle} \cup [pc : {"insert"}, key : Keys] \cup Plans]
  /\ told \subseteq Keys \X Jobs

\* What an operation is about to write follows from the status that it read.
Legal(to, from) ==
  /\ to \in Job!Statuses => to = from \/ Job!can_transition(from, to)
  /\ to = "complete" => from \in {"running", "waiting_for_input"}
  /\ to = "fail" => from \notin Job!Terminal

PlansLegal ==
  \A c \in Callers : caller[c] \in Plans =>
    /\ Legal(caller[c].pc, caller[c].from)
    /\ caller[c].cancel => caller[c].pc \in {"cancelling", "cancelled"}

\* A job whose cancellation was accepted can only end, and not with success.
CancelledEnd ==
  \A j \in Jobs : j \in cancelled =>
    job[j].status \in {"cancelling", "failed", "cancelled", "interrupted"}

KeysTell ==
  /\ \A i, j \in Jobs : Job!Exists(i) /\ Job!Exists(j) /\ job[i].key = job[j].key => i = j
  /\ \A k \in Keys, j \in Jobs : <<k, j>> \in told => Job!Exists(j) /\ job[j].key = k

JobsInv == JobsTyped /\ PlansLegal /\ CancelledEnd /\ KeysTell

\* A job that exists is a row.
LEMMA JobTyped ==
  ASSUME JobsTyped, NEW j \in Jobs
  PROVE  /\ Job!Exists(j) => job[j] \in JobRows
         /\ job[j].status \in Job!Statuses => Job!Exists(j)
         /\ ~Job!Exists(j) => job[j].status = "none"
PROOF BY DEF JobsTyped, Job!Exists, Job!None, JobRows, Job!Statuses, Job!Terminal

\* What a step may do to the jobs.
RowsFinal ==
  \A j \in Jobs : /\ job[j].status \in Job!Terminal => job'[j] = job[j]
                  /\ j \in cancelled => job'[j].status # "succeeded"
                  /\ \A t \in told' : <<t[1], j>> \in told' => t[2] = j

\* What a new becomes while its key and its end are respected.
Follows(new, old) ==
  /\ new \in JobRows /\ new.key = old.key
  /\ old.status \in Job!Terminal => new = old
  /\ old.status \in {"cancelling", "failed", "cancelled", "interrupted"} =>
       new.status \in {"cancelling", "failed", "cancelled", "interrupted"}

\* Rows that change in a legal way keep what was told of them.
LEMMA RowsFollow ==
  ASSUME JobsInv, job' \in [Jobs -> {Job!None} \cup JobRows],
         \A j \in Jobs : job'[j] = job[j] \/ (Job!Exists(j) /\ Follows(job'[j], job[j])),
         told' = told
  PROVE  /\ KeysTell'
         /\ \A j \in Jobs : j \in cancelled =>
              job'[j].status \in {"cancelling", "failed", "cancelled", "interrupted"}
         /\ \A j \in Jobs : job[j].status \in Job!Terminal => job'[j] = job[j]
PROOF
<1>1. \A j \in Jobs : Follows(job'[j], job[j]) => job'[j] # Job!None
  BY DEF Follows, JobRows, Job!None, Job!Statuses, Job!Terminal
<1>2. \A j \in Jobs : /\ Job!Exists(j)' <=> Job!Exists(j)
                      /\ Job!Exists(j) => job'[j].key = job[j].key
  BY <1>1 DEF Job!Exists, Follows
<1>3. KeysTell'
  BY <1>2 DEF JobsInv, KeysTell
<1>4. \A j \in Jobs : j \in cancelled =>
        job'[j].status \in {"cancelling", "failed", "cancelled", "interrupted"}
  BY DEF JobsInv, CancelledEnd, Follows
<1>5. \A j \in Jobs : job[j].status \in Job!Terminal => job'[j] = job[j]
  BY DEF Follows
<1> QED BY <1>3, <1>4, <1>5

\* What is told under one key is one job.
LEMMA OneAnswer ==
  ASSUME JobsTyped', KeysTell', NEW j \in Jobs, NEW t \in told', <<t[1], j>> \in told'
  PROVE  t[2] = j
PROOF
<1>1. PICK k \in Keys, i \in Jobs : t = <<k, i>>
  BY DEF JobsTyped
<1> QED BY <1>1 DEF KeysTell

\* An operation that writes, if the status is still the one it read.
LEMMA WriteFollows ==
  ASSUME JobsInv, NEW c \in Callers, caller[c] \in Plans, NEW new,
         Follows(new, job[caller[c].id]) \/ job[caller[c].id].status # caller[c].from,
         caller[c].cancel => new.status \in {"cancelling", "cancelled"},
         Job!Write(c, caller[c].pc, new)
  PROVE  JobsInv' /\ RowsFinal
PROOF
<1> DEFINE i == caller[c].id
<1>0. /\ JobsTyped /\ i \in Jobs /\ caller[c].from \in Job!Statuses /\ told' = told
      /\ caller' = [caller EXCEPT ![c] = Job!Idle]
  BY DEF JobsInv, Plans, Job!Write
<1>1. job[i].status = caller[c].from => Job!Exists(i)
  BY <1>0, JobTyped
<1>2. /\ job' \in [Jobs -> {Job!None} \cup JobRows]
      /\ \A j \in Jobs : job'[j] = job[j] \/ (Job!Exists(j) /\ Follows(job'[j], job[j]))
  BY <1>0, <1>1 DEF JobsTyped, Job!Write, Follows
<1>3. /\ KeysTell'
      /\ \A j \in Jobs : j \in cancelled =>
           job'[j].status \in {"cancelling", "failed", "cancelled", "interrupted"}
      /\ \A j \in Jobs : job[j].status \in Job!Terminal => job'[j] = job[j]
  BY <1>0, <1>2, RowsFollow
<1>4. \A j \in Jobs : j \in cancelled' /\ j \notin cancelled => job'[j].status \in {"cancelling", "cancelled"}
  BY <1>0 DEF JobsTyped, Job!Write
<1>5. CancelledEnd'
  BY <1>3, <1>4 DEF CancelledEnd
<1>6. JobsTyped' /\ PlansLegal'
  <2>1. JobsTyped'
    BY <1>0, <1>2 DEF JobsTyped
  <2>2. \A d \in Callers : caller'[d] \in Plans => caller[d] = caller'[d]
    BY <1>0 DEF JobsTyped, Plans, Job!Idle, Job!Statuses, Job!Terminal
  <2> QED BY <2>1, <2>2 DEF JobsInv, PlansLegal
<1>7. RowsFinal
  BY <1>3, <1>6, OneAnswer DEF RowsFinal
<1> QED BY <1>3, <1>5, <1>6, <1>7 DEF JobsInv

\* What a legal plan writes over the status that it read.
LEMMA LegalFollows ==
  ASSUME JobsInv, NEW c \in Callers,
         Job!SetStatus(c) \/ Job!Succeed(c) \/ Job!FinishWithPayload(c)
  PROVE  JobsInv' /\ RowsFinal
PROOF
<1>1. caller[c].pc \in Job!Statuses \cup {"complete", "fail"}
  BY DEF Job!SetStatus, Job!Succeed, Job!FinishWithPayload, Job!Write
<1>2. caller[c] \in Plans
  BY <1>1 DEF JobsInv, JobsTyped, Job!Idle, Job!Statuses, Job!Terminal
<1> DEFINE i == caller[c].id
<1>3. i \in Jobs /\ caller[c].from \in Job!Statuses
  BY <1>2 DEF Plans
<1>4. ASSUME job[i].status = caller[c].from PROVE job[i] \in JobRows
  BY <1>3, <1>4, JobTyped DEF JobsInv
<1>5. /\ Legal(caller[c].pc, caller[c].from)
      /\ caller[c].cancel => caller[c].pc \in {"cancelling", "cancelled"}
  BY <1>2 DEF JobsInv, PlansLegal
<1>6. ASSUME NEW s \in Job!Statuses, Job!Write(c, s, [Job!Row(c) EXCEPT !.status = s])
      PROVE  JobsInv' /\ RowsFinal
  <2>1. caller[c].pc = s
    BY <1>6 DEF Job!Write
  <2> DEFINE new == [job[i] EXCEPT !.status = s]
  <2>2. ASSUME job[i].status = caller[c].from PROVE Follows(new, job[i])
    <3>1. job[i] \in JobRows /\ job[i].status \in Job!Statuses
      BY <1>3, <1>4, <2>2
    <3>2. new \in JobRows /\ new.key = job[i].key /\ new.status = s
      BY <3>1 DEF JobRows
    <3>3. s = job[i].status => new = job[i]
      BY <3>1 DEF JobRows
    <3>4. s = job[i].status \/ Job!can_transition(job[i].status, s)
      BY <1>5, <2>1, <2>2 DEF Legal
    <3>5. /\ job[i].status \in Job!Terminal => ~Job!can_transition(job[i].status, s)
          /\ job[i].status = "cancelling" /\ Job!can_transition(job[i].status, s) =>
               s \in {"failed", "cancelled", "interrupted"}
      BY DEF Job!can_transition, Job!Terminal
    <3> HIDE DEF new
    <3> QED BY <3>2, <3>3, <3>4, <3>5 DEF Follows, Job!Terminal
  <2>3. caller[c].cancel => new.status \in {"cancelling", "cancelled"}
    BY <1>5, <2>1 DEF Job!Row
  <2> QED BY <1>2, <1>6, <2>1, <2>2, <2>3, WriteFollows DEF Job!Row
<1>7. ASSUME NEW new, Job!Write(c, caller[c].pc, new), ~caller[c].cancel,
             \/ /\ new = [job[i] EXCEPT !.status = "succeeded", !.result = TRUE, !.error = FALSE]
                /\ caller[c].from \in {"running", "waiting_for_input"}
             \/ /\ new = [job[i] EXCEPT !.status = "failed", !.error = TRUE, !.result = FALSE]
                /\ caller[c].from \notin Job!Terminal
      PROVE  JobsInv' /\ RowsFinal
  <2>1. ASSUME job[i].status = caller[c].from PROVE Follows(new, job[i])
    <3>1. job[i] \in JobRows
      BY <1>4, <2>1
    <3>2. new \in JobRows /\ new.key = job[i].key /\ new.status \in {"succeeded", "failed"}
      BY <1>7, <3>1 DEF JobRows, Job!Statuses, Job!Terminal
    <3>3. /\ job[i].status \notin Job!Terminal
          /\ job[i].status = "cancelling" => new.status = "failed"
      BY <1>7, <2>1, <3>1 DEF JobRows, Job!Terminal
    <3> QED BY <3>2, <3>3 DEF Follows, Job!Terminal
  <2> QED BY <1>2, <1>7, <2>1, WriteFollows
<1>8. CASE Job!SetStatus(c)
  BY <1>6, <1>8 DEF Job!SetStatus
<1>9. CASE Job!Succeed(c)
  <2>1. caller[c].pc = "complete" /\ ~caller[c].cancel /\ caller[c].from \in {"running", "waiting_for_input"}
    BY <1>5, <1>9 DEF Job!Succeed, Legal
  <2> QED BY <1>7, <1>9, <2>1 DEF Job!Succeed, Job!Row
<1>10. CASE Job!FinishWithPayload(c)
  <2>1. caller[c].pc = "fail" /\ ~caller[c].cancel /\ caller[c].from \notin Job!Terminal
    BY <1>5, <1>10 DEF Job!FinishWithPayload, Legal
  <2> QED BY <1>7, <1>10, <2>1 DEF Job!FinishWithPayload, Job!Row
<1> QED BY <1>8, <1>9, <1>10

\* A step that changes no job tells nobody a wrong one.
LEMMA NoRowChanges ==
  ASSUME JobsInv, job' = job, cancelled' = cancelled, told' \subseteq Keys \X Jobs,
         caller' \in [Callers -> {Job!Idle} \cup [pc : {"insert"}, key : Keys] \cup Plans],
         PlansLegal',
         \A k \in Keys, j \in Jobs : <<k, j>> \in told' => Job!Exists(j) /\ job[j].key = k
  PROVE  JobsInv' /\ RowsFinal
PROOF
<1>1. JobsTyped' /\ CancelledEnd'
  BY DEF JobsInv, JobsTyped, CancelledEnd
<1>2. KeysTell'
  BY DEF JobsInv, KeysTell, Job!Exists
<1>3. \A j \in Jobs : j \in cancelled => job'[j].status # "succeeded"
  BY DEF JobsInv, CancelledEnd
<1>4. RowsFinal
  BY <1>1, <1>2, <1>3, OneAnswer DEF RowsFinal
<1> QED BY <1>1, <1>2, <1>4 DEF JobsInv

\* An operation that reads and plans.
LEMMA PlanKeeps ==
  ASSUME JobsInv, NEW c \in Callers, NEW j \in Jobs, NEW cancel \in BOOLEAN,
         NEW to \in Job!Statuses \cup {"complete", "fail"}, Job!Plan(c, j, to, cancel),
         Legal(to, job[j].status), cancel => to \in {"cancelling", "cancelled"}
  PROVE  JobsInv' /\ RowsFinal
PROOF
<1> DEFINE plan == [pc |-> to, id |-> j, from |-> job[j].status, cancel |-> cancel]
<1>1. /\ caller' = [caller EXCEPT ![c] = plan] /\ job[j] \in JobRows
      /\ UNCHANGED <<job, told, cancelled>>
  BY JobTyped DEF Job!Plan, JobsInv
<1>2. /\ plan \in Plans /\ plan.pc = to /\ plan.from = job[j].status /\ plan.cancel = cancel
  BY <1>1 DEF Plans, JobRows
<1> HIDE DEF plan
<1>3. /\ caller' \in [Callers -> {Job!Idle} \cup [pc : {"insert"}, key : Keys] \cup Plans]
      /\ caller'[c] = plan /\ \A d \in Callers \ {c} : caller'[d] = caller[d]
  BY <1>1, <1>2 DEF JobsInv, JobsTyped
<1>4. PlansLegal'
  BY <1>2, <1>3 DEF JobsInv, PlansLegal
<1> QED BY <1>1, <1>3, <1>4, NoRowChanges DEF JobsInv, JobsTyped, KeysTell

\* The first request under a key, and those that repeat it.
LEMMA CreationKeeps ==
  ASSUME JobsInv, NEW c \in Callers,
         \/ \E k \in Keys : Job!FindIdempotent(c, k)
         \/ \E j \in Jobs : Job!Insert(c, j)
  PROVE  JobsInv' /\ RowsFinal
PROOF
<1>0. JobsTyped
  BY DEF JobsInv
<1>1. ASSUME NEW k \in Keys, caller' \in [Callers -> {Job!Idle} \cup [pc : {"insert"}, key : Keys] \cup Plans],
             \A d \in Callers : caller'[d] = caller[d] \/ caller'[d] \notin Plans,
             told' = told \/ told' = told \cup {<<k, j>> : j \in Job!WithKey(k)},
             UNCHANGED <<job, cancelled>>
      PROVE  JobsInv' /\ RowsFinal
  <2>1. PlansLegal'
    BY <1>1 DEF JobsInv, PlansLegal
  <2>2. told' \subseteq Keys \X Jobs
    BY <1>0, <1>1 DEF JobsTyped, Job!WithKey
  <2>3. \A l \in Keys, j \in Jobs : <<l, j>> \in told' => Job!Exists(j) /\ job[j].key = l
    BY <1>1 DEF JobsInv, KeysTell, Job!WithKey
  <2> QED BY <1>1, <2>1, <2>2, <2>3, NoRowChanges
<1>2. \A k \in Keys : [pc |-> "insert", key |-> k] \notin Plans
  BY DEF Plans, Job!Statuses, Job!Terminal
<1>3. Job!Idle \notin Plans
  BY DEF Plans, Job!Idle, Job!Statuses, Job!Terminal
<1>4. ASSUME NEW k \in Keys, Job!FindIdempotent(c, k) PROVE JobsInv' /\ RowsFinal
  <2>1. caller' \in [Callers -> {Job!Idle} \cup [pc : {"insert"}, key : Keys] \cup Plans]
    BY <1>0, <1>4 DEF JobsTyped, Job!FindIdempotent
  <2>2. \A d \in Callers : caller'[d] = caller[d] \/ caller'[d] \notin Plans
    BY <1>0, <1>2, <1>4 DEF JobsTyped, Job!FindIdempotent
  <2> QED BY <1>1, <1>4, <2>1, <2>2 DEF Job!FindIdempotent
<1>5. ASSUME NEW j \in Jobs, Job!Insert(c, j) PROVE JobsInv' /\ RowsFinal
  <2>1. PICK k \in Keys : k = caller[c].key
    BY <1>0, <1>5 DEF JobsTyped, Job!Insert, Job!Idle, Plans, Job!Statuses, Job!Terminal
  <2>2. /\ caller' \in [Callers -> {Job!Idle} \cup [pc : {"insert"}, key : Keys] \cup Plans]
        /\ \A d \in Callers : caller'[d] = caller[d] \/ caller'[d] \notin Plans
    BY <1>0, <1>3, <1>5 DEF JobsTyped, Job!Insert
  <2>3. CASE Job!WithKey(k) # {}
    BY <1>1, <1>5, <2>1, <2>2, <2>3 DEF Job!Insert
  <2>4. CASE Job!WithKey(k) = {}
    <3> DEFINE new == [status |-> "queued", key |-> k, result |-> FALSE, error |-> FALSE]
    <3>1. /\ job' = [job EXCEPT ![j] = new] /\ told' = told \cup {<<k, j>>}
          /\ cancelled' = cancelled /\ ~Job!Exists(j)
      BY <1>5, <2>1, <2>4 DEF Job!Insert, Job!Exists
    <3>2. new \in JobRows /\ new.status = "queued" /\ new.key = k /\ new # Job!None
      BY DEF JobRows, Job!Statuses, Job!None
    <3> HIDE DEF new
    <3>3. /\ job' \in [Jobs -> {Job!None} \cup JobRows] /\ job'[j] = new
          /\ \A i \in Jobs \ {j} : job'[i] = job[i]
      BY <1>0, <3>1, <3>2 DEF JobsTyped
    <3>4. JobsTyped' /\ PlansLegal'
      <4>1. told' \subseteq Keys \X Jobs
        BY <1>0, <3>1 DEF JobsTyped
      <4> QED BY <2>2, <3>3, <4>1 DEF JobsInv, JobsTyped, PlansLegal
    <3>5. j \notin cancelled /\ job[j].status = "none"
      <4>1. job[j].status = "none"
        BY <1>0, <3>1, JobTyped
      <4> QED BY <4>1 DEF JobsInv, CancelledEnd
    <3>6. CancelledEnd'
      BY <3>1, <3>3, <3>5 DEF JobsInv, CancelledEnd
    <3>7. \A i \in Jobs : Job!Exists(i) => job[i].key # k
      BY <2>4 DEF Job!WithKey
    <3>8. \A i \in Jobs : Job!Exists(i)' <=> Job!Exists(i) \/ i = j
      BY <3>2, <3>3 DEF Job!Exists
    <3>9. KeysTell'
      <4>1. \A i, l \in Jobs : Job!Exists(i)' /\ Job!Exists(l)' /\ job'[i].key = job'[l].key => i = l
        BY <3>2, <3>3, <3>7, <3>8 DEF JobsInv, KeysTell
      <4>2. \A q \in Keys, i \in Jobs : <<q, i>> \in told' => Job!Exists(i)' /\ job'[i].key = q
        BY <3>1, <3>2, <3>3, <3>8 DEF JobsInv, KeysTell
      <4> QED BY <4>1, <4>2 DEF KeysTell
    <3>10. RowsFinal
      <4>1. \A i \in Jobs : job[i].status \in Job!Terminal => job'[i] = job[i]
        BY <3>3, <3>5 DEF Job!Terminal
      <4>2. \A i \in Jobs : i \in cancelled => job'[i].status # "succeeded"
        BY <3>1, <3>6 DEF CancelledEnd
      <4> QED BY <3>4, <3>9, <4>1, <4>2, OneAnswer DEF RowsFinal
    <3> QED BY <3>4, <3>6, <3>9, <3>10 DEF JobsInv
  <2> QED BY <2>3, <2>4
<1> QED BY <1>4, <1>5

\* The start of the process ends what was running.
LEMMA ReconcileKeeps ==
  ASSUME JobsInv, Job!Reconcile
  PROVE  JobsInv' /\ RowsFinal
PROOF
<1>0. /\ JobsTyped /\ told' = told /\ cancelled' = cancelled
      /\ caller' = [c \in Callers |-> Job!Idle]
  BY DEF JobsInv, Job!Reconcile
<1>1. ASSUME NEW j \in Jobs
      PROVE  /\ job'[j] \in {Job!None} \cup JobRows
             /\ job'[j] = job[j] \/ (Job!Exists(j) /\ Follows(job'[j], job[j]))
  <2>1. CASE job[j].status \in {"running", "cancelling"}
    <3>1. job[j] \in JobRows /\ Job!Exists(j)
      BY <1>0, <2>1, JobTyped DEF Job!Statuses
    <3> DEFINE new == [job[j] EXCEPT !.status = "interrupted"]
    <3>2. new \in JobRows /\ new.key = job[j].key /\ new.status = "interrupted"
      BY <3>1 DEF JobRows, Job!Statuses, Job!Terminal
    <3>3. job'[j] = new
      BY <2>1 DEF Job!Reconcile
    <3> HIDE DEF new
    <3> QED BY <2>1, <3>1, <3>2, <3>3 DEF Follows, Job!Terminal
  <2>2. CASE job[j].status \notin {"running", "cancelling"}
    BY <1>0, <2>2 DEF Job!Reconcile, JobsTyped
  <2> QED BY <2>1, <2>2
<1>2. job' \in [Jobs -> {Job!None} \cup JobRows]
  BY <1>1 DEF Job!Reconcile
<1>3. /\ KeysTell'
      /\ \A j \in Jobs : j \in cancelled =>
           job'[j].status \in {"cancelling", "failed", "cancelled", "interrupted"}
      /\ \A j \in Jobs : job[j].status \in Job!Terminal => job'[j] = job[j]
  BY <1>0, <1>1, <1>2, RowsFollow
<1>4. JobsTyped' /\ PlansLegal'
  BY <1>0, <1>2 DEF JobsTyped, PlansLegal, Plans, Job!Idle, Job!Statuses, Job!Terminal
<1>5. RowsFinal
  BY <1>3, <1>4, OneAnswer DEF RowsFinal
<1> QED BY <1>0, <1>3, <1>4, <1>5 DEF JobsInv, CancelledEnd

\* No operation disturbs the jobs.
LEMMA JobsStay == ASSUME JobsInv, Job!Next PROVE JobsInv' /\ RowsFinal
PROOF
<1>1. ASSUME NEW c \in Callers, NEW j \in Jobs,
             \/ Job!Progress(c, j) \/ Job!Complete(c, j) \/ Job!Fail(c, j)
             \/ Job!RequestCancel(c, j) \/ Job!MarkInterrupted(c, j)
             \/ \E s \in Job!Statuses : Job!Update(c, j, s)
      PROVE  JobsInv' /\ RowsFinal
  <2>1. job[j] \in JobRows /\ job[j].status \in Job!Statuses
    BY <1>1, JobTyped DEF Job!Progress, Job!Complete, Job!Fail, Job!RequestCancel,
       Job!MarkInterrupted, Job!Update, Job!Asks, JobsInv, JobRows
  <2>2. ASSUME NEW to \in Job!Statuses, NEW cancel \in BOOLEAN, Job!Asks(c, j, to, cancel),
               cancel => to \in {"cancelling", "cancelled"}
        PROVE  JobsInv' /\ RowsFinal
    <3>1. Legal(to, job[j].status)
      BY <2>2 DEF Job!Asks, Legal, Job!Statuses, Job!Terminal
    <3> QED BY <2>2, <3>1, PlanKeeps DEF Job!Asks
  <2>3. CASE Job!Progress(c, j)
    <3>1. Legal(job[j].status, job[j].status)
      BY <2>1 DEF Legal, Job!Statuses, Job!Terminal
    <3> QED BY <2>1, <2>3, <3>1, PlanKeeps DEF Job!Progress
  <2>4. CASE Job!Complete(c, j)
    <3>1. Legal("complete", job[j].status)
      BY <2>4 DEF Legal, Job!Statuses, Job!Terminal, Job!Complete
    <3> QED BY <2>4, <3>1, PlanKeeps DEF Job!Complete
  <2>5. CASE Job!Fail(c, j)
    <3>1. Legal("fail", job[j].status)
      BY <2>5 DEF Legal, Job!Statuses, Job!Terminal, Job!Fail
    <3> QED BY <2>5, <3>1, PlanKeeps DEF Job!Fail
  <2>6. CASE Job!RequestCancel(c, j)
    <3>1. PICK to \in {"cancelling", "cancelled"} : Job!Asks(c, j, to, TRUE)
      BY <2>6 DEF Job!RequestCancel
    <3>2. to \in Job!Statuses
      BY <3>1 DEF Job!Statuses, Job!Terminal
    <3> QED BY <2>2, <3>1, <3>2
  <2>7. CASE Job!MarkInterrupted(c, j)
    <3>1. Job!Asks(c, j, "interrupted", FALSE) /\ "interrupted" \in Job!Statuses
      BY <2>7 DEF Job!MarkInterrupted, Job!Statuses, Job!Terminal
    <3> QED BY <2>2, <3>1
  <2>8. ASSUME NEW s \in Job!Statuses, Job!Update(c, j, s) PROVE JobsInv' /\ RowsFinal
    BY <2>2, <2>8 DEF Job!Update
  <2> QED BY <1>1, <2>3, <2>4, <2>5, <2>6, <2>7, <2>8
<1>2. ASSUME NEW c \in Callers,
             \/ \E k \in Keys : Job!FindIdempotent(c, k)
             \/ \E j \in Jobs : Job!Insert(c, j)
             \/ Job!SetStatus(c) \/ Job!Succeed(c) \/ Job!FinishWithPayload(c)
      PROVE  JobsInv' /\ RowsFinal
  BY <1>2, CreationKeeps, LegalFollows
<1>3. CASE Job!Reconcile
  BY <1>3, ReconcileKeeps
<1> QED BY <1>1, <1>2, <1>3 DEF Job!Next

\* However operations, requests under one key and restarts overlap, a job that has
\* ended stays as it ended, an accepted cancellation is not followed by success, and
\* a key stands for one job (services/jobs.rs).
LEMMA JobsFinal == Job!Spec => Job!OutcomeIsFinal
PROOF
<1>1. ASSUME Job!Init PROVE JobsInv
  BY <1>1 DEF Job!Init, JobsInv, JobsTyped, PlansLegal, CancelledEnd, KeysTell, Job!Exists,
              Plans, Job!Idle, Job!None, Job!Statuses, Job!Terminal
<1>2. ASSUME JobsInv, UNCHANGED Job!vars PROVE JobsInv'
  BY <1>2 DEF Job!vars, JobsInv, JobsTyped, PlansLegal, CancelledEnd, KeysTell, Job!Exists
<1> QED BY <1>1, <1>2, JobsStay, PTL DEF Job!Spec, Job!OutcomeIsFinal, RowsFinal

-----------------------------------------------------------------------------
(* The schedules                                                            *)

ScheduleRows == [active : BOOLEAN, oneShot : BOOLEAN, period : Periods \cup {0},
                 next : Nat, last : Nat]
Copies == [id : Schedules, arm : Nat, due : Nat, oneShot : BOOLEAN,
           period : Periods \cup {0}, loaded : BOOLEAN, dest : SUBSET Pipes]
Some == (SUBSET Pipes) \ {{}}

Creates == [pc : {"pipes"}, id : Schedules, left : Some, then : {"done"}]
EditsRecurring == [pc : {"verify", "cron", "clear", "pipes"}, id : Schedules, timing : Schedule!Recurring,
                   left : Some, then : {"recurring"}]
EditsOneShot == [pc : {"once", "replace"}, id : Schedules, timing : Schedule!OneShot,
                 left : Some, then : {"recurring"}]
Finishes == [pc : {"recurring", "reread", "delete"}, id : Schedules]
Sets == [pc : {"activate", "recompute"}, id : Schedules, next : Nat]
WriterStates == {Schedule!Idle} \cup Creates \cup EditsRecurring \cup EditsOneShot
                  \cup Finishes \cup Sets

SchedulesTyped ==
  /\ now \in Nat /\ scheduleFaults \in Nat
  /\ row \in [Schedules -> {Schedule!Absent, Schedule!Gone} \cup ScheduleRows]
  /\ pipes \in [Schedules -> SUBSET Pipes]
  /\ armed \in [Schedules -> Nat]
  /\ writer \in [Writers -> WriterStates]
  /\ batch \subseteq Copies
  /\ fired \subseteq Schedules \X Nat \X Nat

\* A copy is the only one of its row, and what it is about to run has not run.
BatchFresh ==
  /\ \A c, d \in batch : c.id = d.id => c = d
  /\ \A c \in batch : /\ row[c.id] # Schedule!Absent /\ c.arm <= armed[c.id] /\ c.due <= now
                      /\ <<c.id, c.arm, c.due>> \notin fired

\* A row that is still armed as it was when it ran is due later, if ever.
FiredPast ==
  \A a \in Schedules, m, d \in Nat : <<a, m, d>> \in fired =>
    /\ row[a] # Schedule!Absent /\ m <= armed[a] /\ d <= now
    /\ Schedule!Exists(a) /\ row[a].active /\ m = armed[a] => d < row[a].next

\* A schedule without pipes is about to get one.
PipesComing ==
  \A a \in Schedules : Schedule!Exists(a) /\ pipes[a] = {} /\ scheduleFaults = 0 =>
    \E w \in Writers : writer[w].pc = "pipes" /\ writer[w].id = a

SchedulesInv == SchedulesTyped /\ BatchFresh /\ FiredPast /\ PipesComing

-----------------------------------------------------------------------------
\* The next occurrence lies ahead.
LEMMA NextRunAhead ==
  ASSUME NEW p \in Periods, NEW t \in Nat
  PROVE  Schedule!NextRun(p, t) \in Nat /\ t < Schedule!NextRun(p, t)
PROOF
<1>1. p \in Nat \ {0}
  BY SchedulePeriods DEF Schedule!PeriodsAssumption
<1>2. PICK q \in Nat : q = t \div p
  BY <1>1
<1>3. t < (q + 1) * p
  BY <1>1, <1>2
<1>4. (q + 1) * p \in Nat
  BY <1>1
<1> QED BY <1>2, <1>3, <1>4 DEF Schedule!NextRun

\* No record of the table stands for a row that is not there.
LEMMA RowsAreThere ==
  /\ \A r \in ScheduleRows : r # Schedule!Absent /\ r # Schedule!Gone
  /\ Schedule!Gone # Schedule!Absent
PROOF
<1>1. ASSUME NEW r \in ScheduleRows PROVE DOMAIN r # {"here"}
  <2>1. DOMAIN r = {"active", "oneShot", "period", "next", "last"}
    BY DEF ScheduleRows
  <2> QED BY <2>1
<1>2. DOMAIN Schedule!Absent = {"here"} /\ DOMAIN Schedule!Gone = {"here"}
  BY DEF Schedule!Absent, Schedule!Gone
<1>3. Schedule!Gone # Schedule!Absent
  BY DEF Schedule!Absent, Schedule!Gone
<1> QED BY <1>1, <1>2, <1>3

\* A row that exists is a record of the table.
LEMMA RowTyped ==
  ASSUME SchedulesTyped, NEW a \in Schedules
  PROVE  Schedule!Exists(a) <=> row[a] \in ScheduleRows
PROOF BY RowsAreThere DEF SchedulesTyped, Schedule!Exists

\* What a step does to one row: nothing, a user's arming, a creation, a
\* deletion, or a change that neither wakes the row nor moves it.
RowKept(a) ==
  \/ row'[a] = row[a] /\ armed'[a] = armed[a]
  \/ row'[a] = Schedule!Gone /\ armed'[a] = armed[a]
  \/ row[a] \in ScheduleRows /\ row'[a] \in ScheduleRows /\ armed'[a] = armed[a] + 1
  \/ row[a] = Schedule!Absent /\ row'[a] \in ScheduleRows /\ armed'[a] = 1
  \/ /\ row[a] \in ScheduleRows /\ row'[a] \in ScheduleRows /\ armed'[a] = armed[a]
     /\ row'[a].active => row[a].active /\ row'[a].next = row[a].next

\* Such changes keep apart what runs and what ran.
LEMMA RowsKeepFresh ==
  ASSUME SchedulesTyped, BatchFresh, FiredPast, now' \in Nat, now <= now',
         \A a \in Schedules : RowKept(a),
         batch' \subseteq batch, fired' = fired
  PROVE  BatchFresh' /\ FiredPast'
PROOF
<1>1. ASSUME NEW a \in Schedules
      PROVE  /\ row[a] # Schedule!Absent => row'[a] # Schedule!Absent
             /\ row[a] # Schedule!Absent => armed[a] <= armed'[a]
             /\ row'[a] \in ScheduleRows /\ row[a] # Schedule!Absent /\ armed'[a] = armed[a]
                  /\ row'[a].active =>
                  row[a] \in ScheduleRows /\ row[a].active /\ row'[a].next = row[a].next
  <2>1. RowKept(a) /\ armed[a] \in Nat
    BY DEF SchedulesTyped
  <2> QED BY <2>1, RowsAreThere DEF RowKept
<1>2. \A a \in Schedules : armed[a] \in Nat /\ (row[a] # Schedule!Absent => armed'[a] \in Nat)
  BY RowsAreThere DEF SchedulesTyped, RowKept
<1>3. BatchFresh'
  <2>1. ASSUME NEW c \in batch'
        PROVE  /\ row'[c.id] # Schedule!Absent /\ c.arm <= armed'[c.id] /\ c.due <= now'
               /\ <<c.id, c.arm, c.due>> \notin fired'
    <3>1. c \in batch /\ c.id \in Schedules /\ c.arm \in Nat /\ c.due \in Nat
      BY DEF SchedulesTyped, Copies
    <3>2. /\ row[c.id] # Schedule!Absent /\ c.arm <= armed[c.id] /\ c.due <= now
          /\ <<c.id, c.arm, c.due>> \notin fired
      BY <3>1 DEF BatchFresh
    <3>3. now \in Nat
      BY DEF SchedulesTyped
    <3> QED BY <1>1, <1>2, <3>1, <3>2, <3>3
  <2> QED BY <2>1 DEF BatchFresh
<1>4. FiredPast'
  <2> SUFFICES ASSUME NEW a \in Schedules, NEW m \in Nat, NEW d \in Nat, <<a, m, d>> \in fired
               PROVE  /\ row'[a] # Schedule!Absent /\ m <= armed'[a] /\ d <= now'
                      /\ Schedule!Exists(a)' /\ row'[a].active /\ m = armed'[a] => d < row'[a].next
    BY DEF FiredPast
  <2>1. /\ row[a] # Schedule!Absent /\ m <= armed[a] /\ d <= now
        /\ row[a] \in ScheduleRows /\ row[a].active /\ m = armed[a] => d < row[a].next
    BY RowTyped DEF FiredPast
  <2>2. row'[a] # Schedule!Absent /\ m <= armed'[a] /\ d <= now'
    BY <1>1, <1>2, <2>1 DEF SchedulesTyped
  <2>3. ASSUME Schedule!Exists(a)', row'[a].active, m = armed'[a] PROVE d < row'[a].next
    <3>1. armed'[a] = armed[a]
      BY <1>1, <1>2, <2>1, <2>3
    <3>2. row'[a] \in ScheduleRows
      BY <2>3 DEF RowKept, SchedulesTyped, Schedule!Exists
    <3> QED BY <1>1, <2>1, <2>3, <3>1, <3>2
  <2> QED BY <2>2, <2>3
<1> QED BY <1>3, <1>4

\* One request goes on.
Writes(w, r) == r \in WriterStates /\ writer' = [writer EXCEPT ![w] = r]
TablesTyped ==
  /\ row \in [Schedules -> {Schedule!Absent, Schedule!Gone} \cup ScheduleRows]
  /\ pipes \in [Schedules -> SUBSET Pipes] /\ armed \in [Schedules -> Nat]
Inserting(r, a) == r.pc = "pipes" /\ r.id = a

\* A request that leaves no schedule without pipes but the one it inserts them for.
LEMMA RequestKeeps ==
  ASSUME SchedulesInv, NEW w \in Writers, NEW r, Writes(w, r),
         TablesTyped', \A a \in Schedules : RowKept(a),
         UNCHANGED <<batch, fired, now, scheduleFaults>>,
         \A a \in Schedules : Schedule!Exists(a)' /\ pipes'[a] = {} =>
           \/ Inserting(r, a)
           \/ Schedule!Exists(a) /\ pipes[a] = {} /\ ~Inserting(writer[w], a)
  PROVE  SchedulesInv'
PROOF
<1>1. SchedulesTyped'
  BY DEF SchedulesInv, SchedulesTyped, TablesTyped, Writes
<1>2. BatchFresh' /\ FiredPast'
  <2>1. now' \in Nat /\ now <= now'
    BY DEF SchedulesInv, SchedulesTyped
  <2> QED BY <2>1, RowsKeepFresh DEF SchedulesInv
<1>3. PipesComing'
  <2> SUFFICES ASSUME NEW a \in Schedules, Schedule!Exists(a)', pipes'[a] = {}, scheduleFaults = 0
               PROVE  \E v \in Writers : Inserting(writer'[v], a)
    BY DEF PipesComing, Inserting
  <2>1. writer'[w] = r /\ \A v \in Writers \ {w} : writer'[v] = writer[v]
    BY DEF SchedulesInv, SchedulesTyped, Writes
  <2>2. CASE Inserting(r, a)
    BY <2>1, <2>2
  <2>3. CASE Schedule!Exists(a) /\ pipes[a] = {} /\ ~Inserting(writer[w], a)
    <3>1. PICK v \in Writers : Inserting(writer[v], a)
      BY <2>3 DEF SchedulesInv, PipesComing, Inserting
    <3> QED BY <2>1, <2>3, <3>1
  <2> QED BY <2>2, <2>3
<1> QED BY <1>1, <1>2, <1>3 DEF SchedulesInv

\* A request that leaves the pipes alone.
LEMMA QuietRequest ==
  ASSUME SchedulesInv, NEW w \in Writers, NEW r, Writes(w, r), writer[w].pc # "pipes",
         TablesTyped', \A a \in Schedules : RowKept(a) /\ (Schedule!Exists(a)' => Schedule!Exists(a)),
         UNCHANGED <<batch, fired, now, scheduleFaults, pipes>>
  PROVE  SchedulesInv'
PROOF BY RequestKeeps DEF Inserting

\* A user's statement that sets when a row fires.
LEMMA ArmKeeps ==
  ASSUME SchedulesTyped, NEW a \in Schedules, NEW r, Schedule!Exists(a) => r \in ScheduleRows,
         Schedule!Arm(a, r), pipes' = pipes
  PROVE  TablesTyped' /\ \A b \in Schedules : RowKept(b) /\ (Schedule!Exists(b)' <=> Schedule!Exists(b))
PROOF
<1>1. CASE Schedule!Exists(a)
  <2>1. row' = [row EXCEPT ![a] = r] /\ armed' = [armed EXCEPT ![a] = @ + 1] /\ r \in ScheduleRows
    BY <1>1 DEF Schedule!Arm
  <2>2. TablesTyped'
    BY <2>1 DEF SchedulesTyped, TablesTyped
  <2>3. row[a] \in ScheduleRows
    BY <1>1, RowTyped
  <2>4. row'[a] = r /\ armed'[a] = armed[a] + 1
    BY <2>1 DEF SchedulesTyped
  <2>5. \A b \in Schedules \ {a} : row'[b] = row[b] /\ armed'[b] = armed[b]
    BY <2>1 DEF SchedulesTyped
  <2> QED BY <1>1, <2>1, <2>2, <2>3, <2>4, <2>5, RowsAreThere DEF RowKept, Schedule!Exists
<1>2. CASE ~Schedule!Exists(a)
  BY <1>2 DEF Schedule!Arm, SchedulesTyped, TablesTyped, RowKept, Schedule!Exists
<1> QED BY <1>1, <1>2

\* A change that neither wakes the row nor moves it.
LEMMA SettleKeeps ==
  ASSUME SchedulesTyped, NEW a \in Schedules, Schedule!Exists(a), NEW r \in ScheduleRows,
         r.active => row[a].active, r.next = row[a].next,
         row' = [row EXCEPT ![a] = r], armed' = armed, pipes' = pipes
  PROVE  TablesTyped' /\ \A b \in Schedules : RowKept(b) /\ (Schedule!Exists(b)' <=> Schedule!Exists(b))
PROOF
<1>1. row[a] \in ScheduleRows
  BY RowTyped
<1>2. row'[a] = r /\ \A b \in Schedules \ {a} : row'[b] = row[b]
  BY DEF SchedulesTyped
<1>3. TablesTyped'
  BY DEF SchedulesTyped, TablesTyped
<1> QED BY <1>1, <1>2, <1>3, RowsAreThere DEF RowKept, Schedule!Exists

\* Deleting a row deletes its pipes with it.
LEMMA DeleteKeeps ==
  ASSUME SchedulesTyped, NEW a \in Schedules, Schedule!DeleteRow(a)
  PROVE  /\ TablesTyped' /\ \A b \in Schedules : RowKept(b)
         /\ \A b \in Schedules : Schedule!Exists(b)' => Schedule!Exists(b) /\ pipes'[b] = pipes[b]
PROOF
<1>1. TablesTyped'
  BY DEF SchedulesTyped, TablesTyped, Schedule!DeleteRow
<1>2. armed' = armed /\ \A b \in Schedules \ {a} : row'[b] = row[b] /\ pipes'[b] = pipes[b]
  BY DEF SchedulesTyped, Schedule!DeleteRow
<1>3. IF Schedule!Exists(a) THEN row'[a] = Schedule!Gone ELSE row'[a] = row[a]
  BY DEF SchedulesTyped, Schedule!DeleteRow
<1> QED BY <1>1, <1>2, <1>3 DEF RowKept, Schedule!Exists

\* The first run of a timing.
LEMMA FirstRunTyped ==
  ASSUME SchedulesTyped, NEW t \in Schedule!Timings
  PROVE  /\ Schedule!FirstRun(t) \in Nat /\ t.oneShot \in BOOLEAN
         /\ t.period \in Periods \cup {0} /\ t.at \in Nat
         /\ ~t.oneShot => t \in Schedule!Recurring
         /\ t.oneShot => t \in Schedule!OneShot
PROOF
<1>1. CASE t \in Schedule!Recurring
  <2>1. t.oneShot = FALSE /\ t.period \in Periods /\ t.at = 0
    BY <1>1 DEF Schedule!Recurring, Schedule!Never
  <2>2. Schedule!FirstRun(t) = Schedule!NextRun(t.period, now) /\ now \in Nat
    BY <2>1 DEF Schedule!FirstRun, SchedulesTyped
  <2>3. Schedule!FirstRun(t) \in Nat
    BY <2>1, <2>2, NextRunAhead
  <2>4. t.oneShot \in BOOLEAN /\ ~t.oneShot
    BY <2>1
  <2>5. t.period \in Periods \cup {0} /\ t.at \in Nat
    BY <2>1
  <2> QED BY <1>1, <2>3, <2>4, <2>5
<1>2. CASE t \in Schedule!OneShot
  <2>1. t.oneShot = TRUE /\ t.period = 0 /\ t.at \in 1..MaxTime
    BY <1>2 DEF Schedule!OneShot, Schedule!Never
  <2>2. Schedule!FirstRun(t) = t.at /\ t.at \in Nat
    BY <2>1 DEF Schedule!FirstRun
  <2> QED BY <1>2, <2>1, <2>2
<1> QED BY <1>1, <1>2 DEF Schedule!Timings

\* What a request holds between two statements.
LEMMA WriterTyped ==
  ASSUME SchedulesTyped, NEW w \in Writers
  PROVE  /\ writer[w].pc \in {"verify", "cron", "clear"} => writer[w] \in EditsRecurring
         /\ writer[w].pc = "pipes" => writer[w] \in Creates \cup EditsRecurring
         /\ writer[w].pc \in {"once", "replace"} => writer[w] \in EditsOneShot
         /\ writer[w].pc \in {"recurring", "reread", "delete"} => writer[w] \in Finishes
         /\ writer[w].pc \in {"activate", "recompute"} => writer[w] \in Sets
PROOF
<1>1. writer[w] \in WriterStates
  BY DEF SchedulesTyped
<1> QED BY <1>1 DEF WriterStates, Creates, EditsRecurring, EditsOneShot, Finishes, Sets, Schedule!Idle

\* A request that ends.
LEMMA WriterDone ==
  ASSUME NEW w \in Writers, Schedule!Done(w)
  PROVE  Writes(w, Schedule!Idle) /\ \A a \in Schedules : ~Inserting(Schedule!Idle, a)
PROOF BY DEF Schedule!Done, Writes, WriterStates, Inserting, Schedule!Idle

\* A new schedule and its pipes.
LEMMA CreatesKeep ==
  ASSUME SchedulesInv, NEW w \in Writers, NEW a \in Schedules, NEW t \in Schedule!Timings,
         NEW dest \in Some, Schedule!Insert(w, a, t, dest)
  PROVE  SchedulesInv'
PROOF
<1>0. SchedulesTyped
  BY DEF SchedulesInv
<1> DEFINE r == [pc |-> "pipes", id |-> a, left |-> dest, then |-> "done"]
           new == Schedule!NewRow(t)
<1>1. /\ row[a] = Schedule!Absent /\ row' = [row EXCEPT ![a] = new]
      /\ armed' = [armed EXCEPT ![a] = 1] /\ writer' = [writer EXCEPT ![w] = r]
      /\ UNCHANGED <<batch, fired, now, scheduleFaults, pipes>>
  BY DEF Schedule!Insert, Schedule!Begin, Schedule!memory
<1>2. Writes(w, r) /\ Inserting(r, a)
  BY <1>1 DEF Writes, WriterStates, Creates, Inserting
<1>3. new \in ScheduleRows
  BY <1>0, FirstRunTyped DEF ScheduleRows, Schedule!NewRow, Schedule!Never
<1> HIDE DEF r, new
<1>4. TablesTyped'
  BY <1>0, <1>1, <1>3 DEF SchedulesTyped, TablesTyped
<1>5. /\ row'[a] = new /\ armed'[a] = 1
      /\ \A b \in Schedules \ {a} : row'[b] = row[b] /\ armed'[b] = armed[b]
  BY <1>0, <1>1 DEF SchedulesTyped
<1>6. \A b \in Schedules : RowKept(b)
  BY <1>1, <1>3, <1>5 DEF RowKept
<1>7. ~Inserting(writer[w], a) /\ \A b \in Schedules : ~Inserting(writer[w], b)
  BY DEF Schedule!Insert, Schedule!Begin, Schedule!Idle, Inserting
<1>8. \A b \in Schedules \ {a} : Schedule!Exists(b)' => Schedule!Exists(b)
  BY <1>5 DEF Schedule!Exists
<1> QED BY <1>1, <1>2, <1>4, <1>6, <1>7, <1>8, RequestKeeps

\* The statements of an edit.
LEMMA EditsKeep ==
  ASSUME SchedulesInv, NEW w \in Writers,
         \/ Schedule!SetRecurring(w) \/ Schedule!SetOneShot(w)
         \/ Schedule!Clear(w) \/ Schedule!ReplacePipes(w) \/ Schedule!FinishRecurring(w)
  PROVE  SchedulesInv'
PROOF
<1>0. SchedulesTyped /\ UNCHANGED <<batch, fired, now, scheduleFaults>>
  BY DEF SchedulesInv, Schedule!SetRecurring, Schedule!SetOneShot, Schedule!Clear,
         Schedule!ReplacePipes, Schedule!FinishRecurring, Schedule!Continue, Schedule!bounds,
         Schedule!memory
<1> DEFINE a == writer[w].id  t == writer[w].timing
<1>1. CASE Schedule!SetRecurring(w)
  <2> DEFINE r == [row[a] EXCEPT !.period = t.period, !.next = Schedule!FirstRun(t)]
             g == [writer[w] EXCEPT !.pc = "clear"]
  <2>1. writer[w].pc = "cron" /\ writer[w] \in EditsRecurring
    BY <1>0, <1>1, WriterTyped DEF Schedule!SetRecurring, Schedule!Continue
  <2>2. a \in Schedules /\ t \in Schedule!Timings
    BY <2>1 DEF EditsRecurring, Schedule!Timings
  <2>3. g \in WriterStates
    BY <2>1 DEF EditsRecurring, WriterStates
  <2>4. writer' = [writer EXCEPT ![w] = g]
    BY <1>0, <1>1 DEF Schedule!SetRecurring, Schedule!Goto, SchedulesTyped
  <2>5. Schedule!Exists(a) => r \in ScheduleRows
    BY <1>0, <2>2, RowTyped, FirstRunTyped DEF ScheduleRows
  <2>6. Schedule!Arm(a, r) /\ pipes' = pipes
    BY <1>1 DEF Schedule!SetRecurring
  <2> HIDE DEF a, r, g
  <2>7. Writes(w, g)
    BY <2>3, <2>4 DEF Writes
  <2> QED BY <1>0, <2>1, <2>2, <2>5, <2>6, <2>7, ArmKeeps, QuietRequest
<1>2. CASE Schedule!SetOneShot(w)
  <2> DEFINE r == [row[a] EXCEPT !.oneShot = TRUE, !.period = Schedule!Never, !.next = t.at]
             g == IF Schedule!Exists(a) THEN [writer[w] EXCEPT !.pc = "replace"] ELSE Schedule!Idle
  <2>1. writer[w].pc = "once" /\ writer[w] \in EditsOneShot
    BY <1>0, <1>2, WriterTyped DEF Schedule!SetOneShot, Schedule!Continue
  <2>2. a \in Schedules /\ t \in Schedule!Timings
    BY <2>1 DEF EditsOneShot, Schedule!Timings
  <2>3. g \in WriterStates
    BY <2>1 DEF EditsOneShot, WriterStates
  <2>4. writer' = [writer EXCEPT ![w] = g]
    BY <1>0, <1>2 DEF Schedule!SetOneShot, Schedule!Goto, Schedule!Done, SchedulesTyped
  <2>5. Schedule!Exists(a) => r \in ScheduleRows
    BY <1>0, <2>2, RowTyped, FirstRunTyped DEF ScheduleRows, Schedule!Never
  <2>6. Schedule!Arm(a, r) /\ pipes' = pipes
    BY <1>2 DEF Schedule!SetOneShot
  <2> HIDE DEF a, r, g
  <2>7. Writes(w, g)
    BY <2>3, <2>4 DEF Writes
  <2> QED BY <1>0, <2>1, <2>2, <2>5, <2>6, <2>7, ArmKeeps, QuietRequest
<1>3. CASE Schedule!Clear(w)
  <2> DEFINE g == [writer[w] EXCEPT !.pc = "pipes"]
  <2>1. writer[w].pc = "clear" /\ writer[w] \in EditsRecurring
    BY <1>0, <1>3, WriterTyped DEF Schedule!Clear, Schedule!Continue
  <2>2. a \in Schedules
    BY <2>1 DEF EditsRecurring
  <2>3. g \in WriterStates /\ Inserting(g, a)
    BY <2>1 DEF EditsRecurring, WriterStates, Inserting
  <2>4. /\ writer' = [writer EXCEPT ![w] = g]
        /\ pipes' = [pipes EXCEPT ![a] = {}] /\ row' = row /\ armed' = armed
    BY <1>0, <1>3 DEF Schedule!Clear, Schedule!Goto, SchedulesTyped
  <2>5. TablesTyped' /\ \A b \in Schedules \ {a} : pipes'[b] = pipes[b]
    BY <1>0, <2>2, <2>4 DEF SchedulesTyped, TablesTyped
  <2>6. \A b \in Schedules : RowKept(b) /\ (Schedule!Exists(b)' <=> Schedule!Exists(b))
    BY <2>4 DEF RowKept, Schedule!Exists
  <2> HIDE DEF a, g
  <2>7. Writes(w, g)
    BY <2>3, <2>4 DEF Writes
  <2>8. \A b \in Schedules : ~Inserting(writer[w], b)
    BY <2>1 DEF Inserting
  <2> QED BY <1>0, <2>3, <2>5, <2>6, <2>7, <2>8, RequestKeeps
<1>4. CASE Schedule!ReplacePipes(w)
  <2>1. writer[w].pc = "replace" /\ writer[w] \in EditsOneShot
    BY <1>0, <1>4, WriterTyped DEF Schedule!ReplacePipes, Schedule!Continue
  <2>2. a \in Schedules /\ writer[w].left \in SUBSET Pipes /\ writer[w].left # {}
    BY <2>1 DEF EditsOneShot, Some
  <2>3. /\ pipes' = IF Schedule!Exists(a) THEN [pipes EXCEPT ![a] = writer[w].left] ELSE pipes
        /\ row' = row /\ armed' = armed /\ Schedule!Done(w)
    BY <1>4 DEF Schedule!ReplacePipes
  <2>4. TablesTyped' /\ \A b \in Schedules : pipes'[b] = pipes[b] \/ pipes'[b] # {}
    BY <1>0, <2>2, <2>3 DEF SchedulesTyped, TablesTyped
  <2>5. \A b \in Schedules : RowKept(b) /\ (Schedule!Exists(b)' <=> Schedule!Exists(b))
    BY <2>3 DEF RowKept, Schedule!Exists
  <2>6. \A b \in Schedules : ~Inserting(writer[w], b)
    BY <2>1 DEF Inserting
  <2> HIDE DEF a
  <2> QED BY <1>0, <2>3, <2>4, <2>5, <2>6, WriterDone, RequestKeeps
<1>5. CASE Schedule!FinishRecurring(w)
  <2> DEFINE r == [row[a] EXCEPT !.oneShot = FALSE]
  <2>1. writer[w].pc = "recurring" /\ writer[w] \in Finishes
    BY <1>0, <1>5, WriterTyped DEF Schedule!FinishRecurring, Schedule!Continue
  <2>2. a \in Schedules
    BY <2>1 DEF Finishes
  <2>3. /\ armed' = armed /\ pipes' = pipes /\ Schedule!Done(w)
        /\ IF Schedule!Exists(a) THEN row' = [row EXCEPT ![a].oneShot = FALSE] ELSE row' = row
    BY <1>5 DEF Schedule!FinishRecurring
  <2>4. CASE Schedule!Exists(a)
    <3>1. row[a] \in ScheduleRows
      BY <1>0, <2>2, <2>4, RowTyped
    <3>2. r \in ScheduleRows /\ r.active = row[a].active /\ r.next = row[a].next
      BY <3>1 DEF ScheduleRows
    <3>3. row' = [row EXCEPT ![a] = r]
      BY <1>0, <2>2, <2>3, <2>4 DEF SchedulesTyped
    <3> HIDE DEF a, r
    <3> QED BY <1>0, <2>1, <2>2, <2>3, <2>4, <3>2, <3>3, SettleKeeps, WriterDone, QuietRequest
  <2>5. CASE ~Schedule!Exists(a)
    <3>1. TablesTyped' /\ \A b \in Schedules : RowKept(b) /\ (Schedule!Exists(b)' <=> Schedule!Exists(b))
      BY <1>0, <2>3, <2>5 DEF SchedulesTyped, TablesTyped, RowKept, Schedule!Exists
    <3> HIDE DEF a
    <3> QED BY <1>0, <2>1, <2>3, <3>1, WriterDone, QuietRequest
  <2> QED BY <2>4, <2>5
<1> QED BY <1>1, <1>2, <1>3, <1>4, <1>5

\* One pipe of a schedule is inserted, or the row or the pipe refuses it.
LEMMA PipeInserted ==
  ASSUME SchedulesInv, NEW w \in Writers, NEW p \in Pipes, Schedule!InsertPipe(w, p)
  PROVE  SchedulesInv'
PROOF
<1> DEFINE a == writer[w].id
           left == writer[w].left \ {p}
           rest == [writer[w] EXCEPT !.left = left]
           g == IF left # {} THEN rest
                ELSE IF writer[w].then = "done" THEN Schedule!Idle
                ELSE [pc |-> writer[w].then, id |-> a]
<1>0. /\ SchedulesTyped /\ UNCHANGED <<batch, fired, now, scheduleFaults, row, armed>>
      /\ writer[w].pc = "pipes" /\ p \in writer[w].left
  BY DEF SchedulesInv, Schedule!InsertPipe, Schedule!Continue, Schedule!bounds, Schedule!memory
<1>1. writer[w] \in Creates \cup EditsRecurring
  BY <1>0, WriterTyped
<1>2. a \in Schedules /\ writer[w].left \in SUBSET Pipes
  BY <1>1 DEF Creates, EditsRecurring, Some
<1>3. g \in WriterStates
  <2>1. CASE left # {}
    <3>1. left \in Some
      BY <1>0, <1>2, <2>1 DEF Some
    <3>2. rest \in Creates \cup EditsRecurring
      BY <1>1, <3>1 DEF Creates, EditsRecurring
    <3> HIDE DEF rest
    <3> QED BY <2>1, <3>2 DEF WriterStates
  <2>2. CASE left = {}
    <3>1. writer[w].then \in {"done", "recurring"}
      BY <1>1 DEF Creates, EditsRecurring
    <3>2. writer[w].then # "done" => [pc |-> writer[w].then, id |-> a] \in Finishes
      BY <1>2, <3>1 DEF Finishes
    <3> QED BY <2>2, <3>2 DEF WriterStates
  <2> QED BY <2>1, <2>2
<1>4. \A b \in Schedules : RowKept(b) /\ (Schedule!Exists(b)' <=> Schedule!Exists(b))
  BY <1>0 DEF RowKept, Schedule!Exists
<1>5. CASE Schedule!Exists(a) /\ p \notin pipes[a]
  <2>1. /\ pipes' = [pipes EXCEPT ![a] = @ \cup {p}]
        /\ writer' = [writer EXCEPT ![w] = g]
    BY <1>0, <1>5 DEF Schedule!InsertPipe, SchedulesTyped
  <2>2. /\ TablesTyped' /\ pipes'[a] # {}
        /\ \A b \in Schedules \ {a} : pipes'[b] = pipes[b]
    BY <1>0, <1>2, <2>1 DEF SchedulesTyped, TablesTyped
  <2>3. \A b \in Schedules \ {a} : ~Inserting(writer[w], b)
    BY DEF Inserting
  <2> HIDE DEF a, g
  <2>4. Writes(w, g)
    BY <1>3, <2>1 DEF Writes
  <2> QED BY <1>0, <1>4, <2>2, <2>3, <2>4, RequestKeeps
<1>6. CASE ~(Schedule!Exists(a) /\ p \notin pipes[a])
  <2>1. pipes' = pipes /\ Schedule!Done(w)
    BY <1>6 DEF Schedule!InsertPipe
  <2>2. TablesTyped'
    BY <1>0, <2>1 DEF SchedulesTyped, TablesTyped
  <2>3. \A b \in Schedules : Schedule!Exists(b)' /\ pipes'[b] = {} =>
          Schedule!Exists(b) /\ pipes[b] = {} /\ ~Inserting(writer[w], b)
    BY <1>4, <1>6, <2>1 DEF Inserting
  <2> HIDE DEF a
  <2> QED BY <1>0, <1>4, <2>1, <2>2, <2>3, WriterDone, RequestKeeps
<1> QED BY <1>5, <1>6

\* The requests that look first and write in a second statement.
LEMMA LooksKeep ==
  ASSUME SchedulesInv, NEW w \in Writers,
         \/ \E a \in Schedules : \/ Schedule!Resume(w, a) \/ Schedule!FindByName(w, a)
                                 \/ \E t \in Schedule!Timings, dest \in Some : Schedule!Update(w, a, t, dest)
         \/ Schedule!Reread(w) \/ Schedule!Verify(w)
  PROVE  SchedulesInv'
PROOF
<1>0. SchedulesTyped
  BY DEF SchedulesInv
<1>1. ASSUME NEW r, Writes(w, r), writer[w].pc # "pipes",
             UNCHANGED <<row, pipes, armed, batch, fired, now, scheduleFaults>>
      PROVE  SchedulesInv'
  <2>1. TablesTyped' /\ \A b \in Schedules : RowKept(b) /\ (Schedule!Exists(b)' => Schedule!Exists(b))
    BY <1>0, <1>1 DEF SchedulesTyped, TablesTyped, RowKept, Schedule!Exists
  <2> QED BY <1>1, <2>1, QuietRequest
<1>2. ASSUME NEW a \in Schedules, Schedule!Exists(a), ~row[a].oneShot => row[a].period # 0
      PROVE  /\ row[a].next \in Nat
             /\ ~row[a].oneShot => Schedule!NextRun(row[a].period, now) \in Nat
  <2>1. row[a] \in ScheduleRows /\ now \in Nat
    BY <1>0, <1>2, RowTyped DEF SchedulesTyped
  <2>2. row[a].next \in Nat /\ row[a].period \in Periods \cup {0}
    BY <2>1 DEF ScheduleRows
  <2> QED BY <1>2, <2>1, <2>2, NextRunAhead
<1>3. ASSUME NEW a \in Schedules, Schedule!Resume(w, a) PROVE SchedulesInv'
  <2> DEFINE next == IF row[a].oneShot THEN row[a].next ELSE Schedule!NextRun(row[a].period, now)
             r == [pc |-> "activate", id |-> a, next |-> next]
  <2>1. Schedule!Exists(a) /\ (~row[a].oneShot => row[a].period # 0)
    BY <1>3 DEF Schedule!Resume, Schedule!Never
  <2>2. next \in Nat
    BY <1>2, <2>1
  <2> HIDE DEF next
  <2>3. r \in WriterStates
    BY <2>2 DEF WriterStates, Sets
  <2>4. /\ writer' = [writer EXCEPT ![w] = r] /\ writer[w].pc = "idle"
        /\ UNCHANGED <<row, pipes, armed, batch, fired, now, scheduleFaults>>
    BY <1>3 DEF Schedule!Resume, Schedule!Begin, Schedule!memory, Schedule!tables, Schedule!Idle, next
  <2> QED BY <1>1, <2>3, <2>4 DEF Writes
<1>4. ASSUME NEW a \in Schedules, Schedule!FindByName(w, a) PROVE SchedulesInv'
  <2> DEFINE r == [pc |-> "delete", id |-> a]
  <2>1. r \in WriterStates
    BY DEF WriterStates, Finishes
  <2>2. /\ writer' = [writer EXCEPT ![w] = r] /\ writer[w].pc = "idle"
        /\ UNCHANGED <<row, pipes, armed, batch, fired, now, scheduleFaults>>
    BY <1>4 DEF Schedule!FindByName, Schedule!Begin, Schedule!memory, Schedule!tables, Schedule!Idle
  <2> QED BY <1>1, <2>1, <2>2 DEF Writes
<1>5. ASSUME NEW a \in Schedules, NEW t \in Schedule!Timings, NEW dest \in Some,
             Schedule!Update(w, a, t, dest)
      PROVE  SchedulesInv'
  <2> DEFINE r == [pc |-> IF t.oneShot THEN "once" ELSE "verify", id |-> a, timing |-> t,
                   left |-> dest, then |-> "recurring"]
  <2>1. r \in WriterStates
    <3>1. CASE t.oneShot
      BY <1>0, <3>1, FirstRunTyped DEF WriterStates, EditsOneShot
    <3>2. CASE ~t.oneShot
      BY <1>0, <3>2, FirstRunTyped DEF WriterStates, EditsRecurring
    <3> QED BY <3>1, <3>2
  <2>2. /\ writer' = [writer EXCEPT ![w] = r] /\ writer[w].pc = "idle"
        /\ UNCHANGED <<row, pipes, armed, batch, fired, now, scheduleFaults>>
    BY <1>5 DEF Schedule!Update, Schedule!Begin, Schedule!memory, Schedule!tables, Schedule!Idle
  <2> HIDE DEF r
  <2> QED BY <1>1, <2>1, <2>2 DEF Writes
<1>6. CASE Schedule!Reread(w)
  <2> DEFINE a == writer[w].id
             next == Schedule!NextRun(row[a].period, now)
             r == IF Schedule!Exists(a) /\ row[a].active /\ ~row[a].oneShot /\ row[a].period # 0
                  THEN [pc |-> "recompute", id |-> a, next |-> next] ELSE Schedule!Idle
  <2>1. writer[w].pc = "reread" /\ writer[w] \in Finishes
    BY <1>0, <1>6, WriterTyped DEF Schedule!Reread, Schedule!Continue
  <2>2. a \in Schedules
    BY <2>1 DEF Finishes
  <2>3. /\ writer' = [writer EXCEPT ![w] = r]
        /\ UNCHANGED <<row, pipes, armed, batch, fired, now, scheduleFaults>>
    BY <1>6 DEF Schedule!Reread, Schedule!Continue, Schedule!memory, Schedule!tables, Schedule!bounds, Schedule!Never
  <2>4. Schedule!Exists(a) /\ row[a].active /\ ~row[a].oneShot /\ row[a].period # 0 => next \in Nat
    BY <1>2, <2>2
  <2> HIDE DEF a, next
  <2>5. r \in WriterStates
    BY <2>2, <2>4 DEF WriterStates, Sets
  <2> HIDE DEF r
  <2> QED BY <1>1, <2>1, <2>3, <2>5 DEF Writes
<1>7. CASE Schedule!Verify(w)
  <2> DEFINE r == IF Schedule!Exists(writer[w].id) THEN [writer[w] EXCEPT !.pc = "cron"]
                  ELSE Schedule!Idle
  <2>1. writer[w].pc = "verify" /\ writer[w] \in EditsRecurring
    BY <1>0, <1>7, WriterTyped DEF Schedule!Verify, Schedule!Continue
  <2>2. [writer[w] EXCEPT !.pc = "cron"] \in EditsRecurring
    BY <2>1 DEF EditsRecurring
  <2>3. r \in WriterStates
    BY <2>2 DEF WriterStates
  <2>4. /\ writer' = [writer EXCEPT ![w] = r]
        /\ UNCHANGED <<row, pipes, armed, batch, fired, now, scheduleFaults>>
    BY <1>0, <1>7 DEF Schedule!Verify, Schedule!Continue, Schedule!Goto, Schedule!Done,
                      Schedule!memory, Schedule!tables, Schedule!bounds, SchedulesTyped
  <2> HIDE DEF r
  <2> QED BY <1>1, <2>1, <2>3, <2>4 DEF Writes
<1> QED BY <1>3, <1>4, <1>5, <1>6, <1>7

\* Pausing, waking and deleting.
LEMMA StatesKeep ==
  ASSUME SchedulesInv, NEW w \in Writers,
         \/ \E a \in Schedules : \/ Schedule!Pause(w, a) \/ Schedule!Toggle(w, a)
                                 \/ Schedule!Delete(w, a)
         \/ Schedule!Activate(w) \/ Schedule!Recompute(w) \/ Schedule!DeleteFound(w)
  PROVE  SchedulesInv'
PROOF
<1>0. SchedulesTyped /\ writer[w] \in WriterStates
  BY DEF SchedulesInv, SchedulesTyped
<1>1. writer' = writer => Writes(w, writer[w])
  BY <1>0 DEF Writes, SchedulesTyped
<1>2. ASSUME NEW a \in Schedules, Schedule!Pause(w, a) PROVE SchedulesInv'
  <2> DEFINE r == [row[a] EXCEPT !.active = FALSE]
  <2>1. /\ Schedule!Exists(a) /\ row' = [row EXCEPT ![a] = r] /\ writer[w].pc = "idle"
        /\ UNCHANGED <<writer, pipes, armed, batch, fired, now, scheduleFaults>>
    BY <1>0, <1>2 DEF Schedule!Pause, Schedule!Begin, Schedule!memory, Schedule!Idle, SchedulesTyped
  <2>2. row[a] \in ScheduleRows
    BY <1>0, <2>1, RowTyped
  <2>3. r \in ScheduleRows /\ ~r.active /\ r.next = row[a].next
    BY <2>2 DEF ScheduleRows
  <2> HIDE DEF r
  <2>4. TablesTyped' /\ \A b \in Schedules : RowKept(b) /\ (Schedule!Exists(b)' <=> Schedule!Exists(b))
    BY <1>0, <2>1, <2>3, SettleKeeps
  <2> QED BY <1>1, <2>1, <2>4, QuietRequest
<1>3. ASSUME NEW a \in Schedules, NEW r, Schedule!Exists(a) => r \in ScheduleRows,
             Schedule!Arm(a, r), pipes' = pipes, NEW g, Writes(w, g), writer[w].pc # "pipes",
             UNCHANGED <<batch, fired, now, scheduleFaults>>
      PROVE  SchedulesInv'
  BY <1>0, <1>3, ArmKeeps, QuietRequest
<1>4. ASSUME NEW a \in Schedules, Schedule!Toggle(w, a) PROVE SchedulesInv'
  <2> DEFINE r == [row[a] EXCEPT !.active = ~@]
             g == [pc |-> "reread", id |-> a]
  <2>1. /\ Schedule!Arm(a, r) /\ pipes' = pipes /\ writer' = [writer EXCEPT ![w] = g]
        /\ writer[w].pc = "idle" /\ UNCHANGED <<batch, fired, now, scheduleFaults>>
    BY <1>4 DEF Schedule!Toggle, Schedule!Begin, Schedule!memory, Schedule!Idle
  <2>2. Schedule!Exists(a) => r \in ScheduleRows
    BY <1>0, RowTyped DEF ScheduleRows
  <2>3. g \in WriterStates
    BY DEF WriterStates, Finishes
  <2> HIDE DEF r, g
  <2> QED BY <1>3, <2>1, <2>2, <2>3 DEF Writes
<1>5. CASE Schedule!Activate(w) \/ Schedule!Recompute(w)
  <2> DEFINE a == writer[w].id
  <2>1. writer[w] \in Sets /\ writer[w].pc # "pipes"
    BY <1>0, <1>5, WriterTyped DEF Schedule!Activate, Schedule!Recompute, Schedule!Continue
  <2>2. a \in Schedules /\ writer[w].next \in Nat
    BY <2>1 DEF Sets
  <2>3. PICK r : /\ r = [row[a] EXCEPT !.active = TRUE, !.next = writer[w].next]
                    \/ r = [row[a] EXCEPT !.next = writer[w].next]
                 /\ Schedule!Arm(a, r) /\ pipes' = pipes /\ Schedule!Done(w)
                 /\ UNCHANGED <<batch, fired, now, scheduleFaults>>
    BY <1>5 DEF Schedule!Activate, Schedule!Recompute, Schedule!Continue, Schedule!memory, Schedule!bounds
  <2>4. Schedule!Exists(a) => r \in ScheduleRows
    BY <1>0, <2>2, <2>3, RowTyped DEF ScheduleRows
  <2> HIDE DEF a
  <2> QED BY <1>3, <2>1, <2>2, <2>3, <2>4, WriterDone
<1>6. ASSUME NEW a \in Schedules, Schedule!DeleteRow(a), NEW g, Writes(w, g), writer[w].pc # "pipes",
             UNCHANGED <<batch, fired, now, scheduleFaults>>
      PROVE  SchedulesInv'
  <2>1. /\ TablesTyped' /\ \A b \in Schedules : RowKept(b)
        /\ \A b \in Schedules : Schedule!Exists(b)' => Schedule!Exists(b) /\ pipes'[b] = pipes[b]
    BY <1>0, <1>6, DeleteKeeps
  <2> QED BY <1>6, <2>1, RequestKeeps DEF Inserting
<1>7. ASSUME NEW a \in Schedules, Schedule!Delete(w, a) PROVE SchedulesInv'
  BY <1>1, <1>6, <1>7 DEF Schedule!Delete, Schedule!Begin, Schedule!memory, Schedule!Idle
<1>8. CASE Schedule!DeleteFound(w)
  <2>1. writer[w] \in Finishes /\ writer[w].pc # "pipes"
    BY <1>0, <1>8, WriterTyped DEF Schedule!DeleteFound, Schedule!Continue
  <2>2. writer[w].id \in Schedules
    BY <2>1 DEF Finishes
  <2> QED BY <1>6, <1>8, <2>1, <2>2, WriterDone
          DEF Schedule!DeleteFound, Schedule!Continue, Schedule!memory, Schedule!bounds
<1> QED BY <1>2, <1>4, <1>5, <1>7, <1>8

\* A step that leaves the tables alone.
LEMMA TablesRest ==
  ASSUME SchedulesInv, UNCHANGED <<row, pipes, armed>>,
         now' \in Nat, now <= now', scheduleFaults' \in Nat, scheduleFaults <= scheduleFaults',
         scheduleFaults' = 0 => writer' = writer,
         writer' \in [Writers -> WriterStates]
  PROVE  /\ batch' \subseteq batch /\ fired' = fired => SchedulesInv'
         /\ PipesComing' /\ \A a \in Schedules : RowKept(a)
PROOF
<1>1. PipesComing'
  BY DEF SchedulesInv, SchedulesTyped, PipesComing, Schedule!Exists
<1>2. \A a \in Schedules : RowKept(a)
  BY DEF RowKept
<1>3. ASSUME batch' \subseteq batch, fired' = fired PROVE SchedulesInv'
  <2>1. SchedulesTyped'
    BY <1>3 DEF SchedulesInv, SchedulesTyped
  <2>2. BatchFresh' /\ FiredPast'
    BY <1>2, <1>3, RowsKeepFresh DEF SchedulesInv
  <2> QED BY <1>1, <2>1, <2>2 DEF SchedulesInv
<1> QED BY <1>1, <1>2, <1>3

\* The due rows are copied; reminders that fired long ago are removed.
LEMMA FetchKeeps == ASSUME SchedulesInv, Schedule!Fetch PROVE SchedulesInv'
PROOF
<1> DEFINE Copy(a) == [id |-> a, arm |-> armed[a], due |-> row[a].next, oneShot |-> row[a].oneShot,
                       period |-> row[a].period, loaded |-> FALSE, dest |-> {}]
<1>0. /\ SchedulesTyped /\ batch = {}
      /\ row' = [a \in Schedules |-> IF Schedule!Stale(a) THEN Schedule!Gone ELSE row[a]]
      /\ pipes' = [a \in Schedules |-> IF Schedule!Stale(a) THEN {} ELSE pipes[a]]
      /\ batch' = {Copy(a) : a \in {b \in Schedules : Schedule!Due(b)}}
      /\ UNCHANGED <<now, writer, armed, fired, scheduleFaults>>
  BY DEF SchedulesInv, Schedule!Fetch, Schedule!bounds
<1>1. TablesTyped'
  BY <1>0 DEF SchedulesTyped, TablesTyped
<1>2. \A a \in Schedules : RowKept(a) /\ (Schedule!Exists(a)' => Schedule!Exists(a) /\ pipes'[a] = pipes[a])
  BY <1>0 DEF RowKept, Schedule!Exists
<1>3. ASSUME NEW a \in Schedules, Schedule!Due(a)
      PROVE  /\ Copy(a) \in Copies /\ row[a] \in ScheduleRows /\ row'[a] # Schedule!Absent
             /\ row[a].next <= now /\ <<a, armed[a], row[a].next>> \notin fired
  <2>1. row[a] \in ScheduleRows /\ row[a].active /\ row[a].next <= now
    BY <1>0, <1>3, RowTyped DEF Schedule!Due
  <2>2. row[a].next \in Nat /\ armed[a] \in Nat
    BY <1>0, <2>1 DEF SchedulesTyped, ScheduleRows
  <2>3. Copy(a) \in Copies
    BY <2>1, <2>2 DEF Copies, ScheduleRows
  <2>4. <<a, armed[a], row[a].next>> \notin fired
    BY <1>0, <2>1, <2>2, RowTyped DEF SchedulesInv, FiredPast
  <2>5. row'[a] # Schedule!Absent
    BY <1>0, <2>1, RowsAreThere
  <2> QED BY <2>1, <2>3, <2>4, <2>5
<1>4. \A c \in batch' : \E a \in Schedules : Schedule!Due(a) /\ c = Copy(a)
  BY <1>0
<1>5. \A a : Copy(a).id = a /\ Copy(a).arm = armed[a] /\ Copy(a).due = row[a].next
  OBVIOUS
<1> HIDE DEF Copy
<1>6. batch' \subseteq Copies
  BY <1>3, <1>4
<1>7. SchedulesTyped'
  BY <1>0, <1>1, <1>6 DEF SchedulesTyped, TablesTyped
<1>8. BatchFresh'
  <2>1. ASSUME NEW c \in batch'
        PROVE  /\ row'[c.id] # Schedule!Absent /\ c.arm <= armed'[c.id] /\ c.due <= now'
               /\ <<c.id, c.arm, c.due>> \notin fired'
    <3>1. PICK a \in Schedules : Schedule!Due(a) /\ c = Copy(a)
      BY <1>4
    <3>2. armed[a] \in Nat
      BY <1>0 DEF SchedulesTyped
    <3> QED BY <1>0, <1>3, <1>5, <3>1, <3>2
  <2>2. \A c, d \in batch' : c.id = d.id => c = d
    BY <1>4, <1>5
  <2> QED BY <2>1, <2>2 DEF BatchFresh
<1>9. FiredPast'
  <2> SUFFICES ASSUME NEW a \in Schedules, NEW m \in Nat, NEW d \in Nat, <<a, m, d>> \in fired
               PROVE  /\ row'[a] # Schedule!Absent /\ m <= armed'[a] /\ d <= now'
                      /\ Schedule!Exists(a)' /\ row'[a].active /\ m = armed'[a] => d < row'[a].next
    BY <1>0 DEF FiredPast
  <2>1. /\ row[a] # Schedule!Absent /\ m <= armed[a] /\ d <= now
        /\ Schedule!Exists(a) /\ row[a].active /\ m = armed[a] => d < row[a].next
    BY DEF SchedulesInv, FiredPast
  <2>2. row'[a] = row[a] \/ row'[a] = Schedule!Gone
    BY <1>0
  <2> QED BY <1>0, <2>1, <2>2, RowsAreThere DEF Schedule!Exists
<1>10. PipesComing'
  BY <1>0, <1>2 DEF SchedulesInv, PipesComing
<1> QED BY <1>7, <1>8, <1>9, <1>10 DEF SchedulesInv

\* The pipes of a copy are read.
LEMMA LoadKeeps == ASSUME SchedulesInv, NEW c \in batch, Schedule!LoadPipes(c) PROVE SchedulesInv'
PROOF
<1>0. PICK dest \in {pipes[c.id], {}} :
        /\ batch' = (batch \ {c}) \cup {[c EXCEPT !.loaded = TRUE, !.dest = dest]}
        /\ scheduleFaults' = scheduleFaults \/ scheduleFaults' = scheduleFaults + 1
        /\ SchedulesTyped /\ UNCHANGED <<row, pipes, armed, now, writer, fired>>
  BY DEF SchedulesInv, Schedule!LoadPipes, Schedule!bounds, Schedule!tables, Schedule!Fault
<1> DEFINE new == [c EXCEPT !.loaded = TRUE, !.dest = dest]
<1>1. c \in Copies
  BY <1>0 DEF SchedulesTyped
<1>2. new \in Copies /\ new.id = c.id /\ new.arm = c.arm /\ new.due = c.due
  <2>1. pipes[c.id] \in SUBSET Pipes /\ dest \in SUBSET Pipes
    BY <1>0, <1>1 DEF SchedulesTyped, Copies
  <2> QED BY <1>1, <2>1 DEF Copies
<1>3. batch' = (batch \ {c}) \cup {new}
  BY <1>0
<1> HIDE DEF new
<1>4. SchedulesTyped'
  BY <1>0, <1>2, <1>3 DEF SchedulesTyped
<1>5. BatchFresh'
  BY <1>0, <1>2, <1>3 DEF SchedulesInv, BatchFresh
<1>6. FiredPast'
  BY <1>0 DEF SchedulesInv, FiredPast, Schedule!Exists
<1>7. PipesComing'
  BY <1>0 DEF SchedulesInv, SchedulesTyped, PipesComing, Schedule!Exists
<1> QED BY <1>4, <1>5, <1>6, <1>7 DEF SchedulesInv

\* The row of a copy moves past everything that ran, or is retired.
LEMMA ExecuteKeeps == ASSUME SchedulesInv, NEW c \in batch, Schedule!Execute(c) PROVE SchedulesInv'
PROOF
<1>0. /\ SchedulesTyped /\ batch' = batch \ {c} /\ fired' = fired \cup {<<c.id, c.arm, c.due>>}
      /\ row' = IF Schedule!Exists(c.id) THEN Schedule!Advanced(c) ELSE row
      /\ UNCHANGED <<pipes, armed, now, writer, scheduleFaults>>
  BY DEF SchedulesInv, Schedule!Execute, Schedule!Start
<1>1. /\ c \in Copies /\ c.id \in Schedules /\ c.arm \in Nat /\ c.due \in Nat
      /\ c.period \in Periods \cup {0} /\ now \in Nat
  BY <1>0 DEF SchedulesTyped, Copies
<1> DEFINE r == IF c.oneShot \/ c.period = 0 THEN [row[c.id] EXCEPT !.active = FALSE, !.last = now]
                ELSE [row[c.id] EXCEPT !.last = now, !.next = Schedule!NextRun(c.period, now)]
<1>2. ASSUME Schedule!Exists(c.id)
      PROVE  row' = [row EXCEPT ![c.id] = r] /\ r \in ScheduleRows /\ (r.active => now < r.next)
  <2>1. row[c.id] \in ScheduleRows
    BY <1>0, <1>1, <1>2, RowTyped
  <2>2. row' = [row EXCEPT ![c.id] = r]
    BY <1>0, <1>1, <1>2 DEF Schedule!Advanced, Schedule!Never, SchedulesTyped
  <2>3. CASE c.oneShot \/ c.period = 0
    <3>1. r = [row[c.id] EXCEPT !.active = FALSE, !.last = now]
      BY <2>3
    <3>2. r \in ScheduleRows /\ r.active = FALSE
      BY <1>1, <2>1, <3>1 DEF ScheduleRows
    <3> QED BY <2>2, <3>2
  <2>4. CASE ~(c.oneShot \/ c.period = 0)
    <3>1. r = [row[c.id] EXCEPT !.last = now, !.next = Schedule!NextRun(c.period, now)]
      BY <2>4
    <3>2. Schedule!NextRun(c.period, now) \in Nat /\ now < Schedule!NextRun(c.period, now)
      BY <1>1, <2>4, NextRunAhead
    <3>3. r \in ScheduleRows /\ r.next = Schedule!NextRun(c.period, now)
      BY <1>1, <2>1, <3>1, <3>2 DEF ScheduleRows
    <3> QED BY <2>2, <3>2, <3>3
  <2> QED BY <2>3, <2>4
<1> HIDE DEF r
<1>3. /\ \A a \in Schedules \ {c.id} : row'[a] = row[a]
      /\ Schedule!Exists(c.id) => row'[c.id] = r
      /\ ~Schedule!Exists(c.id) => row'[c.id] = row[c.id]
  BY <1>0, <1>1, <1>2 DEF SchedulesTyped
<1>4. \A a \in Schedules : /\ Schedule!Exists(a)' <=> Schedule!Exists(a)
                           /\ row[a] # Schedule!Absent => row'[a] # Schedule!Absent
  BY <1>1, <1>2, <1>3, RowsAreThere DEF Schedule!Exists
<1>5. SchedulesTyped'
  <2>1. row' \in [Schedules -> {Schedule!Absent, Schedule!Gone} \cup ScheduleRows]
    BY <1>0, <1>2 DEF SchedulesTyped
  <2>2. fired' \subseteq Schedules \X Nat \X Nat
    BY <1>0, <1>1 DEF SchedulesTyped
  <2> QED BY <1>0, <2>1, <2>2 DEF SchedulesTyped
<1>6. /\ row[c.id] # Schedule!Absent /\ c.arm <= armed[c.id] /\ c.due <= now
      /\ \A d \in batch : d.id = c.id => d = c
  BY DEF SchedulesInv, BatchFresh
<1>7. BatchFresh'
  <2>1. ASSUME NEW d \in batch'
        PROVE  /\ row'[d.id] # Schedule!Absent /\ d.arm <= armed'[d.id] /\ d.due <= now'
               /\ <<d.id, d.arm, d.due>> \notin fired'
    <3>1. d \in batch /\ d.id # c.id /\ d.id \in Schedules
      BY <1>0, <1>6, <2>1 DEF SchedulesTyped, Copies
    <3> QED BY <1>0, <1>4, <3>1 DEF SchedulesInv, BatchFresh
  <2> QED BY <1>0, <2>1 DEF SchedulesInv, BatchFresh
<1>8. FiredPast'
  <2> SUFFICES ASSUME NEW a \in Schedules, NEW m \in Nat, NEW d \in Nat, <<a, m, d>> \in fired'
               PROVE  /\ row'[a] # Schedule!Absent /\ m <= armed[a] /\ d <= now
                      /\ Schedule!Exists(a)' /\ row'[a].active /\ m = armed[a] => d < row'[a].next
    BY <1>0 DEF FiredPast
  <2>1. <<a, m, d>> \in fired \/ (a = c.id /\ m = c.arm /\ d = c.due)
    BY <1>0
  <2>2. <<a, m, d>> \in fired =>
          /\ row[a] # Schedule!Absent /\ m <= armed[a] /\ d <= now
          /\ Schedule!Exists(a) /\ row[a].active /\ m = armed[a] => d < row[a].next
    BY DEF SchedulesInv, FiredPast
  <2>3. row'[a] # Schedule!Absent /\ m <= armed[a] /\ d <= now
    BY <1>4, <1>6, <2>1, <2>2
  <2>4. ASSUME Schedule!Exists(a)', row'[a].active, m = armed[a] PROVE d < row'[a].next
    <3>1. CASE a = c.id
      <4>1. row'[a] = r /\ r \in ScheduleRows /\ now < r.next
        BY <1>2, <1>3, <1>4, <2>4, <3>1
      <4>2. r.next \in Nat
        BY <4>1 DEF ScheduleRows
      <4> QED BY <1>1, <2>3, <4>1, <4>2
    <3>2. CASE a # c.id
      BY <1>3, <1>4, <2>1, <2>2, <2>4, <3>2
    <3> QED BY <3>1, <3>2
  <2> QED BY <2>3, <2>4
<1>9. PipesComing'
  BY <1>0, <1>4 DEF SchedulesInv, PipesComing
<1> QED BY <1>5, <1>7, <1>8, <1>9 DEF SchedulesInv

\* The other steps: the runs, the clock, and what a fault leaves.
LEMMA RestKeeps ==
  ASSUME SchedulesInv,
         \/ \E c \in batch : Schedule!AdvanceFails(c)
         \/ \E w \in Writers : Schedule!Break(w)
         \/ Schedule!Run \/ Schedule!Crash \/ Schedule!TimePasses \/ UNCHANGED Schedule!vars
  PROVE  SchedulesInv'
PROOF
<1>0. SchedulesTyped
  BY DEF SchedulesInv
<1>1. /\ UNCHANGED <<row, pipes, armed, fired>> /\ batch' \subseteq batch
      /\ now' = now \/ now' = now + 1
      /\ \/ scheduleFaults' = scheduleFaults /\ writer' = writer
         \/ scheduleFaults' = scheduleFaults + 1
  BY DEF Schedule!AdvanceFails, Schedule!Start, Schedule!Fault, Schedule!Break, Schedule!Run,
         Schedule!FindThread, Schedule!CreateThread, Schedule!RunTurn, Schedule!Deliver,
         Schedule!RunStep, Schedule!Crash, Schedule!TimePasses, Schedule!vars, Schedule!tables,
         Schedule!memory, Schedule!bounds
<1>2. writer' \in [Writers -> WriterStates]
  BY <1>0 DEF Schedule!AdvanceFails, Schedule!Start, Schedule!Break, Schedule!Done, Schedule!Run,
         Schedule!FindThread, Schedule!CreateThread, Schedule!RunTurn, Schedule!Deliver,
         Schedule!RunStep, Schedule!Crash, Schedule!TimePasses, Schedule!vars, Schedule!tables,
         SchedulesTyped, WriterStates
<1>3. /\ now' \in Nat /\ now <= now' /\ scheduleFaults' \in Nat /\ scheduleFaults <= scheduleFaults'
      /\ scheduleFaults' = 0 => writer' = writer
  BY <1>0, <1>1 DEF SchedulesTyped
<1> QED BY <1>1, <1>2, <1>3, TablesRest

\* What holds of the schedules from the start on.
LEMMA SchedulesStay == Schedule!Spec => []SchedulesInv
PROOF
<1>1. ASSUME Schedule!Init PROVE SchedulesInv
  <2>1. /\ now = 1 /\ scheduleFaults = 0 /\ batch = {} /\ fired = {}
        /\ writer = [w \in Writers |-> Schedule!Idle] /\ armed = [a \in Schedules |-> 0]
        /\ row \in [Schedules -> {Schedule!Absent} \cup {Schedule!NewRow(t) : t \in Schedule!Timings}]
        /\ pipes \in [Schedules -> SUBSET Pipes]
        /\ \A a \in Schedules : pipes[a] = {} <=> row[a] = Schedule!Absent
    BY <1>1 DEF Schedule!Init
  <2>2. \A t \in Schedule!Timings : Schedule!NewRow(t) \in ScheduleRows
    <3> SUFFICES ASSUME NEW t \in Schedule!Timings PROVE Schedule!NewRow(t) \in ScheduleRows
      OBVIOUS
    <3>1. Schedule!FirstRun(t) \in Nat
      <4>1. CASE t \in Schedule!Recurring
        <5>1. t.oneShot = FALSE /\ t.period \in Periods
          BY <4>1 DEF Schedule!Recurring
        <5> QED BY <2>1, <5>1, NextRunAhead DEF Schedule!FirstRun
      <4>2. CASE t \in Schedule!OneShot
        <5>1. t.oneShot = TRUE /\ t.at \in 1..MaxTime
          BY <4>2 DEF Schedule!OneShot, Schedule!Never
        <5>2. t.at \in Nat
          BY <5>1
        <5> QED BY <5>1, <5>2 DEF Schedule!FirstRun
      <4> QED BY <4>1, <4>2 DEF Schedule!Timings
    <3>2. t.oneShot \in BOOLEAN /\ t.period \in Periods \cup {0}
      BY DEF Schedule!Timings, Schedule!Recurring, Schedule!OneShot, Schedule!Never
    <3> QED BY <3>1, <3>2 DEF Schedule!NewRow, ScheduleRows, Schedule!Never
  <2>3. SchedulesTyped
    BY <2>1, <2>2 DEF SchedulesTyped, WriterStates
  <2> QED BY <2>1, <2>3 DEF SchedulesInv, BatchFresh, FiredPast, PipesComing, Schedule!Exists
<1>2. ASSUME SchedulesInv, Schedule!Next PROVE SchedulesInv'
  <2>1. ASSUME NEW w \in Writers, Schedule!Request(w) PROVE SchedulesInv'
    <3>1. ASSUME NEW a \in Schedules, NEW t \in Schedule!Timings, NEW dest \in Some,
                 Schedule!Create(w, a, t, dest)
          PROVE  SchedulesInv'
      BY <1>2, <3>1, CreatesKeep DEF Schedule!Create
    <3>2. ASSUME NEW a \in Schedules, NEW t \in Schedule!Timings, NEW p \in Pipes,
                 Schedule!ToolCreates(w, a, t, p) \/ Schedule!CommandCreates(w, a, t, p)
          PROVE  SchedulesInv'
      <4>1. {p} \in Some
        BY DEF Some
      <4> QED BY <1>2, <3>2, <4>1, CreatesKeep DEF Schedule!ToolCreates, Schedule!CommandCreates
    <3>3. ASSUME NEW p \in Pipes, Schedule!InsertPipe(w, p) PROVE SchedulesInv'
      BY <1>2, <3>3, PipeInserted
    <3> QED BY <1>2, <2>1, <3>1, <3>2, <3>3, EditsKeep, LooksKeep, StatesKeep DEF Schedule!Request, Some
  <2>2. CASE Schedule!Tick
    BY <1>2, <2>2, FetchKeeps, LoadKeeps, ExecuteKeeps DEF Schedule!Tick
  <2> QED BY <1>2, <2>1, <2>2, RestKeeps DEF Schedule!Next
<1>3. ASSUME SchedulesInv, UNCHANGED Schedule!vars PROVE SchedulesInv'
  BY <1>3, RestKeeps
<1> QED BY <1>1, <1>2, <1>3, PTL DEF Schedule!Spec

\* What is about to run has not run, and a schedule without pipes is busy.
LEMMA SchedulesHold == Schedule!Spec => Schedule!NoRefire /\ []Schedule!DestinationsKept
PROOF
<1>1. SchedulesInv => Schedule!DestinationsKept
  BY DEF SchedulesInv, PipesComing, Schedule!DestinationsKept, Schedule!Busy, Schedule!Idle
<1>2. SchedulesInv => \A c \in batch :
        c.loaded /\ c \notin batch' /\ scheduleFaults' = scheduleFaults
          => <<c.id, c.arm, c.due>> \notin fired
  BY DEF SchedulesInv, BatchFresh
<1> QED BY <1>1, <1>2, SchedulesStay, PTL DEF Schedule!NoRefire

-----------------------------------------------------------------------------
(* The composition                                                          *)

\* A behaviour of the composition is one of each part, which rests unless it
\* was chosen.
LEMMA PartsRun == MCSpec => Spec /\ Schedule!Spec /\ Job!Spec
PROOF
<1>1. MCInit => Init /\ Schedule!Init /\ Job!Init
  BY DEF MCInit
<1>2. [MCNext]_allVars => [Next]_vars /\ [Schedule!Next]_(Schedule!vars) /\ [Job!Next]_(Job!vars)
  BY DEF MCNext, OfEvents, OfSchedules, OfJobs, allVars, scheduleVars, jobVars, Schedule!vars,
         Schedule!tables, Schedule!memory, Schedule!bounds, Job!vars
<1> QED BY <1>1, <1>2, PTL DEF MCSpec, Spec, Schedule!Spec, Job!Spec

\* Whatever edits, creations and deletions overlap: with no statement lost, a
\* schedule that nobody is editing has a pipe to deliver to.
THEOREM DestinationsStay == MCSpec => []DestinationsKept
PROOF BY SchedulesHold, PartsRun, PTL DEF DestinationsKept

\* Whatever edits, pauses, crashes and slow executions overlap: the executor runs
\* no due time of one arming twice, unless the row could not be advanced.
THEOREM NothingRefires == MCSpec => NoRefire
PROOF BY SchedulesHold, PartsRun, PTL DEF NoRefire

\* Whatever operations, repeated requests and restarts overlap: a job that has
\* ended stays as it ended, a job whose cancellation was accepted does not
\* succeed, and a key stands for one job.
THEOREM OutcomesStay == MCSpec => OutcomeIsFinal
PROOF BY JobsFinal, PartsRun, PTL DEF OutcomeIsFinal
=============================================================================
