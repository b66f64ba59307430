--------------------------------- MODULE Jobs ---------------------------------
(***************************************************************************)
(* Durable jobs (services/jobs.rs, api/jobs.rs): creation under an         *)
(* idempotency key, and the operations of producers and of the user, each  *)
(* of which reads the status and then writes under the condition that the  *)
(* status is still the one read; with the restart that interrupts what     *)
(* was running.                                                            *)
(*                                                                         *)
(* One owner and one kind of job.  Payloads and progress decide nothing;   *)
(* what is kept of a payload is whether the row has a result or an error.  *)
(***************************************************************************)
EXTENDS Naturals, FiniteSets

CONSTANTS
  Callers,       \* operations under way at the same time
  Jobs,          \* ids, a fresh one for each insert
  Keys,          \* idempotency keys
  MaxCalls       \* bound on the operations

VARIABLES
  job,           \* the row of each id, or None
  caller,        \* each operation, between two of its statements
  told,          \* the jobs that callers of create were answered with
  cancelled,     \* jobs whose cancellation was accepted
  calls

vars == <<job, caller, told, cancelled, calls>>

None == [status |-> "none"]
Idle == [pc |-> "idle"]
Exists(j) == job[j] # None
Terminal == {"succeeded", "failed", "cancelled", "interrupted"}
Statuses == {"queued", "running", "waiting_for_input", "cancelling"} \cup Terminal

can_transition(from, to) ==
  to \in CASE from = "queued" -> {"running", "waiting_for_input", "failed", "cancelled", "interrupted"}
           [] from = "running" -> {"waiting_for_input", "succeeded", "failed", "cancelling", "interrupted"}
           [] from = "waiting_for_input" -> {"running", "succeeded", "failed", "cancelled", "interrupted"}
           [] from = "cancelling" -> {"failed", "cancelled", "interrupted"}
           [] OTHER -> {}

Init ==
  /\ job = [j \in Jobs |-> None]
  /\ caller = [c \in Callers |-> Idle]
  /\ told = {} /\ cancelled = {}
  /\ calls = 0

-----------------------------------------------------------------------------
(* Creation                                                                 *)

Begin(c) == caller[c] = Idle /\ calls < MaxCalls /\ calls' = calls + 1
WithKey(k) == {j \in Jobs : Exists(j) /\ job[j].key = k}

\* The key of a request that is repeated finds the job of the first.
FindIdempotent(c, k) ==
  /\ Begin(c)
  /\ IF WithKey(k) = {}
     THEN caller' = [caller EXCEPT ![c] = [pc |-> "insert", key |-> k]] /\ UNCHANGED told
     ELSE told' = told \cup {<<k, j>> : j \in WithKey(k)} /\ UNCHANGED caller
  /\ UNCHANGED <<job, cancelled>>

\* A second insert under the key violates the index, and looks again.
Insert(c, j) ==
  LET k == caller[c].key IN
  /\ caller[c].pc = "insert"
  /\ job[j] = None
  /\ IF WithKey(k) = {}
     THEN /\ job' = [job EXCEPT ![j] = [status |-> "queued", key |-> k,
                                        result |-> FALSE, error |-> FALSE]]
          /\ told' = told \cup {<<k, j>>}
     ELSE /\ told' = told \cup {<<k, i>> : i \in WithKey(k)}
          /\ UNCHANGED job
  /\ caller' = [caller EXCEPT ![c] = Idle]
  /\ UNCHANGED <<cancelled, calls>>

-----------------------------------------------------------------------------
(* Operations: read the status, decide, write if it has not changed         *)

Plan(c, j, to, cancel) ==
  /\ Begin(c)
  /\ Exists(j)
  /\ caller' = [caller EXCEPT ![c] = [pc |-> to, id |-> j, from |-> job[j].status,
                                      cancel |-> cancel]]
  /\ UNCHANGED <<job, told, cancelled>>

Asks(c, j, to, cancel) ==
  /\ Exists(j) /\ (to = job[j].status \/ can_transition(job[j].status, to))
  /\ Plan(c, j, to, cancel)

Update(c, j, to) == Asks(c, j, to, FALSE)

Progress(c, j) ==
  /\ Exists(j) /\ job[j].status \notin Terminal
  /\ Plan(c, j, job[j].status, FALSE)

Complete(c, j) ==
  /\ Exists(j) /\ job[j].status \in {"running", "waiting_for_input"}
  /\ Plan(c, j, "complete", FALSE)

Fail(c, j) ==
  /\ Exists(j) /\ job[j].status \notin Terminal
  /\ Plan(c, j, "fail", FALSE)

(* These two look at the job first, for what to ask, and return if it has   *)
(* ended; the update then reads it again. Only a job that runs is asked to  *)
(* stop, one that waits is cancelled at once: whatever was chosen then, the *)
(* second reading must allow it.                                            *)
RequestCancel(c, j) == \E to \in {"cancelling", "cancelled"} : Asks(c, j, to, TRUE)

MarkInterrupted(c, j) == Asks(c, j, "interrupted", FALSE)

\* Mutant: the UPDATE names the row by its id alone.
WriteAnyway(c, pc, row) ==
  /\ caller[c].pc = pc
  /\ job' = [job EXCEPT ![caller[c].id] = row]
  /\ cancelled' = IF caller[c].cancel THEN cancelled \cup {caller[c].id} ELSE cancelled
  /\ caller' = [caller EXCEPT ![c] = Idle]
  /\ UNCHANGED <<told, calls>>

\* The caller is told of a conflict if the status is another one by now.
Write(c, pc, row) ==
  /\ caller[c].pc = pc
  /\ IF job[caller[c].id].status = caller[c].from
     THEN /\ job' = [job EXCEPT ![caller[c].id] = row]
          /\ cancelled' = IF caller[c].cancel THEN cancelled \cup {caller[c].id} ELSE cancelled
     ELSE UNCHANGED <<job, cancelled>>
  /\ caller' = [caller EXCEPT ![c] = Idle]
  /\ UNCHANGED <<told, calls>>

Row(c) == job[caller[c].id]
SetStatus(c) == \E s \in Statuses : Write(c, s, [Row(c) EXCEPT !.status = s])
Succeed(c) ==
  /\ caller[c].pc = "complete"
  /\ Write(c, "complete", [Row(c) EXCEPT !.status = "succeeded", !.result = TRUE, !.error = FALSE])
FinishWithPayload(c) ==
  /\ caller[c].pc = "fail"
  /\ Write(c, "fail", [Row(c) EXCEPT !.status = "failed", !.error = TRUE, !.result = FALSE])

\* The process stops and starts again: what waits for someone stays.
Reconcile ==
  /\ calls < MaxCalls /\ calls' = calls + 1
  /\ job' = [j \in Jobs |-> IF job[j].status \in {"running", "cancelling"}
                            THEN [job[j] EXCEPT !.status = "interrupted"] ELSE job[j]]
  /\ caller' = [c \in Callers |-> Idle]
  /\ UNCHANGED <<told, cancelled>>

Next ==
  \/ \E c \in Callers :
        \/ \E k \in Keys : FindIdempotent(c, k)
        \/ \E j \in Jobs :
              \/ Insert(c, j) \/ Progress(c, j) \/ Complete(c, j) \/ Fail(c, j)
              \/ RequestCancel(c, j) \/ MarkInterrupted(c, j)
              \/ \E s \in Statuses : Update(c, j, s)
        \/ SetStatus(c) \/ Succeed(c) \/ FinishWithPayload(c)
  \/ Reconcile

Spec == Init /\ [][Next]_vars

-----------------------------------------------------------------------------
(* Properties                                                               *)

(* Operations that overlap never revive a job that has ended, nor let one   *)
(* succeed after its cancellation was accepted; an ended job keeps the      *)
(* payload it ended with.  All who create a job under one key are answered  *)
(* with the same job, however their requests overlap.                       *)
OutcomeIsFinal ==
  [][\A j \in Jobs :
       /\ job[j].status \in Terminal => job'[j] = job[j]
       /\ j \in cancelled => job'[j].status # "succeeded"
       /\ \A t \in told' : <<t[1], j>> \in told' => t[2] = j]_vars
=============================================================================
