-------------------------------- MODULE Lessons --------------------------------
(***************************************************************************)
(* What an agent learns from its turns: behavioral lessons                 *)
(* (agents/improvement.rs) and the facts of a profile (agents/profile.rs,  *)
(* agents/personality.rs), for one agent and one user.                     *)
(*                                                                         *)
(* After each reply two tasks of their own ask a model what there is to    *)
(* learn, while the user reviews what was learned before.  Every statement *)
(* is a step: what is written was computed from what was read earlier.     *)
(* Confidence is sure or not, support is counted up to a whole batch, and  *)
(* facts that say the same are one.                                        *)
(***************************************************************************)
EXTENDS Naturals, FiniteSets

CONSTANTS Turns,        \* replies whose lessons are under way at the same time
          Texts,        \* lesson_text
          Facts,        \* fact_text
          Interval,     \* REFLECTION_INTERVAL
          MinSignals,   \* MIN_AUTO_ACTIVATE_SIGNALS
          MaxActive,    \* MAX_ACTIVE_INSIGHTS
          MinFacts,     \* OPTIMIZE_MIN_FACTS
          MaxRows,      \* bound: rows ever inserted in agent_insights
          MaxTurns,     \* bound: turns recorded
          MaxEdits      \* bound: changes of facts

VARIABLES signals,      \* rows of turn_signals
          rows,         \* agent_insights: id -> row, or Free, or Gone
          turn,         \* what process_turn_signal is about to do
          resetting,    \* reset_all is between its two statements
          facts,        \* user_profile
          optimizer,    \* optimize_facts waits for an answer about these facts
          recorded, edits

lessons == <<signals, rows, turn, resetting, recorded>>
profile == <<facts, optimizer, edits>>
vars == <<lessons, profile>>

LessonAssumption == {Interval, MinSignals} \subseteq Nat

Ids == 1..MaxRows
Free == [status |-> "free"]
Gone == [status |-> "gone"]
Kept == {"candidate", "active", "paused"}
Idle == [op |-> "idle"]
Done(t) == turn' = [turn EXCEPT ![t] = Idle]

Init == /\ signals = 0 /\ rows = [r \in Ids |-> Free]
        /\ turn = [t \in Turns |-> Idle] /\ resetting = FALSE
        /\ facts = {} /\ optimizer = {}
        /\ recorded = 0 /\ edits = 0

-----------------------------------------------------------------------------
(***************************************************************************)
(* Lessons.                                                                *)
(***************************************************************************)

\* record_turn_signal, in a task of its own after the reply.
RecordSignal(t) ==
    /\ turn[t] = Idle /\ recorded < MaxTurns
    /\ recorded' = recorded + 1 /\ signals' = signals + 1
    /\ turn' = [turn EXCEPT ![t] = [op |-> "count"]]
    /\ UNCHANGED <<rows, resetting, profile>>

\* count_signals, and extract_insights at the end of a batch.
Count(t) ==
    /\ turn[t].op = "count"
    /\ IF signals > 0 /\ signals % Interval = 0
       THEN turn' = [turn EXCEPT ![t] = [op |-> "extract"]]
       ELSE Done(t)
    /\ UNCHANGED <<signals, rows, resetting, recorded, profile>>

\* The answer of the model, lesson by lesson, or nothing more, or an error.
Answer(t) ==
    /\ turn[t].op = "extract"
    /\ \/ \E text \in Texts, sure \in BOOLEAN, n \in 1..Interval :
            turn' = [turn EXCEPT ![t] = [op |-> "add", text |-> text, sure |-> sure, seen |-> n]]
       \/ Done(t)
    /\ UNCHANGED <<signals, rows, resetting, recorded, profile>>

\* add_insight reads the row with this text, if one is kept.
Find(t) ==
    /\ turn[t].op = "add"
    /\ LET new == turn[t]
           same == {r \in Ids : rows[r].status \in Kept /\ rows[r].text = new.text}
       IN  \/ /\ same = {}
              /\ turn' = [turn EXCEPT ![t] = [op |-> "slot", id |-> 0, text |-> new.text, sure |-> new.sure,
                                              seen |-> new.seen, status |-> "candidate"]]
           \/ \E r \in same :
                turn' = [turn EXCEPT ![t] =
                    [op |-> "slot", id |-> r, text |-> new.text, sure |-> new.sure \/ rows[r].sure,
                     seen |-> IF rows[r].seen + new.seen > Interval THEN Interval ELSE rows[r].seen + new.seen,
                     status |-> rows[r].status]]
    /\ UNCHANGED <<signals, rows, resetting, recorded, profile>>

\* Mutant: confidence, or support by several turns.
QualifiesEither(sure, seen) == sure \/ seen >= MinSignals

\* qualifies_for_auto_activation
Qualifies(sure, seen) == sure /\ seen >= MinSignals

\* has_active_slot
HasSlot == Cardinality({r \in Ids : rows[r].status = "active"}) < MaxActive

ChooseStatus(t) ==
    /\ turn[t].op = "slot"
    /\ turn' = [turn EXCEPT ![t].op = "store",
                            ![t].status = IF @ = "candidate" /\ Qualifies(turn[t].sure, turn[t].seen) /\ HasSlot
                                          THEN "active" ELSE @]
    /\ UNCHANGED <<signals, rows, resetting, recorded, profile>>

\* The INSERT, or the UPDATE with the status that was read; a failure is the next lesson's turn.
Store(t) ==
    /\ turn[t].op = "store"
    /\ LET new == turn[t]
           row(user) == [status |-> new.status, text |-> new.text, sure |-> new.sure, seen |-> new.seen,
                         trusted |-> user]
       IN  \/ new.id = 0 /\ \E r \in Ids :
                /\ rows[r] = Free /\ \A q \in 1..(r - 1) : rows[q] # Free
                /\ rows' = [rows EXCEPT ![r] = row(FALSE)]
           \/ new.id # 0 /\ rows[new.id] # Gone
              /\ rows' = [rows EXCEPT ![new.id] = row(rows[new.id].trusted)]
           \/ UNCHANGED rows
    /\ turn' = [turn EXCEPT ![t] = [op |-> "extract"]]
    /\ UNCHANGED <<signals, resetting, recorded, profile>>

\* What update_improvement lets the user do to a lesson, besides reset_all.
Reviews == {"paused", "active", "rejected"}

\* update_insight_status, for the user: any row still listed may be named.
Review(r, status) ==
    /\ rows[r] \notin {Free, Gone} /\ status # rows[r].status
    /\ rows' = [rows EXCEPT ![r].status = status, ![r].trusted = @ \/ status = "active"]
    /\ UNCHANGED <<signals, turn, resetting, recorded, profile>>

\* reset_all: signals first, lessons in a statement of their own, or never.
ResetSignals ==
    /\ ~resetting /\ signals > 0
    /\ signals' = 0 /\ resetting' = TRUE
    /\ UNCHANGED <<rows, turn, recorded, profile>>

ResetLessons ==
    /\ resetting /\ resetting' = FALSE
    /\ \/ rows' = [r \in Ids |-> IF rows[r] = Free THEN Free ELSE Gone]
       \/ UNCHANGED rows
    /\ UNCHANGED <<signals, turn, recorded, profile>>

\* run_maintenance: old signals, and old suggestions nobody accepted.
Maintain ==
    /\ \/ signals > 0 /\ signals' \in 0..(signals - 1) /\ UNCHANGED rows
       \/ \E r \in Ids : /\ rows[r].status = "candidate"
                         /\ rows' = [rows EXCEPT ![r] = Gone]
                         /\ UNCHANGED signals
    /\ UNCHANGED <<turn, resetting, recorded, profile>>

-----------------------------------------------------------------------------
(***************************************************************************)
(* The profile.                                                            *)
(***************************************************************************)

Edit == edits < MaxEdits /\ edits' = edits + 1

\* add_fact, for the user.
AddFact(f) ==
    /\ f \notin facts /\ Edit
    /\ facts' = facts \cup {f}
    /\ UNCHANGED <<lessons, optimizer>>

\* extract_from_conversation asked a model after a reply, and adds what it was told, known or not.
LearnFact(f) ==
    /\ Edit
    /\ facts' = facts \cup {f}
    /\ UNCHANGED <<lessons, optimizer>>

\* update_fact
UpdateFact(f, g) ==
    /\ f \in facts /\ g \notin facts /\ Edit
    /\ facts' = (facts \ {f}) \cup {g}
    /\ UNCHANGED <<lessons, optimizer>>

\* delete_fact
DeleteFact(f) ==
    /\ f \in facts /\ Edit
    /\ facts' = facts \ {f}
    /\ UNCHANGED <<lessons, optimizer>>

\* optimize_facts reads all facts and asks the model.
BeginOptimize ==
    /\ optimizer = {} /\ Cardinality(facts) >= MinFacts
    /\ optimizer' = facts
    /\ UNCHANGED <<lessons, facts, edits>>

\* Its answer, of no more facts than were read, replaces all there are; blank facts fall out.
\* An answer it cannot use, and a statement that fails, leave them.
Optimize ==
    /\ optimizer # {} /\ optimizer' = {}
    /\ facts' \in SUBSET optimizer \cup {facts}
    /\ UNCHANGED <<lessons, edits>>

ReflectNext ==
    \/ \E t \in Turns :
         RecordSignal(t) \/ Count(t) \/ Answer(t) \/ Find(t) \/ ChooseStatus(t) \/ Store(t)
    \/ \E r \in Ids, status \in Reviews : Review(r, status)
    \/ ResetSignals \/ ResetLessons \/ Maintain

ProfileNext ==
    \/ \E f \in Facts : AddFact(f) \/ LearnFact(f) \/ DeleteFact(f) \/ \E g \in Facts : UpdateFact(f, g)
    \/ BeginOptimize \/ Optimize

Next == ReflectNext \/ ProfileNext

Spec == Init /\ [][Next]_vars

-----------------------------------------------------------------------------
(***************************************************************************)
(* Properties.                                                             *)
(***************************************************************************)

\* agents/improvement.rs:5: an agent follows a lesson on its own only when it is sure of it
\* and several turns support it, whatever writes overtook each other; any other active
\* lesson was activated by the user.
TrustEarned ==
    \A r \in Ids : rows[r].status = "active" => rows[r].trusted \/ (rows[r].sure /\ rows[r].seen >= MinSignals)

=============================================================================
