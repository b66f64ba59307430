------------------------------ MODULE MCAgentWork ------------------------------
(* An agent at work, for TLC: the turns of a thread, the lessons and facts the    *)
(* agent keeps from them, and the tools it has with their policies.  The four     *)
(* share no state, so each behaviour is one of a single part, chosen at the       *)
(* start.  Turns may be permuted, and with them the tasks that ask for tools,     *)
(* for which the same model values stand.                                         *)
EXTENDS AgentTurn, TLC

CONSTANTS t1, t2,
          Texts, Facts, Interval, MinSignals, MaxActive, MinFacts, MaxInsights, MaxSignals, MaxEdits,
          Tools, Builtin, Recommended, PolicyChoices, Tasks, MaxChoices

VARIABLES part,
          signals, insights, reflection, resetting, facts, optimizer, recorded, edits,
          installed, setup, discovered, global, own, sync, page, choices, refusals,
          byHand, relisted, chosen, late

Lesson == INSTANCE Lessons
             WITH MaxRows <- MaxInsights, MaxTurns <- MaxSignals,
                  rows <- insights, turn <- reflection
Policy == INSTANCE ToolPolicies
             WITH MaxChanges <- MaxChoices,
                  changes <- choices, faults <- refusals, overtaken <- relisted

ASSUME ToolConstants == Policy!PolicyAssumption
ASSUME LessonConstants == Lesson!LessonAssumption

lessonVars == <<signals, insights, reflection, resetting, facts, optimizer, recorded, edits>>
policyVars == <<installed, setup, discovered, global, own, sync, page, choices, refusals,
                byHand, relisted, chosen, late>>
allVars == <<part, vars, lessonVars, policyVars>>

\* The parts that do not run in a behaviour start in one way.
MCInit ==
    /\ part \in {"turns", "lessons", "profile", "policies"}
    /\ Init /\ Lesson!Init /\ Policy!Init
    /\ part # "turns" => threaded

MCNext ==
    \/ part = "turns" /\ Next /\ UNCHANGED <<part, lessonVars, policyVars>>
    \/ part = "lessons" /\ Lesson!ReflectNext /\ UNCHANGED <<part, vars, policyVars>>
    \/ part = "profile" /\ Lesson!ProfileNext /\ UNCHANGED <<part, vars, policyVars>>
    \/ part = "policies" /\ Policy!Next /\ UNCHANGED <<part, vars, lessonVars>>

MCSpec == MCInit /\ [][MCNext]_allVars

\* Every tool comes with a recommendation.
AllAsk == [tool \in Tools |-> "ask"]

TurnSymmetry == Permutations({t1, t2})

\* Of Lessons: what an agent takes for granted was earned.
TrustEarned == Lesson!TrustEarned

\* Of ToolPolicies: what an agent does without asking was decided by somebody.
PoliciesFollowTools == Policy!PoliciesFollowTools
=============================================================================
