------------------------------ MODULE MCAutomation ------------------------------
(* Work that nobody waits for, for TLC: events that invoke agents, schedules,    *)
(* and durable jobs.  They share no state, so each behaviour is one of a single  *)
(* part, chosen at the start.                                                    *)
EXTENDS EventFanout

CONSTANTS Schedules, Pipes, Writers, Periods, MaxTime, KeepFired, MaxWrites,
          Callers, Jobs, Keys, MaxCalls

VARIABLES part,
          now, row, pipes, writer, batch, runs, threads, armed, fired, writes, scheduleFaults,
          job, caller, told, cancelled, calls

Schedule == INSTANCE Schedules WITH faults <- scheduleFaults
Job == INSTANCE Jobs

ASSUME SchedulePeriods == Schedule!PeriodsAssumption

scheduleVars == <<now, row, pipes, writer, batch, runs, threads, armed, fired, writes, scheduleFaults>>
jobVars == <<job, caller, told, cancelled, calls>>
allVars == <<part, vars, scheduleVars, jobVars>>

OfEvents(A) == part = "events" /\ A /\ UNCHANGED <<part, scheduleVars, jobVars>>
OfSchedules(A) == part = "schedules" /\ A /\ UNCHANGED <<part, vars, jobVars>>
OfJobs(A) == part = "jobs" /\ A /\ UNCHANGED <<part, vars, scheduleVars>>

MCInit ==
    /\ part \in {"events", "schedules", "jobs"}
    /\ Init /\ Schedule!Init /\ Job!Init
    /\ part # "events" => active = {}
    /\ part # "schedules" => \A a \in Schedules : row[a] = Schedule!Absent

MCNext == OfEvents(Next) \/ OfSchedules(Schedule!Next) \/ OfJobs(Job!Next)

MCSpec ==
    /\ MCInit /\ [][MCNext]_allVars
    /\ WF_allVars(OfEvents(FanOut)) /\ WF_allVars(OfSchedules(Schedule!Tick))

\* Of Schedules.
NoRefire == Schedule!NoRefire
DestinationsKept == Schedule!DestinationsKept
DueIsHandled == Schedule!DueIsHandled

\* Of Jobs.
OutcomeIsFinal == Job!OutcomeIsFinal
=============================================================================
