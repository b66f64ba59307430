------------------------------- MODULE Schedules -------------------------------
(***************************************************************************)
(* Recurring schedules and one-shot reminders: the executor's tick         *)
(* (schedules/executor.rs), the rows it reads and advances                 *)
(* (schedules/mod.rs), and the requests that create, edit, pause, resume,  *)
(* toggle and delete them at the same time (services/automations.rs,       *)
(* api/mobile.rs and the chat commands).                                   *)
(*                                                                         *)
(* Rows, pipe associations and threads are tables: they survive a crash.   *)
(* A cron expression is abstracted to its period: it fires at the          *)
(* multiples of the period, in the time of its zone.  Names, prompts and   *)
(* agents decide nothing here.                                             *)
(***************************************************************************)
EXTENDS Naturals, FiniteSets

CONSTANTS
  Schedules,     \* ids of rows; a deleted one is not used again
  Pipes,
  Writers,       \* requests under way at the same time
  Periods,       \* cron expressions
  MaxTime,       \* bound on the clock
  KeepFired,     \* age at which a fired reminder is removed (7 days)
  MaxWrites,     \* bound on the requests
  MaxFaults      \* bound on crashes, failing statements, dropped requests

VARIABLES
  now,
  row,           \* schedules: the row of each id, or Absent or Gone
  pipes,         \* schedule_pipes
  writer,        \* each request, between two of its statements
  batch,         \* the tick's copies of the due rows
  runs,          \* execute_on_pipe tasks
  threads,       \* schedule threads, one per schedule and pipe
  armed,         \* how often a user has set when the row fires
  fired,         \* executed and advanced: schedule, arming, due time
  writes, faults

tables == <<row, pipes, armed>>
memory == <<batch, runs, threads, fired>>
bounds == <<writes, faults>>
vars == <<now, tables, writer, memory, bounds>>

Absent == [here |-> "not yet"]
Gone == [here |-> "deleted"]
Never == 0
Idle == [pc |-> "idle"]
Exists(a) == row[a] \notin {Absent, Gone}
Busy(a) == \E w \in Writers : writer[w] # Idle /\ writer[w].id = a

\* A cron expression fires again and again.
PeriodsAssumption == Periods \subseteq Nat \ {0}

(* The first occurrence strictly after t.                                   *)
NextRun(period, t) == (t \div period + 1) * period

(* When a row fires: a period, or once at a time.  An edit to one-shot      *)
(* timing that overlaps an edit to recurring timing leaves neither.         *)
Recurring == [oneShot : {FALSE}, period : Periods, at : {Never}]
OneShot == [oneShot : {TRUE}, period : {Never}, at : 1..MaxTime]
Timings == Recurring \cup OneShot
FirstRun(t) == IF t.oneShot THEN t.at ELSE NextRun(t.period, now)

Due(a) == Exists(a) /\ row[a].active /\ row[a].next <= now

NewRow(t) == [active |-> TRUE, oneShot |-> t.oneShot, period |-> t.period,
              next |-> FirstRun(t), last |-> Never]

\* Each schedule was created before, or is not there yet.
Init ==
  /\ now = 1
  /\ row \in [Schedules -> {Absent} \cup {NewRow(t) : t \in Timings}]
  /\ pipes \in {f \in [Schedules -> SUBSET Pipes] :
                \A a \in Schedules : f[a] = {} <=> row[a] = Absent}
  /\ writer = [w \in Writers |-> Idle]
  /\ batch = {} /\ runs = {} /\ threads = {} /\ fired = {}
  /\ armed = [a \in Schedules |-> 0]
  /\ writes = 0 /\ faults = 0

-----------------------------------------------------------------------------
(* Requests: one statement at a time                                        *)

Begin(w) ==
  /\ writer[w] = Idle
  /\ writes < MaxWrites /\ writes' = writes + 1
  /\ UNCHANGED <<faults, now, memory>>

Continue(w, pc) ==
  /\ writer[w].pc = pc
  /\ UNCHANGED <<bounds, now, memory>>

Goto(w, pc) == writer' = [writer EXCEPT ![w].pc = pc]
Done(w) == writer' = [writer EXCEPT ![w] = Idle]

\* A user's statement that sets when the row fires; none if the row is gone.
Arm(a, r) ==
  IF Exists(a)
  THEN /\ row' = [row EXCEPT ![a] = r]
       /\ armed' = [armed EXCEPT ![a] = @ + 1]
  ELSE UNCHANGED <<row, armed>>

\* The pipes are inserted after the row.
Insert(w, a, t, dest) ==
  /\ Begin(w)
  /\ row[a] = Absent
  /\ row' = [row EXCEPT ![a] = NewRow(t)]
  /\ armed' = [armed EXCEPT ![a] = 1]
  /\ writer' = [writer EXCEPT ![w] = [pc |-> "pipes", id |-> a, left |-> dest, then |-> "done"]]
  /\ UNCHANGED pipes

Create(w, a, t, dest) == (t.oneShot => t.at > now) /\ Insert(w, a, t, dest)

\* An agent's tool call, for the pipe of its turn.
ToolCreates(w, a, t, p) == (t.oneShot => t.at > now) /\ Insert(w, a, t, {p})

\* A chat command accepts whatever time the language model made of the text.
CommandCreates(w, a, t, p) == Insert(w, a, t, {p})

Update(w, a, t, dest) ==
  /\ Begin(w)
  /\ Exists(a)
  /\ t.oneShot => t.at > now
  /\ writer' = [writer EXCEPT ![w] =
        [pc |-> IF t.oneShot THEN "once" ELSE "verify", id |-> a, timing |-> t, left |-> dest,
         then |-> "recurring"]]
  /\ UNCHANGED tables

\* update_schedule looks whether the row is still there, in a statement of its own.
Verify(w) ==
  /\ Continue(w, "verify")
  /\ IF Exists(writer[w].id) THEN Goto(w, "cron") ELSE Done(w)
  /\ UNCHANGED tables

SetRecurring(w) ==
  LET a == writer[w].id  t == writer[w].timing IN
  /\ Continue(w, "cron")
  /\ Arm(a, [row[a] EXCEPT !.period = t.period, !.next = FirstRun(t)])
  /\ Goto(w, "clear")
  /\ UNCHANGED pipes

\* Mutant: the associations are replaced in the order insert, delete.
ClearAtTheEnd(w) ==
  /\ Continue(w, "clear")
  /\ pipes' = [pipes EXCEPT ![writer[w].id] = {}]
  /\ Done(w)
  /\ UNCHANGED <<row, armed>>

Clear(w) ==
  /\ Continue(w, "clear")
  /\ pipes' = [pipes EXCEPT ![writer[w].id] = {}]
  /\ Goto(w, "pipes")
  /\ UNCHANGED <<row, armed>>

\* A pipe that is there already, or a row that is gone, is an error.
InsertPipe(w, p) ==
  LET a == writer[w].id  left == writer[w].left \ {p} IN
  /\ Continue(w, "pipes")
  /\ p \in writer[w].left
  /\ IF Exists(a) /\ p \notin pipes[a]
     THEN /\ pipes' = [pipes EXCEPT ![a] = @ \cup {p}]
          /\ writer' =
               [writer EXCEPT ![w] =
                  IF left # {} THEN [@ EXCEPT !.left = left]
                  ELSE IF @.then = "done" THEN Idle
                  ELSE [pc |-> @.then, id |-> a]]
     ELSE Done(w) /\ UNCHANGED pipes
  /\ UNCHANGED <<row, armed>>

FinishRecurring(w) ==
  LET a == writer[w].id IN
  /\ Continue(w, "recurring")
  /\ row' = IF Exists(a) THEN [row EXCEPT ![a].oneShot = FALSE] ELSE row
  /\ Done(w)
  /\ UNCHANGED <<pipes, armed>>

SetOneShot(w) ==
  LET a == writer[w].id  t == writer[w].timing IN
  /\ Continue(w, "once")
  /\ Arm(a, [row[a] EXCEPT !.oneShot = TRUE, !.period = Never, !.next = t.at])
  /\ IF Exists(a) THEN Goto(w, "replace") ELSE Done(w)
  /\ UNCHANGED pipes

ReplacePipes(w) ==
  LET a == writer[w].id IN
  /\ Continue(w, "replace")
  /\ pipes' = IF Exists(a) THEN [pipes EXCEPT ![a] = writer[w].left] ELSE pipes
  /\ Done(w)
  /\ UNCHANGED <<row, armed>>

\* set_automation_state(true) writes what follows from the row it read.
Resume(w, a) ==
  /\ Begin(w)
  /\ Exists(a) /\ ~row[a].active
  /\ IF row[a].oneShot THEN row[a].next > now ELSE row[a].period # Never
  /\ writer' = [writer EXCEPT ![w] =
        [pc |-> "activate", id |-> a,
         next |-> IF row[a].oneShot THEN row[a].next ELSE NextRun(row[a].period, now)]]
  /\ UNCHANGED tables

Activate(w) ==
  LET a == writer[w].id IN
  /\ Continue(w, "activate")
  /\ Arm(a, [row[a] EXCEPT !.active = TRUE, !.next = writer[w].next])
  /\ Done(w)
  /\ UNCHANGED pipes

Pause(w, a) ==
  /\ Begin(w)
  /\ Exists(a) /\ row[a].active
  /\ row' = [row EXCEPT ![a].active = FALSE]
  /\ UNCHANGED <<pipes, armed, writer>>

\* toggle_schedule flips first and looks at the row afterwards.
Toggle(w, a) ==
  /\ Begin(w)
  /\ Exists(a)
  /\ Arm(a, [row[a] EXCEPT !.active = ~@])
  /\ writer' = [writer EXCEPT ![w] = [pc |-> "reread", id |-> a]]
  /\ UNCHANGED pipes

Reread(w) ==
  LET a == writer[w].id IN
  /\ Continue(w, "reread")
  /\ writer' = [writer EXCEPT ![w] =
        IF Exists(a) /\ row[a].active /\ ~row[a].oneShot /\ row[a].period # Never
        THEN [pc |-> "recompute", id |-> a, next |-> NextRun(row[a].period, now)]
        ELSE Idle]
  /\ UNCHANGED tables

Recompute(w) ==
  LET a == writer[w].id IN
  /\ Continue(w, "recompute")
  /\ Arm(a, [row[a] EXCEPT !.next = writer[w].next])
  /\ Done(w)
  /\ UNCHANGED pipes

DeleteRow(a) ==
  /\ row' = IF Exists(a) THEN [row EXCEPT ![a] = Gone] ELSE row
  /\ pipes' = [pipes EXCEPT ![a] = {}]
  /\ UNCHANGED armed

Delete(w, a) == Begin(w) /\ Exists(a) /\ DeleteRow(a) /\ UNCHANGED writer

\* The chat command looks the name up and deletes what it found.
FindByName(w, a) ==
  /\ Begin(w)
  /\ Exists(a)
  /\ writer' = [writer EXCEPT ![w] = [pc |-> "delete", id |-> a]]
  /\ UNCHANGED tables
DeleteFound(w) == Continue(w, "delete") /\ DeleteRow(writer[w].id) /\ Done(w)

\* A statement fails, or the client disconnects: what is written stays.
Fault == faults < MaxFaults /\ faults' = faults + 1 /\ UNCHANGED <<writes, now>>
Break(w) == Fault /\ writer[w] # Idle /\ Done(w) /\ UNCHANGED <<tables, memory>>

-----------------------------------------------------------------------------
(* The executor                                                             *)

\* cleanup_fired_reminders, before the tick looks for due rows.
Stale(a) ==
  Exists(a) /\ row[a].oneShot /\ ~row[a].active
    /\ row[a].last # Never /\ row[a].last + KeepFired < now

\* Rows are copied first, the pipes of each copy in a query of their own.
Fetch ==
  /\ batch = {}
  /\ row' = [a \in Schedules |-> IF Stale(a) THEN Gone ELSE row[a]]
  /\ pipes' = [a \in Schedules |-> IF Stale(a) THEN {} ELSE pipes[a]]
  /\ batch' = {[id |-> a, arm |-> armed[a], due |-> row[a].next, oneShot |-> row[a].oneShot,
                period |-> row[a].period, loaded |-> FALSE, dest |-> {}] :
               a \in {b \in Schedules : Due(b)}}
  /\ batch' # {} \/ row' # row
  /\ UNCHANGED <<now, writer, armed, runs, threads, fired, bounds>>

\* A query that fails counts as no pipes.
LoadPipes(c) ==
  /\ c \in batch /\ ~c.loaded
  /\ \E dest \in {pipes[c.id], {}} :
       /\ IF dest = pipes[c.id] THEN UNCHANGED bounds ELSE Fault
       /\ batch' = (batch \ {c}) \cup {[c EXCEPT !.loaded = TRUE, !.dest = dest]}
  /\ UNCHANGED <<now, tables, writer, runs, threads, fired>>

\* Mutant: a schedule with no pipes is skipped before it is advanced.
AdvancedIfDelivered(c) ==
  [row EXCEPT ![c.id] =
     CASE c.dest = {} -> @
       [] c.oneShot \/ c.period = Never -> [@ EXCEPT !.active = FALSE, !.last = now]
       [] OTHER -> [@ EXCEPT !.last = now, !.next = NextRun(c.period, now)]]

\* Mutant: the next run is the first occurrence not before now.
AdvancedToNow(c) ==
  [row EXCEPT ![c.id] =
     IF c.oneShot \/ c.period = Never THEN [@ EXCEPT !.active = FALSE, !.last = now]
     ELSE [@ EXCEPT !.last = now, !.next = NextRun(c.period, now - 1)]]

\* mark_executed, from the copy and not from the row as it is now.
Advanced(c) ==
  [row EXCEPT ![c.id] =
     IF c.oneShot \/ c.period = Never THEN [@ EXCEPT !.active = FALSE, !.last = now]
     ELSE [@ EXCEPT !.last = now, !.next = NextRun(c.period, now)]]

Start(c) ==
  /\ c \in batch /\ \A d \in batch : d.loaded
  /\ batch' = batch \ {c}
  /\ runs' = runs \cup {[id |-> c.id, pipe |-> p, due |-> c.due, pc |-> "find"] :
                         p \in c.dest}
  /\ UNCHANGED <<pipes, armed, writer, threads, now, writes>>

\* Advanced first, so that a slow execution does not fire it again.
Execute(c) ==
  /\ Start(c)
  /\ row' = IF Exists(c.id) THEN Advanced(c) ELSE row
  /\ fired' = fired \cup {<<c.id, c.arm, c.due>>}
  /\ UNCHANGED faults

\* The result of the statement is ignored: the schedule stays due.
AdvanceFails(c) == Start(c) /\ Fault /\ UNCHANGED <<row, fired>>

SetRun(r, pc) == runs' = (runs \ {r}) \cup {[r EXCEPT !.pc = pc]}
RunStep(r, pc) ==
  /\ r \in runs /\ r.pc = pc
  /\ UNCHANGED <<now, tables, writer, batch, fired, bounds>>

FindThread(r) ==
  /\ RunStep(r, "find")
  /\ SetRun(r, IF <<r.id, r.pipe>> \in threads THEN "turn" ELSE "create")
  /\ UNCHANGED threads

\* The index on pipe and schedule refuses a second thread: the run ends.
CreateThread(r) ==
  /\ RunStep(r, "create")
  /\ IF <<r.id, r.pipe>> \in threads
     THEN runs' = runs \ {r} /\ UNCHANGED threads
     ELSE SetRun(r, "turn") /\ threads' = threads \cup {<<r.id, r.pipe>>}

\* The turn fails or has nothing to say, or there is a reply to deliver.
RunTurn(r) ==
  /\ RunStep(r, "turn")
  /\ SetRun(r, "deliver") \/ runs' = runs \ {r}
  /\ UNCHANGED threads

\* To the channel's sender if there is one, and as a push to the phones.
Deliver(r) == RunStep(r, "deliver") /\ runs' = runs \ {r} /\ UNCHANGED threads

\* The orchestrator is killed and started again.
Crash ==
  /\ Fault
  /\ batch' = {} /\ runs' = {}
  /\ writer' = [w \in Writers |-> Idle]
  /\ UNCHANGED <<tables, threads, fired>>

TimePasses ==
  /\ now < MaxTime /\ now' = now + 1
  /\ UNCHANGED <<tables, writer, memory, bounds>>

-----------------------------------------------------------------------------
Request(w) ==
  \/ \E a \in Schedules :
       \/ \E t \in Timings, dest \in (SUBSET Pipes) \ {{}} :
            Create(w, a, t, dest) \/ Update(w, a, t, dest)
       \/ \E t \in Timings, p \in Pipes : ToolCreates(w, a, t, p) \/ CommandCreates(w, a, t, p)
       \/ Resume(w, a) \/ Pause(w, a) \/ Toggle(w, a) \/ Delete(w, a) \/ FindByName(w, a)
  \/ Verify(w) \/ SetRecurring(w) \/ Clear(w) \/ FinishRecurring(w)
  \/ SetOneShot(w) \/ ReplacePipes(w) \/ Activate(w) \/ Reread(w) \/ Recompute(w)
  \/ DeleteFound(w) \/ \E p \in Pipes : InsertPipe(w, p)

Tick == Fetch \/ \E c \in batch : LoadPipes(c) \/ Execute(c)
Run == \E r \in runs : FindThread(r) \/ CreateThread(r) \/ RunTurn(r) \/ Deliver(r)

Next ==
  \/ \E w \in Writers : Request(w) \/ Break(w)
  \/ Tick \/ Run \/ Crash \/ TimePasses
  \/ \E c \in batch : AdvanceFails(c)

Spec == Init /\ [][Next]_vars
FairSpec == Spec /\ WF_vars(Tick)

-----------------------------------------------------------------------------
(* What an overlapping edit, a pause and resume, a crash and a slow         *)
(* execution could break: the executor never runs the same due time of one  *)
(* arming twice (mark_executed goes first and moves strictly ahead), unless *)
(* the statement that advances the row failed.                              *)
NoRefire ==
  [][\A c \in batch :
       c.loaded /\ c \notin batch' /\ faults' = faults
         => <<c.id, c.arm, c.due>> \notin fired]_vars

(* Editing recurring timing clears and reinserts the pipes one by one, and  *)
(* two editors interleave: with no statement lost, a schedule that nobody   *)
(* is editing has a pipe, or all its runs would be skipped in silence.      *)
DestinationsKept ==
  \A a \in Schedules : Exists(a) /\ ~Busy(a) /\ faults = 0 => pipes[a] # {}

(* A schedule does not stay due for ever: each tick advances or retires     *)
(* what it fetched, even when there is no pipe to deliver to, the row was   *)
(* edited meanwhile or a statement failed.                                  *)
DueIsHandled == \A a \in Schedules : Due(a) ~> ~Due(a)
=============================================================================
