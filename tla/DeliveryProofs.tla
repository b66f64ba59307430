---------------------------- MODULE DeliveryProofs ----------------------------
(***************************************************************************)
(* Theorems about the ways in and out of Selu, for any users, messages,    *)
(* chats and bounds: a message of a channel is dispatched once and a reply *)
(* reaches the one call that waits for it; the WhatsApp bridge forwards a  *)
(* message once and tells what became of an answer; a page that follows    *)
(* the stream shows every event of the journal, in order.                  *)
(*                                                                         *)
(* The invariants: who holds a message and to whom a row and its sender    *)
(* belong (ChannelInv), which handler has marked a message and what a      *)
(* request has sent so far (BridgeInv), and where an event is on its way   *)
(* from the journal to the page (StreamInv).                               *)
(***************************************************************************)
EXTENDS MCDelivery, TLAPS, FiniteSetTheorems, SequenceTheorems

-----------------------------------------------------------------------------
(* The channels                                                             *)

Turning == {"turn", "prompt", "prompted", "recorded", "waiting_yes"}
Asking == {"prompt", "prompted", "recorded"}
Places == {"absent", "partial", "waiting", "expired", "merged", "dropped", "ready", "pick", "take",
           "pick_user", "take_user", "routed", "reply", "replied", "done", "consumed", "gone"} \cup Turning

Refs == Messages \cup [thread : Nat, n : Nat]

TaskStates == [pc : Places, user : Users, part : {"text", "photo", "whole"},
               re : SUBSET Refs, holds : SUBSET Messages, thread : Nat,
               row : Nat, granted : SUBSET Nat]

ThreadStates == [status : {"active", "failed", "completed"}, out : Nat, known : SUBSET Refs]

RowStates == [thread : Nat, user : Users, status : {"pending", "approved"}, by : Messages]

ChannelTyped ==
  /\ task \in [Messages -> TaskStates]
  /\ slot \in [Users -> SUBSET Messages]
  /\ threads \in Seq(ThreadStates)
  /\ rows \in Seq(RowStates)
  /\ senders \subseteq DOMAIN rows

\* Another envelope holds only a message that was merged into it, and one does.
Held ==
  \A m, o \in Messages :
    o # m /\ m \in task[o].holds =>
      /\ task[m].pc = "merged"
      /\ \A p \in Messages : p # m /\ m \in task[p].holds => p = o

\* A sender belongs to a turn that goes on, and no reply has used it; a row is a turn's
\* own until its sender is there, and one reply takes it.
Answered ==
  /\ \A r \in senders : task[rows[r].by].pc \in Turning
  /\ \A m \in Messages :
       /\ task[m].pc \in Asking \cup {"waiting_yes"} =>
            task[m].row \in DOMAIN rows /\ rows[task[m].row].by = m
       /\ task[m].pc \in Asking => task[m].row \notin senders
       /\ task[m].pc \in {"take", "take_user", "consumed"} => task[m].row \in DOMAIN rows
       /\ task[m].pc = "consumed" =>
            /\ task[m].row \notin senders
            /\ \A n \in Messages :
                 task[n].row = task[m].row =>
                    task[n].pc \notin Asking /\ (task[n].pc = "consumed" => n = m)
       /\ \A r \in task[m].granted : \E n \in Messages : task[n].pc = "consumed" /\ task[n].row = r

ChannelInv == ChannelTyped /\ Held /\ Answered

\* The envelopes hold what they held, and who was merged stays so.
LEMMA HeldKeeps ==
  ASSUME Held, \A o \in Messages : /\ task'[o].holds \subseteq task[o].holds \cup {o}
                                   /\ task[o].pc = "merged" => task'[o].pc = "merged"
  PROVE  Held'
PROOF BY DEF Held

\* One message goes on without a row of its own, and at most senders leave.
LEMMA AnsweredKeeps ==
  ASSUME ChannelTyped, Answered, NEW m \in Messages, rows' = rows, senders' \subseteq senders,
         \A o \in Messages \ {m} : task'[o] = task[o],
         task[m].pc # "consumed", task'[m].granted \subseteq task[m].granted,
         \/ task'[m].pc \notin Asking \cup {"waiting_yes", "take", "take_user", "consumed"}
         \/ task'[m].row = task[m].row /\ task[m].pc \in Asking /\ task'[m].pc \in Asking
         \/ task'[m].pc \in {"take", "take_user"} /\ task'[m].row \in DOMAIN rows,
         \A r \in senders' : rows[r].by = m => task'[m].pc \in Turning
  PROVE  Answered'
PROOF
<1>1. \A r \in senders' : r \in senders /\ rows[r].by \in Messages
  <2>1. \A r \in DOMAIN rows : rows[r] \in RowStates
    BY DEF ChannelTyped
  <2> QED BY <2>1 DEF ChannelTyped, RowStates
<1>2. \A r \in senders' : task'[rows[r].by].pc \in Turning
  BY <1>1 DEF Answered
<1>3. \A n \in Messages : task[n].pc = "consumed" => task'[n] = task[n]
  OBVIOUS
<1>4. \A n \in Messages : task'[n].pc = "consumed" => task[n].pc = "consumed" /\ task'[n] = task[n]
  BY DEF Asking
<1>5. \A n \in Messages :
        /\ task'[n].pc \in Asking =>
             task[n].pc \in Asking /\ task'[n].row = task[n].row
        /\ task'[n].pc = "waiting_yes" => task'[n] = task[n]
        /\ task'[n].pc \in {"take", "take_user"} =>
             task'[n].row \in DOMAIN rows \/ task'[n] = task[n]
        /\ task'[n].granted \subseteq task[n].granted
  BY DEF Asking
<1>6. ASSUME NEW o \in Messages
      PROVE  /\ task'[o].pc \in Asking \cup {"waiting_yes"} =>
                  task'[o].row \in DOMAIN rows /\ rows[task'[o].row].by = o
             /\ task'[o].pc \in Asking => task'[o].row \notin senders'
             /\ task'[o].pc \in {"take", "take_user", "consumed"} => task'[o].row \in DOMAIN rows
  BY <1>1, <1>4, <1>5 DEF Answered
<1>7. ASSUME NEW o \in Messages, task'[o].pc = "consumed"
      PROVE  /\ task'[o].row \notin senders'
             /\ \A n \in Messages :
                  task'[n].row = task'[o].row =>
                     task'[n].pc \notin Asking /\ (task'[n].pc = "consumed" => n = o)
  BY <1>1, <1>4, <1>5, <1>7 DEF Answered
<1>8. ASSUME NEW o \in Messages, NEW r \in task'[o].granted
      PROVE  \E n \in Messages : task'[n].pc = "consumed" /\ task'[n].row = r
  BY <1>3, <1>5 DEF Answered
<1> QED BY <1>2, <1>6, <1>7, <1>8 DEF Answered

\* Messages that nobody asked yet go on, or come to their end with the process.
LEMMA AnsweredStays ==
  ASSUME ChannelTyped, Answered, rows' = rows, senders' \subseteq senders,
         \A o \in Messages :
           \/ task'[o] = task[o]
           \/ /\ task[o].pc # "consumed" /\ (senders' = {} \/ task[o].pc \notin Turning)
              /\ task'[o].pc \notin Asking \cup {"waiting_yes", "take", "take_user", "consumed"}
              /\ task'[o].row = task[o].row /\ task'[o].granted = task[o].granted
  PROVE  Answered'
PROOF
<1>1. \A r \in senders' : r \in senders /\ rows[r].by \in Messages
  <2>1. \A r \in DOMAIN rows : rows[r] \in RowStates
    BY DEF ChannelTyped
  <2> QED BY <2>1 DEF ChannelTyped, RowStates
<1>2. \A r \in senders' : task'[rows[r].by].pc \in Turning
  BY <1>1 DEF Answered
<1>3. \A n \in Messages : task[n].pc = "consumed" => task'[n] = task[n]
  OBVIOUS
<1>4. \A n \in Messages :
        /\ task'[n].pc \in Asking \cup {"waiting_yes", "take", "take_user", "consumed"} =>
             task'[n] = task[n]
        /\ task'[n].row = task[n].row /\ task'[n].granted = task[n].granted
  OBVIOUS
<1>5. ASSUME NEW o \in Messages
      PROVE  /\ task'[o].pc \in Asking \cup {"waiting_yes"} =>
                  task'[o].row \in DOMAIN rows /\ rows[task'[o].row].by = o
             /\ task'[o].pc \in Asking => task'[o].row \notin senders'
             /\ task'[o].pc \in {"take", "take_user", "consumed"} => task'[o].row \in DOMAIN rows
  BY <1>1, <1>4 DEF Answered
<1>6. ASSUME NEW o \in Messages, task'[o].pc = "consumed"
      PROVE  /\ task'[o].row \notin senders'
             /\ \A n \in Messages :
                  task'[n].row = task'[o].row =>
                     task'[n].pc \notin Asking /\ (task'[n].pc = "consumed" => n = o)
  BY <1>1, <1>4, <1>6 DEF Answered
<1>7. ASSUME NEW o \in Messages, NEW r \in task'[o].granted
      PROVE  \E n \in Messages : task'[n].pc = "consumed" /\ task'[n].row = r
  BY <1>3, <1>4 DEF Answered
<1> QED BY <1>2, <1>5, <1>6, <1>7 DEF Answered

\* A message goes from one place to the next.
LEMMA Moves ==
  ASSUME ChannelInv, NEW m \in Messages, NEW to \in Places, task' = [task EXCEPT ![m].pc = to],
         rows' = rows, senders' \subseteq senders,
         task[m].pc \notin {"merged", "consumed"},
         \/ to \notin Asking \cup {"waiting_yes", "take", "take_user", "consumed"}
         \/ task[m].pc \in Asking /\ to \in Asking,
         \A r \in senders' : rows[r].by = m => to \in Turning
  PROVE  /\ task' \in [Messages -> TaskStates] /\ senders' \subseteq DOMAIN rows'
         /\ Held' /\ Answered'
PROOF
<1>1. task \in [Messages -> TaskStates] /\ senders \subseteq DOMAIN rows
  BY DEF ChannelInv, ChannelTyped
<1>2. /\ \A o \in Messages \ {m} : task'[o] = task[o]
      /\ task'[m] = [task[m] EXCEPT !.pc = to]
  BY <1>1
<1>3. /\ task'[m].pc = to /\ task'[m].row = task[m].row /\ task'[m].granted = task[m].granted
      /\ task'[m].holds = task[m].holds
  BY <1>1, <1>2 DEF TaskStates
<1>4. task' \in [Messages -> TaskStates]
  BY <1>1 DEF TaskStates
<1>5. Held'
  BY <1>2, <1>3, HeldKeeps DEF ChannelInv
<1>6. Answered'
  BY <1>2, <1>3, AnsweredKeeps DEF ChannelInv
<1> QED BY <1>1, <1>4, <1>5, <1>6

\* A message that is read starts as a task that nobody holds.
LEMMA ReceivedKeeps ==
  ASSUME ChannelInv, NEW m \in Messages, Received(m)
  PROVE  ChannelInv'
PROOF
<1>1. /\ task[m].pc = "absent" /\ UNCHANGED <<slot, threads, rows, senders>>
      /\ task \in [Messages -> TaskStates]
  BY DEF Received, ChannelInv, ChannelTyped
<1>2. PICK u \in Users, p \in {"text", "photo", "whole"}, re \in Quotes :
        task' = [task EXCEPT ![m] = [Absent EXCEPT
                    !.pc = IF p = "whole" THEN "ready" ELSE "partial",
                    !.user = u, !.part = p, !.re = re, !.holds = {m}]]
  BY DEF Received
<1>3. re \in SUBSET Refs
  <2>0. threads \in Seq(ThreadStates)
    BY DEF ChannelInv, ChannelTyped
  <2>1. ASSUME NEW i \in DOMAIN threads PROVE i \in Nat
    BY <2>0
  <2>2. Outbound \cup Inbound \subseteq Refs
    BY <2>1 DEF Outbound, Inbound, Refs
  <2> QED BY <2>2 DEF Quotes
<1>4. PICK pc \in {"ready", "partial"} : pc = IF p = "whole" THEN "ready" ELSE "partial"
  OBVIOUS
<1>5. task'[m] = [pc |-> pc, user |-> u, part |-> p, re |-> re, holds |-> {m}, thread |-> 0,
                  row |-> 0, granted |-> {}]
  BY <1>1, <1>2, <1>4 DEF Absent
<1>6. task'[m] \in TaskStates
  BY <1>3, <1>5 DEF TaskStates, Places
<1>7. /\ task' = [task EXCEPT ![m] = task'[m]]
      /\ \A o \in Messages \ {m} : task'[o] = task[o]
  BY <1>1, <1>2
<1>8. task' \in [Messages -> TaskStates]
  BY <1>1, <1>6, <1>7
<1>9. ChannelTyped'
  BY <1>1, <1>8 DEF ChannelInv, ChannelTyped
<1>10. Held'
  <2>1. \A o \in Messages : /\ task'[o].holds \subseteq task[o].holds \cup {o}
                            /\ task[o].pc = "merged" => task'[o].pc = "merged"
    BY <1>1, <1>5, <1>7
  <2> QED BY <2>1, HeldKeeps DEF ChannelInv
<1>11. Answered'
  <2>1. \A r \in senders' : rows[r].by # m
    BY <1>1 DEF ChannelInv, Answered, Turning
  <2>2. /\ task'[m].pc \notin Asking \cup {"waiting_yes", "take", "take_user", "consumed"}
        /\ task'[m].granted \subseteq task[m].granted
    BY <1>5 DEF Asking
  <2> QED BY <1>1, <1>7, <2>1, <2>2, AnsweredKeeps DEF ChannelInv
<1> QED BY <1>9, <1>10, <1>11 DEF ChannelInv

\* A message completes the one that waits, or waits in its place.
LEMMA AggregateKeeps ==
  ASSUME ChannelInv, NEW m \in Messages, Aggregate(m)
  PROVE  ChannelInv'
PROOF
<1> DEFINE k == Key(task[m].user)
           merges == \E e \in slot[k] : {task[e].part, task[m].part} = {"text", "photo"}
           e == CHOOSE e \in slot[k] : TRUE
           to == IF merges THEN {m} ELSE {}
           pc == IF merges THEN "merged" ELSE "waiting"
<1>1. PICK re \in IF merges THEN MergedRe(e, m) ELSE {{}} :
        /\ task[m].pc = "partial" /\ UNCHANGED <<threads, rows, senders>>
        /\ task' = [(CASE slot[k] = {} -> task
                      [] merges -> Deliver(e, task, {m}, re)
                      [] OTHER -> Deliver(e, task, {}, task[e].re)) EXCEPT ![m].pc = pc]
        /\ slot' = [slot EXCEPT ![k] = IF merges THEN {} ELSE {m}]
  BY DEF Aggregate
<1> DEFINE quote == IF merges THEN re ELSE task[e].re
           now == IF slot[k] = {} THEN task ELSE Deliver(e, task, to, quote)
<1>2. task \in [Messages -> TaskStates] /\ slot \in [Users -> SUBSET Messages]
  BY DEF ChannelInv, ChannelTyped
<1>3. slot' \in [Users -> SUBSET Messages]
  BY <1>1, <1>2
<1>4. k \in Users
  BY <1>2, SomeUser DEF Key, TaskStates
<1>5. to \in SUBSET Messages /\ pc \in {"merged", "waiting"} /\ (to # {} => pc = "merged" /\ to = {m})
  OBVIOUS
<1>6. \/ now = task
      \/ /\ e \in Messages /\ task[e].pc = "waiting"
         /\ now = [task EXCEPT ![e].pc = "ready", ![e].holds = @ \cup to, ![e].re = quote]
  BY <1>2, <1>4 DEF Deliver
<1>12. e \in Messages => quote \in SUBSET Refs
  <2>1. ASSUME e \in Messages PROVE task[e].re \in SUBSET Refs /\ task[m].re \in SUBSET Refs
    BY <1>2, <2>1 DEF TaskStates
  <2>2. CASE merges
    BY <2>1, <2>2 DEF MergedRe
  <2>3. CASE ~merges
    BY <2>1, <2>3
  <2> QED BY <2>2, <2>3
<1>13. task' = [now EXCEPT ![m].pc = pc]
  <2>1. CASE slot[k] = {}
    BY <1>1, <2>1
  <2>2. CASE slot[k] # {} /\ merges
    BY <1>1, <2>2
  <2>3. CASE slot[k] # {} /\ ~merges
    BY <1>1, <2>3
  <2> QED BY <2>1, <2>2, <2>3
<1>14. slot' = [slot EXCEPT ![k] = IF merges THEN {} ELSE {m}] /\ task[m].pc = "partial"
       /\ UNCHANGED <<threads, rows, senders>>
  BY <1>1
<1> HIDE DEF k, merges, e, to, pc, now, quote
<1>7. /\ now \in [Messages -> TaskStates] /\ now[m] = task[m]
      /\ \A o \in Messages :
           \/ now[o] = task[o]
           \/ /\ o # m /\ o = e /\ task[o].pc = "waiting" /\ now[o].pc = "ready"
              /\ now[o].row = task[o].row /\ now[o].granted = task[o].granted
              /\ now[o].holds = task[o].holds \cup to
  <2>1. CASE now = task
    BY <1>2, <2>1
  <2>2. CASE /\ e \in Messages /\ task[e].pc = "waiting"
             /\ now = [task EXCEPT ![e].pc = "ready", ![e].holds = @ \cup to, ![e].re = quote]
    <3>1. /\ now[e].pc = "ready" /\ now[e].holds = task[e].holds \cup to
          /\ now[e].row = task[e].row /\ now[e].granted = task[e].granted
          /\ \A o \in Messages \ {e} : now[o] = task[o]
      BY <1>2, <2>2 DEF TaskStates
    <3>2. now \in [Messages -> TaskStates]
      <4>1. task[e] \in TaskStates /\ task[e].holds \cup to \in SUBSET Messages
        BY <1>2, <1>5, <2>2 DEF TaskStates
      <4>2. [task[e] EXCEPT !.pc = "ready", !.holds = @ \cup to, !.re = quote] \in TaskStates
        BY <1>12, <2>2, <4>1 DEF TaskStates, Places
      <4>3. now = [task EXCEPT ![e] = [task[e] EXCEPT !.pc = "ready", !.holds = @ \cup to, !.re = quote]]
        BY <1>2, <2>2
      <4> QED BY <1>2, <4>2, <4>3
    <3> QED BY <1>14, <2>2, <3>1, <3>2
  <2> QED BY <1>6, <2>1, <2>2
<1>8. /\ task' \in [Messages -> TaskStates]
      /\ task'[m].pc = pc /\ task'[m].holds = task[m].holds
      /\ task'[m].granted = task[m].granted /\ task'[m].row = task[m].row
      /\ \A o \in Messages \ {m} : task'[o] = now[o]
  <2>1. task[m] \in TaskStates /\ pc \in Places
    BY <1>2, <1>5 DEF Places
  <2> DEFINE end == [task[m] EXCEPT !.pc = pc]
  <2>2. /\ end \in TaskStates /\ end.pc = pc /\ end.holds = task[m].holds
        /\ end.granted = task[m].granted /\ end.row = task[m].row
    BY <2>1 DEF TaskStates
  <2>3. task' = [now EXCEPT ![m] = end]
    BY <1>7, <1>13
  <2> HIDE DEF end
  <2> QED BY <1>7, <2>2, <2>3
<1>9. ChannelTyped'
  BY <1>14, <1>3, <1>8 DEF ChannelInv, ChannelTyped
<1>10. Held'
  <2>1. ASSUME NEW n \in Messages, NEW o \in Messages, o # n, n \in task'[o].holds
        PROVE  \/ n \in task[o].holds /\ task[n].pc = "merged"
               \/ n = m /\ o = e /\ pc = "merged"
    BY <1>5, <1>7, <1>8, <2>1 DEF ChannelInv, Held
  <2>2. \A n \in Messages : task[n].pc = "merged" => task'[n].pc = "merged"
    BY <1>14, <1>7, <1>8
  <2> QED BY <1>14, <1>8, <2>1, <2>2 DEF ChannelInv, Held
<1>11. Answered'
  <2>1. \A o \in Messages :
          \/ task'[o] = task[o]
          \/ /\ task[o].pc \in {"partial", "waiting"} /\ task'[o].pc \in {"merged", "waiting", "ready"}
             /\ task'[o].row = task[o].row /\ task'[o].granted = task[o].granted
    BY <1>14, <1>5, <1>7, <1>8
  <2>2. \A o \in Messages :
          \/ task'[o] = task[o]
          \/ /\ task[o].pc # "consumed" /\ (senders' = {} \/ task[o].pc \notin Turning)
             /\ task'[o].pc \notin Asking \cup {"waiting_yes", "take", "take_user", "consumed"}
             /\ task'[o].row = task[o].row /\ task'[o].granted = task[o].granted
    BY <2>1 DEF Turning, Asking
  <2> QED BY <1>14, <2>2, AnsweredStays DEF ChannelInv
<1> QED BY <1>9, <1>10, <1>11 DEF ChannelInv

\* After its window a message goes on alone, or another one has seen to it.
LEMMA FlushKeeps ==
  ASSUME ChannelInv, NEW m \in Messages, WindowEnds(m) \/ Flush(m)
  PROVE  ChannelInv'
PROOF
<1>1. PICK to \in {"expired", "ready", "dropped"} : task' = [task EXCEPT ![m].pc = to]
  BY DEF WindowEnds, Flush, Step
<1>2. task[m].pc \in {"waiting", "expired"} /\ UNCHANGED <<threads, rows, senders>>
  BY DEF WindowEnds, Flush, Step
<1>3. slot' \in [Users -> SUBSET Messages]
  BY DEF WindowEnds, Flush, ChannelInv, ChannelTyped
<1>4. \A r \in senders' : rows[r].by # m
  BY <1>2 DEF ChannelInv, Answered, Turning
<1>5. /\ task' \in [Messages -> TaskStates] /\ senders' \subseteq DOMAIN rows' /\ Held' /\ Answered'
  <2>1. to \in Places /\ to \notin Asking \cup {"waiting_yes", "take", "take_user", "consumed"}
    BY DEF Places, Asking
  <2> QED BY <1>1, <1>2, <1>4, <2>1, Moves
<1> QED BY <1>2, <1>3, <1>5 DEF ChannelInv, ChannelTyped

\* A message finds its thread, or a new one.
LEMMA ThreadKeeps ==
  ASSUME ChannelInv, NEW m \in Messages, FindOrCreateThread(m)
  PROVE  ChannelInv'
PROOF
<1>1. /\ task[m].pc = "ready" /\ UNCHANGED <<slot, rows, senders>>
      /\ task \in [Messages -> TaskStates] /\ threads \in Seq(ThreadStates)
  BY DEF FindOrCreateThread, ChannelInv, ChannelTyped
<1>2. threads' \in Seq(ThreadStates)
  <2>1. ASSUME NEW knows \in Origins(m)
        PROVE  [status |-> "active", out |-> 0, known |-> knows] \in ThreadStates
    <3>1. task[m].holds \subseteq Refs
      BY <1>1 DEF TaskStates, Refs
    <3> DEFINE own == {{x} : x \in task[m].holds}
    <3>2. own \cup {{}} \subseteq SUBSET Refs
      BY <3>1
    <3>3. knows \in own \cup {{}}
      <4>1. CASE transport \in {"webhook", "silent"}
        BY <4>1 DEF Origins
      <4>2. CASE transport \notin {"webhook", "silent"}
        BY <4>2 DEF Origins
      <4> QED BY <4>1, <4>2
    <3> QED BY <3>2, <3>3 DEF ThreadStates
  <2>2. CASE UNCHANGED threads
    BY <1>1, <2>2
  <2>3. ASSUME NEW knows \in Origins(m),
               threads' = Append(threads, [status |-> "active", out |-> 0, known |-> knows])
        PROVE  threads' \in Seq(ThreadStates)
    BY <1>1, <2>1, <2>3, AppendProperties
  <2> QED BY <2>2, <2>3 DEF FindOrCreateThread
<1>3. PICK i \in Nat : task' = [task EXCEPT ![m] = On(m, i)]
  <2>1. CASE Quoted(m) # {}
    <3>1. Quoted(m) \subseteq Nat
      BY <1>1 DEF Quoted
    <3>2. (CHOOSE i \in Quoted(m) : TRUE) \in Nat
      BY <2>1, <3>1
    <3> QED BY <2>1, <3>2 DEF FindOrCreateThread
  <2>2. CASE Quoted(m) = {}
    <3>1. Len(threads) + 1 \in Nat
      BY <1>1
    <3> QED BY <2>2, <3>1 DEF FindOrCreateThread
  <2> QED BY <2>1, <2>2
<1>4. /\ On(m, i) \in TaskStates /\ On(m, i).pc = "pick" /\ On(m, i).row = task[m].row
      /\ On(m, i).granted = task[m].granted /\ On(m, i).holds = task[m].holds
  <2>1. task[m] \in TaskStates
    BY <1>1
  <2> QED BY <2>1 DEF On, TaskStates, Places
<1>5. /\ task' \in [Messages -> TaskStates] /\ task'[m] = On(m, i)
      /\ \A o \in Messages \ {m} : task'[o] = task[o]
  BY <1>1, <1>3, <1>4
<1>6. ChannelTyped'
  BY <1>1, <1>2, <1>5 DEF ChannelInv, ChannelTyped
<1>7. Held'
  BY <1>1, <1>4, <1>5, HeldKeeps DEF ChannelInv
<1>8. Answered'
  <2>1. \A o \in Messages :
          \/ task'[o] = task[o]
          \/ /\ task[o].pc # "consumed" /\ (senders' = {} \/ task[o].pc \notin Turning)
             /\ task'[o].pc \notin Asking \cup {"waiting_yes", "take", "take_user", "consumed"}
             /\ task'[o].row = task[o].row /\ task'[o].granted = task[o].granted
    BY <1>1, <1>4, <1>5 DEF Turning, Asking
  <2> QED BY <1>1, <2>1, AnsweredStays DEF ChannelInv
<1> QED BY <1>6, <1>7, <1>8 DEF ChannelInv

\* A reply looks up the oldest row that it may answer.
LEMMA PickKeeps ==
  ASSUME ChannelInv, NEW m \in Messages,
         \/ task[m].pc = "pick" /\ TryResolvePending(m)
         \/ task[m].pc = "pick_user" /\ TryResolvePendingForUserPipe(m)
  PROVE  ChannelInv'
PROOF
<1>1. /\ task[m].pc \in {"pick", "pick_user"} /\ UNCHANGED <<slot, threads, rows, senders>>
      /\ task \in [Messages -> TaskStates] /\ rows \in Seq(RowStates)
  BY DEF TryResolvePending, TryResolvePendingForUserPipe, Pick, ChannelInv, ChannelTyped
<1>2. PICK to \in {"take", "take_user", "pick_user", "routed"}, row \in Nat :
        /\ to \in {"take", "take_user"} => row \in DOMAIN rows
        /\ task' = [task EXCEPT ![m].pc = to, ![m].row = row]
  <2>1. ASSUME NEW found \in SUBSET DOMAIN rows, NEW next \in {"take", "take_user"},
               NEW none \in {"pick_user", "routed"},
               task' = [task EXCEPT ![m].pc = IF found = {} THEN none ELSE next,
                                    ![m].row = IF found = {} THEN 0 ELSE CHOOSE i \in found : TRUE]
        PROVE  \E to \in {"take", "take_user", "pick_user", "routed"}, row \in Nat :
                 /\ to \in {"take", "take_user"} => row \in DOMAIN rows
                 /\ task' = [task EXCEPT ![m].pc = to, ![m].row = row]
    <3>1. CASE found = {}
      <4>1. task' = [task EXCEPT ![m].pc = none, ![m].row = 0]
        BY <2>1, <3>1
      <4> QED BY <4>1
    <3>2. CASE found # {}
      <4> DEFINE r == CHOOSE i \in found : TRUE
      <4>1. task' = [task EXCEPT ![m].pc = next, ![m].row = r]
        BY <2>1, <3>2
      <4>2. r \in DOMAIN rows /\ r \in Nat
        BY <1>1, <3>2
      <4> HIDE DEF r
      <4> QED BY <4>1, <4>2
    <3> QED BY <3>1, <3>2
  <2>2. CASE task[m].pc = "pick" /\ TryResolvePending(m)
    <3> DEFINE found == Oldest(LAMBDA i : rows[i].thread = task[m].thread)
    <3>1. found \in SUBSET DOMAIN rows
      BY DEF Oldest
    <3>2. task' = [task EXCEPT ![m].pc = IF found = {} THEN "pick_user" ELSE "take",
                               ![m].row = IF found = {} THEN 0 ELSE CHOOSE i \in found : TRUE]
      BY <2>2 DEF TryResolvePending, Pick
    <3> HIDE DEF found
    <3> QED BY <2>1, <3>1, <3>2
  <2>3. CASE task[m].pc = "pick_user" /\ TryResolvePendingForUserPipe(m)
    <3> DEFINE found == Oldest(LAMBDA i : rows[i].user = task[m].user)
    <3>1. found \in SUBSET DOMAIN rows
      BY DEF Oldest
    <3>2. task' = [task EXCEPT ![m].pc = IF found = {} THEN "routed" ELSE "take_user",
                               ![m].row = IF found = {} THEN 0 ELSE CHOOSE i \in found : TRUE]
      BY <2>3 DEF TryResolvePendingForUserPipe, Pick
    <3> HIDE DEF found
    <3> QED BY <2>1, <3>1, <3>2
  <2> QED BY <2>2, <2>3
<1>3. /\ task'[m].pc = to /\ task'[m].row = row /\ task'[m].granted = task[m].granted
      /\ task'[m].holds = task[m].holds
      /\ \A o \in Messages \ {m} : task'[o] = task[o]
      /\ task' \in [Messages -> TaskStates]
  <2> DEFINE t == [task[m] EXCEPT !.pc = to, !.row = row]
  <2>1. task' = [task EXCEPT ![m] = t]
    BY <1>1, <1>2
  <2>2. task[m] \in TaskStates
    BY <1>1
  <2>3. /\ t \in TaskStates /\ t.pc = to /\ t.row = row
        /\ t.granted = task[m].granted /\ t.holds = task[m].holds
    BY <2>2 DEF TaskStates, Places
  <2> HIDE DEF t
  <2> QED BY <1>1, <2>1, <2>3
<1>4. ChannelTyped'
  BY <1>1, <1>3 DEF ChannelInv, ChannelTyped
<1>5. Held'
  BY <1>1, <1>3, HeldKeeps DEF ChannelInv
<1>6. Answered'
  <2>1. \A r \in senders' : rows[r].by # m
    BY <1>1 DEF ChannelInv, Answered, Turning
  <2>2. \/ task'[m].pc \notin Asking \cup {"waiting_yes", "take", "take_user", "consumed"}
        \/ task'[m].pc \in {"take", "take_user"} /\ task'[m].row \in DOMAIN rows
    BY <1>2, <1>3 DEF Asking
  <2> QED BY <1>1, <1>3, <2>1, <2>2, AnsweredKeeps DEF ChannelInv
<1> QED BY <1>4, <1>5, <1>6 DEF ChannelInv

\* A reply takes the sender of its row, and the call goes on if it still waits.
LEMMA TakeKeeps ==
  ASSUME ChannelInv, NEW m \in Messages,
         \/ task[m].pc = "take" /\ TryResolvePending(m)
         \/ task[m].pc = "take_user" /\ TryResolvePendingForUserPipe(m)
  PROVE  ChannelInv'
PROOF
<1> DEFINE r == task[m].row
           t == rows[r].by
<1>1. /\ task[m].pc \in {"take", "take_user"} /\ UNCHANGED <<slot, threads>>
      /\ task \in [Messages -> TaskStates] /\ rows \in Seq(RowStates) /\ senders \subseteq DOMAIN rows
      /\ rows' = [rows EXCEPT ![r].status = "approved"]
      /\ senders' = senders \ {r}
  BY DEF TryResolvePending, TryResolvePendingForUserPipe, Take, ChannelInv, ChannelTyped
<1>2. r \in DOMAIN rows
  BY <1>1 DEF ChannelInv, Answered
<1>3. rows[r] \in RowStates /\ t \in Messages /\ r \in Nat
  <2>1. rows[r] \in RowStates /\ r \in Nat
    BY <1>1, <1>2
  <2> QED BY <2>1 DEF RowStates
<1>4. /\ rows' \in Seq(RowStates) /\ DOMAIN rows' = DOMAIN rows
      /\ \A q \in DOMAIN rows : rows'[q].by = rows[q].by
  <2>1. [rows[r] EXCEPT !.status = "approved"] \in RowStates
    BY <1>3 DEF RowStates
  <2>2. [rows[r] EXCEPT !.status = "approved"].by = rows[r].by
    BY <1>3 DEF RowStates
  <2>3. rows' = [rows EXCEPT ![r] = [rows[r] EXCEPT !.status = "approved"]]
    BY <1>1
  <2> QED BY <1>1, <1>2, <2>1, <2>2, <2>3
<1> HIDE DEF r, t
<1>5. PICK to \in {"consumed", "pick_user", "routed"} :
        /\ to = "consumed" <=> r \in senders
        /\ task' = [(IF r \in senders THEN Granting(task, r) ELSE task) EXCEPT ![m].pc = to]
  BY <1>1 DEF TryResolvePending, TryResolvePendingForUserPipe, Take, r
<1>6. PICK now :
        /\ task' = [now EXCEPT ![m].pc = to]
        /\ \/ now = task
           \/ /\ r \in senders /\ task[t].pc = "waiting_yes" /\ task[t].row = r
              /\ now = [task EXCEPT ![t].pc = "turn", ![t].granted = @ \cup {r}]
  BY <1>5 DEF Granting, t
<1>7. /\ now \in [Messages -> TaskStates] /\ now[m] = task[m]
      /\ \A o \in Messages :
           \/ now[o] = task[o]
           \/ /\ r \in senders /\ task[o].pc = "waiting_yes" /\ now[o].pc = "turn"
              /\ now[o].holds = task[o].holds /\ now[o].row = task[o].row
              /\ now[o].granted = task[o].granted \cup {r}
  <2>1. CASE now = task
    BY <1>1, <2>1
  <2>2. CASE /\ r \in senders /\ task[t].pc = "waiting_yes" /\ task[t].row = r
             /\ now = [task EXCEPT ![t].pc = "turn", ![t].granted = @ \cup {r}]
    <3> DEFINE g == [task[t] EXCEPT !.pc = "turn", !.granted = @ \cup {r}]
    <3>1. task[t] \in TaskStates
      BY <1>1, <1>3
    <3>2. /\ g \in TaskStates /\ g.pc = "turn" /\ g.holds = task[t].holds /\ g.row = task[t].row
          /\ g.granted = task[t].granted \cup {r}
      BY <1>3, <3>1 DEF TaskStates, Places, Turning
    <3>3. now = [task EXCEPT ![t] = g]
      BY <1>1, <1>3, <2>2
    <3> HIDE DEF g
    <3> QED BY <1>1, <1>3, <2>2, <3>2, <3>3
  <2> QED BY <1>6, <2>1, <2>2
<1>8. /\ task' \in [Messages -> TaskStates] /\ task'[m].pc = to
      /\ task'[m].row = r /\ task'[m].holds = task[m].holds /\ task'[m].granted = task[m].granted
      /\ \A o \in Messages \ {m} : task'[o] = now[o]
  <2> DEFINE g == [now[m] EXCEPT !.pc = to]
  <2>1. now[m] \in TaskStates
    BY <1>7
  <2>2. /\ g \in TaskStates /\ g.pc = to /\ g.row = now[m].row /\ g.holds = now[m].holds
        /\ g.granted = now[m].granted
    BY <2>1 DEF TaskStates, Places
  <2>3. task' = [now EXCEPT ![m] = g]
    BY <1>6, <1>7
  <2> HIDE DEF g
  <2> QED BY <1>7, <2>2, <2>3 DEF r
<1>9. ChannelTyped'
  BY <1>1, <1>4, <1>8 DEF ChannelInv, ChannelTyped
<1>10. Held'
  <2>1. \A o \in Messages : /\ task'[o].holds \subseteq task[o].holds \cup {o}
                            /\ task[o].pc = "merged" => task'[o].pc = "merged"
    BY <1>1, <1>7, <1>8
  <2> QED BY <2>1, HeldKeeps DEF ChannelInv
<1>11. \A o \in Messages : task[o].pc = "consumed" => task'[o] = task[o]
  BY <1>1, <1>7, <1>8
<1>12. \A o \in Messages :
         /\ task'[o].pc \in Asking \cup {"waiting_yes", "take", "take_user"} => task'[o] = task[o]
         /\ task'[o].pc = "consumed" => task'[o] = task[o] \/ (o = m /\ r \in senders)
         /\ \/ task'[o].granted = task[o].granted
            \/ (task'[o].granted = task[o].granted \cup {r} /\ r \in senders)
         /\ task'[o].row = task[o].row
  BY <1>5, <1>7, <1>8 DEF Asking, r
<1>13. Answered'
  <2>1. ASSUME NEW q \in senders' PROVE task'[rows'[q].by].pc \in Turning
    <3>1. q \in senders /\ q \in DOMAIN rows /\ rows[q] \in RowStates
      BY <1>1, <2>1
    <3>2. rows[q].by \in Messages /\ task[rows[q].by].pc \in Turning
      BY <3>1 DEF ChannelInv, Answered, RowStates
    <3>3. rows[q].by # m
      BY <1>1, <3>2 DEF Turning
    <3> QED BY <1>4, <1>7, <1>8, <3>1, <3>2, <3>3 DEF Turning
  <2>2. ASSUME NEW o \in Messages
        PROVE  /\ task'[o].pc \in Asking \cup {"waiting_yes"} =>
                    task'[o].row \in DOMAIN rows' /\ rows'[task'[o].row].by = o
               /\ task'[o].pc \in Asking => task'[o].row \notin senders'
               /\ task'[o].pc \in {"take", "take_user", "consumed"} => task'[o].row \in DOMAIN rows'
    BY <1>1, <1>2, <1>4, <1>8, <1>12 DEF ChannelInv, Answered
  <2>3. ASSUME NEW o \in Messages, task'[o].pc = "consumed"
        PROVE  /\ task'[o].row \notin senders'
               /\ \A n \in Messages :
                    task'[n].row = task'[o].row =>
                       task'[n].pc \notin Asking /\ (task'[n].pc = "consumed" => n = o)
    BY <1>1, <1>8, <1>12, <2>3 DEF ChannelInv, Answered
  <2>4. ASSUME NEW o \in Messages, NEW q \in task'[o].granted
        PROVE  \E n \in Messages : task'[n].pc = "consumed" /\ task'[n].row = q
    <3>1. CASE q \in task[o].granted
      BY <1>11, <3>1 DEF ChannelInv, Answered
    <3>2. CASE q = r /\ r \in senders
      BY <1>5, <1>8, <3>2
    <3> QED BY <1>12, <2>4, <3>1, <3>2
  <2> QED BY <2>1, <2>2, <2>3, <2>4 DEF Answered
<1> QED BY <1>9, <1>10, <1>13 DEF ChannelInv

\* A turn, its replies and a command's only move their message, and count what they sent.
LEMMA TurnKeeps ==
  ASSUME ChannelInv, NEW m \in Messages,
         \/ RunCommand(m) \/ BeginTurn(m) \/ SendPrompt(m) \/ PromptFails(m) \/ RecordPrompt(m)
         \/ ApprovalTimesOut(m) \/ EndTurn(m) \/ FailTurn(m) \/ ReplyByWebhook(m) \/ ReplyNowhere(m)
         \/ ReplyByBlueBubbles(m) \/ ReplyByTelegram(m) \/ RecordReply(m)
  PROVE  ChannelInv'
PROOF
<1>1. /\ task \in [Messages -> TaskStates] /\ threads \in Seq(ThreadStates)
      /\ UNCHANGED <<slot, rows>> /\ senders' \subseteq senders
  BY DEF ChannelInv, ChannelTyped, RunCommand, BeginTurn, SendPrompt, PromptFails, RecordPrompt,
         ApprovalTimesOut, EndTurn, FailTurn, ReplyByWebhook, ReplyNowhere, ReplyByBlueBubbles,
         ReplyByTelegram, RecordReply, CleanUp, SentWithId, SentWithoutId, NotSent
<1>2. threads' \in Seq(ThreadStates)
  <2> DEFINE i == task[m].thread
  <2>1. \A j \in DOMAIN threads : threads[j] \in ThreadStates
    BY <1>1
  <2>2. \/ threads' = threads
        \/ threads' = [threads EXCEPT ![i].out = @ + 1]
        \/ threads' = [threads EXCEPT ![i].known = @ \cup {[thread |-> i, n |-> threads[i].out]}]
        \/ threads' = [threads EXCEPT ![i].status = "completed"]
        \/ \E status \in {"failed", "completed", "active"} :
             threads' = [threads EXCEPT ![i].status = status, ![i].out = @ + 1]
    BY DEF RunCommand, BeginTurn, SendPrompt, PromptFails, RecordPrompt,
           ApprovalTimesOut, EndTurn, FailTurn, ReplyByWebhook, ReplyNowhere, ReplyByBlueBubbles,
           ReplyByTelegram, RecordReply, SentWithId, SentWithoutId, NotSent, Sent, Record
  <2> HIDE DEF i
  <2>3. ASSUME NEW x, threads' = [threads EXCEPT ![i] = x], i \in DOMAIN threads => x \in ThreadStates
        PROVE  threads' \in Seq(ThreadStates)
    <3>1. threads \in [1 .. Len(threads) -> ThreadStates] /\ Len(threads) \in Nat
      BY <1>1
    <3> DEFINE n == Len(threads)
    <3> HIDE DEF n
    <3>2. i \in 1 .. n => x \in ThreadStates
      BY <2>3, <3>1 DEF n
    <3>3. threads' \in [1 .. n -> ThreadStates] /\ n \in Nat
      BY <2>3, <3>1, <3>2 DEF n
    <3> QED BY <3>3
  <2>4. CASE threads' = [threads EXCEPT ![i].out = @ + 1]
    <3>1. i \in DOMAIN threads => [threads[i] EXCEPT !.out = @ + 1] \in ThreadStates
      BY <2>1 DEF ThreadStates
    <3> QED BY <2>3, <2>4, <3>1
  <2>5. CASE threads' = [threads EXCEPT ![i].known = @ \cup {[thread |-> i, n |-> threads[i].out]}]
    <3> DEFINE ref == [thread |-> i, n |-> threads[i].out]
    <3>1. ASSUME i \in DOMAIN threads
          PROVE  [threads[i] EXCEPT !.known = @ \cup {ref}] \in ThreadStates
      <4>1. threads[i] \in ThreadStates /\ i \in Nat /\ threads[i].out \in Nat
        BY <1>1, <2>1, <3>1 DEF ThreadStates
      <4>2. ref \in Refs
        BY <4>1 DEF Refs
      <4> HIDE DEF ref
      <4> QED BY <4>1, <4>2 DEF ThreadStates
    <3> HIDE DEF ref
    <3>2. threads' = [threads EXCEPT ![i] = [threads[i] EXCEPT !.known = @ \cup {ref}]]
      BY <2>5 DEF ref
    <3> QED BY <2>3, <3>1, <3>2
  <2>6. CASE threads' = [threads EXCEPT ![i].status = "completed"]
    <3>1. i \in DOMAIN threads => [threads[i] EXCEPT !.status = "completed"] \in ThreadStates
      BY <2>1 DEF ThreadStates
    <3> QED BY <2>3, <2>6, <3>1
  <2>7. ASSUME NEW status \in {"failed", "completed", "active"},
               threads' = [threads EXCEPT ![i].status = status, ![i].out = @ + 1]
        PROVE  threads' \in Seq(ThreadStates)
    <3>1. ASSUME i \in DOMAIN threads
          PROVE  [threads[i] EXCEPT !.status = status, !.out = @ + 1] \in ThreadStates
      <4>1. threads[i] \in ThreadStates /\ threads[i].out + 1 \in Nat
        BY <2>1, <3>1 DEF ThreadStates
      <4>2. PICK out \in Nat : out = threads[i].out + 1
        BY <4>1
      <4>3. [threads[i] EXCEPT !.status = status, !.out = out] \in ThreadStates
        BY <4>1 DEF ThreadStates
      <4> QED BY <4>2, <4>3
    <3> QED BY <2>3, <2>7, <3>1
  <2> QED BY <1>1, <2>2, <2>4, <2>5, <2>6, <2>7
<1>3. PICK was \in {"routed", "prompt", "prompted", "waiting_yes", "turn", "reply", "replied"},
           to \in {"reply", "turn", "prompted", "recorded", "done", "replied"} :
        /\ task[m].pc = was /\ task' = [task EXCEPT ![m].pc = to]
        /\ to \in Asking => was \in Asking
        /\ was \in Turning => to \in Turning \/ senders' = senders \ Own(m)
  BY DEF RunCommand, BeginTurn, SendPrompt, PromptFails, RecordPrompt, Step, Asking, Turning,
         ApprovalTimesOut, EndTurn, FailTurn, ReplyByWebhook, ReplyNowhere, ReplyByBlueBubbles,
         ReplyByTelegram, RecordReply, CleanUp, SentWithId, SentWithoutId, NotSent
<1>4. ASSUME NEW r \in senders', rows[r].by = m PROVE to \in Turning
  <2>1. r \in senders /\ r \in DOMAIN rows
    BY <1>1 DEF ChannelInv, ChannelTyped
  <2>2. was \in Turning
    BY <1>3, <1>4, <2>1 DEF ChannelInv, Answered
  <2> QED BY <1>3, <1>4, <2>1, <2>2 DEF Own
<1>5. task' \in [Messages -> TaskStates] /\ senders' \subseteq DOMAIN rows' /\ Held' /\ Answered'
  <2>1. /\ to \in Places
        /\ \/ to \notin Asking \cup {"waiting_yes", "take", "take_user", "consumed"}
           \/ task[m].pc \in Asking /\ to \in Asking
    BY <1>3 DEF Places, Asking, Turning
  <2> QED BY <1>1, <1>3, <1>4, <2>1, Moves
<1> QED BY <1>1, <1>2, <1>5 DEF ChannelInv, ChannelTyped

\* A turn asks: its row is new.
LEMMA CreateKeeps ==
  ASSUME ChannelInv, NEW m \in Messages, CreatePending(m)
  PROVE  ChannelInv'
PROOF
<1> DEFINE r == Len(rows) + 1
           row == [thread |-> task[m].thread, user |-> task[m].user, status |-> "pending", by |-> m]
<1>1. /\ task[m].pc = "turn" /\ UNCHANGED <<slot, threads, senders>>
      /\ rows' = Append(rows, row)
      /\ task' = [task EXCEPT ![m].pc = "prompt", ![m].row = r]
      /\ task \in [Messages -> TaskStates] /\ rows \in Seq(RowStates) /\ senders \subseteq DOMAIN rows
  BY DEF CreatePending, ChannelInv, ChannelTyped
<1>2. row \in RowStates /\ row.by = m
  <2>1. task[m] \in TaskStates
    BY <1>1
  <2> QED BY <2>1 DEF RowStates, TaskStates
<1> HIDE DEF row
<1>3. /\ rows' \in Seq(RowStates) /\ DOMAIN rows' = DOMAIN rows \cup {r} /\ r \notin DOMAIN rows
      /\ rows'[r] = row /\ (\A q \in DOMAIN rows : rows'[q] = rows[q]) /\ r \in Nat
  <2>1. Len(rows) \in Nat /\ DOMAIN rows = 1 .. Len(rows)
    BY <1>1
  <2>2. /\ rows' \in Seq(RowStates) /\ Len(rows') = r /\ rows'[r] = row
        /\ \A q \in 1 .. Len(rows) : rows'[q] = rows[q]
    BY <1>1, <1>2, AppendProperties
  <2>3. DOMAIN rows' = 1 .. r
    BY <2>2
  <2> QED BY <2>1, <2>2, <2>3
<1> HIDE DEF r
<1>4. /\ task' \in [Messages -> TaskStates] /\ task'[m].pc = "prompt" /\ task'[m].row = r
      /\ task'[m].holds = task[m].holds /\ task'[m].granted = task[m].granted
      /\ \A o \in Messages \ {m} : task'[o] = task[o]
  <2> DEFINE g == [task[m] EXCEPT !.pc = "prompt", !.row = r]
  <2>1. task[m] \in TaskStates
    BY <1>1
  <2>2. /\ g \in TaskStates /\ g.pc = "prompt" /\ g.row = r /\ g.holds = task[m].holds
        /\ g.granted = task[m].granted
    BY <1>3, <2>1 DEF TaskStates, Places, Turning
  <2>3. task' = [task EXCEPT ![m] = g]
    BY <1>1
  <2> HIDE DEF g
  <2> QED BY <1>1, <2>2, <2>3
<1>5. ChannelTyped'
  BY <1>1, <1>3, <1>4 DEF ChannelInv, ChannelTyped
<1>6. Held'
  BY <1>1, <1>4, HeldKeeps DEF ChannelInv
<1>7. Answered'
  <2>1. ASSUME NEW q \in senders' PROVE task'[rows'[q].by].pc \in Turning
    <3>1. q \in senders /\ q \in DOMAIN rows /\ rows'[q] = rows[q] /\ rows[q] \in RowStates
      BY <1>1, <1>3, <2>1
    <3>2. rows[q].by \in Messages /\ task[rows[q].by].pc \in Turning
      BY <3>1 DEF ChannelInv, Answered, RowStates
    <3> QED BY <1>4, <3>1, <3>2 DEF Turning
  <2>2. ASSUME NEW o \in Messages
        PROVE  /\ task'[o].pc \in Asking \cup {"waiting_yes"} =>
                    task'[o].row \in DOMAIN rows' /\ rows'[task'[o].row].by = o
               /\ task'[o].pc \in Asking => task'[o].row \notin senders'
               /\ task'[o].pc \in {"take", "take_user", "consumed"} => task'[o].row \in DOMAIN rows'
    <3>1. CASE o = m
      BY <1>1, <1>2, <1>3, <1>4, <3>1
    <3>2. CASE o # m
      BY <1>1, <1>3, <1>4, <3>2 DEF ChannelInv, Answered
    <3> QED BY <3>1, <3>2
  <2>3. ASSUME NEW o \in Messages, task'[o].pc = "consumed"
        PROVE  /\ task'[o].row \notin senders'
               /\ \A n \in Messages :
                    task'[n].row = task'[o].row =>
                       task'[n].pc \notin Asking /\ (task'[n].pc = "consumed" => n = o)
    <3>1. o # m /\ task'[o] = task[o]
      BY <1>4, <2>3
    <3>2. task[o].row \in DOMAIN rows
      BY <2>3, <3>1 DEF ChannelInv, Answered
    <3> QED BY <1>1, <1>3, <1>4, <2>3, <3>1, <3>2 DEF ChannelInv, Answered
  <2>4. ASSUME NEW o \in Messages, NEW q \in task'[o].granted
        PROVE  \E n \in Messages : task'[n].pc = "consumed" /\ task'[n].row = q
    <3>1. q \in task[o].granted
      BY <1>4
    <3>2. \A n \in Messages : task[n].pc = "consumed" => task'[n] = task[n]
      BY <1>1, <1>4
    <3> QED BY <3>1, <3>2 DEF ChannelInv, Answered
  <2> QED BY <2>1, <2>2, <2>3, <2>4 DEF Answered
<1> QED BY <1>5, <1>6, <1>7 DEF ChannelInv

\* The sender of a row is there for a reply to take.
LEMMA InsertKeeps ==
  ASSUME ChannelInv, NEW m \in Messages, InsertSender(m)
  PROVE  ChannelInv'
PROOF
<1> DEFINE r == task[m].row
<1>1. /\ task[m].pc = "recorded" /\ UNCHANGED <<slot, threads, rows>>
      /\ task' = [task EXCEPT ![m].pc = "waiting_yes"] /\ senders' = senders \cup {r}
      /\ task \in [Messages -> TaskStates] /\ rows \in Seq(RowStates) /\ senders \subseteq DOMAIN rows
  BY DEF InsertSender, Step, ChannelInv, ChannelTyped
<1>2. r \in DOMAIN rows /\ rows[r].by = m
  BY <1>1 DEF ChannelInv, Answered, Asking
<1>3. /\ task' \in [Messages -> TaskStates] /\ task'[m].pc = "waiting_yes" /\ task'[m].row = r
      /\ task'[m].holds = task[m].holds /\ task'[m].granted = task[m].granted
      /\ \A o \in Messages \ {m} : task'[o] = task[o]
  <2> DEFINE g == [task[m] EXCEPT !.pc = "waiting_yes"]
  <2>1. task[m] \in TaskStates
    BY <1>1
  <2>2. /\ g \in TaskStates /\ g.pc = "waiting_yes" /\ g.row = r /\ g.holds = task[m].holds
        /\ g.granted = task[m].granted
    BY <2>1 DEF TaskStates, Places, Turning
  <2>3. task' = [task EXCEPT ![m] = g]
    BY <1>1
  <2> HIDE DEF g
  <2> QED BY <1>1, <2>2, <2>3
<1> HIDE DEF r
<1>4. ChannelTyped'
  BY <1>1, <1>2, <1>3 DEF ChannelInv, ChannelTyped
<1>5. Held'
  BY <1>1, <1>3, HeldKeeps DEF ChannelInv
<1>6. Answered'
  <2>1. ASSUME NEW q \in senders' PROVE task'[rows'[q].by].pc \in Turning
    <3>1. CASE q = r
      BY <1>1, <1>2, <1>3, <3>1 DEF Turning
    <3>2. CASE q \in senders
      <4>1. q \in DOMAIN rows /\ rows[q] \in RowStates
        BY <1>1, <3>2
      <4>2. rows[q].by \in Messages /\ task[rows[q].by].pc \in Turning
        BY <3>2, <4>1 DEF ChannelInv, Answered, RowStates
      <4> QED BY <1>1, <1>3, <4>2 DEF Turning
    <3> QED BY <1>1, <2>1, <3>1, <3>2
  <2>2. ASSUME NEW o \in Messages
        PROVE  /\ task'[o].pc \in Asking \cup {"waiting_yes"} =>
                    task'[o].row \in DOMAIN rows' /\ rows'[task'[o].row].by = o
               /\ task'[o].pc \in Asking => task'[o].row \notin senders'
               /\ task'[o].pc \in {"take", "take_user", "consumed"} => task'[o].row \in DOMAIN rows'
    <3>1. CASE o = m
      BY <1>1, <1>2, <1>3, <3>1 DEF Asking
    <3>2. CASE o # m
      BY <1>1, <1>2, <1>3, <3>2 DEF ChannelInv, Answered
    <3> QED BY <3>1, <3>2
  <2>3. ASSUME NEW o \in Messages, task'[o].pc = "consumed"
        PROVE  /\ task'[o].row \notin senders'
               /\ \A n \in Messages :
                    task'[n].row = task'[o].row =>
                       task'[n].pc \notin Asking /\ (task'[n].pc = "consumed" => n = o)
    <3>1. o # m /\ task'[o] = task[o]
      BY <1>3, <2>3
    <3>2. task[o].row # r
      BY <1>1, <2>3, <3>1 DEF ChannelInv, Answered, Asking, r
    <3> QED BY <1>1, <1>3, <2>3, <3>1, <3>2 DEF ChannelInv, Answered
  <2>4. ASSUME NEW o \in Messages, NEW q \in task'[o].granted
        PROVE  \E n \in Messages : task'[n].pc = "consumed" /\ task'[n].row = q
    <3>1. q \in task[o].granted
      BY <1>3
    <3>2. \A n \in Messages : task[n].pc = "consumed" => task'[n] = task[n]
      BY <1>1, <1>3
    <3> QED BY <3>1, <3>2 DEF ChannelInv, Answered
  <2> QED BY <2>1, <2>2, <2>3, <2>4 DEF Answered
<1> QED BY <1>4, <1>5, <1>6 DEF ChannelInv

\* An idle thread is closed, or the process restarts.
LEMMA OverKeeps ==
  ASSUME ChannelInv, Restart \/ \E i \in DOMAIN threads : CloseIdleThread(i)
  PROVE  ChannelInv'
PROOF
<1>1. /\ task \in [Messages -> TaskStates] /\ threads \in Seq(ThreadStates)
      /\ slot \in [Users -> SUBSET Messages]
  BY DEF ChannelInv, ChannelTyped
<1>2. CASE Restart
  <2>1. /\ task' = [m \in Messages |-> IF task[m].pc \in Over THEN task[m]
                                                          ELSE [task[m] EXCEPT !.pc = "gone"]]
        /\ slot' = [u \in Users |-> {}] /\ senders' = {} /\ UNCHANGED <<threads, rows>>
    BY <1>2 DEF Restart
  <2>2. ASSUME NEW o \in Messages
        PROVE  /\ task'[o] \in TaskStates /\ task'[o].holds = task[o].holds
               /\ \/ task'[o] = task[o]
                  \/ /\ task[o].pc \notin {"merged", "consumed"} /\ task'[o].pc = "gone"
                     /\ task'[o].row = task[o].row /\ task'[o].granted = task[o].granted
    <3>1. task[o] \in TaskStates
      BY <1>1
    <3> DEFINE g == [task[o] EXCEPT !.pc = "gone"]
    <3>2. /\ g \in TaskStates /\ g.pc = "gone" /\ g.holds = task[o].holds /\ g.row = task[o].row
          /\ g.granted = task[o].granted
      BY <3>1 DEF TaskStates, Places
    <3>3. task'[o] = IF task[o].pc \in Over THEN task[o] ELSE g
      BY <2>1
    <3> HIDE DEF g
    <3> QED BY <3>1, <3>2, <3>3 DEF Over
  <2>3. ChannelTyped'
    BY <1>1, <2>1, <2>2 DEF ChannelInv, ChannelTyped
  <2>4. Held'
    <3>1. \A o \in Messages : /\ task'[o].holds \subseteq task[o].holds \cup {o}
                              /\ task[o].pc = "merged" => task'[o].pc = "merged"
      BY <2>2
    <3> QED BY <3>1, HeldKeeps DEF ChannelInv
  <2>5. Answered'
    <3>1. \A o \in Messages :
            \/ task'[o] = task[o]
            \/ /\ task[o].pc # "consumed" /\ (senders' = {} \/ task[o].pc \notin Turning)
               /\ task'[o].pc \notin Asking \cup {"waiting_yes", "take", "take_user", "consumed"}
               /\ task'[o].row = task[o].row /\ task'[o].granted = task[o].granted
      BY <2>1, <2>2 DEF Asking
    <3> QED BY <2>1, <3>1, AnsweredStays DEF ChannelInv
  <2> QED BY <2>3, <2>4, <2>5 DEF ChannelInv
<1>3. ASSUME NEW i \in DOMAIN threads, CloseIdleThread(i) PROVE ChannelInv'
  <2>1. /\ threads' = [threads EXCEPT ![i].status = "completed"]
        /\ UNCHANGED <<task, slot, rows, senders>>
    BY <1>3 DEF CloseIdleThread
  <2>2. threads[i] \in ThreadStates
    BY <1>1, <1>3
  <2>3. [threads[i] EXCEPT !.status = "completed"] \in ThreadStates
    BY <2>2 DEF ThreadStates
  <2>4. threads' = [threads EXCEPT ![i] = [threads[i] EXCEPT !.status = "completed"]]
    BY <1>1, <2>1
  <2>5. threads' \in Seq(ThreadStates)
    BY <1>1, <1>3, <2>3, <2>4
  <2> QED BY <2>1, <2>5 DEF ChannelInv, ChannelTyped, Held, Answered
<1> QED BY <1>2, <1>3

\* No step of the channels leaves their invariant.
LEMMA ChannelsStay == Spec => []ChannelInv
PROOF
<1>1. ASSUME Init PROVE ChannelInv
  <2>1. /\ task = [m \in Messages |-> Absent] /\ slot = [u \in Users |-> {}]
        /\ threads = <<>> /\ rows = <<>> /\ senders = {}
    BY <1>1 DEF Init
  <2>2. Absent \in TaskStates /\ Absent.pc = "absent" /\ Absent.holds = {} /\ Absent.granted = {}
    BY SomeUser DEF Absent, TaskStates, Places
  <2>3. ChannelTyped
    BY <2>1, <2>2 DEF ChannelTyped
  <2>4. Held
    BY <2>1, <2>2 DEF Held
  <2>5. Answered
    BY <2>1, <2>2 DEF Answered, Asking
  <2> QED BY <2>3, <2>4, <2>5 DEF ChannelInv
<1>2. ASSUME ChannelInv, Next PROVE ChannelInv'
  <2>1. ASSUME NEW m \in Messages,
               \/ HandleInbound(m) \/ BlueBubblesWebhook(m) \/ TelegramWebhook(m)
               \/ Aggregate(m) \/ WindowEnds(m) \/ Flush(m) \/ FindOrCreateThread(m)
        PROVE  ChannelInv'
    BY <1>2, <2>1, ReceivedKeeps, AggregateKeeps, FlushKeeps, ThreadKeeps
    DEF HandleInbound, BlueBubblesWebhook, TelegramWebhook
  <2>2. ASSUME NEW m \in Messages, TryResolvePending(m) \/ TryResolvePendingForUserPipe(m)
        PROVE  ChannelInv'
    <3>1. task[m].pc \in {"pick", "take", "pick_user", "take_user"}
      BY <2>2 DEF TryResolvePending, TryResolvePendingForUserPipe
    <3>2. /\ TryResolvePending(m) => task[m].pc \in {"pick", "take"}
          /\ TryResolvePendingForUserPipe(m) => task[m].pc \in {"pick_user", "take_user"}
      BY DEF TryResolvePending, TryResolvePendingForUserPipe
    <3> QED BY <1>2, <2>2, <3>2, PickKeeps, TakeKeeps
  <2>3. ASSUME NEW m \in Messages,
               \/ RunCommand(m) \/ BeginTurn(m) \/ SendPrompt(m) \/ PromptFails(m) \/ RecordPrompt(m)
               \/ ApprovalTimesOut(m) \/ EndTurn(m) \/ FailTurn(m) \/ ReplyByWebhook(m)
               \/ ReplyNowhere(m) \/ ReplyByBlueBubbles(m) \/ ReplyByTelegram(m) \/ RecordReply(m)
        PROVE  ChannelInv'
    BY <1>2, <2>3, TurnKeeps
  <2>4. ASSUME NEW m \in Messages, CreatePending(m) \/ InsertSender(m) PROVE ChannelInv'
    BY <1>2, <2>4, CreateKeeps, InsertKeeps
  <2>5. CASE Restart \/ \E i \in DOMAIN threads : CloseIdleThread(i)
    BY <1>2, <2>5, OverKeeps
  <2> QED BY <1>2, <2>1, <2>2, <2>3, <2>4, <2>5 DEF Next
<1>3. ASSUME ChannelInv, UNCHANGED vars PROVE ChannelInv'
  BY <1>3 DEF vars, ChannelInv, ChannelTyped, Held, Answered
<1> QED BY <1>1, <1>2, <1>3, PTL DEF Spec

\* A message is in one envelope on its way.
LEMMA HeldOnce == ChannelInv => DispatchedOnce
PROOF
<1> SUFFICES ASSUME ChannelInv, NEW m \in Messages
             PROVE  Cardinality({o \in Dispatching : m \in task[o].holds}) <= 1
  BY DEF DispatchedOnce
<1> DEFINE S == {o \in Dispatching : m \in task[o].holds}
<1>1. \A o, p \in S : o = p
  <2> SUFFICES ASSUME NEW o \in S, NEW p \in S PROVE o = p
    OBVIOUS
  <2>1. o \in Messages /\ p \in Messages /\ m \in task[o].holds /\ m \in task[p].holds
        /\ task[o].pc # "merged" /\ task[p].pc # "merged"
    BY DEF Dispatching
  <2> QED BY <2>1 DEF ChannelInv, Held
<1> HIDE DEF S
<1>2. S = {} \/ \E o : S = {o}
  BY <1>1
<1>3. Cardinality(S) = 0 \/ Cardinality(S) = 1
  BY <1>2, FS_EmptySet, FS_Singleton
<1> QED BY <1>3 DEF S

\* A reply reaches the call that waits for it.
LEMMA RepliesReach == ChannelInv => RepliesReachTheirCall
PROOF
<1> SUFFICES ASSUME ChannelInv PROVE RepliesReachTheirCall
  OBVIOUS
<1>1. OneReplyOneGrant
  <2> SUFFICES ASSUME NEW m \in Messages, NEW r \in task[m].granted
               PROVE  \E n \in Messages :
                        /\ task[n].pc = "consumed" /\ task[n].row = r
                        /\ \A o \in Messages : task[o].pc = "consumed" /\ task[o].row = r => o = n
    BY DEF OneReplyOneGrant
  <2> QED BY DEF ChannelInv, Answered
<1>2. NoSenderLeft
  BY DEF NoSenderLeft, ChannelInv, Answered, Turning, Over
<1> QED BY <1>1, <1>2 DEF RepliesReachTheirCall

-----------------------------------------------------------------------------
(* The WhatsApp bridge                                                      *)

Copies == 0 .. MaxForgets

Handling == [by : Bridge!Handlers, pc : {"next", "media", "posting"},
             left : Seq(BridgeMessages) \ {<<>>}, copy : Copies]

Addresses == [phone : Chats] \cup [chat : Chats]

Outgoing == [pc : {"none", "try", "text", "file", "ok", "error"}, to : Seq(Addresses),
             text : BOOLEAN, files : 0 .. 1, left : Nat, sent : BOOLEAN,
             got : SUBSET {"text", "file"}]

BridgeTyped ==
  /\ processed \subseteq BridgeMessages
  /\ forgotten \in [BridgeMessages -> Copies]
  /\ forwarded \in [BridgeMessages \X Copies -> Nat]
  /\ batch \subseteq Handling
  /\ request \in [Requests -> Outgoing]

\* The n-th mark of a message was forgotten, or is there.
Under(m, n) == n < forgotten[m] \/ (n = forgotten[m] /\ m \in processed)

\* A message is posted under a mark, and one handler at most is at work under it.
Marked ==
  /\ \A m \in BridgeMessages, n \in Copies : forwarded[<<m, n>>] # 0 => Under(m, n)
  /\ \A b \in batch : b.pc # "next" => Under(Head(b.left), b.copy)
  /\ \A b, c \in batch :
       b.pc # "next" /\ c.pc # "next" /\ Head(b.left) = Head(c.left) /\ b.copy = c.copy => b = c
  /\ \A b \in batch : b.pc = "media" => forwarded[<<Head(b.left), b.copy>>] = 0
  /\ \A m \in BridgeMessages, n \in Copies : forwarded[<<m, n>>] <= 1

\* What a request knows of what it sent is so, and its text goes first.
Truthful(q) ==
  /\ q.sent <=> q.got # {}
  /\ q.got # {} /\ q.text => "text" \in q.got
  /\ q.pc \in {"text", "file"} => q.to # <<>>
  /\ q.pc = "file" /\ q.text => "text" \in q.got
  /\ q.pc \notin {"none", "ok", "error"} => q.text \/ q.files > 0
  /\ q.pc = "file" /\ ~q.text /\ q.left < q.files => q.got # {}
  /\ q.pc = "ok" => q.got # {}
  /\ q.pc = "error" => q.got = {}

BridgeInv == BridgeTyped /\ Marked /\ \A r \in Requests : Truthful(request[r])

\* What is left of an event has one message less.
LEMMA RestIsNext ==
  ASSUME NEW b \in Handling
  PROVE  \A c \in Bridge!Rest(b) : c \in Handling /\ c.pc = "next"
PROOF
<1>1. CASE Len(b.left) = 1
  BY <1>1 DEF Bridge!Rest
<1>2. CASE Len(b.left) # 1
  <2>1. b.left \in Seq(BridgeMessages) /\ b.left # <<>> /\ Len(b.left) \in Nat
    BY DEF Handling
  <2>2. Tail(b.left) \in Seq(BridgeMessages) /\ Len(Tail(b.left)) = Len(b.left) - 1
    BY <2>1
  <2>3. Tail(b.left) # <<>>
    <3>1. Len(Tail(b.left)) # 0
      BY <1>2, <2>1, <2>2
    <3> QED BY <2>2, <3>1, EmptySeq
  <2>4. [b EXCEPT !.pc = "next", !.left = Tail(@)] \in Handling
    BY <2>2, <2>3 DEF Handling
  <2>5. [b EXCEPT !.pc = "next", !.left = Tail(@)].pc = "next"
    BY DEF Handling
  <2> QED BY <1>2, <2>4, <2>5 DEF Bridge!Rest
<1> QED BY <1>1, <1>2

\* The first message of an event is one.
LEMMA FirstIsMessage ==
  ASSUME NEW b \in Handling PROVE Head(b.left) \in BridgeMessages
PROOF BY DEF Handling

\* An event comes to a handler that has none.
LEMMA EventArrives ==
  ASSUME BridgeInv, NEW h \in Bridge!Handlers, NEW ms \in Bridge!Events, Bridge!Upsert(h, ms)
  PROVE  BridgeInv'
PROOF
<1>1. ms \in Seq(BridgeMessages) /\ ms # <<>>
  <2>1. CASE ms \in {<<m>> : m \in BridgeMessages}
    <3>1. PICK m \in BridgeMessages : ms = <<m>>
      BY <2>1
    <3> QED BY <3>1
  <2>2. CASE ms \in BridgeMessages \X BridgeMessages
    <3>1. PICK m \in BridgeMessages, n \in BridgeMessages : ms = <<m, n>>
      BY <2>2
    <3> QED BY <3>1
  <2> QED BY <2>1, <2>2 DEF Bridge!Events
<1> DEFINE new == [by |-> h, pc |-> "next", left |-> ms, copy |-> 0]
<1>2. new \in Handling /\ new.pc = "next"
  BY <1>1, BridgeBounds DEF Handling, Copies, Bridge!ForgetsAssumption
<1>3. batch' = batch \cup {new} /\ UNCHANGED <<processed, forgotten, forwarded, request>>
  BY DEF Bridge!Upsert, Bridge!inboundVars
<1> HIDE DEF new
<1>4. BridgeTyped'
  BY <1>2, <1>3 DEF BridgeInv, BridgeTyped
<1>5. Marked'
  BY <1>2, <1>3 DEF BridgeInv, Marked, Under
<1> QED BY <1>3, <1>4, <1>5 DEF BridgeInv, Truthful

\* A handler takes the next message, or is done with it.
LEMMA HandlersKeep ==
  ASSUME BridgeInv, NEW b \in batch,
         \/ Bridge!Take(b) \/ Bridge!SkipDuplicate(b) \/ Bridge!Ignore(b)
         \/ Bridge!Forward(b) \/ Bridge!Posted(b) \/ Bridge!PostFails(b)
  PROVE  BridgeInv'
PROOF
<1> DEFINE m == Head(b.left)
<1>1. b \in Handling /\ m \in BridgeMessages /\ request' = request
  BY FirstIsMessage
  DEF BridgeInv, BridgeTyped, Bridge!Take, Bridge!SkipDuplicate, Bridge!Ignore,
      Bridge!Forward, Bridge!Posted, Bridge!PostFails
<1>2. SUFFICES BridgeTyped' /\ Marked'
  BY <1>1 DEF BridgeInv, Truthful
<1>3. CASE Bridge!Take(b)
  <2>0. PICK k \in Copies : k = forgotten[m] /\ k \in Nat
    BY <1>1, BridgeBounds DEF BridgeInv, BridgeTyped, Copies, Bridge!ForgetsAssumption
  <2> DEFINE c == [b EXCEPT !.pc = "media", !.copy = k]
  <2>1. /\ c \in Handling /\ c.pc = "media" /\ Head(c.left) = m /\ c.copy = k
        /\ batch' = (batch \ {b}) \cup {c} /\ processed' = processed \cup {m}
        /\ UNCHANGED <<forgotten, forwarded>> /\ m \notin processed
    BY <1>1, <1>3, <2>0 DEF Handling, Bridge!Take, Bridge!Fetch, Bridge!First
  <2> HIDE DEF c, m
  <2>2. BridgeTyped'
    BY <1>1, <2>1 DEF BridgeInv, BridgeTyped
  <2>3. forwarded[<<m, k>>] = 0 /\ ~Under(m, k) /\ k = forgotten[m]
    BY <1>1, <2>0, <2>1 DEF BridgeInv, Marked, Under
  <2>4. \A d \in batch : d.pc # "next" => ~(Head(d.left) = m /\ d.copy = k)
    BY <2>3 DEF BridgeInv, Marked
  <2>5. \A n \in BridgeMessages, i \in Copies : Under(n, i) => Under(n, i)'
    BY <2>1 DEF Under
  <2>6. Under(m, k)'
    BY <2>1, <2>3 DEF Under
  <2>7. \A d \in batch : d \in Handling /\ Head(d.left) \in BridgeMessages /\ d.copy \in Copies
    BY FirstIsMessage DEF BridgeInv, BridgeTyped, Handling
  <2>8. /\ \A n \in BridgeMessages, i \in Copies : forwarded'[<<n, i>>] # 0 => Under(n, i)'
        /\ \A n \in BridgeMessages, i \in Copies : forwarded'[<<n, i>>] <= 1
    BY <2>1, <2>5 DEF BridgeInv, Marked
  <2>9. \A d \in batch' :
           /\ d.pc # "next" => Under(Head(d.left), d.copy)'
           /\ d.pc = "media" => forwarded'[<<Head(d.left), d.copy>>] = 0
    <3> SUFFICES ASSUME NEW d \in batch'
                 PROVE  /\ d.pc # "next" => Under(Head(d.left), d.copy)'
                        /\ d.pc = "media" => forwarded'[<<Head(d.left), d.copy>>] = 0
      OBVIOUS
    <3>1. CASE d = c
      BY <2>1, <2>3, <2>6, <3>1
    <3>2. CASE d # c
      <4>1. d \in batch
        BY <2>1, <3>2
      <4>2. d.pc # "next" => Under(Head(d.left), d.copy)'
        BY <2>5, <2>7, <4>1 DEF BridgeInv, Marked
      <4>3. d.pc = "media" => forwarded'[<<Head(d.left), d.copy>>] = 0
        BY <2>1, <4>1 DEF BridgeInv, Marked
      <4> QED BY <4>2, <4>3
    <3> QED BY <3>1, <3>2
  <2>10. \A d, e \in batch' :
           d.pc # "next" /\ e.pc # "next" /\ Head(d.left) = Head(e.left) /\ d.copy = e.copy => d = e
    BY <2>1, <2>4 DEF BridgeInv, Marked
  <2> QED BY <2>2, <2>8, <2>9, <2>10 DEF Marked, Under
<1>4. ASSUME \/ Bridge!SkipDuplicate(b) \/ Bridge!Ignore(b) \/ Bridge!Posted(b) \/ Bridge!PostFails(b)
      PROVE  BridgeTyped' /\ Marked'
  <2>1. PICK rest \in {{}, Bridge!Rest(b)} :
           batch' = (batch \ {b}) \cup rest /\ UNCHANGED <<processed, forgotten, forwarded>>
    BY <1>4 DEF Bridge!SkipDuplicate, Bridge!Ignore, Bridge!Posted, Bridge!PostFails
  <2>2. \A c \in rest : c \in Handling /\ c.pc = "next"
    BY <1>1, <2>1, RestIsNext
  <2>3. BridgeTyped'
    BY <1>1, <2>1, <2>2 DEF BridgeInv, BridgeTyped
  <2> QED BY <2>1, <2>2, <2>3 DEF BridgeInv, Marked, Under
<1>5. CASE Bridge!Forward(b)
  <2> DEFINE c == [b EXCEPT !.pc = "posting"]
             k == b.copy
             p == <<m, k>>
  <2>1. /\ c \in Handling /\ c.pc = "posting" /\ Head(c.left) = m /\ c.copy = k /\ k \in Copies
        /\ batch' = (batch \ {b}) \cup {c} /\ UNCHANGED <<processed, forgotten>>
        /\ forwarded' = [forwarded EXCEPT ![p] = @ + 1] /\ b.pc = "media"
    BY <1>1, <1>5 DEF Handling, Bridge!Forward, Bridge!First
  <2> HIDE DEF c
  <2>2. Under(m, k) /\ forwarded[p] = 0
    BY <2>1 DEF BridgeInv, Marked
  <2>3. \A d \in batch : d.pc # "next" /\ Head(d.left) = m /\ d.copy = k => d = b
    BY <2>1 DEF BridgeInv, Marked
  <2> HIDE DEF m, k
  <2>4. /\ forwarded' \in [BridgeMessages \X Copies -> Nat] /\ forwarded'[p] = 1
        /\ \A n \in BridgeMessages, i \in Copies :
             ~(n = m /\ i = k) => forwarded'[<<n, i>>] = forwarded[<<n, i>>]
    BY <1>1, <2>1, <2>2 DEF BridgeInv, BridgeTyped
  <2>5. BridgeTyped'
    BY <1>1, <2>1, <2>4 DEF BridgeInv, BridgeTyped
  <2>6. \A d \in batch : d \in Handling /\ Head(d.left) \in BridgeMessages /\ d.copy \in Copies
    BY FirstIsMessage DEF BridgeInv, BridgeTyped, Handling
  <2>7. \A n \in BridgeMessages, i \in Copies : Under(n, i) => Under(n, i)'
    BY <2>1 DEF Under
  <2>8. forwarded'[<<m, k>>] = 1
    BY <2>4
  <2>9. \A n \in BridgeMessages, i \in Copies : forwarded'[<<n, i>>] # 0 => Under(n, i)'
    <3> SUFFICES ASSUME NEW n \in BridgeMessages, NEW i \in Copies, forwarded'[<<n, i>>] # 0
                 PROVE  Under(n, i)'
      OBVIOUS
    <3>1. CASE n = m /\ i = k
      BY <2>2, <2>7, <3>1
    <3>2. CASE ~(n = m /\ i = k)
      <4>1. forwarded[<<n, i>>] # 0
        BY <2>4, <3>2
      <4> QED BY <2>7, <4>1 DEF BridgeInv, Marked
    <3> QED BY <3>1, <3>2
  <2>10. \A n \in BridgeMessages, i \in Copies : forwarded'[<<n, i>>] <= 1
    <3> SUFFICES ASSUME NEW n \in BridgeMessages, NEW i \in Copies PROVE forwarded'[<<n, i>>] <= 1
      OBVIOUS
    <3>1. CASE n = m /\ i = k
      BY <2>8, <3>1
    <3>2. CASE ~(n = m /\ i = k)
      BY <2>4, <3>2 DEF BridgeInv, Marked
    <3> QED BY <3>1, <3>2
  <2>11. \A d \in batch' :
           /\ d.pc # "next" => Under(Head(d.left), d.copy)'
           /\ d.pc = "media" => forwarded'[<<Head(d.left), d.copy>>] = 0
    <3> SUFFICES ASSUME NEW d \in batch'
                 PROVE  /\ d.pc # "next" => Under(Head(d.left), d.copy)'
                        /\ d.pc = "media" => forwarded'[<<Head(d.left), d.copy>>] = 0
      OBVIOUS
    <3>1. CASE d = c
      BY <1>1, <2>1, <2>2, <2>7, <3>1
    <3>2. CASE d # c
      <4>1. d \in batch /\ d # b
        BY <2>1, <3>2
      <4>2. d.pc # "next" => Under(Head(d.left), d.copy)'
        BY <2>6, <2>7, <4>1 DEF BridgeInv, Marked
      <4>3. d.pc = "media" => ~(Head(d.left) = m /\ d.copy = k) /\ forwarded[<<Head(d.left), d.copy>>] = 0
        BY <2>3, <4>1 DEF BridgeInv, Marked
      <4>4. d.pc = "media" => forwarded'[<<Head(d.left), d.copy>>] = 0
        BY <2>4, <2>6, <4>1, <4>3
      <4> QED BY <4>2, <4>4
    <3> QED BY <3>1, <3>2
  <2>12. \A d, e \in batch' :
           d.pc # "next" /\ e.pc # "next" /\ Head(d.left) = Head(e.left) /\ d.copy = e.copy => d = e
    BY <2>1, <2>3 DEF BridgeInv, Marked
  <2> QED BY <2>5, <2>9, <2>10, <2>11, <2>12 DEF Marked, Under
<1> QED BY <1>3, <1>4, <1>5

\* What was taken under a mark that is forgotten stays under one of the past.
LEMMA ForgetKeeps ==
  ASSUME BridgeInv, NEW m \in BridgeMessages, Bridge!Forget(m)
  PROVE  BridgeInv'
PROOF
<1>1. /\ processed' = processed \ {m} /\ UNCHANGED <<batch, forwarded, request>>
      /\ forgotten' = [forgotten EXCEPT ![m] = @ + 1] /\ forgotten[m] < MaxForgets
  BY DEF Bridge!Forget
<1>2. /\ \A n \in BridgeMessages : forgotten[n] \in Copies
      /\ forgotten'[m] = forgotten[m] + 1
      /\ \A n \in BridgeMessages \ {m} : forgotten'[n] = forgotten[n]
  BY <1>1 DEF BridgeInv, BridgeTyped
<1>3. forgotten[m] + 1 \in Copies
  BY <1>1, <1>2, BridgeBounds DEF Copies, Bridge!ForgetsAssumption
<1>4. BridgeTyped'
  BY <1>1, <1>3 DEF BridgeInv, BridgeTyped
<1>5. \A n \in BridgeMessages, i \in Copies : Under(n, i) => Under(n, i)'
  BY <1>1, <1>2, BridgeBounds DEF Under, Copies, Bridge!ForgetsAssumption
<1>6. \A d \in batch : Head(d.left) \in BridgeMessages /\ d.copy \in Copies
  BY FirstIsMessage DEF BridgeInv, BridgeTyped, Handling
<1>7. Marked'
  BY <1>1, <1>5, <1>6 DEF BridgeInv, Marked
<1> QED BY <1>1, <1>4, <1>7 DEF BridgeInv, Truthful

\* A step of a request.
LEMMA RequestsKeep ==
  ASSUME BridgeInv, NEW r \in Requests,
         \/ Bridge!Outbound(r) \/ Bridge!Try(r) \/ Bridge!SendText(r) \/ Bridge!SendFile(r)
         \/ Bridge!SendFails(r) \/ Bridge!AnswerOk(r) \/ Bridge!AnswerAtEnd(r)
  PROVE  BridgeInv'
PROOF
<1> DEFINE q == request[r]
<1>1. q \in Outgoing /\ Truthful(q)
  BY DEF BridgeInv, BridgeTyped
<1>2. SUFFICES ASSUME NEW p \in Outgoing, Truthful(p), request' = [request EXCEPT ![r] = p],
                      UNCHANGED <<batch, processed, forgotten, forwarded>>
               PROVE  BridgeInv'
  <2>0. UNCHANGED <<batch, processed, forgotten, forwarded>>
    BY DEF Bridge!Outbound, Bridge!Try, Bridge!SendText, Bridge!SendFile, Bridge!SendFails,
           Bridge!AnswerOk, Bridge!AnswerAtEnd, Bridge!inboundVars
  <2>1. CASE Bridge!Outbound(r)
    <3>1. PICK c \in Chats, text \in BOOLEAN, files \in 0 .. 1 :
             /\ text \/ files > 0
             /\ request' = [request EXCEPT ![r] = [Bridge!Waiting EXCEPT !.pc = "try", !.to = Bridge!Candidates(c),
                                                                         !.text = text, !.files = files]]
      BY <2>1 DEF Bridge!Outbound
    <3>2. Bridge!Candidates(c) \in Seq(Addresses)
      <4>1. [phone |-> c] \in Addresses /\ [chat |-> c] \in Addresses
        BY DEF Addresses
      <4> QED BY <4>1 DEF Bridge!Candidates
    <3> DEFINE w == Bridge!Waiting
               p == [w EXCEPT !.pc = "try", !.to = Bridge!Candidates(c), !.text = text, !.files = files]
    <3>3. w \in Outgoing /\ w.got = {} /\ ~w.sent
      BY DEF Bridge!Waiting, Outgoing
    <3> HIDE DEF w
    <3>4. p \in Outgoing
      BY <3>2, <3>3 DEF Outgoing
    <3>5. Truthful(p)
      BY <3>1, <3>3 DEF Truthful, Outgoing
    <3> QED BY <1>2, <2>0, <3>1, <3>4, <3>5 DEF w
  <2>2. CASE Bridge!Try(r)
    <3> DEFINE p == [q EXCEPT !.pc = IF q.text THEN "text" ELSE "file", !.left = q.files]
    <3>1. q.pc = "try" /\ q.to # <<>> /\ request' = [request EXCEPT ![r] = p]
      BY <2>2, <1>1 DEF Bridge!Try, Outgoing, BridgeInv, BridgeTyped
    <3>2. q.files \in Nat /\ (IF q.text THEN "text" ELSE "file") \in {"text", "file"}
      BY <1>1 DEF Outgoing
    <3>3. p \in Outgoing
      BY <1>1, <3>2 DEF Outgoing
    <3>4. Truthful(p)
      BY <1>1, <3>1 DEF Outgoing, Truthful
    <3> QED BY <1>2, <2>0, <3>1, <3>3, <3>4
  <2>3. CASE Bridge!SendText(r)
    <3> DEFINE p == [q EXCEPT !.sent = TRUE, !.got = @ \cup {"text"}, !.pc = "file"]
    <3>1. q.pc = "text" /\ request' = [request EXCEPT ![r] = p]
      BY <2>3, <1>1 DEF Bridge!SendText, Bridge!Sent, Outgoing
    <3>2. p \in Outgoing
      BY <1>1 DEF Outgoing
    <3>3. Truthful(p)
      BY <1>1, <3>1 DEF Outgoing, Truthful
    <3> QED BY <1>2, <2>0, <3>1, <3>2, <3>3
  <2>4. CASE Bridge!SendFile(r)
    <3> DEFINE p == [q EXCEPT !.sent = TRUE, !.got = @ \cup {"file"}, !.left = @ - 1]
    <3>1. q.pc = "file" /\ q.left > 0 /\ request' = [request EXCEPT ![r] = p]
      BY <2>4, <1>1 DEF Bridge!SendFile, Bridge!Sent, Outgoing
    <3>a. q.left - 1 \in Nat /\ q.got \cup {"file"} \in SUBSET {"text", "file"}
      BY <1>1, <3>1 DEF Outgoing
    <3>2. p \in Outgoing
      BY <1>1, <3>a DEF Outgoing
    <3>3. Truthful(p)
      BY <1>1, <3>1 DEF Outgoing, Truthful
    <3> QED BY <1>2, <2>0, <3>1, <3>2, <3>3
  <2>5. CASE Bridge!SendFails(r)
    <3> DEFINE p == [q EXCEPT !.pc = "try", !.to = Tail(@)]
    <3>1. q.pc \in {"text", "file"} /\ request' = [request EXCEPT ![r] = p]
      BY <2>5, <1>1 DEF Bridge!SendFails, Outgoing, BridgeInv, BridgeTyped
    <3>2. q.to # <<>>
      BY <1>1, <3>1 DEF Truthful
    <3>3. Tail(q.to) \in Seq(Addresses)
      BY <1>1, <3>2 DEF Outgoing
    <3>4. p \in Outgoing
      BY <1>1, <3>3 DEF Outgoing
    <3>5. Truthful(p)
      BY <1>1, <3>1 DEF Outgoing, Truthful
    <3> QED BY <1>2, <2>0, <3>1, <3>4, <3>5
  <2>6. CASE Bridge!AnswerOk(r)
    <3> DEFINE p == [q EXCEPT !.pc = "ok"]
    <3>1. q.pc = "file" /\ q.left = 0 /\ request' = [request EXCEPT ![r] = p]
      BY <2>6, <1>1 DEF Bridge!AnswerOk, Outgoing
    <3>2. p \in Outgoing
      BY <1>1 DEF Outgoing
    <3>3. Truthful(p)
      BY <1>1, <3>1 DEF Outgoing, Truthful
    <3> QED BY <1>2, <2>0, <3>1, <3>2, <3>3
  <2>7. CASE Bridge!AnswerAtEnd(r)
    <3> DEFINE p == [q EXCEPT !.pc = IF q.sent THEN "ok" ELSE "error"]
    <3>1. q.pc = "try" /\ request' = [request EXCEPT ![r] = p]
      BY <2>7, <1>1 DEF Bridge!AnswerAtEnd, Outgoing
    <3>2. p \in Outgoing
      BY <1>1 DEF Outgoing
    <3>3. Truthful(p)
      BY <1>1, <3>1 DEF Outgoing, Truthful
    <3> QED BY <1>2, <2>0, <3>1, <3>2, <3>3
  <2> QED BY <2>1, <2>2, <2>3, <2>4, <2>5, <2>6, <2>7
<1> HIDE DEF q
<1>3. request' \in [Requests -> Outgoing] /\ request'[r] = p
      /\ \A s \in Requests \ {r} : request'[s] = request[s]
  BY <1>2 DEF BridgeInv, BridgeTyped
<1>4. BridgeTyped' /\ Marked'
  BY <1>2, <1>3 DEF BridgeInv, BridgeTyped, Marked, Under
<1>5. \A s \in Requests : Truthful(request'[s])
  BY <1>2, <1>3 DEF BridgeInv
<1> QED BY <1>4, <1>5 DEF BridgeInv, Truthful

\* No step of the bridge leaves its invariant.
LEMMA BridgeStays == Bridge!Spec => []BridgeInv
PROOF
<1>1. ASSUME Bridge!Init PROVE BridgeInv
  <2>1. /\ batch = {} /\ processed = {} /\ forgotten = [m \in BridgeMessages |-> 0]
        /\ forwarded = [p \in BridgeMessages \X Copies |-> 0]
        /\ request = [r \in Requests |-> Bridge!Waiting]
    BY <1>1 DEF Bridge!Init, Copies
  <2>2. Bridge!Waiting \in Outgoing /\ Truthful(Bridge!Waiting)
    BY DEF Bridge!Waiting, Outgoing, Truthful
  <2>3. BridgeTyped
    BY <2>1, <2>2, BridgeBounds DEF BridgeTyped, Copies, Bridge!ForgetsAssumption
  <2> QED BY <2>1, <2>2, <2>3 DEF BridgeInv, Marked
<1>2. ASSUME BridgeInv, Bridge!Next PROVE BridgeInv'
  <2>1. ASSUME UNCHANGED <<batch, processed, forgotten, forwarded, request>> PROVE BridgeInv'
    BY <1>2, <2>1 DEF BridgeInv, BridgeTyped, Marked, Under, Truthful
  <2>2. CASE \/ Bridge!StartSocket \/ Bridge!StartFails \/ Bridge!QrDrawn \/ Bridge!Reconnect
             \/ \E i \in DOMAIN sockets : Bridge!ShowQr(i) \/ Bridge!Opens(i) \/ Bridge!Closes(i)
    BY <2>1, <2>2 DEF Bridge!StartSocket, Bridge!StartFails, Bridge!QrDrawn, Bridge!Reconnect,
                      Bridge!ShowQr, Bridge!Opens, Bridge!Closes, Bridge!inboundVars
  <2> QED BY <1>2, <2>2, EventArrives, HandlersKeep, ForgetKeeps, RequestsKeep DEF Bridge!Next
<1>3. ASSUME BridgeInv, UNCHANGED Bridge!vars PROVE BridgeInv'
  BY <1>3 DEF BridgeInv, BridgeTyped, Marked, Under, Truthful, Bridge!vars, Bridge!inboundVars
<1> QED BY <1>1, <1>2, <1>3, PTL DEF Bridge!Spec

\* What the invariant says of the two directions.
LEMMA BridgeTells == BridgeInv => Bridge!DeliveredAsTold
PROOF
<1> SUFFICES ASSUME BridgeInv PROVE Bridge!DeliveredAsTold
  OBVIOUS
<1>1. Bridge!ForwardedOnce
  BY DEF Bridge!ForwardedOnce, BridgeInv, Marked, Copies
<1>2. Bridge!AnswerTellsTruth
  BY DEF Bridge!AnswerTellsTruth, BridgeInv, Truthful
<1> QED BY <1>1, <1>2 DEF Bridge!DeliveredAsTold

-----------------------------------------------------------------------------
(* The stream of the app                                                    *)

LastId == Stream!LastId
Pending == Stream!Pending
Committed == Stream!Committed

Connected == [pc : {"subscribed", "live"}, after : Nat, cursor : Nat, queued : Seq(Nat),
              buffer : Seq(Nat), lagged : BOOLEAN, full : BOOLEAN]

WriterStates == {[pc |-> "idle"], [pc |-> "committed"]} \cup [pc : {"persisted"}, id : Nat]

PageStates == [pc : {"new", "ready", "boundary", "read"}, shown : SUBSET Stream!Rows, cursor : Nat,
               raced : BOOLEAN, boundary : Nat, got : SUBSET Stream!Rows]

StreamTyped ==
  /\ written \in [Writers -> 0 .. MaxRows]
  /\ journal \in Seq(Stream!Rows)
  /\ writer \in [Writers -> WriterStates]
  /\ stream \in {[pc |-> "closed"]} \cup Connected
  /\ given \in Seq(Nat)
  /\ page \in PageStates

\* An event is about a committed row, and one handler is to broadcast it.
Journaled ==
  /\ \A id \in DOMAIN journal : journal[id] \in Committed
  /\ \A w \in Writers : writer[w].pc = "committed" => written[w] > 0
  /\ \A w \in Writers : writer[w].pc = "persisted" => writer[w].id \in 1 .. LastId
  /\ \A v, w \in Writers : writer[v].pc = "persisted" /\ writer[w].pc = "persisted"
                              /\ writer[v].id = writer[w].id => v = w

\* The page shows what lies behind its cursor.
PageShows ==
  /\ page.shown \subseteq Committed
  /\ page.cursor <= LastId
  /\ \A id \in 1 .. page.cursor : journal[id] \in page.shown

\* A snapshot has the rows behind its boundary; the rows that it lacks came since.
PageFetches ==
  /\ page.pc \in {"boundary", "read"} => page.cursor <= page.boundary /\ page.boundary <= LastId
  /\ page.pc = "read" =>
       /\ page.got \subseteq Committed
       /\ \A id \in 1 .. page.boundary : journal[id] \in page.got
       /\ \A r \in page.shown \ page.got : \E id \in page.boundary + 1 .. LastId : journal[id] = r
  /\ page.raced => /\ page.cursor < LastId
                   /\ page.pc \in {"boundary", "read"} => page.cursor < page.boundary

\* What the connection holds was broadcast, in order unless it was late.
Buffered ==
  stream.pc # "closed" =>
    /\ stream.after = page.cursor
    /\ \A i \in DOMAIN stream.buffer : stream.buffer[i] \in (1 .. LastId) \ Pending
    /\ \A i, j \in DOMAIN stream.buffer :
         i < j => stream.buffer[j] \in late \/ stream.buffer[i] < stream.buffer[j]

\* The replay comes first, and what is sent live lies behind the stream's cursor.
Sending ==
  stream.pc = "live" =>
    /\ stream.cursor <= LastId
    /\ \A i \in DOMAIN stream.queued : stream.queued[i] \in 1 .. stream.cursor
    /\ \A i, j \in DOMAIN stream.queued : i < j => stream.queued[i] < stream.queued[j]
    /\ \A i \in DOMAIN given : given[i] <= stream.cursor
    /\ \A i \in DOMAIN given, j \in DOMAIN stream.queued : given[i] < stream.queued[j]

Covered(id) == journal[id] \in page.shown \/ \E i \in DOMAIN stream.queued : stream.queued[i] = id

\* What the cursor of the stream passed over is on the page, or was overtaken.
Reached ==
  stream.pc = "live" /\ ~page.raced =>
    /\ \A i \in DOMAIN stream.buffer :
         \/ stream.buffer[i] \in late \/ stream.cursor < stream.buffer[i]
         \/ Covered(stream.buffer[i])
    /\ \A id \in 1 .. LastId :
         \/ stream.cursor < id \/ Covered(id)
         \/ \E n \in id + 1 .. LastId : n \notin Pending

\* Nothing is missed, with the parts of its definition at hand.
Complete ==
  stream.pc = "live" /\ ~stream.lagged /\ ~stream.full /\ ~page.raced =>
    \A id \in 1 .. LastId :
      \/ id \in Pending \/ id \in late \/ Covered(id)
      \/ \E i \in DOMAIN stream.buffer : stream.buffer[i] = id

StreamInv ==
  /\ StreamTyped
  /\ Journaled
  /\ PageShows
  /\ PageFetches
  /\ Buffered
  /\ Sending
  /\ Reached
  /\ Complete
  /\ Stream!SentInOrder

\* The journal has an end, and every event a row.
LEMMA JournalEnds ==
  ASSUME StreamTyped
  PROVE  /\ LastId \in Nat /\ DOMAIN journal = 1 .. LastId
         /\ \A id \in 1 .. LastId : journal[id] \in Stream!Rows
PROOF BY DEF StreamTyped, LastId, Stream!LastId

\* Who is to broadcast what.
LEMMA PendingOnes ==
  \A id : id \in Pending <=> \E w \in Writers : writer[w].pc = "persisted" /\ writer[w].id = id
PROOF BY DEF Pending, Stream!Pending

\* Who is to broadcast what, a step later.
LEMMA PendingOnesNext ==
  \A id : id \in Pending' <=> \E w \in Writers : writer'[w].pc = "persisted" /\ writer'[w].id = id
PROOF BY DEF Pending, Stream!Pending

\* A row is committed once its writer has counted it.
LEMMA CommittedOnes ==
  /\ \A r : r \in Committed <=> r \in Stream!Rows /\ r[2] <= written[r[1]]
  /\ \A r : r \in Committed' <=> r \in Stream!Rows /\ r[2] <= written'[r[1]]
PROOF BY DEF Committed, Stream!Committed, Stream!Rows

-----------------------------------------------------------------------------
\* Publishing a row leaves the page and the connection as they are.
LEMMA PublishingKeeps ==
  ASSUME StreamInv, UNCHANGED <<late, stream, given, page>>, StreamTyped', Journaled',
         LastId <= LastId', Committed \subseteq Committed',
         \A id \in 1 .. LastId : journal'[id] = journal[id],
         \A id \in 1 .. LastId : id \in Pending' <=> id \in Pending,
         \A id \in 1 .. LastId' : id > LastId => id \in Pending'
  PROVE  StreamInv'
PROOF
<1> USE JournalEnds DEF StreamInv
<1>1. LastId \in Nat /\ LastId' \in Nat
  <2>1. StreamTyped' => LastId' \in Nat
    BY DEF StreamTyped, LastId, Stream!LastId
  <2> QED BY <2>1
<1>2. PageShows' /\ PageFetches'
  <2>1. page.cursor \in Nat /\ page.boundary \in Nat
    BY DEF StreamTyped, PageStates
  <2>2. PageShows'
    BY <1>1, <2>1 DEF PageShows
  <2>3. PageFetches'
    BY <1>1, <2>1 DEF PageFetches
  <2> QED BY <2>2, <2>3
<1>3. CASE stream.pc = "closed"
  BY <1>2, <1>3 DEF Buffered, Sending, Reached, Complete, Stream!SentInOrder
<1>4. CASE stream.pc # "closed"
  <2>1. stream \in Connected
    BY <1>4 DEF StreamTyped
  <2>2. \A i \in DOMAIN stream.buffer : stream.buffer[i] \in 1 .. LastId
    BY <1>4 DEF Buffered
  <2>3. Buffered'
    BY <1>1, <1>4, <2>1, <2>2 DEF Buffered
  <2>4. Sending'
    BY <1>1, <2>1 DEF Sending, Connected
  <2>5. ASSUME stream.pc = "live" PROVE stream.cursor \in Nat /\ stream.cursor <= LastId
    BY <2>1, <2>5 DEF Sending, Connected
  <2>6. \A id \in 1 .. LastId : Covered(id) => Covered(id)'
    BY DEF Covered
  <2>7. Reached'
    <3> SUFFICES ASSUME stream.pc = "live", ~page.raced
                 PROVE  /\ \A i \in DOMAIN stream.buffer :
                             \/ stream.buffer[i] \in late \/ stream.cursor < stream.buffer[i]
                             \/ Covered(stream.buffer[i])'
                        /\ \A id \in 1 .. LastId' :
                             \/ stream.cursor < id \/ Covered(id)'
                             \/ \E n \in id + 1 .. LastId' : n \notin Pending'
      BY DEF Reached
    <3>1. \A i \in DOMAIN stream.buffer :
            \/ stream.buffer[i] \in late \/ stream.cursor < stream.buffer[i]
            \/ Covered(stream.buffer[i])'
      BY <2>2, <2>6 DEF Reached
    <3>2. ASSUME NEW id \in 1 .. LastId', ~(stream.cursor < id), ~Covered(id)'
          PROVE  \E n \in id + 1 .. LastId' : n \notin Pending'
      <4>1. id \in 1 .. LastId
        BY <1>1, <2>5, <3>2
      <4>2. PICK n \in id + 1 .. LastId : n \notin Pending
        BY <2>6, <3>2, <4>1 DEF Reached
      <4> QED BY <1>1, <4>1, <4>2
    <3> QED BY <3>1, <3>2
  <2>8. Complete'
    <3> SUFFICES ASSUME stream.pc = "live", ~stream.lagged, ~stream.full, ~page.raced,
                        NEW id \in 1 .. LastId'
                 PROVE  \/ id \in Pending' \/ id \in late \/ Covered(id)'
                        \/ \E i \in DOMAIN stream.buffer : stream.buffer[i] = id
      BY DEF Complete
    <3>1. CASE id \in 1 .. LastId
      BY <2>6, <3>1 DEF Complete
    <3>2. CASE id \notin 1 .. LastId
      BY <1>1, <3>2
    <3> QED BY <3>1, <3>2
  <2> QED BY <1>2, <2>3, <2>4, <2>7, <2>8 DEF Stream!SentInOrder
<1> QED BY <1>3, <1>4

\* A handler commits its row.
LEMMA CommitKeeps ==
  ASSUME StreamInv, NEW w \in Writers, Stream!Commit(w)
  PROVE  StreamInv'
PROOF
<1>1. /\ writer[w] = [pc |-> "idle"] /\ written[w] < MaxRows
      /\ written' = [written EXCEPT ![w] = @ + 1]
      /\ writer' = [writer EXCEPT ![w] = [pc |-> "committed"]]
      /\ UNCHANGED <<journal, late, stream, given, page>>
  BY DEF Stream!Commit, Stream!Idle, Stream!connection
<1>2. /\ written \in [Writers -> 0 .. MaxRows] /\ writer \in [Writers -> WriterStates] /\ MaxRows \in Nat
  BY StreamBounds DEF StreamInv, StreamTyped, Stream!StreamAssumption
<1>3. /\ written' \in [Writers -> 0 .. MaxRows] /\ written'[w] = written[w] + 1
      /\ \A v \in Writers : written[v] <= written'[v]
  BY <1>1, <1>2
<1>4. /\ writer' \in [Writers -> WriterStates] /\ writer'[w].pc = "committed"
      /\ \A v \in Writers \ {w} : writer'[v] = writer[v]
  BY <1>1, <1>2 DEF WriterStates
<1>5. StreamTyped'
  BY <1>1, <1>3, <1>4 DEF StreamInv, StreamTyped
<1>6. LastId' = LastId
  BY <1>1 DEF LastId, Stream!LastId
<1>7. Committed \subseteq Committed'
  <2> SUFFICES ASSUME NEW r \in Committed PROVE r \in Committed'
    OBVIOUS
  <2>1. r \in Stream!Rows /\ r[2] <= written[r[1]]
    BY CommittedOnes
  <2>2. r[1] \in Writers /\ r[2] \in 1 .. MaxRows
    BY <2>1 DEF Stream!Rows
  <2>3. r[2] <= written'[r[1]]
    BY <1>2, <1>3, <2>1, <2>2
  <2> QED BY <2>1, <2>3, CommittedOnes
<1>8. \A id : id \in Pending' <=> id \in Pending
  BY <1>1, <1>4, PendingOnes, PendingOnesNext
<1>9. Journaled'
  BY <1>1, <1>2, <1>3, <1>4, <1>6, <1>7 DEF StreamInv, Journaled
<1>10. LastId \in Nat
  BY JournalEnds DEF StreamInv
<1> QED BY <1>1, <1>5, <1>6, <1>7, <1>8, <1>9, <1>10, PublishingKeeps

\* A handler journals the event, with the next id.
LEMMA PersistKeeps ==
  ASSUME StreamInv, NEW w \in Writers, Stream!Persist(w)
  PROVE  StreamInv'
PROOF
<1>1. /\ writer[w].pc = "committed"
      /\ journal' = Append(journal, <<w, written[w]>>)
      /\ writer' = [writer EXCEPT ![w] = [pc |-> "persisted", id |-> LastId + 1]]
      /\ UNCHANGED <<written, late, stream, given, page>>
  BY DEF Stream!Persist, LastId, Stream!LastId, Stream!connection
<1>2. /\ written \in [Writers -> 0 .. MaxRows] /\ writer \in [Writers -> WriterStates] /\ MaxRows \in Nat
      /\ journal \in Seq(Stream!Rows)
  BY StreamBounds DEF StreamInv, StreamTyped, Stream!StreamAssumption
<1>3. LastId \in Nat /\ DOMAIN journal = 1 .. LastId
  BY JournalEnds DEF StreamInv
<1>4. written[w] \in 1 .. MaxRows
  BY <1>1, <1>2 DEF StreamInv, Journaled
<1>5. <<w, written[w]>> \in Committed
  <2>1. <<w, written[w]>> \in Stream!Rows
    BY <1>4 DEF Stream!Rows
  <2> QED BY <1>4, <2>1, CommittedOnes
<1>6. <<w, written[w]>> \in Stream!Rows
  BY <1>5, CommittedOnes
<1> DEFINE row == <<w, written[w]>>
<1> HIDE DEF row
<1>7. /\ journal' \in Seq(Stream!Rows) /\ LastId' = LastId + 1
      /\ DOMAIN journal' = 1 .. LastId + 1
      /\ \A id \in 1 .. LastId : journal'[id] = journal[id]
      /\ journal'[LastId + 1] = row
  BY <1>1, <1>2, <1>3, <1>6 DEF LastId, Stream!LastId, row
<1>8. /\ writer' \in [Writers -> WriterStates] /\ writer'[w].pc = "persisted" /\ writer'[w].id = LastId + 1
      /\ \A v \in Writers \ {w} : writer'[v] = writer[v]
  BY <1>1, <1>2, <1>3 DEF WriterStates
<1>9. StreamTyped'
  BY <1>1, <1>7, <1>8 DEF StreamInv, StreamTyped
<1>10. Committed' = Committed
  BY <1>1, CommittedOnes
<1>11. Journaled'
  <2>1. \A v \in Writers : writer[v].pc = "persisted" => writer[v].id \in 1 .. LastId
    BY DEF StreamInv, Journaled
  <2>2. \A id \in 1 .. LastId + 1 : journal'[id] \in Committed
    <3>1. \A id \in 1 .. LastId : journal'[id] \in Committed
      BY <1>3, <1>7 DEF StreamInv, Journaled
    <3>2. journal'[LastId + 1] \in Committed
      BY <1>5, <1>7 DEF row
    <3> QED BY <1>3, <3>1, <3>2
  <2>3. \A u, v \in Writers : writer'[u].pc = "persisted" /\ writer'[v].pc = "persisted"
                                 /\ writer'[u].id = writer'[v].id => u = v
    BY <1>3, <1>8, <2>1 DEF StreamInv, Journaled
  <2>4. \A v \in Writers : writer'[v].pc = "committed" => written[v] > 0
    BY <1>8 DEF StreamInv, Journaled
  <2>5. \A v \in Writers : writer'[v].pc = "persisted" => writer'[v].id \in 1 .. LastId + 1
    BY <1>3, <1>8, <2>1
  <2> QED BY <1>1, <1>7, <1>10, <2>2, <2>3, <2>4, <2>5 DEF Journaled
<1>12. /\ \A id \in 1 .. LastId : id \in Pending' <=> id \in Pending
       /\ LastId + 1 \in Pending'
  BY <1>1, <1>3, <1>8, PendingOnes, PendingOnesNext
<1>13. \A id \in 1 .. LastId' : id > LastId => id \in Pending'
  BY <1>3, <1>7, <1>12
<1>14. LastId <= LastId'
  BY <1>3, <1>7
<1> QED BY <1>1, <1>7, <1>9, <1>10, <1>11, <1>12, <1>13, <1>14, PublishingKeeps

\* The elements of a queue that was added to.
LEMMA Added ==
  ASSUME NEW s \in Seq(Nat), NEW id \in Nat
  PROVE  /\ Append(s, id) \in Seq(Nat) /\ Len(s) \in Nat
         /\ DOMAIN Append(s, id) = 1 .. Len(s) + 1
         /\ Append(s, id)[Len(s) + 1] = id
         /\ \A i \in 1 .. Len(s) : Append(s, id)[i] = s[i]
PROOF BY AppendProperties

\* The elements of a queue that lost its first.
LEMMA Lost ==
  ASSUME NEW s \in Seq(Nat), s # <<>>
  PROVE  /\ Tail(s) \in Seq(Nat) /\ Len(Tail(s)) = Len(s) - 1 /\ Len(s) - 1 \in Nat
         /\ Head(s) \in Nat /\ Head(s) = s[1] /\ 1 \in DOMAIN s
         /\ \A i \in 1 .. Len(s) - 1 : Tail(s)[i] = s[i + 1] /\ i + 1 \in DOMAIN s
PROOF
<1>1. /\ Tail(s) \in Seq(Nat) /\ Len(Tail(s)) = Len(s) - 1 /\ Head(s) \in Nat
      /\ \A i \in 1 .. Len(Tail(s)) : Tail(s)[i] = s[i + 1]
  BY HeadTailProperties
<1>2. Len(s) \in Nat /\ DOMAIN s = 1 .. Len(s) /\ Len(s) # 0
  BY EmptySeq, LenProperties
<1>3. PICK n \in Nat : n = Len(s)
  BY <1>2
<1>4. n - 1 \in Nat /\ 1 \in 1 .. n /\ \A i \in 1 .. n - 1 : i + 1 \in 1 .. n
  BY <1>2, <1>3
<1> QED BY <1>1, <1>2, <1>3, <1>4

\* Queue t is queue s with id at its end and, if it was full, without its first.
Takes(s, t, id, k, l) ==
  /\ k = 1 => Len(s) = Capacity
  /\ k = 0 => DOMAIN s = 1 .. l
  /\ DOMAIN t = 1 .. l + 1
  /\ \A i \in 1 .. l : i + k \in DOMAIN s /\ t[i] = s[i + k]
  /\ t[l + 1] = id

\* A full channel gives up its oldest event for a new one.
LEMMA QueueTakes ==
  ASSUME NEW s \in Seq(Nat), NEW id \in Nat, NEW u, NEW t,
         u = IF Len(s) = Capacity THEN Tail(s) ELSE s, t = Append(u, id)
  PROVE  /\ t \in Seq(Nat)
         /\ \E k \in {0, 1}, l \in Nat : Takes(s, t, id, k, l)
PROOF
<1>1. Capacity \in Nat \ {0}
  BY StreamBounds DEF Stream!StreamAssumption
<1>2. CASE Len(s) = Capacity
  <2>1. s # <<>>
    BY <1>1, <1>2, EmptySeq
  <2>2. /\ u \in Seq(Nat) /\ Len(u) = Len(s) - 1 /\ Len(s) - 1 \in Nat
        /\ \A i \in 1 .. Len(s) - 1 : u[i] = s[i + 1] /\ i + 1 \in DOMAIN s
    BY <1>2, <2>1, Lost
  <2>3. PICK l \in Nat : l = Len(s) - 1
    BY <2>2
  <2>4. /\ t \in Seq(Nat) /\ DOMAIN t = 1 .. l + 1 /\ t[l + 1] = id
        /\ \A i \in 1 .. l : t[i] = u[i]
    BY <2>2, <2>3, Added
  <2>5. \A i \in 1 .. l : i + 1 \in DOMAIN s /\ t[i] = s[i + 1]
    BY <2>2, <2>3, <2>4
  <2>6. Takes(s, t, id, 1, l)
    BY <1>2, <2>4, <2>5 DEF Takes
  <2> QED BY <2>4, <2>6
<1>3. CASE Len(s) # Capacity
  <2>1. t = Append(s, id)
    BY <1>3
  <2>2. PICK l \in Nat : l = Len(s) /\ DOMAIN s = 1 .. l
    BY LenProperties
  <2> DEFINE v == Append(s, id)
  <2>a. /\ v \in Seq(Nat) /\ DOMAIN v = 1 .. Len(s) + 1 /\ v[Len(s) + 1] = id
        /\ \A i \in 1 .. Len(s) : v[i] = s[i]
    BY Added
  <2>3. /\ t \in Seq(Nat) /\ DOMAIN t = 1 .. l + 1 /\ t[l + 1] = id
        /\ \A i \in 1 .. l : t[i] = s[i]
    <3> HIDE DEF v
    <3>1. t = v
      BY <2>1 DEF v
    <3> QED BY <2>a, <2>2, <3>1
  <2>4. \A i \in 1 .. l : i + 0 = i
    OBVIOUS
  <2>5. \A i \in 1 .. l : i + 0 \in DOMAIN s /\ t[i] = s[i + 0]
    BY <2>2, <2>3, <2>4
  <2>6. Takes(s, t, id, 0, l)
    BY <1>3, <2>2, <2>3, <2>5 DEF Takes
  <2> QED BY <2>3, <2>6
<1> QED BY <1>2, <1>3

\* A handler broadcasts its event, in or out of order.
LEMMA BroadcastKeeps ==
  ASSUME StreamInv, NEW w \in Writers, Stream!Broadcast(w)
  PROVE  StreamInv'
PROOF
<1> DEFINE id == writer[w].id
<1>1. /\ writer[w].pc = "persisted" /\ writer' = [writer EXCEPT ![w] = [pc |-> "idle"]]
      /\ late' = IF \E n \in id + 1 .. LastId : n \notin Pending THEN late \cup {id} ELSE late
      /\ UNCHANGED <<written, journal, given, page>>
  BY DEF Stream!Broadcast, Stream!Idle, Stream!tables, LastId, Pending
<1>2. writer \in [Writers -> WriterStates] /\ written \in [Writers -> 0 .. MaxRows]
  BY DEF StreamInv, StreamTyped
<1>3. /\ writer' \in [Writers -> WriterStates] /\ writer'[w].pc = "idle"
      /\ \A v \in Writers \ {w} : writer'[v] = writer[v]
  BY <1>1, <1>2 DEF WriterStates
<1>4. LastId \in Nat /\ DOMAIN journal = 1 .. LastId /\ LastId' = LastId
  BY <1>1, JournalEnds DEF StreamInv, LastId, Stream!LastId
<1>5. id \in 1 .. LastId /\ id \in Pending
  BY <1>1, PendingOnes DEF StreamInv, Journaled
<1>6. \A n : n \in Pending' <=> n \in Pending /\ n # id
  <2>1. \A v \in Writers : writer[v].pc = "persisted" /\ writer[v].id = id => v = w
    BY <1>1 DEF StreamInv, Journaled
  <2> QED BY <1>1, <1>3, <2>1, PendingOnes, PendingOnesNext
<1> HIDE DEF id
<1>7. late \subseteq late' /\ \A n \in 1 .. LastId : n \notin Pending => n < id \/ id \in late'
  <2>1. ASSUME NEW n \in 1 .. LastId, n \notin Pending, ~(n < id) PROVE id \in late'
    <3>1. n # id
      BY <1>5, <2>1
    <3>2. n \in id + 1 .. LastId
      BY <1>4, <1>5, <2>1, <3>1
    <3> QED BY <1>1, <2>1, <3>2
  <2> QED BY <1>1, <2>1
<1>8. Committed' = Committed
  BY <1>1, CommittedOnes
<1>9. Journaled'
  BY <1>1, <1>3, <1>4, <1>8 DEF StreamInv, Journaled
<1>10. PageShows' /\ PageFetches' /\ Stream!SentInOrder'
  BY <1>1, <1>4, <1>8 DEF StreamInv, PageShows, PageFetches, Stream!SentInOrder
<1>11. CASE stream = [pc |-> "closed"]
  <2>1. stream' = stream
    BY <1>11 DEF Stream!Broadcast, Stream!Closed
  <2>2. StreamTyped'
    BY <1>1, <1>3, <2>1 DEF StreamInv, StreamTyped
  <2>3. stream'.pc = "closed"
    BY <1>11, <2>1
  <2> QED BY <1>9, <1>10, <2>2, <2>3 DEF StreamInv, Buffered, Sending, Reached, Complete
<1>12. CASE stream # [pc |-> "closed"]
  <2>1. stream \in Connected
    BY <1>12 DEF StreamInv, StreamTyped
  <2>2. stream.buffer \in Seq(Nat) /\ stream.pc # "closed" /\ stream.queued \in Seq(Nat)
        /\ stream.cursor \in Nat /\ stream.lagged \in BOOLEAN
    BY <2>1 DEF Connected
  <2> DEFINE s == stream.buffer
             u == IF Len(s) = Capacity THEN Tail(s) ELSE s
             t == Append(u, id)
  <2>3. stream' = [stream EXCEPT !.buffer = t, !.lagged = @ \/ Len(s) = Capacity]
    BY <1>12 DEF Stream!Broadcast, Stream!Closed, id
  <2>4. s \in Seq(Nat) /\ id \in Nat
    BY <1>4, <1>5, <2>2
  <2>5. u = (IF Len(s) = Capacity THEN Tail(s) ELSE s) /\ t = Append(u, id)
    OBVIOUS
  <2> HIDE DEF t, u, s
  <2>b. t \in Seq(Nat)
    BY <2>4, <2>5, QueueTakes
  <2>6. PICK k \in {0, 1}, l \in Nat : Takes(s, t, id, k, l)
    BY <2>4, <2>5, QueueTakes
  <2>7. /\ DOMAIN t = 1 .. l + 1 /\ t[l + 1] = id
        /\ \A i \in 1 .. l : i + k \in DOMAIN s /\ t[i] = s[i + k]
    BY <2>6 DEF Takes
  <2>17. /\ k = 1 => Len(s) = Capacity
         /\ k = 0 => DOMAIN s = 1 .. l
    BY <2>6 DEF Takes
  <2>8. k = 0 => DOMAIN s = 1 .. l /\ \A i \in 1 .. l : t[i] = s[i]
    <3>1. \A i \in 1 .. l : i + 0 = i
      OBVIOUS
    <3> QED BY <2>7, <2>17, <3>1
  <2>9. /\ stream' \in Connected /\ stream'.buffer = t /\ stream'.queued = stream.queued
        /\ stream'.cursor = stream.cursor /\ stream'.pc = stream.pc /\ stream'.after = stream.after
        /\ stream'.full = stream.full /\ (stream'.lagged <=> stream.lagged \/ Len(s) = Capacity)
    BY <2>1, <2>2, <2>3, <2>b DEF Connected
  <2>10. /\ \A i \in DOMAIN s : s[i] \in (1 .. LastId) \ Pending
         /\ \A i, j \in DOMAIN s : i < j => s[j] \in late \/ s[i] < s[j]
    BY <2>2 DEF StreamInv, Buffered, s
  <2>11. StreamTyped'
    BY <1>1, <1>3, <2>9 DEF StreamInv, StreamTyped
  <2>12. Buffered'
    <3>1. \A i \in 1 .. l + 1 : t[i] \in (1 .. LastId) \ Pending'
      <4>1. \A i \in 1 .. l : t[i] \in (1 .. LastId) \ Pending'
        BY <1>6, <2>7, <2>10
      <4>2. t[l + 1] \in (1 .. LastId) \ Pending'
        BY <1>5, <1>6, <2>7
      <4> QED BY <2>7, <4>1, <4>2
    <3>2. \A i, j \in 1 .. l + 1 : i < j => t[j] \in late' \/ t[i] < t[j]
      <4>1. ASSUME NEW i \in 1 .. l, NEW j \in 1 .. l, i < j PROVE t[j] \in late' \/ t[i] < t[j]
        <5>1. i + k \in DOMAIN s /\ j + k \in DOMAIN s /\ i + k < j + k /\ t[i] = s[i + k] /\ t[j] = s[j + k]
          BY <2>7, <4>1
        <5> QED BY <1>7, <2>10, <5>1
      <4>2. ASSUME NEW i \in 1 .. l PROVE t[l + 1] \in late' \/ t[i] < t[l + 1]
        <5>1. t[i] \in 1 .. LastId /\ t[i] \notin Pending
          BY <2>7, <2>10, <4>2
        <5> QED BY <1>7, <2>7, <5>1
      <4> QED BY <2>7, <4>1, <4>2
    <3>3. stream'.after = page'.cursor
      BY <1>1, <2>2, <2>9 DEF StreamInv, Buffered
    <3> QED BY <1>4, <2>7, <2>9, <3>1, <3>2, <3>3 DEF Buffered
  <2>13. Sending'
    BY <1>1, <1>4, <2>9 DEF StreamInv, Sending
  <2>14. \A n : Covered(n) => Covered(n)'
    BY <1>1, <2>9 DEF Covered
  <2>15. Reached'
    <3> SUFFICES ASSUME stream.pc = "live", ~page.raced
                 PROVE  /\ \A i \in 1 .. l + 1 :
                             \/ t[i] \in late' \/ stream.cursor < t[i] \/ Covered(t[i])
                        /\ \A n \in 1 .. LastId :
                             \/ stream.cursor < n \/ Covered(n)
                             \/ \E m \in n + 1 .. LastId : m \notin Pending'
      BY <1>1, <1>4, <2>7, <2>9 DEF Reached, Covered
    <3>1. \A n \in 1 .. LastId :
            \/ stream.cursor < n \/ Covered(n) \/ \E m \in n + 1 .. LastId : m \notin Pending
      BY DEF StreamInv, Reached
    <3>2. ASSUME NEW i \in 1 .. l PROVE t[i] \in late' \/ stream.cursor < t[i] \/ Covered(t[i])
      <4>1. t[i] = s[i + k] /\ i + k \in DOMAIN s
        BY <2>7
      <4>2. s[i + k] \in late \/ stream.cursor < s[i + k] \/ Covered(s[i + k])
        BY <4>1 DEF StreamInv, Reached, s
      <4> QED BY <1>7, <4>1, <4>2
    <3>3. id \in late' \/ stream.cursor < id \/ Covered(id)
      <4>1. CASE \E m \in id + 1 .. LastId : m \notin Pending
        BY <1>1, <4>1
      <4> QED BY <1>5, <3>1, <4>1
    <3>4. \A i \in 1 .. l + 1 : t[i] \in late' \/ stream.cursor < t[i] \/ Covered(t[i])
      BY <2>7, <3>2, <3>3
    <3> QED BY <1>6, <3>1, <3>4
  <2>16. Complete'
    <3> SUFFICES ASSUME stream.pc = "live", ~stream.lagged, Len(s) # Capacity, ~stream.full, ~page.raced,
                        NEW n \in 1 .. LastId
                 PROVE  \/ n \in Pending' \/ n \in late' \/ Covered(n)'
                        \/ \E i \in 1 .. l + 1 : t[i] = n
      BY <1>1, <1>4, <2>7, <2>9 DEF Complete
    <3>1. k = 0
      BY <2>17 DEF s
    <3>2. CASE n = id
      BY <2>7, <3>2
    <3>3. CASE n # id
      <4>1. n \in Pending \/ n \in late \/ Covered(n) \/ \E i \in DOMAIN s : s[i] = n
        BY DEF StreamInv, Complete, s
      <4>2. \A i \in DOMAIN s : i \in 1 .. l + 1 /\ t[i] = s[i]
        BY <2>7, <2>8, <3>1
      <4> QED BY <1>6, <1>7, <2>14, <3>3, <4>1, <4>2
    <3> QED BY <3>2, <3>3
  <2> QED BY <1>9, <1>10, <2>11, <2>12, <2>13, <2>15, <2>16 DEF StreamInv
<1> QED BY <1>11, <1>12

\* The page fetches a snapshot: its boundary first, then its rows.
LEMMA FetchKeeps ==
  ASSUME StreamInv, Stream!ReadBoundary \/ Stream!ReadRows
  PROVE  StreamInv'
PROOF
<1>1. /\ UNCHANGED <<written, journal, writer, late, stream, given>>
      /\ page \in PageStates /\ LastId \in Nat
  BY JournalEnds DEF StreamInv, StreamTyped, Stream!ReadBoundary, Stream!ReadRows, Stream!Fetching,
     Stream!tables, Stream!connection
<1>2. LastId' = LastId /\ Pending' = Pending /\ Committed' = Committed
  BY <1>1 DEF LastId, Stream!LastId, Pending, Stream!Pending, Committed, Stream!Committed
<1>3. SUFFICES /\ page' \in PageStates /\ PageFetches'
               /\ page'.shown = page.shown /\ page'.cursor = page.cursor /\ page'.raced = page.raced
  <2>1. ASSUME page' \in PageStates, PageFetches',
               page'.shown = page.shown, page'.cursor = page.cursor, page'.raced = page.raced
        PROVE  StreamInv'
    <3>1. StreamTyped' /\ Journaled'
      BY <1>1, <1>2, <2>1 DEF StreamInv, StreamTyped, Journaled
    <3>2. PageShows' /\ Stream!SentInOrder'
      BY <1>1, <1>2, <2>1 DEF StreamInv, PageShows, Stream!SentInOrder
    <3>3. Buffered' /\ Sending'
      BY <1>1, <1>2, <2>1 DEF StreamInv, Buffered, Sending
    <3>4. Reached' /\ Complete'
      BY <1>1, <1>2, <2>1 DEF StreamInv, Reached, Complete, Covered
    <3> QED BY <2>1, <3>1, <3>2, <3>3, <3>4 DEF StreamInv
  <2> QED BY <2>1
<1>4. CASE Stream!ReadBoundary
  <2>1. page' = [page EXCEPT !.pc = "boundary", !.boundary = LastId]
    BY <1>4 DEF Stream!ReadBoundary, LastId
  <2>2. /\ page' \in PageStates /\ page'.shown = page.shown /\ page'.cursor = page.cursor
        /\ page'.raced = page.raced /\ page'.pc = "boundary" /\ page'.boundary = LastId
    BY <1>1, <2>1 DEF PageStates
  <2>3. PageFetches'
    BY <1>1, <1>2, <2>2 DEF StreamInv, PageShows, PageFetches
  <2> QED BY <2>2, <2>3
<1>5. CASE Stream!ReadRows
  <2>1. page.pc = "boundary" /\ page' = [page EXCEPT !.pc = "read", !.got = Committed]
    BY <1>5 DEF Stream!ReadRows, Stream!Fetching, Committed
  <2>2. Committed \subseteq Stream!Rows
    BY CommittedOnes
  <2>3. /\ page' \in PageStates /\ page'.shown = page.shown /\ page'.cursor = page.cursor
        /\ page'.raced = page.raced /\ page'.pc = "read" /\ page'.boundary = page.boundary
        /\ page'.got = Committed
    BY <1>1, <2>1, <2>2 DEF PageStates
  <2>4. page.boundary \in Nat /\ DOMAIN journal = 1 .. LastId
    BY <1>1, JournalEnds DEF PageStates, StreamInv
  <2>5. \A id \in 1 .. page.boundary : journal[id] \in Committed
    BY <1>1, <2>1, <2>4 DEF StreamInv, Journaled, PageFetches
  <2>6. PageFetches'
    BY <1>1, <1>2, <2>1, <2>3, <2>5 DEF StreamInv, PageShows, PageFetches
  <2> QED BY <2>3, <2>6
<1> QED BY <1>4, <1>5

\* The snapshot replaces the cache of the page.
LEMMA ArriveKeeps ==
  ASSUME StreamInv, Stream!Arrive
  PROVE  StreamInv'
PROOF
<1>1. /\ page.pc = "read"
      /\ UNCHANGED <<written, journal, writer, late>>
      /\ page' = [page EXCEPT !.pc = "ready", !.shown = page.got, !.cursor = page.boundary,
                    !.raced = page.cursor = page.boundary /\ ~(page.shown \subseteq page.got)]
  BY DEF Stream!Arrive, Stream!Replace, Stream!Fetching, Stream!tables
<1>2. LastId' = LastId /\ Pending' = Pending /\ Committed' = Committed
  BY <1>1 DEF LastId, Stream!LastId, Pending, Stream!Pending, Committed, Stream!Committed
<1>3. page \in PageStates /\ LastId \in Nat /\ page.cursor \in Nat /\ page.boundary \in Nat
  BY JournalEnds DEF StreamInv, StreamTyped, PageStates
<1>4. /\ page' \in PageStates /\ page'.pc = "ready" /\ page'.shown = page.got
      /\ page'.cursor = page.boundary
      /\ page'.raced <=> page.cursor = page.boundary /\ ~(page.shown \subseteq page.got)
  BY <1>1, <1>3 DEF PageStates
<1>5. Journaled'
  BY <1>1, <1>2 DEF StreamInv, Journaled
<1>6. PageShows'
  BY <1>1, <1>2, <1>3, <1>4 DEF StreamInv, PageShows, PageFetches
<1>7. PageFetches'
  <2>1. ASSUME page'.raced PROVE page.boundary < LastId
    <3>1. PICK r \in page.shown : r \notin page.got
      BY <1>4, <2>1
    <3>2. PICK id \in page.boundary + 1 .. LastId : journal[id] = r
      BY <1>1, <3>1 DEF StreamInv, PageFetches
    <3> QED BY <1>3, <3>2
  <2> QED BY <1>2, <1>4, <2>1 DEF PageFetches
<1>8. CASE page.cursor = page.boundary
  <2>1. UNCHANGED <<stream, given>>
    BY <1>8 DEF Stream!Arrive, Stream!Replace, Stream!connection
  <2>2. StreamTyped'
    BY <1>1, <1>4, <2>1 DEF StreamInv, StreamTyped
  <2>3. Buffered' /\ Sending' /\ Stream!SentInOrder'
    BY <1>1, <1>2, <1>4, <1>8, <2>1 DEF StreamInv, Buffered, Sending, Stream!SentInOrder
  <2>4. ~page.raced
    BY <1>1, <1>3, <1>8 DEF StreamInv, PageFetches
  <2>5. ~page'.raced => page.shown \subseteq page'.shown
    BY <1>4, <1>8
  <2>6. Reached' /\ Complete'
    BY <1>1, <1>2, <2>1, <2>4, <2>5 DEF StreamInv, Reached, Complete, Covered
  <2> QED BY <1>5, <1>6, <1>7, <2>2, <2>3, <2>6 DEF StreamInv
<1>9. CASE page.cursor # page.boundary
  <2>1. stream' = [pc |-> "closed"] /\ given' = <<>>
    BY <1>9 DEF Stream!Arrive, Stream!Replace, Stream!Closed
  <2>2. StreamTyped'
    BY <1>1, <1>4, <2>1 DEF StreamInv, StreamTyped
  <2>3. stream'.pc = "closed" /\ DOMAIN given' = {}
    BY <2>1
  <2>4. Buffered' /\ Sending' /\ Reached' /\ Complete' /\ Stream!SentInOrder'
    BY <2>3 DEF Buffered, Sending, Reached, Complete, Stream!SentInOrder
  <2> QED BY <1>5, <1>6, <1>7, <2>2, <2>4 DEF StreamInv
<1> QED BY <1>8, <1>9

\* The browser connects with the cursor of the page.
LEMMA SubscribeKeeps ==
  ASSUME StreamInv, Stream!Subscribe
  PROVE  StreamInv'
PROOF
<1>1. /\ UNCHANGED <<written, journal, writer, late, given, page>>
      /\ stream' = [pc |-> "subscribed", after |-> page.cursor, cursor |-> page.cursor,
                    queued |-> <<>>, buffer |-> <<>>, lagged |-> FALSE, full |-> FALSE]
  BY DEF Stream!Subscribe, Stream!Streaming, Stream!tables
<1>2. LastId' = LastId /\ Pending' = Pending /\ Committed' = Committed
  BY <1>1 DEF LastId, Stream!LastId, Pending, Stream!Pending, Committed, Stream!Committed
<1>3. page.cursor \in Nat
  BY DEF StreamInv, StreamTyped, PageStates
<1>4. /\ stream' \in Connected /\ stream'.pc = "subscribed" /\ stream'.after = page.cursor
      /\ DOMAIN stream'.buffer = {}
  BY <1>1, <1>3 DEF Connected
<1>5. StreamTyped'
  BY <1>1, <1>4 DEF StreamInv, StreamTyped
<1>6. Journaled' /\ PageShows' /\ PageFetches' /\ Stream!SentInOrder'
  BY <1>1, <1>2 DEF StreamInv, Journaled, PageShows, PageFetches, Stream!SentInOrder
<1>7. Buffered' /\ Sending' /\ Reached' /\ Complete'
  BY <1>1, <1>4 DEF Buffered, Sending, Reached, Complete
<1> QED BY <1>5, <1>6, <1>7 DEF StreamInv

\* The replay: the oldest events after the cursor of the page.
LEMMA ReplayKeeps ==
  ASSUME StreamInv, Stream!Replay
  PROVE  StreamInv'
PROOF
<1> DEFINE q == Stream!Listed
<1>1. /\ UNCHANGED <<written, journal, writer, late, page>>
      /\ stream.pc = "subscribed" /\ given' = <<>>
      /\ stream' = [stream EXCEPT !.pc = "live", !.queued = q, !.buffer = stream.buffer,
                                  !.cursor = stream.after + Len(q), !.full = Len(q) = ReplayLimit]
  BY DEF Stream!Replay, Stream!Streaming, Stream!Listening, Stream!tables
<1>2. LastId' = LastId /\ Pending' = Pending /\ Committed' = Committed
  BY <1>1 DEF LastId, Stream!LastId, Pending, Stream!Pending, Committed, Stream!Committed
<1>3. stream \in Connected
  BY <1>1 DEF StreamInv, StreamTyped
<1>4. LastId \in Nat /\ stream.after \in Nat /\ stream.after <= LastId /\ ReplayLimit \in Nat
      /\ stream.after = page.cursor
  BY <1>1, <1>3, JournalEnds, StreamBounds
  DEF StreamInv, Buffered, PageShows, Connected, Stream!StreamAssumption
<1>5. PICK k \in Nat : /\ k = (IF LastId - stream.after < ReplayLimit THEN LastId - stream.after ELSE ReplayLimit)
  BY <1>4
<1>6. /\ q = [i \in 1 .. k |-> stream.after + i]
      /\ stream.after + k <= LastId /\ (k # ReplayLimit => stream.after + k = LastId)
  BY <1>4, <1>5 DEF Stream!Listed, LastId
<1> HIDE DEF q
<1>7. q \in Seq(Nat) /\ Len(q) = k /\ DOMAIN q = 1 .. k /\ \A i \in 1 .. k : q[i] = stream.after + i
  BY <1>4, <1>6
<1>8. /\ stream' \in Connected /\ stream'.pc = "live" /\ stream'.queued = q
      /\ stream'.buffer = stream.buffer /\ stream'.cursor = stream.after + k
      /\ (stream'.full <=> k = ReplayLimit) /\ stream'.after = stream.after
      /\ stream'.lagged = stream.lagged
  <2>0. PICK c \in Nat : c = stream.after + Len(q)
    BY <1>4, <1>7
  <2>1. PICK f \in BOOLEAN : f = (Len(q) = ReplayLimit)
    OBVIOUS
  <2>2. stream' = [stream EXCEPT !.pc = "live", !.queued = q, !.buffer = stream.buffer, !.cursor = c, !.full = f]
    BY <1>1, <2>0, <2>1
  <2>3. /\ stream' \in Connected /\ stream'.pc = "live" /\ stream'.queued = q
        /\ stream'.buffer = stream.buffer /\ stream'.cursor = c /\ stream'.full = f
        /\ stream'.after = stream.after /\ stream'.lagged = stream.lagged
    BY <1>3, <1>7, <2>2 DEF Connected
  <2> QED BY <1>7, <2>0, <2>1, <2>3
<1>9. StreamTyped'
  BY <1>1, <1>8 DEF StreamInv, StreamTyped
<1>10. DOMAIN given' = {}
  BY <1>1
<1>11. Journaled' /\ PageShows' /\ PageFetches' /\ Stream!SentInOrder'
  BY <1>1, <1>2, <1>10 DEF StreamInv, Journaled, PageShows, PageFetches, Stream!SentInOrder
<1>12. Buffered'
  BY <1>1, <1>2, <1>8 DEF StreamInv, Buffered
<1>13. Sending'
  BY <1>2, <1>4, <1>6, <1>7, <1>8, <1>10 DEF Sending
<1>14. \A n \in 1 .. LastId : n <= stream.after + k =>
          journal[n] \in page.shown \/ \E i \in DOMAIN q : q[i] = n
  <2> SUFFICES ASSUME NEW n \in 1 .. LastId, n <= stream.after + k, ~(n <= stream.after)
               PROVE  \E i \in DOMAIN q : q[i] = n
    BY <1>4 DEF StreamInv, PageShows
  <2>1. n - stream.after \in 1 .. k /\ stream.after + (n - stream.after) = n
    BY <1>4
  <2> QED BY <1>7, <2>1
<1>15. \A i \in DOMAIN stream.buffer : stream.buffer[i] \in 1 .. LastId
  BY <1>1 DEF StreamInv, Buffered
<1>16. Reached'
  BY <1>1, <1>2, <1>4, <1>8, <1>14, <1>15 DEF Reached, Covered
<1>17. Complete'
  BY <1>1, <1>2, <1>4, <1>6, <1>8, <1>14 DEF Complete, Covered
<1> QED BY <1>9, <1>11, <1>12, <1>13, <1>16, <1>17 DEF StreamInv

\* The page merges a row that the connection sent.
LEMMA PageTakes ==
  ASSUME StreamInv, NEW id \in 1 .. LastId, UNCHANGED <<written, journal, writer, late>>,
         page' = [page EXCEPT !.shown = @ \cup {journal[id]}]
  PROVE  /\ page' \in PageStates /\ Journaled' /\ PageShows' /\ PageFetches'
         /\ page'.shown = page.shown \cup {journal[id]} /\ page'.cursor = page.cursor
         /\ page'.raced = page.raced
         /\ LastId' = LastId /\ Pending' = Pending
PROOF
<1>1. LastId' = LastId /\ Pending' = Pending /\ Committed' = Committed
  BY DEF LastId, Stream!LastId, Pending, Stream!Pending, Committed, Stream!Committed
<1>2. page \in PageStates /\ LastId \in Nat /\ DOMAIN journal = 1 .. LastId /\ journal[id] \in Stream!Rows
      /\ page.boundary \in Nat
  BY JournalEnds DEF StreamInv, StreamTyped, PageStates
<1>3. /\ page' \in PageStates /\ page'.shown = page.shown \cup {journal[id]} /\ page'.cursor = page.cursor
      /\ page'.raced = page.raced /\ page'.pc = page.pc /\ page'.boundary = page.boundary
      /\ page'.got = page.got
  BY <1>2 DEF PageStates
<1>4. journal[id] \in Committed
  BY <1>2 DEF StreamInv, Journaled
<1>5. Journaled' /\ PageShows'
  BY <1>1, <1>3, <1>4 DEF StreamInv, Journaled, PageShows
<1>6. PageFetches'
  <2>1. ASSUME page.pc = "read", journal[id] \notin page.got
        PROVE  \E n \in page.boundary + 1 .. LastId : journal[n] = journal[id]
    <3>1. id \notin 1 .. page.boundary
      BY <2>1 DEF StreamInv, PageFetches
    <3>2. id \in page.boundary + 1 .. LastId
      BY <1>2, <3>1
    <3> QED BY <3>2
  <2> QED BY <1>1, <1>3, <2>1 DEF StreamInv, PageFetches
<1> QED BY <1>1, <1>3, <1>5, <1>6

\* The connection sends what was replayed, in order.
LEMMA GiveQueuedKeeps ==
  ASSUME StreamInv, Stream!GiveQueued
  PROVE  StreamInv'
PROOF
<1> DEFINE q == stream.queued
           id == Head(q)
           p == Tail(q)
<1>1. /\ UNCHANGED <<written, journal, writer, late>> /\ stream.pc = "live" /\ q # <<>>
      /\ given' = Append(given, id) /\ page' = [page EXCEPT !.shown = @ \cup {journal[id]}]
      /\ stream' = [stream EXCEPT !.queued = p]
  BY DEF Stream!GiveQueued, Stream!Streaming, Stream!Give, Stream!tables
<1>2. stream \in Connected /\ q \in Seq(Nat) /\ given \in Seq(Nat)
  BY <1>1 DEF StreamInv, StreamTyped, Connected
<1>3. /\ p \in Seq(Nat) /\ Len(p) = Len(q) - 1 /\ Len(q) - 1 \in Nat
      /\ id \in Nat /\ id = q[1] /\ 1 \in DOMAIN q
      /\ \A i \in 1 .. Len(q) - 1 : p[i] = q[i + 1] /\ i + 1 \in DOMAIN q
  BY <1>1, <1>2, Lost
<1>4. DOMAIN p = 1 .. Len(q) - 1 /\ DOMAIN q = 1 .. Len(q) /\ Len(q) \in Nat
  BY <1>2, <1>3, LenProperties
<1>5. PICK l \in Nat : l = Len(given) /\ DOMAIN given = 1 .. l
  BY <1>2, LenProperties
<1>6. /\ Append(given, id) \in Seq(Nat) /\ DOMAIN Append(given, id) = 1 .. l + 1
      /\ Append(given, id)[l + 1] = id
      /\ \A i \in 1 .. l : Append(given, id)[i] = given[i]
  BY <1>2, <1>3, <1>5, Added
<1>7. /\ given' \in Seq(Nat) /\ DOMAIN given' = 1 .. l + 1 /\ given'[l + 1] = id
      /\ \A i \in 1 .. l : given'[i] = given[i]
  BY <1>1, <1>6
<1>8. /\ stream' \in Connected /\ stream'.pc = "live" /\ stream'.queued = p /\ stream'.after = stream.after
      /\ stream'.cursor = stream.cursor /\ stream'.buffer = stream.buffer
      /\ stream'.lagged = stream.lagged /\ stream'.full = stream.full
  BY <1>1, <1>2, <1>3 DEF Connected
<1> HIDE DEF p, id, q
<1>9. /\ stream.cursor \in Nat /\ stream.cursor <= LastId /\ LastId \in Nat
      /\ id \in 1 .. stream.cursor
      /\ \A i \in DOMAIN q : q[i] \in 1 .. stream.cursor
      /\ \A i, j \in DOMAIN q : i < j => q[i] < q[j]
      /\ \A i \in 1 .. l : given[i] <= stream.cursor
      /\ \A i \in 1 .. l, j \in DOMAIN q : given[i] < q[j]
  BY <1>1, <1>2, <1>3, <1>5, JournalEnds DEF StreamInv, Sending, Connected, q
<1>10. id \in 1 .. LastId
  BY <1>9
<1>11. /\ page' \in PageStates /\ Journaled' /\ PageShows' /\ PageFetches'
       /\ page'.shown = page.shown \cup {journal[id]} /\ page'.cursor = page.cursor
       /\ page'.raced = page.raced /\ LastId' = LastId /\ Pending' = Pending
  BY <1>1, <1>10, PageTakes
<1>12. StreamTyped'
  BY <1>1, <1>7, <1>8, <1>11 DEF StreamInv, StreamTyped
<1>13. Stream!SentInOrder'
  <2>1. \A i, j \in 1 .. l : i < j => given[i] < given[j]
    BY <1>5 DEF StreamInv, Stream!SentInOrder
  <2>2. \A i \in 1 .. l : given[i] < id
    BY <1>3, <1>9
  <2>3. \A i, j \in 1 .. l + 1 : i < j => given'[i] < given'[j]
    <3>1. ASSUME NEW i \in 1 .. l + 1, NEW j \in 1 .. l + 1, i < j PROVE given'[i] < given'[j]
      <4>1. i \in 1 .. l
        BY <3>1
      <4>2. CASE j \in 1 .. l
        BY <1>7, <2>1, <3>1, <4>1, <4>2
      <4>3. CASE j = l + 1
        BY <1>7, <2>2, <4>1, <4>3
      <4> QED BY <4>2, <4>3
    <3> QED BY <3>1
  <2> QED BY <1>7, <2>3 DEF Stream!SentInOrder
<1>14. Buffered'
  BY <1>1, <1>8, <1>11 DEF StreamInv, Buffered
<1>15. Sending'
  <2>1. \A i \in DOMAIN p : i + 1 \in DOMAIN q /\ p[i] = q[i + 1]
    BY <1>3, <1>4
  <2>2. \A i, j \in DOMAIN p : i < j => p[i] < p[j]
    <3>1. ASSUME NEW i \in DOMAIN p, NEW j \in DOMAIN p, i < j PROVE p[i] < p[j]
      <4>1. i + 1 < j + 1
        BY <1>4, <3>1
      <4> QED BY <1>9, <2>1, <4>1
    <3> QED BY <3>1
  <2>3. \A j \in DOMAIN p : id < p[j]
    <3>1. ASSUME NEW j \in DOMAIN p PROVE id < p[j]
      <4>1. 1 < j + 1
        BY <1>4, <3>1
      <4> QED BY <1>3, <1>9, <2>1, <4>1
    <3> QED BY <3>1
  <2>4. \A i \in 1 .. l + 1 : given'[i] <= stream.cursor
    <3>1. ASSUME NEW i \in 1 .. l + 1 PROVE given'[i] <= stream.cursor
      <4>1. CASE i \in 1 .. l
        BY <1>7, <1>9, <4>1
      <4>2. CASE i = l + 1
        BY <1>7, <1>9, <4>2
      <4> QED BY <3>1, <4>1, <4>2
    <3> QED BY <3>1
  <2>5. \A i \in 1 .. l + 1, j \in DOMAIN p : given'[i] < p[j]
    <3>1. ASSUME NEW i \in 1 .. l + 1, NEW j \in DOMAIN p PROVE given'[i] < p[j]
      <4>1. CASE i \in 1 .. l
        BY <1>7, <1>9, <2>1, <4>1
      <4>2. CASE i = l + 1
        BY <1>7, <2>3, <4>2
      <4> QED BY <3>1, <4>1, <4>2
    <3> QED BY <3>1
  <2> QED BY <1>7, <1>8, <1>9, <1>11, <2>1, <2>2, <2>4, <2>5 DEF Sending
<1>16. \A n : Covered(n) =>
          journal'[n] \in page'.shown \/ \E i \in DOMAIN stream'.queued : stream'.queued[i] = n
  <2> SUFFICES ASSUME NEW n, NEW i \in DOMAIN q, q[i] = n, n # id
               PROVE  \E j \in DOMAIN p : p[j] = n
    BY <1>1, <1>8, <1>11 DEF Covered, q
  <2>1. i # 1 /\ i \in 1 .. Len(q)
    BY <1>3, <1>4
  <2>2. i - 1 \in 1 .. Len(q) - 1 /\ (i - 1) + 1 = i
    BY <1>4, <2>1
  <2> QED BY <1>3, <1>4, <2>2
<1>17. Reached'
  BY <1>1, <1>8, <1>11, <1>16 DEF StreamInv, Reached, Covered
<1>18. Complete'
  BY <1>1, <1>8, <1>11, <1>16 DEF StreamInv, Complete, Covered
<1> QED BY <1>11, <1>12, <1>13, <1>14, <1>15, <1>17, <1>18 DEF StreamInv

\* The head of the channel, and what is left.
LEMMA HeadOut ==
  ASSUME StreamInv, stream.pc = "live", stream.buffer # <<>>
  PROVE  /\ stream \in Connected /\ stream.cursor \in Nat /\ stream.cursor <= LastId
         /\ Tail(stream.buffer) \in Seq(Nat)
         /\ Head(stream.buffer) \in 1 .. LastId /\ Head(stream.buffer) \notin Pending
         /\ \A i \in DOMAIN Tail(stream.buffer) :
              /\ \E k \in DOMAIN stream.buffer : Tail(stream.buffer)[i] = stream.buffer[k]
              /\ Tail(stream.buffer)[i] \in (1 .. LastId) \ Pending
              /\ Tail(stream.buffer)[i] \in late \/ Head(stream.buffer) < Tail(stream.buffer)[i]
         /\ \A i, j \in DOMAIN Tail(stream.buffer) : i < j =>
              Tail(stream.buffer)[j] \in late \/ Tail(stream.buffer)[i] < Tail(stream.buffer)[j]
         /\ \A i \in DOMAIN stream.buffer :
              \/ stream.buffer[i] = Head(stream.buffer)
              \/ \E j \in DOMAIN Tail(stream.buffer) : Tail(stream.buffer)[j] = stream.buffer[i]
         /\ Head(stream.buffer) = stream.buffer[1] /\ 1 \in DOMAIN stream.buffer
PROOF
<1> DEFINE b == stream.buffer
           t == Tail(b)
           id == Head(b)
<1>1. stream \in Connected /\ b \in Seq(Nat)
  BY DEF StreamInv, StreamTyped, Connected
<1>2. stream.cursor \in Nat /\ stream.cursor <= LastId
  BY <1>1 DEF StreamInv, Sending, Connected
<1>3. /\ t \in Seq(Nat) /\ Len(t) = Len(b) - 1 /\ Len(b) - 1 \in Nat
      /\ id \in Nat /\ id = b[1] /\ 1 \in DOMAIN b
      /\ \A i \in 1 .. Len(b) - 1 : t[i] = b[i + 1] /\ i + 1 \in DOMAIN b
  BY <1>1, Lost
<1>4. DOMAIN t = 1 .. Len(b) - 1 /\ DOMAIN b = 1 .. Len(b) /\ Len(b) \in Nat
  BY <1>1, <1>3, LenProperties
<1>5. /\ \A i \in DOMAIN b : b[i] \in (1 .. LastId) \ Pending
      /\ \A i, j \in DOMAIN b : i < j => b[j] \in late \/ b[i] < b[j]
  BY DEF StreamInv, Buffered
<1> HIDE DEF b, t, id
<1>6. ASSUME NEW i \in DOMAIN t
      PROVE  /\ i + 1 \in DOMAIN b /\ t[i] = b[i + 1] /\ 1 < i + 1
             /\ t[i] \in late \/ id < t[i]
  <2>1. i + 1 \in DOMAIN b /\ t[i] = b[i + 1] /\ 1 < i + 1
    BY <1>3, <1>4, <1>6
  <2> QED BY <1>3, <1>5, <2>1
<1>7. ASSUME NEW i \in DOMAIN t, NEW j \in DOMAIN t, i < j
      PROVE  t[j] \in late \/ t[i] < t[j]
  <2>1. i + 1 < j + 1
    BY <1>4, <1>7
  <2> QED BY <1>5, <1>6, <2>1
<1>8. ASSUME NEW i \in DOMAIN b PROVE b[i] = id \/ \E j \in DOMAIN t : t[j] = b[i]
  <2>1. CASE i = 1
    BY <1>3, <2>1
  <2>2. CASE i # 1
    <3>1. i - 1 \in 1 .. Len(b) - 1 /\ (i - 1) + 1 = i
      BY <1>4, <1>8, <2>2
    <3> QED BY <1>3, <1>4, <3>1
  <2> QED BY <2>1, <2>2
<1>9. \A i \in DOMAIN t : \E k \in DOMAIN b : t[i] = b[k]
  BY <1>6
<1> QED BY <1>1, <1>2, <1>3, <1>5, <1>6, <1>7, <1>8, <1>9 DEF b, t, id

\* The connection sends a live event, and its cursor moves on.
LEMMA GiveLiveKeeps ==
  ASSUME StreamInv, Stream!GiveLive
  PROVE  StreamInv'
PROOF
<1> DEFINE b == stream.buffer
           t == Tail(b)
           id == Head(b)
<1>1. /\ UNCHANGED <<written, journal, writer, late>> /\ stream.pc = "live"
      /\ stream.queued = <<>> /\ b # <<>> /\ stream.cursor < id
      /\ given' = Append(given, id) /\ page' = [page EXCEPT !.shown = @ \cup {journal[id]}]
      /\ stream' = [stream EXCEPT !.buffer = t, !.cursor = id]
  BY DEF Stream!GiveLive, Stream!Streaming, Stream!Give, Stream!tables, Stream!NextLive
<1>2. /\ stream \in Connected /\ stream.cursor \in Nat /\ stream.cursor <= LastId
      /\ t \in Seq(Nat) /\ id \in 1 .. LastId /\ id \notin Pending
      /\ \A i \in DOMAIN t : /\ \E k \in DOMAIN b : t[i] = b[k]
                             /\ t[i] \in (1 .. LastId) \ Pending
                             /\ t[i] \in late \/ id < t[i]
      /\ \A i, j \in DOMAIN t : i < j => t[j] \in late \/ t[i] < t[j]
      /\ \A i \in DOMAIN b : b[i] = id \/ \E j \in DOMAIN t : t[j] = b[i]
  BY <1>1, HeadOut
<1>3. LastId \in Nat /\ id \in Nat /\ given \in Seq(Nat)
  BY <1>2, JournalEnds DEF StreamInv, StreamTyped
<1>4. PICK l \in Nat : l = Len(given) /\ DOMAIN given = 1 .. l
  BY <1>3, LenProperties
<1>5. /\ Append(given, id) \in Seq(Nat) /\ DOMAIN Append(given, id) = 1 .. l + 1
      /\ Append(given, id)[l + 1] = id
      /\ \A i \in 1 .. l : Append(given, id)[i] = given[i]
  BY <1>3, <1>4, Added
<1>6. /\ given' \in Seq(Nat) /\ DOMAIN given' = 1 .. l + 1 /\ given'[l + 1] = id
      /\ \A i \in 1 .. l : given'[i] = given[i]
  BY <1>1, <1>5
<1>7. /\ stream' \in Connected /\ stream'.pc = "live" /\ stream'.queued = <<>> /\ stream'.after = stream.after
      /\ stream'.cursor = id /\ stream'.buffer = t
      /\ stream'.lagged = stream.lagged /\ stream'.full = stream.full
  BY <1>1, <1>2, <1>3 DEF Connected
<1> HIDE DEF t, id, b
<1>8. /\ page' \in PageStates /\ Journaled' /\ PageShows' /\ PageFetches'
      /\ page'.shown = page.shown \cup {journal[id]} /\ page'.cursor = page.cursor
      /\ page'.raced = page.raced /\ LastId' = LastId /\ Pending' = Pending
  BY <1>1, <1>2, PageTakes
<1>9. StreamTyped'
  BY <1>1, <1>6, <1>7, <1>8 DEF StreamInv, StreamTyped
<1>10. \A i \in 1 .. l : given[i] \in Nat /\ given[i] <= stream.cursor
  BY <1>1, <1>3, <1>4 DEF StreamInv, Sending
<1>11. Stream!SentInOrder'
  <2>1. \A i, j \in 1 .. l : i < j => given[i] < given[j]
    BY <1>4 DEF StreamInv, Stream!SentInOrder
  <2>2. \A i \in 1 .. l : given[i] < id
    BY <1>1, <1>2, <1>3, <1>10
  <2>3. \A i, j \in 1 .. l + 1 : i < j => given'[i] < given'[j]
    <3>1. ASSUME NEW i \in 1 .. l + 1, NEW j \in 1 .. l + 1, i < j PROVE given'[i] < given'[j]
      <4>1. i \in 1 .. l
        BY <3>1
      <4>2. CASE j \in 1 .. l
        BY <1>6, <2>1, <3>1, <4>1, <4>2
      <4>3. CASE j = l + 1
        BY <1>6, <2>2, <4>1, <4>3
      <4> QED BY <4>2, <4>3
    <3> QED BY <3>1
  <2> QED BY <1>6, <2>3 DEF Stream!SentInOrder
<1>12. Buffered'
  <2>1. stream.after = page.cursor
    BY <1>1 DEF StreamInv, Buffered
  <2> QED BY <1>1, <1>2, <1>7, <1>8, <2>1 DEF Buffered
<1>13. Sending'
  <2>1. \A i \in 1 .. l + 1 : given'[i] <= id
    <3>1. ASSUME NEW i \in 1 .. l + 1 PROVE given'[i] <= id
      <4>1. CASE i \in 1 .. l
        BY <1>1, <1>2, <1>3, <1>6, <1>10, <4>1
      <4>2. CASE i = l + 1
        BY <1>3, <1>6, <4>2
      <4> QED BY <3>1, <4>1, <4>2
    <3> QED BY <3>1
  <2>2. DOMAIN stream'.queued = {}
    BY <1>7
  <2> QED BY <1>2, <1>6, <1>7, <1>8, <2>1, <2>2 DEF Sending
<1>14. \A n : Covered(n) => journal[n] \in page'.shown
  <2>1. DOMAIN stream.queued = {}
    BY <1>1
  <2> QED BY <1>8, <2>1 DEF Covered
<1>15. Reached'
  <2> SUFFICES ASSUME ~page.raced
               PROVE  /\ \A i \in DOMAIN t : t[i] \in late \/ id < t[i]
                      /\ \A n \in 1 .. LastId :
                           \/ id < n \/ journal[n] \in page'.shown
                           \/ \E m \in n + 1 .. LastId : m \notin Pending
    BY <1>1, <1>7, <1>8 DEF Reached, Covered
  <2>1. ASSUME NEW n \in 1 .. LastId, ~(id < n)
        PROVE  journal[n] \in page'.shown \/ \E m \in n + 1 .. LastId : m \notin Pending
    <3>1. CASE n = id
      BY <1>8, <3>1
    <3>2. CASE n # id
      <4>1. id \in n + 1 .. LastId
        BY <1>2, <1>3, <2>1, <3>2
      <4> QED BY <1>2, <4>1
    <3> QED BY <3>1, <3>2
  <2> QED BY <1>2, <2>1
<1>16. Complete'
  <2> SUFFICES ASSUME ~stream.lagged, ~stream.full, ~page.raced, NEW n \in 1 .. LastId
               PROVE  \/ n \in Pending \/ n \in late \/ journal[n] \in page'.shown
                      \/ \E i \in DOMAIN t : t[i] = n
    BY <1>1, <1>7, <1>8 DEF Complete, Covered
  <2>1. n \in Pending \/ n \in late \/ Covered(n) \/ \E i \in DOMAIN b : b[i] = n
    BY <1>1 DEF StreamInv, Complete, b
  <2>2. CASE n = id
    BY <1>8, <2>2
  <2>3. CASE n # id
    BY <1>2, <1>14, <2>1, <2>3
  <2> QED BY <2>2, <2>3
<1> QED BY <1>8, <1>9, <1>11, <1>12, <1>13, <1>15, <1>16 DEF StreamInv

\* An event that the replay has sent, or that was overtaken, is not sent again.
LEMMA SuppressKeeps ==
  ASSUME StreamInv, Stream!Suppress
  PROVE  StreamInv'
PROOF
<1> DEFINE b == stream.buffer
           t == Tail(b)
           id == Head(b)
<1>1. /\ UNCHANGED <<written, journal, writer, late, given, page>> /\ stream.pc = "live"
      /\ b # <<>> /\ id <= stream.cursor
      /\ stream' = [stream EXCEPT !.buffer = t]
  BY DEF Stream!Suppress, Stream!Streaming, Stream!tables, Stream!NextLive
<1>2. /\ stream \in Connected /\ stream.cursor \in Nat /\ stream.cursor <= LastId
      /\ t \in Seq(Nat) /\ id \in 1 .. LastId /\ id \notin Pending
      /\ \A i \in DOMAIN t : /\ \E k \in DOMAIN b : t[i] = b[k]
                             /\ t[i] \in (1 .. LastId) \ Pending
                             /\ t[i] \in late \/ id < t[i]
      /\ \A i, j \in DOMAIN t : i < j => t[j] \in late \/ t[i] < t[j]
      /\ \A i \in DOMAIN b : b[i] = id \/ \E j \in DOMAIN t : t[j] = b[i]
      /\ id = b[1] /\ 1 \in DOMAIN b
  BY <1>1, HeadOut
<1>3. LastId' = LastId /\ Pending' = Pending /\ Committed' = Committed
  BY <1>1 DEF LastId, Stream!LastId, Pending, Stream!Pending, Committed, Stream!Committed
<1>4. /\ stream' \in Connected /\ stream'.pc = "live" /\ stream'.queued = stream.queued
      /\ stream'.after = stream.after /\ stream'.cursor = stream.cursor /\ stream'.buffer = t
      /\ stream'.lagged = stream.lagged /\ stream'.full = stream.full
  BY <1>1, <1>2 DEF Connected
<1> HIDE DEF t, id
<1>5. StreamTyped'
  BY <1>1, <1>4 DEF StreamInv, StreamTyped
<1>6. Journaled' /\ PageShows' /\ PageFetches' /\ Stream!SentInOrder'
  BY <1>1, <1>3 DEF StreamInv, Journaled, PageShows, PageFetches, Stream!SentInOrder
<1>7. Buffered'
  <2>1. stream.after = page.cursor
    BY <1>1 DEF StreamInv, Buffered
  <2> QED BY <1>1, <1>2, <1>3, <1>4, <2>1 DEF Buffered
<1>8. Sending'
  BY <1>1, <1>3, <1>4 DEF StreamInv, Sending
<1>9. Reached'
  <2> SUFFICES ASSUME ~page.raced
               PROVE  /\ \A i \in DOMAIN t : t[i] \in late \/ stream.cursor < t[i] \/ Covered(t[i])
                      /\ \A n \in 1 .. LastId :
                           \/ stream.cursor < n \/ Covered(n)
                           \/ \E m \in n + 1 .. LastId : m \notin Pending
    BY <1>1, <1>3, <1>4 DEF Reached, Covered
  <2>1. /\ \A i \in DOMAIN b : b[i] \in late \/ stream.cursor < b[i] \/ Covered(b[i])
        /\ \A n \in 1 .. LastId :
             \/ stream.cursor < n \/ Covered(n)
             \/ \E m \in n + 1 .. LastId : m \notin Pending
    BY <1>1 DEF StreamInv, Reached
  <2> HIDE DEF b
  <2>2. \A i \in DOMAIN t : t[i] \in late \/ stream.cursor < t[i] \/ Covered(t[i])
    BY <1>2, <2>1
  <2> QED BY <2>1, <2>2
<1>10. Complete'
  <2> SUFFICES ASSUME ~stream.lagged, ~stream.full, ~page.raced, NEW n \in 1 .. LastId
               PROVE  \/ n \in Pending \/ n \in late \/ Covered(n)
                      \/ \E i \in DOMAIN t : t[i] = n
    BY <1>1, <1>3, <1>4 DEF Complete, Covered
  <2>1. n \in Pending \/ n \in late \/ Covered(n) \/ \E i \in DOMAIN b : b[i] = n
    BY <1>1 DEF StreamInv, Complete
  <2>2. id \in late \/ Covered(id)
    <3>1. id \in late \/ stream.cursor < id \/ Covered(id)
      BY <1>1, <1>2 DEF StreamInv, Reached
    <3> QED BY <1>1, <1>2, <3>1
  <2> QED BY <1>2, <2>1, <2>2
<1> QED BY <1>5, <1>6, <1>7, <1>8, <1>9, <1>10 DEF StreamInv

\* The connection breaks, or the orchestrator restarts.
LEMMA ClosingKeeps ==
  ASSUME StreamInv, Stream!Disconnect \/ Stream!Restart
  PROVE  StreamInv'
PROOF
<1>1. /\ UNCHANGED <<written, journal, late, given, page>> /\ stream' = [pc |-> "closed"]
      /\ \/ writer' = writer
         \/ writer' = [w \in Writers |-> [pc |-> "idle"]]
  BY DEF Stream!Disconnect, Stream!Restart, Stream!Closed, Stream!Idle, Stream!tables
<1>2. writer' \in [Writers -> WriterStates]
      /\ \A w \in Writers : writer'[w] = writer[w] \/ writer'[w].pc = "idle"
  BY <1>1 DEF StreamInv, StreamTyped, WriterStates
<1>3. LastId' = LastId /\ Committed' = Committed /\ stream'.pc = "closed"
  BY <1>1 DEF LastId, Stream!LastId, Committed, Stream!Committed
<1>4. StreamTyped'
  BY <1>1, <1>2 DEF StreamInv, StreamTyped
<1>5. Journaled'
  BY <1>1, <1>2, <1>3 DEF StreamInv, Journaled
<1>6. PageShows' /\ PageFetches' /\ Stream!SentInOrder'
  BY <1>1, <1>3 DEF StreamInv, PageShows, PageFetches, Stream!SentInOrder
<1>7. Buffered' /\ Sending' /\ Reached' /\ Complete'
  BY <1>3 DEF Buffered, Sending, Reached, Complete
<1> QED BY <1>4, <1>5, <1>6, <1>7 DEF StreamInv

\* No step of the stream leaves its invariant.
LEMMA StreamStays == Stream!Spec => []StreamInv
PROOF
<1>1. ASSUME Stream!Init PROVE StreamInv
  <2>1. /\ written = [w \in Writers |-> 0] /\ journal = <<>>
        /\ writer = [w \in Writers |-> [pc |-> "idle"]]
        /\ stream = [pc |-> "closed"] /\ given = <<>>
        /\ page = [pc |-> "new", shown |-> {}, cursor |-> 0, raced |-> FALSE,
                   boundary |-> 0, got |-> {}]
        /\ MaxRows \in Nat
    BY <1>1, StreamBounds DEF Stream!Init, Stream!Idle, Stream!Closed, Stream!StreamAssumption
  <2>2. LastId = 0 /\ DOMAIN journal = {} /\ DOMAIN given = {} /\ stream.pc = "closed"
    BY <2>1 DEF LastId, Stream!LastId
  <2>3. StreamTyped
    BY <2>1 DEF StreamTyped, WriterStates, PageStates
  <2>4. Journaled /\ PageShows /\ PageFetches
    BY <2>1, <2>2 DEF Journaled, PageShows, PageFetches
  <2> QED BY <2>2, <2>3, <2>4 DEF StreamInv, Buffered, Sending, Reached, Complete, Stream!SentInOrder
<1>2. ASSUME StreamInv, Stream!Next PROVE StreamInv'
  BY <1>2, CommitKeeps, PersistKeeps, BroadcastKeeps, FetchKeeps, ArriveKeeps, SubscribeKeeps,
     ReplayKeeps, GiveQueuedKeeps, GiveLiveKeeps, SuppressKeeps, ClosingKeeps
  DEF Stream!Next
<1>3. ASSUME StreamInv, UNCHANGED Stream!vars PROVE StreamInv'
  <2>1. UNCHANGED <<written, journal, writer, late, stream, given, page>>
    BY <1>3 DEF Stream!vars, Stream!tables, Stream!connection
  <2>2. LastId' = LastId /\ Pending' = Pending /\ Committed' = Committed
    BY <2>1 DEF LastId, Stream!LastId, Pending, Stream!Pending, Committed, Stream!Committed
  <2>3. StreamTyped' /\ Journaled' /\ PageShows' /\ PageFetches' /\ Stream!SentInOrder'
    BY <1>3, <2>1, <2>2 DEF StreamInv, StreamTyped, Journaled, PageShows, PageFetches, Stream!SentInOrder
  <2>4. Buffered' /\ Sending' /\ Reached' /\ Complete'
    BY <1>3, <2>1, <2>2 DEF StreamInv, Buffered, Sending, Reached, Complete, Covered
  <2> QED BY <2>3, <2>4 DEF StreamInv
<1> QED BY <1>1, <1>2, <1>3, PTL DEF Stream!Spec

\* What the invariant says of the page and the connection.
LEMMA StreamFollows == StreamInv => Stream!PageFollowsJournal
PROOF
<1> SUFFICES ASSUME StreamInv, stream.pc = "live", ~stream.lagged, ~stream.full, ~page.raced,
                    NEW id \in (1 .. Stream!LastId) \ (Stream!Pending \cup late)
             PROVE  journal[id] \in page.shown \/ Stream!InFlight(id)
  BY DEF Stream!PageFollowsJournal, Stream!NothingMissed, StreamInv
<1>1. id \in 1 .. LastId /\ id \notin Pending /\ id \notin late
  BY DEF LastId, Pending
<1>2. \/ journal[id] \in page.shown \/ \E i \in DOMAIN stream.queued : stream.queued[i] = id
      \/ \E i \in DOMAIN stream.buffer : stream.buffer[i] = id
  BY <1>1 DEF StreamInv, Complete, Covered
<1> QED BY <1>2 DEF Stream!InFlight

-----------------------------------------------------------------------------
(* The parts run side by side                                               *)

\* A step of the composition is one of each part, or leaves the part alone.
LEMMA PartsRun == MCSpec => Spec /\ Bridge!Spec /\ Stream!Spec
PROOF
<1>1. MCInit => Init /\ Bridge!Init /\ Stream!Init
  BY DEF MCInit
<1>2. [MCNext]_allVars => [Next]_vars
  BY DEF MCNext, allVars
<1>3. [MCNext]_allVars => [Bridge!Next]_(Bridge!vars)
  BY DEF MCNext, allVars, bridgeVars, Bridge!vars, Bridge!socketVars, Bridge!inboundVars
<1>4. [MCNext]_allVars => [Stream!Next]_(Stream!vars)
  BY DEF MCNext, allVars, streamVars, Stream!vars, Stream!tables, Stream!connection
<1> QED BY <1>1, <1>2, <1>3, <1>4, PTL DEF MCSpec, Spec, Bridge!Spec, Stream!Spec

\* For any users, messages and transports: a message is dispatched in one envelope,
\* though its window may end while another message completes it or takes its place.
THEOREM MessagesGoOnce == MCSpec => []DispatchedOnce
PROOF BY ChannelsStay, HeldOnce, PartsRun, PTL

\* A reply reaches the one call that waits for it, or no call, and no sender outlives
\* its turn, however replies, timeouts, failing sends and restarts fall together.
THEOREM RepliesArrive == MCSpec => []RepliesReachTheirCall
PROOF BY ChannelsStay, RepliesReach, PartsRun, PTL

\* For any sockets, requests and number of times a message is forgotten: of the copies
\* that are taken under one mark, which lasts until none came for thirty seconds, at most
\* one is forwarded; and a request that is answered "ok" sent something, its text
\* included, while one that is answered with an error sent nothing.
THEOREM AnswersAreTrue == MCSpec => []DeliveredAsTold
PROOF
<1>1. BridgeInv => DeliveredAsTold
  BY BridgeTells DEF DeliveredAsTold
<1> QED BY <1>1, BridgeStays, PartsRun, PTL

\* For any writers, limits and capacity: what a page missed while it was away is
\* replayed, nothing is sent twice or out of order, and an event of the journal is on
\* the page, on its way, or still to be broadcast, unless the page was told to fetch.
THEOREM PagesFollow == MCSpec => []PageFollowsJournal
PROOF
<1>1. StreamInv => PageFollowsJournal
  BY StreamFollows DEF PageFollowsJournal
<1> QED BY <1>1, StreamStays, PartsRun, PTL
=============================================================================
