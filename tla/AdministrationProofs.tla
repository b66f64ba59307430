-------------------------- MODULE AdministrationProofs --------------------------
(* What administrators change while everything runs, for any connections, people,
   accounts, images, requests, faults and restarts, in the composition
   MCAdministration:

   - rows, people, adapters and answers of a connection agree. A connection is
     set up once, by one caller, so the setup of a connection is its owner until
     it answers; a removal may overtake it as soon as the rows are there, and the
     row then only moves on: none, active, removed, gone;
   - an administrator remains, because demotion and removal count while they
     hold the database, and what is stored of a choice grants no more than it did;
   - a cleanup removes what nothing needs at that moment. What it has found may
     be removed later, because what makes an image needed is written under the
     lease it holds, and an update that it could not see has not begun. *)
EXTENDS MCAdministration, TLAPS

-----------------------------------------------------------------------------
(* The connections                                                          *)


Before == {"ensure", "run", "insert"}
After == {"register", "store", "local", "rollback"}
Removing == {"unhook", "deactivate", "stop", "check bridge"}
Requests ==
  [pc : Before \cup After \cup Removing \cup {"stop bridge", "add"}, id : Connectors, setup : BOOLEAN]
Answers == {"set up", "refused", "half refused", "removed", "not found"}

Typed ==
  /\ kind \in [Connectors -> Kinds \cup {"none"}]
  /\ row \in [Connectors -> {"none", "active", "removed", "gone"}]
  /\ people \in [Connectors -> SUBSET Senders]
  /\ adapter \subseteq Connectors
  /\ caller \in [Callers -> {Idle} \cup Requests]
  /\ answer \in [Connectors -> SUBSET Answers]
  /\ overtaken \subseteq Connectors

Busy(c) == caller[c] # Idle
SettingUp(c, p) == Busy(c) /\ Id(c) = p /\ caller[c].setup

\* What a caller knows of its connection at each of its steps.
Knows(c) ==
  LET p == Id(c) pc == caller[c].pc IN
    /\ kind[p] # "none"
    /\ caller[c].setup <=> pc \in Before \cup After \/ (pc = "stop bridge" /\ row[p] = "none")
    /\ pc \in Before => row[p] = "none" /\ answer[p] = {}
    /\ pc \in After => /\ row[p] \in {"active", "removed"} /\ p \notin adapter
                       /\ answer[p] \cap {"set up", "refused"} = {}
    /\ pc \in Removing \cup {"add"} => row[p] # "none"
    /\ pc \in {"stop", "check bridge"} => row[p] \in {"removed", "gone"}
    /\ pc \in {"stop bridge", "check bridge"} => kind[p] = "whatsapp"
    /\ pc = "stop bridge" => /\ caller[c].setup => answer[p] = {}
                             /\ ~caller[c].setup => row[p] \in {"removed", "gone"}

\* One caller sets a connection up; a removal that did not overtake it came after it.
Callings ==
  /\ \A c \in Callers : Busy(c) => Knows(c)
  /\ \A c, d \in Callers : Busy(c) /\ SettingUp(d, Id(c)) =>
       \/ c = d
       \/ ~caller[c].setup /\ (caller[c].pc = "add" \/ Id(c) \in overtaken)

\* What the row and the answers of a connection say.
RowSays(p) ==
  /\ kind[p] = "none" => row[p] = "none" /\ answer[p] = {}
  /\ row[p] \in {"none", "gone"} => people[p] = {} /\ p \notin adapter
  /\ "refused" \in answer[p] => row[p] \in {"none", "gone"}
  /\ "removed" \in answer[p] =>
       /\ row[p] \in {"removed", "gone"}
       /\ p \notin overtaken => \A c \in Callers : ~SettingUp(c, p)

AdapterSays(p) ==
  kind[p] \in {"imessage", "telegram"} =>
    /\ "set up" \in answer[p] /\ row[p] = "active" => p \in adapter
    /\ "removed" \in answer[p] /\ p \notin overtaken => p \notin adapter

Rows == \A p \in Connectors : RowSays(p) /\ AdapterSays(p)

IInv == Typed /\ Callings /\ Rows

-----------------------------------------------------------------------------
LEMMA InitInvariant == Init => IInv
PROOF
  BY DEF Init, IInv, Typed, Callings, Busy, Rows, RowSays, AdapterSays

USE DEF At, Id, Busy, SettingUp

LEMMA BusyCaller ==
  ASSUME Typed, NEW c \in Callers, caller[c].pc # "idle"
  PROVE  caller[c] \in Requests /\ caller[c] # Idle
PROOF
  BY DEF Typed, Idle

\* A step that only moves the caller, and a change nobody is told about.
LEMMA GotoKeeps ==
  ASSUME IInv, NEW c \in Callers, caller[c].pc # "idle",
         NEW pc \in Before \cup After \cup Removing \cup {"stop bridge"}, Goto(c, pc), Knows(c)',
         pc # "add" /\ caller[c].pc # "add",
         UNCHANGED <<kind, row, people, adapter, answer, overtaken>>
  PROVE  IInv'
PROOF
<1>1. caller[c] \in Requests /\ caller[c] # Idle
  BY BusyCaller DEF IInv
<1>2. /\ caller' = [caller EXCEPT ![c] = [@ EXCEPT !.pc = pc]]
      /\ [caller[c] EXCEPT !.pc = pc] \in Requests
  BY <1>1 DEF Goto, Requests
<1>3. /\ caller' \in [Callers -> {Idle} \cup Requests]
      /\ caller'[c] # Idle /\ caller'[c].pc = pc /\ caller'[c].id = caller[c].id
      /\ caller'[c].setup = caller[c].setup
      /\ \A d \in Callers \ {c} : caller'[d] = caller[d]
  <2>1. caller' \in [Callers -> {Idle} \cup Requests] /\ \A d \in Callers \ {c} : caller'[d] = caller[d]
    BY <1>2 DEF IInv, Typed
  <2>2. caller'[c] = [caller[c] EXCEPT !.pc = pc]
    BY <1>2 DEF IInv, Typed
  <2> QED BY <1>1, <2>1, <2>2 DEF Requests, Idle, Before, After, Removing
<1>4. Typed'
  BY <1>3 DEF IInv, Typed
<1>5. \A d \in Callers : (Busy(d)' <=> Busy(d)) /\ Id(d)' = Id(d) /\ caller'[d].setup = caller[d].setup
  BY <1>1, <1>3
<1>6. Callings'
  <2>1. ASSUME NEW d \in Callers, Busy(d)' PROVE Knows(d)'
    <3>1. CASE d = c
      BY <3>1
    <3>2. CASE d # c
      <4>1. caller'[d] = caller[d] /\ Busy(d)
        BY <1>3, <2>1, <3>2
      <4>2. Knows(d)
        BY <4>1 DEF IInv, Callings
      <4> QED BY <4>1, <4>2 DEF Knows
    <3> QED BY <3>1, <3>2
  <2>2. \A d, e \in Callers : Busy(d)' /\ SettingUp(e, Id(d))' =>
          d = e \/ (~caller'[d].setup /\ (caller'[d].pc = "add" \/ Id(d)' \in overtaken'))
    <3> SUFFICES ASSUME NEW d \in Callers, NEW e \in Callers, Busy(d)', SettingUp(e, Id(d))', d # e
                 PROVE  ~caller'[d].setup /\ (caller'[d].pc = "add" \/ Id(d)' \in overtaken')
      OBVIOUS
    <3>1. Busy(d) /\ SettingUp(e, Id(d))
      BY <1>5
    <3>2. ~caller[d].setup /\ (caller[d].pc = "add" \/ Id(d) \in overtaken)
      BY <3>1 DEF IInv, Callings
    <3> QED BY <1>3, <1>5, <3>2
  <2> QED BY <2>1, <2>2 DEF Callings
<1>7. Rows'
  BY <1>5 DEF IInv, Rows, RowSays, AdapterSays
<1> QED BY <1>4, <1>6, <1>7 DEF IInv

\* An answer, with whatever it does to the connection of its caller.
LEMMA AnswerKeeps ==
  ASSUME IInv, NEW c \in Callers, caller[c].pc # "idle", NEW a \in Answers, Answer(c, a)
  PROVE  /\ caller' \in [Callers -> {Idle} \cup Requests] /\ caller'[c] = Idle
         /\ \A d \in Callers \ {c} : caller'[d] = caller[d]
         /\ answer' \in [Connectors -> SUBSET Answers]
         /\ answer'[Id(c)] = answer[Id(c)] \cup {a}
         /\ \A p \in Connectors \ {Id(c)} : answer'[p] = answer[p]
         /\ Id(c) \in Connectors
PROOF
<1>1. caller[c] \in Requests
  BY BusyCaller DEF IInv
<1> QED BY <1>1 DEF IInv, Typed, Answer, Requests

\* What a step leaves alone that is about one connection.
Frame(c) ==
  /\ UNCHANGED <<kind, overtaken>>
  /\ \A d \in Callers \ {c} : caller'[d] = caller[d]
  /\ \/ caller'[c] = Idle
     \/ /\ caller'[c] # Idle /\ caller'[c].id = Id(c) /\ caller'[c].setup = caller[c].setup
        /\ caller[c].pc # "add"
  /\ \A q \in Connectors \ {Id(c)} :
       /\ row'[q] = row[q] /\ people'[q] = people[q] /\ answer'[q] = answer[q]
       /\ q \in adapter' <=> q \in adapter

LEMMA FrameSuffices ==
  ASSUME IInv, NEW c \in Callers, Busy(c), Frame(c), Typed', NEW p \in Connectors, p = Id(c),
         \A d \in Callers : Busy(d)' /\ Id(d)' = p => Knows(d)',
         RowSays(p)', AdapterSays(p)'
  PROVE  IInv'
PROOF
<1>1. \A d \in Callers : Busy(d)' => Busy(d) /\ Id(d)' = Id(d) /\ caller'[d].setup = caller[d].setup
                                     /\ (caller[d].pc = "add" => caller'[d].pc = "add")
  BY DEF Frame
<1>2. ASSUME NEW d \in Callers, Busy(d)' PROVE Knows(d)'
  <2>1. CASE Id(d)' = p
    BY <1>2, <2>1
  <2>2. CASE Id(d)' # p
    <3>1. d # c /\ caller'[d] = caller[d] /\ Busy(d)
      BY <1>1, <1>2, <2>2 DEF Frame
    <3>2. Knows(d) /\ Id(d) \in Connectors \ {p}
      BY <3>1, <2>2 DEF IInv, Callings, Typed, Requests
    <3> DEFINE q == Id(d)
    <3>3. /\ kind' = kind /\ row'[q] = row[q] /\ answer'[q] = answer[q]
          /\ q \in adapter' <=> q \in adapter
      BY <3>2 DEF Frame
    <3> QED BY <3>1, <3>2, <3>3 DEF Knows
  <2> QED BY <2>1, <2>2
<1>3. ASSUME NEW d \in Callers, NEW e \in Callers, Busy(d)', SettingUp(e, Id(d))', d # e
      PROVE  ~caller'[d].setup /\ (caller'[d].pc = "add" \/ Id(d)' \in overtaken')
  <2>1. Busy(d) /\ SettingUp(e, Id(d))
    BY <1>1, <1>3
  <2>2. ~caller[d].setup /\ (caller[d].pc = "add" \/ Id(d) \in overtaken)
    BY <1>3, <2>1 DEF IInv, Callings
  <2> QED BY <1>1, <1>3, <2>2 DEF Frame
<1>4. Callings'
  BY <1>2, <1>3 DEF Callings
<1>5. ASSUME NEW q \in Connectors PROVE RowSays(q)' /\ AdapterSays(q)'
  <2>1. CASE q = p
    BY <2>1
  <2>2. CASE q # p
    <3>1. /\ kind' = kind /\ overtaken' = overtaken /\ row'[q] = row[q] /\ people'[q] = people[q]
          /\ answer'[q] = answer[q] /\ (q \in adapter' <=> q \in adapter)
      BY <2>2 DEF Frame
    <3>2. RowSays(q) /\ AdapterSays(q)
      BY DEF IInv, Rows
    <3>3. \A d \in Callers : SettingUp(d, q)' => SettingUp(d, q)
      BY <1>1
    <3> QED BY <3>1, <3>2, <3>3 DEF RowSays, AdapterSays
  <2> QED BY <2>1, <2>2
<1> QED BY <1>4, <1>5 DEF IInv, Rows

\* The others at a connection that is being set up are people's, or have overtaken it.
LEMMA OthersAtSetup ==
  ASSUME IInv, NEW c \in Callers, Busy(c), NEW d \in Callers \ {c}, Busy(d), Id(d) = Id(c),
         caller[c].setup
  PROVE  ~caller[d].setup /\ (caller[d].pc = "add" \/ Id(c) \in overtaken) /\ row[Id(c)] # "none"
PROOF
<1>1. ~caller[d].setup /\ (caller[d].pc = "add" \/ Id(d) \in overtaken)
  BY DEF IInv, Callings
<1>2. caller[d] \in Requests /\ Knows(d)
  BY DEF IInv, Callings, Typed
<1> QED BY <1>1, <1>2 DEF Knows, Requests


-----------------------------------------------------------------------------
(* Steps that move the caller                                               *)

LEMMA CallerKnows ==
  ASSUME IInv, NEW c \in Callers, caller[c].pc # "idle"
  PROVE  /\ Busy(c) /\ caller[c] \in Requests /\ Knows(c)
         /\ Id(c) \in Connectors /\ caller[c].setup \in BOOLEAN
PROOF
<1>1. caller[c] \in Requests /\ Busy(c)
  BY BusyCaller DEF IInv
<1> QED BY <1>1 DEF IInv, Callings, Requests

\* The next step knows the same of the connection, and no rows, adapter or answer change.
SameKnowledge(c, pc) ==
  \/ caller[c].pc \in Before /\ pc \in Before
  \/ caller[c].pc \in After /\ pc \in After
  \/ caller[c].pc = "unhook" /\ pc = "deactivate"
  \/ caller[c].pc \in {"insert", "check bridge"} /\ pc = "stop bridge" /\ kind[Id(c)] = "whatsapp"

LEMMA MoveKeeps ==
  ASSUME IInv, NEW c \in Callers, NEW pc, Goto(c, pc), SameKnowledge(c, pc),
         UNCHANGED <<tables, adapter, ghosts>>
  PROVE  IInv'
PROOF
<1> USE DEF SameKnowledge, Before, After, Removing
<1>1. caller[c].pc # "idle" /\ caller[c].pc # "add" /\ pc # "add"
  OBVIOUS
<1>2. /\ Busy(c) /\ caller[c] \in Requests /\ Knows(c) /\ caller[c].setup \in BOOLEAN
  BY <1>1, CallerKnows
<1>3. caller'[c].pc = pc /\ caller'[c].id = caller[c].id /\ caller'[c].setup = caller[c].setup
  BY <1>2 DEF Goto, IInv, Typed, Requests
<1>4. UNCHANGED <<kind, row, people, adapter, answer, overtaken>>
  BY DEF tables, ghosts
<1>5. Knows(c)'
  BY <1>2, <1>3, <1>4 DEF Knows
<1> QED BY <1>1, <1>4, <1>5, GotoKeeps

LEMMA MovesKeep ==
  ASSUME IInv, NEW c \in Callers,
         \/ RemoveBridge(c) \/ EnsureBridge(c)
         \/ RegisterWebhook(c) \/ SetWebhook(c) \/ RegisterRemoved(c) \/ RegisterFails(c)
         \/ StoreId(c) \/ StoreIdFails(c) \/ DeregisterWebhook(c) \/ DeleteWebhook(c)
  PROVE  IInv'
PROOF
<1> USE DEF SameKnowledge, Before, After, Removing
<1>1. CASE RemoveBridge(c)
  BY <1>1, MoveKeeps DEF RemoveBridge
<1>2. CASE EnsureBridge(c)
  BY <1>2, MoveKeeps DEF EnsureBridge
<1>3. CASE RegisterWebhook(c)
  BY <1>3, MoveKeeps DEF RegisterWebhook
<1>4. CASE SetWebhook(c)
  BY <1>4, MoveKeeps DEF SetWebhook
<1>5. CASE RegisterRemoved(c)
  BY <1>5, MoveKeeps DEF RegisterRemoved, outside
<1>6. CASE RegisterFails(c)
  BY <1>6, MoveKeeps DEF RegisterFails
<1>7. CASE StoreId(c)
  BY <1>7, MoveKeeps DEF StoreId
<1>8. CASE StoreIdFails(c)
  BY <1>8, MoveKeeps DEF StoreIdFails
<1>9. CASE DeregisterWebhook(c)
  BY <1>9, MoveKeeps DEF DeregisterWebhook
<1>10. CASE DeleteWebhook(c)
  BY <1>10, MoveKeeps DEF DeleteWebhook
<1> QED BY <1>1, <1>2, <1>3, <1>4, <1>5, <1>6, <1>7, <1>8, <1>9, <1>10

-----------------------------------------------------------------------------
(* Steps that answer                                                        *)

LEMMA AnswerSuffices ==
  ASSUME IInv, NEW c \in Callers, caller[c].pc # "idle", NEW a \in Answers, Answer(c, a),
         UNCHANGED <<kind, overtaken>>,
         row' \in [Connectors -> {"none", "active", "removed", "gone"}],
         people' \in [Connectors -> SUBSET Senders],
         adapter' \subseteq Connectors,
         NEW p \in Connectors, p = Id(c),
         \A q \in Connectors \ {p} :
           /\ row'[q] = row[q] /\ people'[q] = people[q]
           /\ q \in adapter' <=> q \in adapter,
         \A d \in Callers \ {c} : Busy(d) /\ Id(d) = p => Knows(d)',
         RowSays(p)', AdapterSays(p)'
  PROVE  IInv'
PROOF
<1>1. /\ caller' \in [Callers -> {Idle} \cup Requests] /\ caller'[c] = Idle
      /\ \A d \in Callers \ {c} : caller'[d] = caller[d]
      /\ answer' \in [Connectors -> SUBSET Answers]
      /\ \A q \in Connectors \ {p} : answer'[q] = answer[q]
  BY AnswerKeeps
<1>2. Typed'
  BY <1>1 DEF IInv, Typed
<1>3. Frame(c)
  BY <1>1 DEF Frame
<1>4. \A d \in Callers : Busy(d)' /\ Id(d)' = p => Knows(d)'
  BY <1>1
<1>5. Busy(c)
  BY CallerKnows
<1> QED BY <1>2, <1>3, <1>4, <1>5, FrameSuffices

\* A refusal before the rows are there, and a removal of a bridge, leave the tables alone.
LEMMA PlainAnswerKeeps ==
  ASSUME IInv, NEW c \in Callers, caller[c].pc \notin {"idle", "add"}, NEW a \in Answers \ {"set up"},
         Answer(c, a), UNCHANGED <<kind, row, people, adapter, overtaken>>,
         NEW p \in Connectors, p = Id(c),
         a = "refused" => row[p] = "none" /\ caller[c].setup,
         a = "half refused" => caller[c].setup,
         a \in {"removed", "not found"} => ~caller[c].setup /\ row[p] # "none",
         a = "removed" => row[p] \in {"removed", "gone"} /\ kind[p] = "whatsapp"
  PROVE  IInv'
PROOF
<1>1. Busy(c) /\ Knows(c) /\ caller[c].setup \in BOOLEAN
  BY CallerKnows
<1>2. /\ caller'[c] = Idle /\ \A d \in Callers \ {c} : caller'[d] = caller[d]
      /\ answer'[p] = answer[p] \cup {a}
  BY AnswerKeeps
<1>3. a \in {"refused", "half refused", "removed", "not found"}
  BY DEF Answers
<1>4. ASSUME NEW d \in Callers \ {c}, Busy(d), Id(d) = p PROVE Knows(d)'
  <2>1. Knows(d) /\ caller[d] \in Requests
    BY <1>4 DEF IInv, Callings, Typed
  <2>2. caller'[d] = caller[d]
    BY <1>2
  <2>3. CASE caller[c].setup
    <3>1. ~caller[d].setup /\ row[p] # "none"
      BY <1>1, <1>4, <2>3, OthersAtSetup
    <3> QED BY <1>4, <2>1, <2>2, <3>1 DEF Knows
  <2>4. CASE ~caller[c].setup
    <3>1. a \in {"removed", "not found"} /\ row[p] # "none"
      BY <1>3, <2>4
    <3>2. answer'[p] \cap {"set up", "refused"} = answer[p] \cap {"set up", "refused"}
      BY <1>2, <3>1
    <3> QED BY <1>4, <2>1, <2>2, <3>1, <3>2 DEF Knows, Before, After
  <2> QED BY <1>1, <2>3, <2>4
<1>5. ASSUME NEW d \in Callers, SettingUp(d, p)' PROVE SettingUp(d, p) /\ d # c
  <2>1. d # c
    BY <1>2, <1>5
  <2> QED BY <1>2, <1>5, <2>1
<1>6. a = "removed" /\ p \notin overtaken => \A d \in Callers \ {c} : ~SettingUp(d, p)
  BY <1>1 DEF IInv, Callings
<1>7. RowSays(p) /\ AdapterSays(p)
  BY DEF IInv, Rows
<1>8. RowSays(p)'
  <2>1. kind[p] # "none" /\ ("refused" \in answer'[p] <=> "refused" \in answer[p] \/ a = "refused")
        /\ ("removed" \in answer'[p] <=> "removed" \in answer[p] \/ a = "removed")
    BY <1>1, <1>2 DEF Knows
  <2>2. a = "removed" => ~SettingUp(c, p)
    OBVIOUS
  <2> QED BY <1>5, <1>6, <1>7, <2>1, <2>2 DEF RowSays
<1>9. AdapterSays(p)'
  <2>1. ("set up" \in answer'[p] <=> "set up" \in answer[p])
        /\ ("removed" \in answer'[p] <=> "removed" \in answer[p] \/ a = "removed")
    BY <1>2
  <2>2. a = "removed" => kind[p] = "whatsapp"
    OBVIOUS
  <2> QED BY <1>7, <2>1, <2>2 DEF AdapterSays
<1>10. /\ row' \in [Connectors -> {"none", "active", "removed", "gone"}]
       /\ people' \in [Connectors -> SUBSET Senders] /\ adapter' \subseteq Connectors
  BY DEF IInv, Typed
<1> QED BY <1>4, <1>8, <1>9, <1>10, AnswerSuffices


LEMMA AnswersKeep ==
  ASSUME IInv, NEW c \in Callers,
         EnsureFails(c) \/ InsertFails(c) \/ RollbackFails(c) \/ CheckBridge(c) \/ StopBridge(c)
  PROVE  IInv'
PROOF
<1>1. caller[c].pc \in {"ensure", "run", "insert", "rollback", "check bridge", "stop bridge"}
  BY DEF EnsureFails, InsertFails, RollbackFails, CheckBridge, StopBridge
<1>2. Busy(c) /\ Knows(c) /\ Id(c) \in Connectors /\ caller[c].setup \in BOOLEAN
  BY <1>1, CallerKnows
<1> SUFFICES ASSUME NEW p \in Connectors, p = Id(c) PROVE IInv'
  BY <1>2
<1>3. {"refused", "half refused", "removed"} \subseteq Answers \ {"set up"}
  BY DEF Answers
<1>4. ASSUME row[p] = "none", caller[c].setup, Answer(c, "refused"),
             UNCHANGED <<kind, row, people, adapter, overtaken>>
      PROVE  IInv'
  BY <1>1, <1>3, <1>4, PlainAnswerKeeps
<1>5. ASSUME row[p] \in {"removed", "gone"}, kind[p] = "whatsapp", ~caller[c].setup, Answer(c, "removed"),
             UNCHANGED <<kind, row, people, adapter, overtaken>>
      PROVE  IInv'
  BY <1>1, <1>3, <1>5, PlainAnswerKeeps
<1>6. ASSUME caller[c].setup, Answer(c, "half refused"),
             UNCHANGED <<kind, row, people, adapter, overtaken>>
      PROVE  IInv'
  BY <1>1, <1>3, <1>6, PlainAnswerKeeps
<1> USE DEF tables, outside, ghosts, Before, After, Removing
<1>7. CASE EnsureFails(c)
  BY <1>2, <1>4, <1>7 DEF EnsureFails, Knows
<1>8. CASE InsertFails(c)
  <2>1. CASE kind[p] = "whatsapp"
    <3>1. SameKnowledge(c, "stop bridge") /\ Goto(c, "stop bridge") /\ UNCHANGED <<tables, adapter, ghosts>>
      BY <1>8, <2>1 DEF InsertFails, SameKnowledge
    <3> QED BY <3>1, MoveKeeps
  <2>2. CASE kind[p] # "whatsapp"
    BY <1>2, <1>4, <1>8, <2>2 DEF InsertFails, Knows
  <2> QED BY <2>1, <2>2
<1>9. CASE RollbackFails(c)
  BY <1>2, <1>6, <1>9 DEF RollbackFails, Knows
<1>10. CASE CheckBridge(c)
  <2>1. CASE Active("whatsapp")
    BY <1>2, <1>5, <1>10, <2>1 DEF CheckBridge, Knows
  <2>2. CASE ~Active("whatsapp")
    <3>1. SameKnowledge(c, "stop bridge") /\ Goto(c, "stop bridge") /\ UNCHANGED <<tables, adapter, ghosts>>
      BY <1>2, <1>10, <2>2 DEF CheckBridge, SameKnowledge, Knows
    <3> QED BY <3>1, MoveKeeps
  <2> QED BY <2>1, <2>2
<1>11. CASE StopBridge(c)
  <2>1. CASE caller[c].setup
    BY <1>2, <1>4, <1>11, <2>1 DEF StopBridge, Knows
  <2>2. CASE ~caller[c].setup
    BY <1>2, <1>5, <1>11, <2>2 DEF StopBridge, Knows
  <2> QED BY <2>1, <2>2
<1> QED BY <1>7, <1>8, <1>9, <1>10, <1>11

\* The rows are written once; nobody else can have begun anything with the connection.
RowsAppear(c, k, p) ==
  /\ \A d \in Callers \ {c} : ~(Busy(d) /\ Id(d) = p)
  /\ row' \in [Connectors -> {"none", "active", "removed", "gone"}] /\ row'[p] = "active"
  /\ people' \in [Connectors -> SUBSET Senders]
  /\ \A q \in Connectors \ {p} : row'[q] = row[q] /\ people'[q] = people[q]
  /\ UNCHANGED <<kind, adapter, overtaken>>
  /\ answer[p] = {} /\ p \notin adapter /\ kind[p] = k
  /\ Busy(c) /\ caller[c] \in Requests /\ caller[c].setup

LEMMA RowsWritten ==
  ASSUME IInv, NEW c \in Callers, NEW k \in Kinds, NEW named \in SUBSET Senders, Persist(c, k, named),
         NEW p \in Connectors, p = Id(c)
  PROVE  RowsAppear(c, k, p)
PROOF
<1>1. caller[c].pc = "insert"
  BY DEF Persist
<1>2. Busy(c) /\ Knows(c) /\ caller[c] \in Requests
  BY <1>1, CallerKnows
<1>3. row[p] = "none" /\ caller[c].setup /\ answer[p] = {}
  BY <1>1, <1>2 DEF Knows, Before
<1>4. \A d \in Callers \ {c} : ~(Busy(d) /\ Id(d) = p)
  BY <1>2, <1>3, OthersAtSetup
<1>5. p \notin adapter
  BY <1>3 DEF IInv, Rows, RowSays
<1> QED BY <1>2, <1>3, <1>4, <1>5 DEF RowsAppear, Persist, IInv, Typed, outside

LEMMA CreateAnswered ==
  ASSUME IInv, NEW c \in Callers, NEW k \in Kinds, k \notin {"imessage", "telegram"},
         NEW named \in SUBSET Senders, Persist(c, k, named),
         NEW a \in {"set up"}, Answer(c, a), NEW p \in Connectors, p = Id(c)
  PROVE  IInv'
PROOF
<1>1. caller[c].pc # "idle" /\ a \in Answers
  BY DEF Persist, Answers
<1>2. RowsAppear(c, k, p)
  BY RowsWritten
<1>3. answer'[p] = answer[p] \cup {"set up"}
  BY <1>1, AnswerKeeps
<1>4. RowSays(p)' /\ AdapterSays(p)'
  BY <1>2, <1>3 DEF RowsAppear, RowSays, AdapterSays, Kinds
<1>5. /\ adapter' \subseteq Connectors
      /\ \A q \in Connectors \ {p} : /\ row'[q] = row[q] /\ people'[q] = people[q]
                                     /\ q \in adapter' <=> q \in adapter
      /\ \A d \in Callers \ {c} : Busy(d) /\ Id(d) = p => Knows(d)'
  BY <1>2 DEF RowsAppear, IInv, Typed
<1> QED BY <1>1, <1>2, <1>4, <1>5, AnswerSuffices DEF RowsAppear

LEMMA CreateRegisters ==
  ASSUME IInv, NEW c \in Callers, NEW k \in Kinds, NEW named \in SUBSET Senders,
         Persist(c, k, named), Goto(c, "register"), UNCHANGED answer, NEW p \in Connectors, p = Id(c)
  PROVE  IInv'
PROOF
<1>1. RowsAppear(c, k, p)
  BY RowsWritten
<1>2. /\ caller[c] \in Requests /\ caller[c].setup /\ Busy(c) /\ p \notin adapter
      /\ row' \in [Connectors -> {"none", "active", "removed", "gone"}] /\ row'[p] = "active"
      /\ people' \in [Connectors -> SUBSET Senders]
      /\ UNCHANGED <<kind, adapter, overtaken>> /\ answer[p] = {} /\ kind[p] = k
  BY <1>1 DEF RowsAppear
<1>3. /\ caller'[c] = [caller[c] EXCEPT !.pc = "register"]
      /\ \A d \in Callers \ {c} : caller'[d] = caller[d]
      /\ caller' \in [Callers -> {Idle} \cup Requests]
  <2>1. [caller[c] EXCEPT !.pc = "register"] \in Requests
    BY <1>2 DEF Requests, After
  <2> QED BY <2>1 DEF Goto, IInv, Typed
<1>4. /\ caller'[c].pc = "register" /\ caller'[c].id = p /\ caller'[c].setup = caller[c].setup
      /\ caller'[c] # Idle /\ caller[c].pc # "add"
  BY <1>2, <1>3 DEF Requests, Idle, Persist
<1>5. Knows(c)'
  <2>1. kind'[p] # "none"
    BY <1>2 DEF Kinds
  <2> QED BY <1>2, <1>4, <2>1 DEF Knows, Before, After, Removing
<1>6. \A d \in Callers : Busy(d)' /\ Id(d)' = p => Knows(d)'
  BY <1>1, <1>3, <1>5 DEF RowsAppear
<1>7. Frame(c)
  BY <1>1, <1>3, <1>4 DEF Frame, RowsAppear
<1>8. Typed'
  BY <1>2, <1>3 DEF IInv, Typed
<1>9. RowSays(p)' /\ AdapterSays(p)'
  BY <1>2 DEF RowSays, AdapterSays, Kinds
<1> QED BY <1>2, <1>6, <1>7, <1>8, <1>9, FrameSuffices

LEMMA CreatesKeep ==
  ASSUME IInv, NEW c \in Callers,
         CreateSimple(c) \/ CreateImessage(c) \/ CreateTelegram(c) \/ PersistWhatsapp(c)
  PROVE  IInv'
PROOF
<1>1. Id(c) \in Connectors
  BY CallerKnows DEF CreateSimple, CreateImessage, CreateTelegram, PersistWhatsapp, Persist
<1> SUFFICES ASSUME NEW p \in Connectors, p = Id(c) PROVE IInv'
  BY <1>1
<1> USE DEF Kinds
<1>2. CASE CreateSimple(c)
  <2>1. PICK nobody \in SUBSET Senders : Persist(c, "webhook", nobody)
    BY <1>2 DEF CreateSimple
  <2>2. Answer(c, "set up")
    BY <1>2 DEF CreateSimple
  <2> QED BY <2>1, <2>2, CreateAnswered
<1>3. CASE CreateImessage(c)
  BY <1>3, CreateRegisters DEF CreateImessage
<1>4. CASE CreateTelegram(c)
  BY <1>4, CreateRegisters DEF CreateTelegram
<1>5. CASE PersistWhatsapp(c)
  <2>1. PICK named \in SUBSET Senders : Persist(c, "whatsapp", named)
    BY <1>5 DEF PersistWhatsapp
  <2>2. Answer(c, "set up")
    BY <1>5 DEF PersistWhatsapp
  <2> QED BY <2>1, <2>2, CreateAnswered
<1> QED BY <1>2, <1>3, <1>4, <1>5


LEMMA RegisterLocalKeeps ==
  ASSUME IInv, NEW c \in Callers, RegisterLocal(c)
  PROVE  IInv'
PROOF
<1>1. caller[c].pc = "local" /\ Answer(c, "set up") /\ UNCHANGED <<kind, row, people, overtaken>>
  BY DEF RegisterLocal, tables
<1>2. Busy(c) /\ Knows(c) /\ Id(c) \in Connectors
  BY <1>1, CallerKnows
<1> SUFFICES ASSUME NEW p \in Connectors, p = Id(c) PROVE IInv'
  BY <1>2
<1>3. adapter' = adapter \cup {p}
  BY DEF RegisterLocal
<1>4. "set up" \in Answers
  BY DEF Answers
<1>5. /\ answer'[p] = answer[p] \cup {"set up"} /\ caller'[c] = Idle
      /\ \A d \in Callers \ {c} : caller'[d] = caller[d]
  BY <1>1, <1>4, AnswerKeeps
<1>6. /\ caller[c].setup /\ row[p] \in {"active", "removed"} /\ kind[p] # "none"
      /\ answer[p] \cap {"set up", "refused"} = {}
  BY <1>1, <1>2 DEF Knows, After
<1>7. ASSUME NEW d \in Callers \ {c}, Busy(d), Id(d) = p PROVE Knows(d)'
  <2>1. ~caller[d].setup /\ Knows(d) /\ caller'[d] = caller[d] /\ caller[d] \in Requests
    BY <1>2, <1>5, <1>6, <1>7, OthersAtSetup DEF IInv, Callings, Typed
  <2> QED BY <1>1, <1>7, <2>1 DEF Knows
<1>8. RowSays(p) /\ AdapterSays(p)
  BY DEF IInv, Rows
<1>9. "removed" \in answer[p] => p \in overtaken
  BY <1>2, <1>6, <1>8 DEF RowSays
<1>10. RowSays(p)'
  <2>1. "refused" \notin answer'[p] /\ ("removed" \in answer'[p] => "removed" \in answer[p])
    BY <1>5, <1>6
  <2> QED BY <1>1, <1>6, <1>8, <1>9, <2>1 DEF RowSays
<1>11. AdapterSays(p)'
  <2>1. "removed" \in answer'[p] => "removed" \in answer[p]
    BY <1>5
  <2> QED BY <1>1, <1>3, <1>9, <2>1 DEF AdapterSays
<1>12. /\ row' \in [Connectors -> {"none", "active", "removed", "gone"}]
       /\ people' \in [Connectors -> SUBSET Senders] /\ adapter' \subseteq Connectors
       /\ \A q \in Connectors \ {p} : /\ row'[q] = row[q] /\ people'[q] = people[q]
                                      /\ q \in adapter' <=> q \in adapter
  BY <1>1, <1>3 DEF IInv, Typed
<1> QED BY <1>1, <1>4, <1>7, <1>10, <1>11, <1>12, AnswerSuffices

\* Nothing of a setup that is rolled back is left; a removal that overtook it finds no row.
LEMMA RollbackKeeps ==
  ASSUME IInv, NEW c \in Callers, Rollback(c)
  PROVE  IInv'
PROOF
<1>1. caller[c].pc = "rollback" /\ Answer(c, "refused") /\ UNCHANGED <<kind, adapter, overtaken>>
  BY DEF Rollback, outside
<1>2. Busy(c) /\ Knows(c) /\ Id(c) \in Connectors
  BY <1>1, CallerKnows
<1> SUFFICES ASSUME NEW p \in Connectors, p = Id(c) PROVE IInv'
  BY <1>2
<1>3. /\ row' \in [Connectors -> {"none", "active", "removed", "gone"}] /\ row'[p] = "gone"
      /\ people' \in [Connectors -> SUBSET Senders] /\ people'[p] = {}
      /\ adapter' \subseteq Connectors
      /\ \A q \in Connectors \ {p} : /\ row'[q] = row[q] /\ people'[q] = people[q]
                                     /\ q \in adapter' <=> q \in adapter
  BY <1>1 DEF Rollback, IInv, Typed
<1>4. "refused" \in Answers
  BY DEF Answers
<1>5. /\ answer'[p] = answer[p] \cup {"refused"} /\ caller'[c] = Idle
      /\ \A d \in Callers \ {c} : caller'[d] = caller[d]
  BY <1>1, <1>4, AnswerKeeps
<1>6. caller[c].setup /\ kind[p] # "none" /\ p \notin adapter
  BY <1>1, <1>2 DEF Knows, After
<1>7. ASSUME NEW d \in Callers \ {c}, Busy(d), Id(d) = p PROVE Knows(d)'
  <2>1. ~caller[d].setup /\ Knows(d) /\ caller'[d] = caller[d]
    BY <1>2, <1>5, <1>6, <1>7, OthersAtSetup DEF IInv, Callings
  <2> QED BY <1>1, <1>3, <1>7, <2>1 DEF Knows
<1>8. RowSays(p) /\ AdapterSays(p)
  BY DEF IInv, Rows
<1>9. "removed" \in answer'[p] => p \in overtaken
  BY <1>2, <1>5, <1>6, <1>8 DEF RowSays
<1>10. RowSays(p)'
  BY <1>1, <1>3, <1>6, <1>9 DEF RowSays
<1>11. AdapterSays(p)'
  BY <1>1, <1>3, <1>6 DEF AdapterSays
<1> QED BY <1>1, <1>3, <1>4, <1>7, <1>10, <1>11, AnswerSuffices


LEMMA DeactivateKeeps ==
  ASSUME IInv, NEW c \in Callers, Deactivate(c)
  PROVE  IInv'
PROOF
<1>1. caller[c].pc = "deactivate" /\ UNCHANGED <<kind, people, adapter, overtaken>>
  BY DEF Deactivate, outside
<1>2. Busy(c) /\ Knows(c) /\ Id(c) \in Connectors /\ caller[c] \in Requests
  BY <1>1, CallerKnows
<1> SUFFICES ASSUME NEW p \in Connectors, p = Id(c) PROVE IInv'
  BY <1>2
<1>3. ~caller[c].setup /\ row[p] # "none" /\ kind[p] # "none"
  BY <1>1, <1>2 DEF Knows, Before, After, Removing
<1>4. RowSays(p) /\ AdapterSays(p)
  BY DEF IInv, Rows
<1>5. CASE row[p] # "active"
  <2>1. Answer(c, "not found") /\ UNCHANGED row
    BY <1>5 DEF Deactivate
  <2>2. "not found" \in Answers \ {"set up"}
    BY DEF Answers
  <2> QED BY <1>1, <1>3, <2>1, <2>2, PlainAnswerKeeps
<1>6. CASE row[p] = "active"
  <2>1. /\ row' \in [Connectors -> {"none", "active", "removed", "gone"}] /\ row'[p] = "removed"
        /\ people' \in [Connectors -> SUBSET Senders] /\ adapter' \subseteq Connectors
        /\ \A q \in Connectors \ {p} : /\ row'[q] = row[q] /\ people'[q] = people[q]
                                       /\ q \in adapter' <=> q \in adapter
    BY <1>1, <1>6 DEF Deactivate, IInv, Typed
  <2>2. "refused" \notin answer[p] /\ "removed" \notin answer[p]
    BY <1>4, <1>6 DEF RowSays
  <2>3. ASSUME NEW d \in Callers \ {c}, Busy(d), Id(d) = p, caller'[d] = caller[d],
               answer'[p] \in {answer[p], answer[p] \cup {"removed"}}
        PROVE  Knows(d)'
    <3>1. Knows(d) /\ caller[d] \in Requests
      BY <2>3 DEF IInv, Callings, Typed
    <3> QED BY <1>1, <1>6, <2>1, <2>3, <3>1 DEF Knows, Before, After, Removing
  <2>4. ASSUME NEW pc \in {"stop", "check bridge"}, Goto(c, pc), UNCHANGED answer,
               pc = "check bridge" => kind[p] = "whatsapp"
        PROVE  IInv'
    <3>1. /\ caller'[c] = [caller[c] EXCEPT !.pc = pc]
          /\ \A d \in Callers \ {c} : caller'[d] = caller[d]
          /\ caller' \in [Callers -> {Idle} \cup Requests]
      <4>1. [caller[c] EXCEPT !.pc = pc] \in Requests
        BY <1>2 DEF Requests, Removing
      <4> QED BY <2>4, <4>1 DEF Goto, IInv, Typed
    <3>2. /\ caller'[c].pc = pc /\ caller'[c].id = p /\ caller'[c].setup = caller[c].setup
          /\ caller'[c] # Idle /\ caller[c].pc # "add"
      BY <1>1, <1>2, <3>1 DEF Requests, Idle
    <3>3. Knows(c)'
      BY <1>1, <1>3, <2>1, <2>4, <3>2 DEF Knows, Before, After, Removing
    <3>4. \A d \in Callers : Busy(d)' /\ Id(d)' = p => Knows(d)'
      BY <2>3, <2>4, <3>1, <3>3
    <3>5. Frame(c)
      BY <1>1, <2>1, <2>4, <3>1, <3>2 DEF Frame
    <3>6. Typed'
      BY <1>1, <2>1, <2>4, <3>1 DEF IInv, Typed
    <3>7. RowSays(p)' /\ AdapterSays(p)'
      BY <1>1, <1>3, <2>1, <2>2, <2>4 DEF RowSays, AdapterSays
    <3> QED BY <1>2, <3>4, <3>5, <3>6, <3>7, FrameSuffices
  <2>5. ASSUME Answer(c, "removed"), kind[p] \notin {"imessage", "telegram"} PROVE IInv'
    <3>1. "removed" \in Answers
      BY DEF Answers
    <3>2. /\ answer'[p] = answer[p] \cup {"removed"} /\ caller'[c] = Idle
          /\ \A d \in Callers \ {c} : caller'[d] = caller[d]
      BY <1>1, <2>5, <3>1, AnswerKeeps
    <3>3. p \notin overtaken => \A d \in Callers : ~SettingUp(d, p)
      BY <1>1, <1>2, <1>3 DEF IInv, Callings
    <3>4. \A d \in Callers : ~SettingUp(d, p) => ~SettingUp(d, p)'
      BY <3>2
    <3>5. \A d \in Callers \ {c} : Busy(d) /\ Id(d) = p => Knows(d)'
      BY <2>3, <3>2
    <3>6. RowSays(p)'
      BY <1>1, <1>3, <2>1, <2>2, <3>2, <3>3, <3>4 DEF RowSays
    <3>7. AdapterSays(p)'
      BY <1>1, <2>5 DEF AdapterSays
    <3> QED BY <1>1, <2>1, <2>5, <3>1, <3>5, <3>6, <3>7, AnswerSuffices
  <2>6. CASE kind[p] \in {"imessage", "telegram"}
    BY <1>6, <2>4, <2>6 DEF Deactivate
  <2>7. CASE kind[p] = "whatsapp"
    BY <1>6, <2>4, <2>7 DEF Deactivate
  <2>8. CASE kind[p] \notin {"imessage", "telegram", "whatsapp"}
    BY <1>6, <2>5, <2>8 DEF Deactivate
  <2> QED BY <2>6, <2>7, <2>8
<1> QED BY <1>5, <1>6

LEMMA StopKeeps ==
  ASSUME IInv, NEW c \in Callers, Stop(c)
  PROVE  IInv'
PROOF
<1>1. caller[c].pc = "stop" /\ Answer(c, "removed") /\ UNCHANGED <<kind, row, people, overtaken>>
  BY DEF Stop, tables
<1>2. Busy(c) /\ Knows(c) /\ Id(c) \in Connectors
  BY <1>1, CallerKnows
<1> SUFFICES ASSUME NEW p \in Connectors, p = Id(c) PROVE IInv'
  BY <1>2
<1>3. adapter' = adapter \ {p}
  BY DEF Stop
<1>4. ~caller[c].setup /\ row[p] \in {"removed", "gone"} /\ kind[p] # "none"
  BY <1>1, <1>2 DEF Knows, Before, After, Removing
<1>5. "removed" \in Answers
  BY DEF Answers
<1>6. /\ answer'[p] = answer[p] \cup {"removed"} /\ caller'[c] = Idle
      /\ \A d \in Callers \ {c} : caller'[d] = caller[d]
  BY <1>1, <1>5, AnswerKeeps
<1>7. ASSUME NEW d \in Callers \ {c}, Busy(d), Id(d) = p PROVE Knows(d)'
  <2>1. Knows(d) /\ caller[d] \in Requests /\ caller'[d] = caller[d]
    BY <1>6, <1>7 DEF IInv, Callings, Typed
  <2> QED BY <1>1, <1>3, <1>4, <1>6, <1>7, <2>1 DEF Knows, Before, After, Removing
<1>8. RowSays(p) /\ AdapterSays(p)
  BY DEF IInv, Rows
<1>9. p \notin overtaken => \A d \in Callers : ~SettingUp(d, p)
  BY <1>1, <1>2, <1>4 DEF IInv, Callings
<1>10. \A d \in Callers : ~SettingUp(d, p) => ~SettingUp(d, p)'
  BY <1>6
<1>11. RowSays(p)'
  <2>1. "refused" \in answer'[p] => "refused" \in answer[p]
    BY <1>6
  <2> QED BY <1>1, <1>3, <1>4, <1>8, <1>9, <1>10, <2>1 DEF RowSays
<1>12. AdapterSays(p)'
  BY <1>1, <1>3, <1>4 DEF AdapterSays
<1>13. /\ row' \in [Connectors -> {"none", "active", "removed", "gone"}]
       /\ people' \in [Connectors -> SUBSET Senders] /\ adapter' \subseteq Connectors
       /\ \A q \in Connectors \ {p} : /\ row'[q] = row[q] /\ people'[q] = people[q]
                                      /\ q \in adapter' <=> q \in adapter
  BY <1>1, <1>3 DEF IInv, Typed
<1> QED BY <1>1, <1>5, <1>7, <1>11, <1>12, <1>13, AnswerSuffices

-----------------------------------------------------------------------------
(* Requests that begin, are lost, or concern people                         *)

LEMMA AbandonKeeps ==
  ASSUME IInv, NEW c \in Callers, Abandon(c) \/ \E s \in Senders : AddPerson(c, s)
  PROVE  IInv'
PROOF
<1>1. UNCHANGED <<kind, row, adapter, answer, overtaken>>
  BY DEF Abandon, AddPerson, tables, outside, ghosts
<1>2. caller[c] # Idle
  BY BusyCaller DEF Abandon, AddPerson, IInv
<1>3. /\ caller[c] \in Requests /\ Id(c) \in Connectors
      /\ caller' \in [Callers -> {Idle} \cup Requests] /\ caller'[c] = Idle
      /\ \A d \in Callers \ {c} : caller'[d] = caller[d]
  BY <1>2 DEF Abandon, AddPerson, IInv, Typed, Requests
<1> SUFFICES ASSUME NEW p \in Connectors, p = Id(c) PROVE IInv'
  BY <1>3
<1>4. CASE Abandon(c)
  <2>1. people' = people
    BY <1>4 DEF Abandon, tables
  <2>2. Typed'
    BY <1>1, <1>3, <2>1 DEF IInv, Typed
  <2>3. Frame(c)
    BY <1>1, <1>3, <2>1 DEF Frame
  <2>4. ASSUME NEW d \in Callers, Busy(d)' PROVE Knows(d)'
    <3>1. d # c /\ caller'[d] = caller[d] /\ Busy(d)
      BY <1>3, <2>4
    <3>2. Knows(d)
      BY <3>1 DEF IInv, Callings
    <3> QED BY <1>1, <3>1, <3>2 DEF Knows
  <2>5. \A d \in Callers : ~SettingUp(d, p) => ~SettingUp(d, p)'
    BY <1>3
  <2>6. RowSays(p)' /\ AdapterSays(p)'
    BY <1>1, <2>1, <2>5 DEF IInv, Rows, RowSays, AdapterSays
  <2> QED BY <1>2, <2>2, <2>3, <2>4, <2>6, FrameSuffices
<1>5. ASSUME NEW s \in Senders, AddPerson(c, s) PROVE IInv'
  <2>1. /\ people' \in [Connectors -> SUBSET Senders]
        /\ \A q \in Connectors \ {p} : people'[q] = people[q]
        /\ row[p] = "gone" => people'[p] = people[p]
        /\ caller[c].pc = "add"
    BY <1>5 DEF AddPerson, IInv, Typed
  <2>2. row[p] # "none"
    BY <1>2, <2>1 DEF IInv, Callings, Knows, Removing
  <2>3. Typed'
    BY <1>1, <1>3, <2>1 DEF IInv, Typed
  <2>4. Frame(c)
    BY <1>1, <1>3, <2>1 DEF Frame
  <2>5. ASSUME NEW d \in Callers, Busy(d)' PROVE Knows(d)'
    <3>1. d # c /\ caller'[d] = caller[d] /\ Busy(d)
      BY <1>3, <2>5
    <3>2. Knows(d)
      BY <3>1 DEF IInv, Callings
    <3> QED BY <1>1, <3>1, <3>2 DEF Knows
  <2>6. \A d \in Callers : ~SettingUp(d, p) => ~SettingUp(d, p)'
    BY <1>3
  <2>7. RowSays(p)' /\ AdapterSays(p)'
    BY <1>1, <2>1, <2>2, <2>6 DEF IInv, Rows, RowSays, AdapterSays
  <2> QED BY <1>2, <2>3, <2>4, <2>5, <2>7, FrameSuffices
<1> QED BY <1>4, <1>5


LEMMA KnowsAlike ==
  ASSUME NEW d \in Callers, Knows(d), caller'[d] = caller[d],
         kind'[Id(d)] = kind[Id(d)], row'[Id(d)] = row[Id(d)], answer'[Id(d)] = answer[Id(d)],
         Id(d) \in adapter' <=> Id(d) \in adapter
  PROVE  Knows(d)'
PROOF
  BY DEF Knows

\* A request of an idle caller: the others keep what they know.
LEMMA BeginSuffices ==
  ASSUME IInv, NEW c \in Callers, caller[c] = Idle, NEW p \in Connectors, NEW new \in Requests,
         new.id = p, caller' = [caller EXCEPT ![c] = new], Knows(c)',
         UNCHANGED <<row, people, adapter, answer>>,
         overtaken' \in SUBSET Connectors, overtaken \subseteq overtaken',
         NEW k \in Kinds, kind' = kind \/ (kind[p] = "none" /\ kind' = [kind EXCEPT ![p] = k]),
         new.setup => kind[p] = "none" /\ row[p] = "none",
         ~new.setup => new.pc = "add" \/ \A d \in Callers : SettingUp(d, p) => p \in overtaken'
  PROVE  IInv'
PROOF
<1>1. /\ caller' \in [Callers -> {Idle} \cup Requests]
      /\ caller'[c] = new /\ \A d \in Callers \ {c} : caller'[d] = caller[d]
  BY DEF IInv, Typed
<1>2. new # Idle /\ new.setup \in BOOLEAN
  <2>1. new.pc # "idle" /\ new.setup \in BOOLEAN
    BY DEF Requests, Before, After, Removing
  <2> QED BY <2>1 DEF Idle
<1>3. Typed'
  BY <1>1 DEF IInv, Typed
<1>4. \A d \in Callers : Busy(d) => Knows(d) /\ d # c /\ Id(d) \in Connectors
  BY DEF IInv, Callings, Typed, Requests
<1>5. \A q \in Connectors : kind'[q] = kind[q] \/ (kind[q] = "none" /\ q = p /\ kind'[q] = k)
  BY DEF IInv, Typed
<1>6. ASSUME NEW d \in Callers \ {c}, Busy(d)' PROVE Knows(d)'
  <2>1. caller'[d] = caller[d] /\ Knows(d) /\ Id(d) \in Connectors
    BY <1>1, <1>4, <1>6
  <2>2. kind[Id(d)] # "none"
    BY <2>1 DEF Knows
  <2>3. kind'[Id(d)] = kind[Id(d)]
    BY <1>5, <2>1, <2>2
  <2> QED BY <2>1, <2>3, KnowsAlike
<1>7. ASSUME NEW d \in Callers, NEW e \in Callers, Busy(d)', SettingUp(e, Id(d))', d # e
      PROVE  ~caller'[d].setup /\ (caller'[d].pc = "add" \/ Id(d)' \in overtaken')
  <2>1. CASE d = c
    <3>1. SettingUp(e, p)
      BY <1>1, <1>7, <2>1
    <3>2. Knows(e) /\ Id(e) = p
      BY <1>4, <3>1
    <3>3. kind[p] # "none"
      BY <3>2 DEF Knows
    <3> QED BY <1>1, <1>2, <2>1, <3>1, <3>3
  <2>2. CASE e = c
    <3>1. Busy(d) /\ Id(d) = p /\ new.setup
      BY <1>1, <1>7, <2>2
    <3>2. Knows(d)
      BY <1>4, <3>1
    <3>3. kind[p] # "none"
      BY <3>1, <3>2 DEF Knows
    <3> QED BY <3>1, <3>3
  <2>3. CASE d # c /\ e # c
    <3>1. caller'[d] = caller[d] /\ caller'[e] = caller[e]
      BY <1>1, <2>3
    <3>2. Busy(d) /\ SettingUp(e, Id(d))
      BY <1>7, <3>1
    <3>3. ~caller[d].setup /\ (caller[d].pc = "add" \/ Id(d) \in overtaken)
      BY <1>7, <3>2 DEF IInv, Callings
    <3> QED BY <3>1, <3>3
  <2> QED BY <2>1, <2>2, <2>3
<1>8. Callings'
  BY <1>6, <1>7 DEF Callings
<1>9. ASSUME NEW q \in Connectors PROVE RowSays(q)' /\ AdapterSays(q)'
  <2>1. RowSays(q) /\ AdapterSays(q)
    BY DEF IInv, Rows
  <2>2. \A d \in Callers \ {c} : SettingUp(d, q)' <=> SettingUp(d, q)
    BY <1>1
  <2>3. SettingUp(c, q)' => q = p /\ kind[p] = "none"
    BY <1>1
  <2>4. kind'[q] = kind[q] \/ (kind[q] = "none" /\ kind'[q] = k)
    BY <1>5
  <2>5. kind[q] = "none" => answer[q] = {} /\ row[q] = "none"
    BY <2>1 DEF RowSays
  <2>6. k # "none"
    BY DEF Kinds
  <2> QED BY <2>1, <2>2, <2>3, <2>4, <2>5, <2>6 DEF RowSays, AdapterSays
<1> QED BY <1>3, <1>8, <1>9 DEF IInv, Rows

LEMMA BeginsKeep ==
  ASSUME IInv, NEW c \in Callers, NEW p \in Connectors,
         (\E k \in Kinds : BeginCreate(c, p, k)) \/ BeginRemove(c, p) \/ BeginAddPerson(c, p)
  PROVE  IInv'
PROOF
<1>1. RowSays(p)
  BY DEF IInv, Rows
<1> USE DEF tables, outside, ghosts, Before, After, Removing
<1>2. ASSUME NEW k \in Kinds, BeginCreate(c, p, k) PROVE IInv'
  <2> DEFINE new == [pc |-> IF k = "whatsapp" THEN "ensure" ELSE "insert", id |-> p, setup |-> TRUE]
  <2>1. /\ new \in Requests /\ caller' = [caller EXCEPT ![c] = new]
        /\ new.pc \in Before /\ new.id = p /\ new.setup
    BY <1>2 DEF BeginCreate, Requests
  <2> HIDE DEF new
  <2>2. /\ caller[c] = Idle /\ kind[p] = "none" /\ row[p] = "none" /\ answer[p] = {}
        /\ kind' = [kind EXCEPT ![p] = k] /\ UNCHANGED <<row, people, adapter, answer, overtaken>>
    BY <1>1, <1>2 DEF BeginCreate, RowSays
  <2>3. caller'[c] = new /\ kind'[p] = k /\ k # "none"
    BY <2>1, <2>2 DEF IInv, Typed, Kinds
  <2>4. Knows(c)'
    BY <2>1, <2>2, <2>3 DEF Knows
  <2>5. overtaken' \in SUBSET Connectors /\ overtaken \subseteq overtaken'
    BY <2>2 DEF IInv, Typed
  <2> QED BY <2>1, <2>2, <2>4, <2>5, BeginSuffices
<1>3. "webhook" \in Kinds
  BY DEF Kinds
<1>4. CASE BeginRemove(c, p)
  <2> DEFINE new == [pc |-> IF kind[p] = "telegram" \/ hook[p] = "known" THEN "unhook" ELSE "deactivate",
                     id |-> p, setup |-> FALSE]
  <2>1. /\ new \in Requests /\ caller' = [caller EXCEPT ![c] = new]
        /\ new.pc \in {"unhook", "deactivate"} /\ new.id = p /\ ~new.setup
    BY <1>4 DEF BeginRemove, Requests
  <2> HIDE DEF new
  <2>2. /\ caller[c] = Idle /\ row[p] = "active" /\ kind[p] # "none"
        /\ UNCHANGED <<kind, row, people, adapter, answer>>
    BY <1>1, <1>4 DEF BeginRemove, RowSays
  <2>3. caller'[c] = new
    BY <2>1 DEF IInv, Typed
  <2>4. Knows(c)'
    BY <2>1, <2>2, <2>3 DEF Knows
  <2>5. /\ overtaken \subseteq overtaken'
        /\ \A d \in Callers : SettingUp(d, p) => p \in overtaken'
    BY <1>4, <2>2 DEF BeginRemove
  <2>6. overtaken' \in SUBSET Connectors
    BY <1>4 DEF BeginRemove, IInv, Typed, Requests
  <2> QED BY <1>3, <2>1, <2>2, <2>4, <2>5, <2>6, BeginSuffices
<1>5. CASE BeginAddPerson(c, p)
  <2> DEFINE new == [pc |-> "add", id |-> p, setup |-> FALSE]
  <2>1. /\ new \in Requests /\ caller' = [caller EXCEPT ![c] = new]
        /\ new.pc = "add" /\ new.id = p /\ ~new.setup
    BY <1>5 DEF BeginAddPerson, Requests
  <2> HIDE DEF new
  <2>2. /\ caller[c] = Idle /\ row[p] = "active" /\ kind[p] # "none"
        /\ UNCHANGED <<kind, row, people, adapter, answer, overtaken>>
    BY <1>1, <1>5 DEF BeginAddPerson, RowSays
  <2>3. caller'[c] = new
    BY <2>1 DEF IInv, Typed
  <2>4. Knows(c)'
    BY <2>1, <2>2, <2>3 DEF Knows
  <2>5. overtaken' \in SUBSET Connectors /\ overtaken \subseteq overtaken'
    BY <2>2 DEF IInv, Typed
  <2> QED BY <1>3, <2>1, <2>2, <2>4, <2>5, BeginSuffices
<1> QED BY <1>2, <1>4, <1>5

\* A restart ends every request; the adapters are then those of the rows.
LEMMA RestartKeeps == IInv /\ Restart => IInv'
PROOF
<1> SUFFICES ASSUME IInv, Restart PROVE IInv'
  OBVIOUS
<1>1. /\ caller' = [c \in Callers |-> Idle]
      /\ UNCHANGED <<kind, row, people, answer, overtaken>>
      /\ \A p \in Connectors : p \in adapter' <=> kind[p] \in {"imessage", "telegram"} /\ row[p] = "active"
      /\ adapter' \subseteq Connectors
  BY DEF Restart, InitAdapters, ActiveConfigs, tables, ghosts
<1>2. Typed'
  BY <1>1 DEF IInv, Typed
<1>3. Callings'
  BY <1>1 DEF Callings
<1>4. \A p \in Connectors : RowSays(p)' /\ AdapterSays(p)'
  BY <1>1 DEF IInv, Rows, RowSays, AdapterSays
<1> QED BY <1>2, <1>3, <1>4 DEF IInv, Rows

LEMMA PeopleKeep ==
  ASSUME IInv, NEW p \in Connectors,
         RefreshWebhook(p) \/ \E s \in Senders : RemovePerson(p, s)
  PROVE  IInv'
PROOF
<1>1. /\ UNCHANGED <<kind, row, adapter, caller, answer, overtaken>>
      /\ people' \in [Connectors -> SUBSET Senders]
      /\ \A q \in Connectors : people'[q] \subseteq people[q]
  BY DEF RefreshWebhook, RemovePerson, tables, outside, ghosts, IInv, Typed
<1>2. Typed'
  BY <1>1 DEF IInv, Typed
<1>3. Callings'
  BY <1>1 DEF IInv, Callings, Knows
<1>4. \A q \in Connectors : RowSays(q)' /\ AdapterSays(q)'
  BY <1>1 DEF IInv, Rows, RowSays, AdapterSays
<1> QED BY <1>2, <1>3, <1>4 DEF IInv, Rows

-----------------------------------------------------------------------------
LEMMA NextInvariant == IInv /\ [Next]_vars => IInv'
PROOF
<1> SUFFICES ASSUME IInv, [Next]_vars PROVE IInv'
  OBVIOUS
<1>1. ASSUME NEW c \in Callers, NEW p \in Connectors,
             (\E k \in Kinds : BeginCreate(c, p, k)) \/ BeginRemove(c, p) \/ BeginAddPerson(c, p)
      PROVE  IInv'
  BY <1>1, BeginsKeep
<1>2. ASSUME NEW c \in Callers,
             \/ RemoveBridge(c) \/ EnsureBridge(c)
             \/ RegisterWebhook(c) \/ SetWebhook(c) \/ RegisterRemoved(c) \/ RegisterFails(c)
             \/ StoreId(c) \/ StoreIdFails(c) \/ DeregisterWebhook(c) \/ DeleteWebhook(c)
      PROVE  IInv'
  BY <1>2, MovesKeep
<1>3. ASSUME NEW c \in Callers,
             EnsureFails(c) \/ InsertFails(c) \/ RollbackFails(c) \/ CheckBridge(c) \/ StopBridge(c)
      PROVE  IInv'
  BY <1>3, AnswersKeep
<1>4. ASSUME NEW c \in Callers,
             CreateSimple(c) \/ CreateImessage(c) \/ CreateTelegram(c) \/ PersistWhatsapp(c)
      PROVE  IInv'
  BY <1>4, CreatesKeep
<1>5. ASSUME NEW c \in Callers, RegisterLocal(c) \/ Rollback(c) \/ Deactivate(c) \/ Stop(c)
      PROVE  IInv'
  BY <1>5, RegisterLocalKeeps, RollbackKeeps, DeactivateKeeps, StopKeeps
<1>6. ASSUME NEW c \in Callers, Abandon(c) \/ \E s \in Senders : AddPerson(c, s) PROVE IInv'
  BY <1>6, AbandonKeeps
<1>7. ASSUME NEW p \in Connectors, RefreshWebhook(p) \/ \E s \in Senders : RemovePerson(p, s)
      PROVE  IInv'
  BY <1>7, PeopleKeep
<1>8. CASE Restart
  BY <1>8, RestartKeeps
<1>9. CASE UNCHANGED vars
  <2>1. UNCHANGED <<kind, row, people, adapter, caller, answer, overtaken>>
    BY <1>9 DEF vars, tables, outside, ghosts
  <2> QED BY <2>1 DEF IInv, Typed, Callings, Knows, Rows, RowSays, AdapterSays
<1> QED BY <1>1, <1>2, <1>3, <1>4, <1>5, <1>6, <1>7, <1>8, <1>9 DEF Next

\* A setup that api/connectors/domain.rs has refused leaves nothing behind, and the
\* adapters follow the rows, however setups, removals and people's requests interleave,
\* whatever fails, and wherever requests and the process end.
THEOREM ConnectionsAgree == Spec => []ConnectionsConsistent
PROOF
<1>1. IInv => ConnectionsConsistent
  BY DEF IInv, Rows, RowSays, AdapterSays, ConnectionsConsistent, RefusedLeavesNothing, AdapterFollowsRow
<1> QED BY <1>1, InitInvariant, NextInvariant, PTL DEF Spec

HIDE DEF At, Id, Busy, SettingUp

-----------------------------------------------------------------------------
(* The accounts                                                             *)

\* What a request of an account knows.
AccountRequests ==
  [op : {"open", "redeem"}, for : Users]
  \cup [op : Account!Requests, by : Users, for : Users, all : SUBSET Agents]
  \cup [op : {"write"}, for : Users, to : BOOLEAN, was : BOOLEAN]

AccountsTyped ==
  /\ users \subseteq Users /\ admins \subseteq users /\ users \cap gone = {}
  /\ installed \subseteq Agents
  /\ access \in [Users -> SUBSET (Agents \cup {Account!None})]
  /\ chosen \in [Users -> SUBSET Agents]
  /\ accountCaller \in [AccountCallers -> {Account!Idle} \cup AccountRequests]
  /\ setups \in Nat

\* A choice is stored as rows that grant no more; of an id never used or in use,
\* which is all that can still be seen or chosen for.
ChoicesStored ==
  \A u \in Users \ gone : /\ access[u] = {} => chosen[u] = Agents
                          /\ access[u] \cap Agents \subseteq chosen[u]

AccountsInv == AccountsTyped /\ ChoicesStored /\ Account!AdminRemains

\* A request that goes on or ends, and changes neither accounts nor choices.
LEMMA RequestsKeep ==
  ASSUME AccountsInv, UNCHANGED <<users, gone, admins, access, chosen, setups, slipped>>,
         installed' \subseteq Agents,
         accountCaller' \in [AccountCallers -> {Account!Idle} \cup AccountRequests]
  PROVE  AccountsInv'
PROOF
  BY DEF AccountsInv, AccountsTyped, ChoicesStored, Account!AdminRemains

\* What a request knows, and the end of it.
LEMMA RequestTyped ==
  ASSUME AccountsInv, NEW c \in AccountCallers
  PROVE  /\ accountCaller[c].op \in {"open", "redeem"} \cup Account!Requests \cup {"write"}
              => accountCaller[c] \in AccountRequests
         /\ [accountCaller EXCEPT ![c] = Account!Idle]
              \in [AccountCallers -> {Account!Idle} \cup AccountRequests]
         /\ \A r \in AccountRequests : [accountCaller EXCEPT ![c] = r]
              \in [AccountCallers -> {Account!Idle} \cup AccountRequests]
PROOF
  BY DEF AccountsInv, AccountsTyped, Account!Idle, Account!Requests

LEMMA WriteTyped ==
  ASSUME NEW r \in AccountRequests
  PROVE  /\ r.for \in Users
         /\ r.op = "write" => r.to \in BOOLEAN /\ r.was \in BOOLEAN
         /\ r.op \in Account!Requests => r.by \in Users /\ r.all \in SUBSET Agents
PROOF
  BY DEF AccountRequests, Account!Requests

\* Signing in and out, and requests before they write.
LEMMA SigningKeeps ==
  ASSUME AccountsInv, NEW c \in AccountCallers,
         \/ \E u \in Users : Account!BeginLogin(c, u) \/ Account!BeginRedeem(c, u)
         \/ \E s \in Sessions : Account!OpenSession(c, s)
         \/ Account!Redeem(c) \/ Account!ReadCurrent(c) \/ Account!Abandon(c)
  PROVE  AccountsInv'
PROOF
<1>1. UNCHANGED <<users, gone, admins, access, chosen, setups, slipped, installed>>
  BY DEF Account!BeginLogin, Account!BeginRedeem, Account!OpenSession, Account!Redeem,
         Account!ReadCurrent, Account!Abandon, Account!accounts, Account!ghosts
<1>2. ASSUME NEW u \in Users, Account!BeginLogin(c, u) \/ Account!BeginRedeem(c, u)
      PROVE  AccountsInv'
  <2>1. [op |-> "open", for |-> u] \in AccountRequests /\ [op |-> "redeem", for |-> u] \in AccountRequests
    BY DEF AccountRequests
  <2>2. accountCaller' \in [AccountCallers -> {Account!Idle} \cup AccountRequests]
    BY <1>2, <2>1, RequestTyped DEF Account!BeginLogin, Account!BeginRedeem
  <2> QED BY <1>1, <2>2, RequestsKeep DEF AccountsInv, AccountsTyped
<1>3. ASSUME Account!Redeem(c) PROVE AccountsInv'
  <2>1. accountCaller[c] \in AccountRequests /\ accountCaller[c].op = "redeem"
    BY <1>3, RequestTyped DEF Account!Redeem, Account!At
  <2>2. [accountCaller[c] EXCEPT !.op = "open"] \in AccountRequests
    BY <2>1 DEF AccountRequests, Account!Requests
  <2>3. \/ accountCaller' = [accountCaller EXCEPT ![c] = [accountCaller[c] EXCEPT !.op = "open"]]
        \/ accountCaller' = [accountCaller EXCEPT ![c] = Account!Idle]
    BY <1>3 DEF Account!Redeem, Account!Done
  <2> QED BY <1>1, <2>2, <2>3, RequestTyped, RequestsKeep DEF AccountsInv, AccountsTyped
<1>4. ASSUME Account!ReadCurrent(c) PROVE AccountsInv'
  <2>1. accountCaller[c] \in AccountRequests
    BY <1>4, RequestTyped DEF Account!ReadCurrent, Account!At, Account!Requests
  <2>2. ASSUME NEW r \in BOOLEAN PROVE
          [op |-> "write", for |-> accountCaller[c].for, to |-> r,
           was |-> accountCaller[c].for \in admins] \in AccountRequests
    BY <2>1, WriteTyped DEF AccountRequests
  <2>3. accountCaller' \in [AccountCallers -> {Account!Idle} \cup AccountRequests]
    BY <1>4, <2>2, RequestTyped DEF Account!ReadCurrent, Account!Done
  <2> QED BY <1>1, <2>3, RequestsKeep DEF AccountsInv, AccountsTyped
<1>5. ASSUME (\E s \in Sessions : Account!OpenSession(c, s)) \/ Account!Abandon(c)
      PROVE  AccountsInv'
  <2>1. accountCaller' = [accountCaller EXCEPT ![c] = Account!Idle]
    BY <1>5 DEF Account!OpenSession, Account!Abandon, Account!Done
  <2> QED BY <1>1, <2>1, RequestTyped, RequestsKeep DEF AccountsInv, AccountsTyped
<1> QED BY <1>2, <1>3, <1>4, <1>5

\* A request of an administrator begins, and the first one is set up.
LEMMA AskKeeps ==
  ASSUME AccountsInv, NEW c \in AccountCallers, NEW s \in Sessions, NEW op \in Account!Requests,
         NEW u \in Users, Account!Ask(c, s, op, u)
  PROVE  AccountsInv'
PROOF
<1>1. session[s] \in Users
  BY DEF Account!Ask, Account!AsAdmin, AccountsInv, AccountsTyped
<1>2. [op |-> op, by |-> session[s], for |-> u, all |-> installed] \in AccountRequests
  BY <1>1 DEF AccountRequests, AccountsInv, AccountsTyped
<1>3. accountCaller' \in [AccountCallers -> {Account!Idle} \cup AccountRequests]
  BY <1>2, RequestTyped DEF Account!Ask
<1> QED BY <1>3, RequestsKeep DEF Account!Ask, Account!accounts, Account!ghosts, AccountsInv, AccountsTyped

LEMMA SetUpKeeps ==
  ASSUME AccountsInv, NEW u \in Users, NEW s \in Sessions, Account!SetUp(u, s)
  PROVE  AccountsInv'
PROOF
  BY DEF Account!SetUp, AccountsInv, AccountsTyped, ChoicesStored, Account!AdminRemains

LEMMA CreateKeeps ==
  ASSUME AccountsInv, NEW c \in AccountCallers, Account!CreateUser(c)
  PROVE  AccountsInv'
PROOF
<1>1. accountCaller[c] \in AccountRequests /\ accountCaller[c].for \in Users
  BY RequestTyped, WriteTyped DEF Account!CreateUser, Account!At, Account!Requests
<1>2. accountCaller' \in [AccountCallers -> {Account!Idle} \cup AccountRequests]
  BY RequestTyped DEF Account!CreateUser, Account!Done
<1>3. /\ users' \subseteq Users /\ admins' \subseteq users' /\ users' \cap gone' = {}
      /\ admins \subseteq admins'
      /\ UNCHANGED <<gone, access, installed, setups, slipped, chosen>>
  BY <1>1 DEF Account!CreateUser, Account!ghosts, AccountsInv, AccountsTyped
<1> QED BY <1>2, <1>3 DEF AccountsInv, AccountsTyped, ChoicesStored, Account!AdminRemains

\* Roles: as long as none lost the role by a request that had read of none, the last
\* administrator is counted.
LEMMA UpdateKeeps ==
  ASSUME AccountsInv, NEW c \in AccountCallers, Account!UpdateUser(c)
  PROVE  AccountsInv'
PROOF
<1> DEFINE u == accountCaller[c].for
<1>1. /\ u \in Users
      /\ accountCaller[c].to \in BOOLEAN /\ accountCaller[c].was \in BOOLEAN
  BY RequestTyped, WriteTyped DEF Account!UpdateUser, Account!At
<1>2. accountCaller' \in [AccountCallers -> {Account!Idle} \cup AccountRequests]
  BY RequestTyped DEF Account!UpdateUser, Account!Done
<1>3. admins' \subseteq users /\ UNCHANGED <<users, gone, access, installed, setups, chosen>>
  BY <1>1 DEF Account!UpdateUser, AccountsInv, AccountsTyped
<1>4. ~slipped' => ~slipped /\ (admins # {} => admins' # {})
  <2>1. /\ admins' = IF u \notin users \/ (accountCaller[c].was /\ ~accountCaller[c].to /\ Account!LastAdmin)
                     THEN admins
                     ELSE IF accountCaller[c].to THEN admins \cup {u} ELSE admins \ {u}
        /\ slipped' = (slipped \/ (u \notin admins' /\ u \in admins /\ ~accountCaller[c].was))
    BY DEF Account!UpdateUser
  <2>2. ASSUME ~slipped', admins # {}, admins' = {} PROVE FALSE
    <3>1. admins' = admins \ {u} /\ u \in admins /\ u \notin admins'
      BY <2>1, <2>2
    <3>2. accountCaller[c].was /\ ~accountCaller[c].to /\ ~Account!LastAdmin
      BY <1>1, <2>1, <2>2, <3>1
    <3>3. PICK v \in admins, w \in admins : v # w
      BY <3>2 DEF Account!LastAdmin
    <3> QED BY <2>2, <3>1, <3>3
  <2>3. ~slipped' => ~slipped
    BY <2>1
  <2> QED BY <2>2, <2>3
<1> QED BY <1>2, <1>3, <1>4 DEF AccountsInv, AccountsTyped, ChoicesStored, Account!AdminRemains

LEMMA DeleteKeeps ==
  ASSUME AccountsInv, NEW c \in AccountCallers, Account!DeleteUser(c)
  PROVE  AccountsInv'
PROOF
<1> DEFINE u == accountCaller[c].for
<1>1. u \in Users
  BY RequestTyped, WriteTyped DEF Account!DeleteUser, Account!At, Account!Requests
<1>2. accountCaller' \in [AccountCallers -> {Account!Idle} \cup AccountRequests]
  BY RequestTyped DEF Account!DeleteUser, Account!Done
<1>3. UNCHANGED <<installed, setups, slipped, chosen>>
  BY DEF Account!DeleteUser, Account!ghosts
<1>4. CASE UNCHANGED Account!accounts
  BY <1>2, <1>3, <1>4, RequestsKeep DEF Account!accounts, AccountsInv, AccountsTyped
<1>5. CASE Account!Remove(u) /\ (u \in admins => ~Account!LastAdmin)
  <2>1. /\ users' = users \ {u} /\ gone' = gone \cup {u} /\ admins' = admins \ {u}
        /\ access' = [access EXCEPT ![u] = {}]
    BY <1>5 DEF Account!Remove
  <2>2. admins # {} => admins' # {}
    BY <1>5, <2>1 DEF Account!LastAdmin
  <2>3. AccountsTyped'
    BY <1>1, <1>2, <1>3, <2>1 DEF AccountsInv, AccountsTyped
  <2>4. ChoicesStored'
    BY <1>1, <1>3, <2>1 DEF AccountsInv, AccountsTyped, ChoicesStored
  <2> QED BY <1>3, <2>2, <2>3, <2>4 DEF AccountsInv, Account!AdminRemains
<1> QED BY <1>4, <1>5 DEF Account!DeleteUser

LEMMA AccessKeeps ==
  ASSUME AccountsInv, NEW c \in AccountCallers, Account!SetAgentAccess(c)
  PROVE  AccountsInv'
PROOF
<1> DEFINE u == accountCaller[c].for
<1>1. u \in Users /\ accountCaller[c].all \in SUBSET Agents
  BY RequestTyped, WriteTyped DEF Account!SetAgentAccess, Account!At, Account!Requests
<1>2. accountCaller' \in [AccountCallers -> {Account!Idle} \cup AccountRequests]
  BY RequestTyped DEF Account!SetAgentAccess, Account!Done
<1>3. UNCHANGED <<users, gone, admins, installed, setups, slipped>>
  BY DEF Account!SetAgentAccess
<1>4. CASE UNCHANGED <<access, chosen>>
  BY <1>2, <1>3, <1>4, RequestsKeep DEF AccountsInv, AccountsTyped
<1>5. ASSUME NEW picked \in SUBSET accountCaller[c].all,
             access' = [access EXCEPT ![u] = Account!AccessRows(picked, accountCaller[c].all)],
             chosen' = [chosen EXCEPT ![u] = IF picked = accountCaller[c].all THEN Agents ELSE picked]
      PROVE  AccountsInv'
  <2> DEFINE stored == Account!AccessRows(picked, accountCaller[c].all)
             grants == IF picked = accountCaller[c].all THEN Agents ELSE picked
  <2>1. picked \subseteq Agents
    BY <1>1
  <2>2. /\ stored \subseteq Agents \cup {Account!None} /\ grants \subseteq Agents
        /\ stored = {} => grants = Agents
        /\ stored \cap Agents \subseteq grants
    BY <1>1, <2>1, AccountNames DEF Account!AccessRows, Account!NamesAssumption, Account!None
  <2>3. /\ access' = [access EXCEPT ![u] = stored] /\ chosen' = [chosen EXCEPT ![u] = grants]
    BY <1>5
  <2> HIDE DEF stored, grants, u
  <2>4. AccountsTyped'
    BY <1>1, <1>2, <1>3, <2>2, <2>3 DEF AccountsInv, AccountsTyped
  <2>5. ChoicesStored'
    BY <1>1, <1>3, <2>2, <2>3 DEF AccountsInv, AccountsTyped, ChoicesStored
  <2> QED BY <1>3, <2>4, <2>5 DEF AccountsInv, Account!AdminRemains
<1> QED BY <1>4, <1>5 DEF Account!SetAgentAccess

\* Sign-ins end and are paired; agents and channels come and go.
LEMMA OthersKeep ==
  ASSUME AccountsInv,
         \/ \E s \in Sessions :
              Account!Pair(s) \/ Account!EndSession(s) \/ Account!ChangePassword(s)
         \/ \E u \in Users : Account!ResetPassword(u)
         \/ \E a \in Agents : Account!SwapAgents(a)
         \/ \E p \in Channels, u \in Users : Account!Connect(p, u)
         \/ UNCHANGED Account!vars
  PROVE  AccountsInv'
PROOF
<1>1. /\ UNCHANGED <<users, gone, admins, access, chosen, setups, slipped, accountCaller>>
      /\ installed' \subseteq Agents
  BY DEF Account!Pair, Account!EndSession, Account!ChangePassword, Account!ResetPassword,
         Account!SwapAgents, Account!Connect, Account!vars, Account!accounts, Account!ghosts,
         AccountsInv, AccountsTyped
<1> QED BY <1>1, RequestsKeep DEF AccountsInv, AccountsTyped

LEMMA AccountsStay == Account!Spec => []AccountsInv
PROOF
<1>1. Account!Init => AccountsInv
  BY DEF Account!Init, AccountsInv, AccountsTyped, ChoicesStored, Account!AdminRemains
<1>2. AccountsInv /\ [Account!Next]_(Account!vars) => AccountsInv'
  <2> SUFFICES ASSUME AccountsInv, [Account!Next]_(Account!vars) PROVE AccountsInv'
    OBVIOUS
  <2>1. ASSUME NEW u \in Users, NEW s \in Sessions, Account!SetUp(u, s) PROVE AccountsInv'
    BY <2>1, SetUpKeeps
  <2> QED
    BY <2>1, SigningKeeps, AskKeeps, CreateKeeps, UpdateKeeps, DeleteKeeps, AccessKeeps,
       OthersKeep DEF Account!Next
<1> QED BY <1>1, <1>2, PTL DEF Account!Spec

LEMMA AccountsHold == Account!Spec => []Account!AccountsConsistent /\ Account!OthersKeepTheirs
PROOF
<1>1. AccountsInv => Account!AccountsConsistent
  <2> SUFFICES ASSUME AccountsInv, NEW u \in users PROVE Account!Visible(u) \subseteq chosen[u]
    BY DEF AccountsInv, Account!AccountsConsistent, Account!ChoiceHolds
  <2>1. u \in Users \ gone /\ installed \subseteq Agents
    BY DEF AccountsInv, AccountsTyped
  <2> QED BY <2>1 DEF AccountsInv, ChoicesStored, Account!Visible
<1>2. [Account!Next]_(Account!vars) => [\A t \in rows : t[1] \in users' => t \in rows']_(Account!vars)
  <2> SUFFICES ASSUME Account!Next, NEW t \in rows, t[1] \in users' PROVE t \in rows'
    OBVIOUS
  <2>1. ASSUME NEW c \in AccountCallers, Account!DeleteUser(c) PROVE t \in rows'
    BY <2>1 DEF Account!DeleteUser, Account!Remove, Account!pipes
  <2>2. ASSUME NEW p \in Channels, NEW u \in Users, Account!Connect(p, u) PROVE t \in rows'
    BY <2>2 DEF Account!Connect
  <2>3. ASSUME UNCHANGED rows PROVE t \in rows'
    BY <2>3
  <2> QED
    BY <2>1, <2>2, <2>3
    DEF Account!Next, Account!SetUp, Account!Pair, Account!EndSession, Account!ChangePassword,
        Account!ResetPassword, Account!BeginLogin, Account!BeginRedeem, Account!OpenSession,
        Account!Ask, Account!Redeem, Account!CreateUser, Account!ReadCurrent, Account!UpdateUser,
        Account!SetAgentAccess, Account!Abandon, Account!SwapAgents, Account!pipes
<1> QED BY <1>1, <1>2, AccountsStay, PTL DEF Account!Spec, Account!OthersKeepTheirs

-----------------------------------------------------------------------------
(* The images                                                               *)

PackageRevisions ==
  [state : {"none", "staged", "current", "previous", "failed", "uninstalled"}, until : Nat]
Starts == {[pc |-> "idle"]} \cup [pc : {"ensure", "create"}, image : Image!Images]
Deployments == {[pc |-> "idle"]} \cup [pc : {"pull", "record", "activate"}, id : Revisions]
Cleanups ==
  {[pc |-> "idle"]}
  \cup [pc : {"metadata", "expire", "decide"}, manual : BOOLEAN, confirmed : SUBSET Image!Images]
  \cup [pc : {"remove"}, todo : SUBSET Image!Images]
  \cup [pc : {"delete"}, todo : SUBSET Image!Images, gone : Image!Images, late : BOOLEAN]
  \cup [pc : {"forget"}, todo : SUBSET Image!Images, gone : Image!Images]

ImagesTyped ==
  /\ now \in Nat
  /\ revision \in [Revisions -> PackageRevisions]
  /\ system \in [current : SystemImages, previous : SystemImages \cup {Image!None},
                 until : Nat, updating : BOOLEAN]
  /\ starter \in [Starters -> Starts]
  /\ deploy \in Deployments /\ cleanup \in Cleanups /\ review \subseteq Image!Images

\* Deployments and cleanups run alone, invocations beside each other.
LeaseHeld ==
  /\ cleanup.pc # "idle" => excl = "cleanup"
  /\ deploy.pc # "idle" => excl = "deploy"
  /\ \A s \in Starters : starter[s].pc # "idle" => excl = Image!None

\* An invocation has the image of the revision that is still current.
Pinned ==
  \A s \in Starters : starter[s].pc # "idle" =>
    \E r \in Revisions : Image!Current(r) /\ Image!Pin(r) = {starter[s].image}

\* A cleanup that has read the account of the sidecar: no update runs, and the image to
\* go back to is among the references.
Accounted ==
  cleanup.pc \in {"expire", "decide"} =>
    /\ ~system.updating
    /\ system.previous # Image!None =>
         [image |-> system.previous, state |-> "previous", until |-> system.until] \in sysrefs

\* An image that nothing needs, now or later, while the lease is held.
Unneeded(i) ==
  /\ \A r \in Revisions : <<r, i>> \in refs => revision[r].state # "current" /\ revision[r].until <= now
  /\ i = system.previous => system.until <= now

Settled ==
  cleanup.pc \in {"remove", "delete", "forget"} =>
    ~system.updating /\ \A i \in cleanup.todo : Unneeded(i)

\* An image whose tags were checked is one of them, and has got no tag but since.
Checked ==
  cleanup.pc = "delete" =>
    cleanup.gone \in cleanup.todo /\ (cleanup.gone \in aliased => cleanup.late)

ImagesInv == ImagesTyped /\ LeaseHeld /\ Pinned /\ Accounted /\ Settled /\ Checked

\* Whoever is alone need not care.
LEMMA AloneKeeps ==
  ASSUME ImagesTyped', LeaseHeld', cleanup'.pc = "idle", \A s \in Starters : starter'[s].pc = "idle"
  PROVE  ImagesInv'
PROOF
  BY DEF ImagesInv, Pinned, Accounted, Settled, Checked

\* What others do meanwhile.
LEMMA BesideKeeps ==
  ASSUME ImagesInv, UNCHANGED <<revision, refs, sysrefs, system, excl, starter, deploy, cleanup, review>>,
         now' = now \/ now' = now + 1, cleanup.pc = "delete" => aliased' = aliased
  PROVE  ImagesInv'
PROOF
<1>1. now' \in Nat /\ now <= now'
  BY DEF ImagesInv, ImagesTyped
<1>2. ImagesTyped' /\ LeaseHeld'
  BY <1>1 DEF ImagesInv, ImagesTyped, LeaseHeld
<1>3. Pinned' /\ Accounted'
  BY DEF ImagesInv, Pinned, Accounted, Image!Current, Image!Pin
<1>4. ASSUME NEW i, Unneeded(i) PROVE Unneeded(i)'
  <2>1. \A r \in Revisions : revision[r].until \in Nat
    BY DEF ImagesInv, ImagesTyped, PackageRevisions
  <2>2. system.until \in Nat /\ now \in Nat
    BY DEF ImagesInv, ImagesTyped
  <2> QED BY <1>1, <1>4, <2>1, <2>2 DEF Unneeded
<1>5. Settled' /\ Checked'
  BY <1>4 DEF ImagesInv, Settled, Checked
<1> QED BY <1>2, <1>3, <1>5 DEF ImagesInv

\* When the lease is free, nobody deploys, cleans up or starts.
LEMMA LeaseFree ==
  ASSUME ImagesInv
  PROVE  /\ Image!Free => /\ excl = Image!None /\ cleanup.pc = "idle" /\ deploy.pc = "idle"
                          /\ \A s \in Starters : starter[s].pc = "idle"
         /\ excl \in {"deploy", "cleanup", "bootstrap"} => \A s \in Starters : starter[s].pc = "idle"
         /\ excl # "cleanup" => cleanup.pc = "idle"
         /\ excl # "deploy" => deploy.pc = "idle"
PROOF
  BY DEF Image!Free, ImagesInv, LeaseHeld, Image!None

\* Deployments.
LEMMA RecordTyped ==
  ASSUME ImagesInv, NEW r \in Revisions, NEW i, Image!Record(r, i)
  PROVE  revision' \in [Revisions -> PackageRevisions]
PROOF
<1>1. now + Grace \in Nat
  BY ImageTimes DEF Image!TimesAssumption, ImagesInv, ImagesTyped
<1> QED BY <1>1 DEF Image!Record, Image!SetState, ImagesInv, ImagesTyped, PackageRevisions

LEMMA DeployKeeps ==
  ASSUME ImagesInv,
         \/ \E r \in Revisions : Image!Stage(r) \/ Image!Uninstall(r)
         \/ Image!Pull \/ Image!RecordPulled \/ Image!Activate \/ Image!MarkFailed
  PROVE  ImagesInv'
PROOF
<1>0. now \in Nat /\ now + Grace \in Nat /\ now + Retention \in Nat
  BY ImageTimes DEF Image!TimesAssumption, ImagesInv, ImagesTyped
<1>1. UNCHANGED <<now, sysrefs, system, starter, cleanup, review>>
  BY DEF Image!Stage, Image!Uninstall, Image!Pull, Image!RecordPulled, Image!Activate,
         Image!MarkFailed, Image!Deploying
<1>2. cleanup.pc = "idle" /\ \A s \in Starters : starter[s].pc = "idle"
  <2>1. Image!Free \/ deploy.pc # "idle"
    BY DEF Image!Stage, Image!Enter, Image!Uninstall, Image!Pull, Image!RecordPulled, Image!Activate,
           Image!MarkFailed, Image!Deploying
  <2>2. deploy.pc # "idle" => excl = "deploy"
    BY DEF ImagesInv, LeaseHeld
  <2> QED BY <2>1, <2>2, LeaseFree
<1>3. /\ revision' \in [Revisions -> PackageRevisions]
      /\ deploy' \in Deployments
      /\ deploy'.pc # "idle" => excl' = "deploy"
  <2>0. /\ revision \in [Revisions -> PackageRevisions] /\ deploy \in Deployments
        /\ deploy.pc # "idle" => excl = "deploy"
    BY DEF ImagesInv, ImagesTyped, LeaseHeld
  <2>1. ASSUME NEW r \in Revisions, Image!Stage(r) PROVE <1>3!:
    BY <1>0, <2>0, <2>1 DEF Image!Stage, Image!Enter, Image!SetState, Deployments, PackageRevisions
  <2>2. ASSUME NEW r \in Revisions, Image!Uninstall(r) PROVE <1>3!:
    BY <1>0, <2>0, <2>2 DEF Image!Uninstall, Image!SetState, PackageRevisions
  <2>3. CASE Image!Pull
    <3>1. deploy \in [pc : {"pull", "record", "activate"}, id : Revisions]
      BY <2>0, <2>3 DEF Image!Pull, Image!Deploying, Deployments
    <3> QED BY <2>0, <2>3, <3>1 DEF Image!Pull, Image!Deploying, Deployments
  <2>4. CASE Image!RecordPulled
    <3>1. deploy \in [pc : {"pull", "record", "activate"}, id : Revisions] /\ deploy.pc = "record"
      BY <2>0, <2>4 DEF Image!RecordPulled, Image!Deploying, Deployments
    <3>2. revision' \in [Revisions -> PackageRevisions]
      BY <2>4, <3>1, RecordTyped DEF Image!RecordPulled
    <3>3. PICK pc \in {"pull", "activate"} : deploy' = [deploy EXCEPT !.pc = pc]
      BY <2>4 DEF Image!RecordPulled
    <3> QED BY <2>0, <2>4, <3>1, <3>2, <3>3 DEF Image!RecordPulled, Deployments
  <2>5. CASE Image!Activate
    <3>1. deploy' = [pc |-> "idle"]
      BY <2>5 DEF Image!Activate
    <3>2. revision' \in [Revisions -> PackageRevisions]
      BY <1>0, <2>0, <2>5 DEF Image!Activate, Image!Forever, Image!Current, PackageRevisions
    <3> QED BY <3>1, <3>2 DEF Deployments
  <2>6. CASE Image!MarkFailed
    BY <1>0, <2>0, <2>6 DEF Image!MarkFailed, Image!SetState, Deployments, PackageRevisions
  <2> QED BY <2>1, <2>2, <2>3, <2>4, <2>5, <2>6
<1>4. ImagesTyped' /\ LeaseHeld'
  BY <1>1, <1>2, <1>3 DEF ImagesInv, ImagesTyped, LeaseHeld
<1> QED BY <1>1, <1>2, <1>4, AloneKeeps

\* Starting containers: the revision stays current while the lease is shared.
LEMMA StartKeeps ==
  ASSUME ImagesInv, NEW s \in Starters,
         \/ \E r \in Revisions : Image!BeginStart(s, r)
         \/ Image!EnsureImage(s) \/ Image!CreateContainer(s)
  PROVE  ImagesInv'
PROOF
<1>1. UNCHANGED <<now, revision, refs, sysrefs, system, excl, deploy, cleanup, review, aliased>>
  BY DEF Image!BeginStart, Image!EnsureImage, Image!CreateContainer, Image!Running, Image!tables
<1>2. /\ starter' \in [Starters -> Starts]
      /\ \A t \in Starters \ {s} : starter'[t] = starter[t]
      /\ starter'[s].pc # "idle" =>
           /\ excl = Image!None
           /\ \E r \in Revisions : Image!Current(r) /\ Image!Pin(r) = {starter'[s].image}
  <2>0. starter \in [Starters -> Starts]
    BY DEF ImagesInv, ImagesTyped
  <2>1. ASSUME NEW r \in Revisions, Image!BeginStart(s, r) PROVE <1>2!:
    <3>1. PICK i \in Image!Images :
            Image!Pin(r) = {i} /\ starter' = [starter EXCEPT ![s] = [pc |-> "ensure", image |-> i]]
      BY <2>1 DEF Image!BeginStart
    <3>2. starter'[s].image = i /\ excl = Image!None /\ Image!Current(r)
      BY <2>0, <2>1, <3>1 DEF Image!BeginStart
    <3> QED BY <2>0, <3>1, <3>2 DEF Starts
  <2>2. CASE Image!EnsureImage(s)
    <3>1. starter[s] \in [pc : {"ensure", "create"}, image : Image!Images] /\ starter[s].pc = "ensure"
      BY <2>0, <2>2 DEF Image!EnsureImage, Image!Running, Starts
    <3>2. excl = Image!None /\ \E r \in Revisions : Image!Current(r) /\ Image!Pin(r) = {starter[s].image}
      BY <3>1 DEF ImagesInv, LeaseHeld, Pinned
    <3>3. \/ starter' = [starter EXCEPT ![s] = [starter[s] EXCEPT !.pc = "create"]]
          \/ starter' = [starter EXCEPT ![s] = [pc |-> "idle"]]
      BY <2>2 DEF Image!EnsureImage
    <3>4. /\ [starter[s] EXCEPT !.pc = "create"] \in Starts
          /\ [starter[s] EXCEPT !.pc = "create"].image = starter[s].image
      BY <3>1 DEF Starts
    <3>5. CASE starter' = [starter EXCEPT ![s] = [starter[s] EXCEPT !.pc = "create"]]
      <4>1. starter'[s] = [starter[s] EXCEPT !.pc = "create"]
        BY <2>0, <3>5
      <4>2. starter' \in [Starters -> Starts] /\ \A t \in Starters \ {s} : starter'[t] = starter[t]
        BY <2>0, <3>4, <3>5
      <4> QED BY <3>2, <3>4, <4>1, <4>2
    <3>6. CASE starter' = [starter EXCEPT ![s] = [pc |-> "idle"]]
      BY <2>0, <3>6 DEF Starts
    <3> QED BY <3>3, <3>5, <3>6
  <2>3. CASE Image!CreateContainer(s)
    <3>1. starter' = [starter EXCEPT ![s] = [pc |-> "idle"]]
      BY <2>3 DEF Image!CreateContainer
    <3> QED BY <2>0, <3>1 DEF Starts
  <2> QED BY <2>1, <2>2, <2>3
<1>3. ImagesTyped'
  BY <1>1, <1>2 DEF ImagesInv, ImagesTyped
<1>4. LeaseHeld'
  BY <1>1, <1>2 DEF ImagesInv, LeaseHeld
<1>5. Pinned'
  <2> SUFFICES ASSUME NEW t \in Starters, starter'[t].pc # "idle"
               PROVE  \E r \in Revisions : Image!Current(r)' /\ Image!Pin(r)' = {starter'[t].image}
    BY DEF Pinned
  <2>1. \E r \in Revisions : Image!Current(r) /\ Image!Pin(r) = {starter'[t].image}
    BY <1>2 DEF ImagesInv, Pinned
  <2> QED BY <1>1, <2>1 DEF Image!Current, Image!Pin
<1>6. Accounted' /\ Settled' /\ Checked'
  BY <1>1 DEF ImagesInv, Accounted, Settled, Checked, Unneeded
<1> QED BY <1>3, <1>4, <1>5, <1>6 DEF ImagesInv

\* An update neither begins nor ends while a cleanup decides and removes.
LEMMA UpdatesKeep ==
  ASSUME ImagesInv, Image!BeginUpdate \/ \E i \in SystemImages : Image!FinishUpdate(i)
  PROVE  ImagesInv'
PROOF
<1>1. UNCHANGED <<now, revision, refs, sysrefs, excl, starter, deploy, cleanup, review>>
  BY DEF Image!BeginUpdate, Image!FinishUpdate, Image!Outside, Image!tables, Image!lease
<1>2. system' \in [current : SystemImages, previous : SystemImages \cup {Image!None},
                   until : Nat, updating : BOOLEAN]
  <2>1. now + Retention \in Nat
    BY ImageTimes DEF Image!TimesAssumption, ImagesInv, ImagesTyped
  <2>2. /\ system \in [current : SystemImages, previous : SystemImages \cup {Image!None},
                       until : Nat, updating : BOOLEAN]
        /\ now \in Nat
    BY DEF ImagesInv, ImagesTyped
  <2>3. CASE Image!BeginUpdate
    BY <2>2, <2>3 DEF Image!BeginUpdate
  <2>4. ASSUME NEW i \in SystemImages, Image!FinishUpdate(i) PROVE <1>2!:
    <3>1. \/ system' = [system EXCEPT !.updating = FALSE]
          \/ system' = [current |-> i, previous |-> system.current,
                        until |-> now + Retention, updating |-> FALSE]
      BY <2>4 DEF Image!FinishUpdate
    <3>2. CASE system' = [system EXCEPT !.updating = FALSE]
      BY <2>2, <3>2
    <3>3. CASE system' = [current |-> i, previous |-> system.current,
                          until |-> now + Retention, updating |-> FALSE]
      <4>1. system.current \in SystemImages
        BY <2>2
      <4> QED BY <2>1, <3>3, <4>1
    <3> QED BY <3>1, <3>2, <3>3
  <2> QED BY <2>3, <2>4
<1>3. cleanup.pc \notin {"expire", "decide", "remove", "delete", "forget"}
  <2>1. CASE Image!BeginUpdate
    <3>1. excl # "cleanup"
      BY <2>1 DEF Image!BeginUpdate, Image!None
    <3> QED BY <3>1, LeaseFree
  <2>2. CASE system.updating
    BY <2>2 DEF ImagesInv, Accounted, Settled, Checked
  <2> QED BY <2>1, <2>2 DEF Image!FinishUpdate
<1>4. ImagesTyped' /\ LeaseHeld' /\ Pinned'
  BY <1>1, <1>2 DEF ImagesInv, ImagesTyped, LeaseHeld, Pinned, Image!Current, Image!Pin
<1>5. Accounted' /\ Settled' /\ Checked'
  BY <1>1, <1>3 DEF Accounted, Settled, Checked
<1> QED BY <1>4, <1>5 DEF ImagesInv

-----------------------------------------------------------------------------
(* The cleanup                                                              *)

\* The account that is read names the image to go back to.
LEMMA SyncAccounts ==
  ASSUME ImagesInv, Image!Sync
  PROVE  /\ ~system.updating
         /\ system.previous # Image!None =>
              [image |-> system.previous, state |-> "previous", until |-> system.until] \in sysrefs'
PROOF
  BY DEF Image!Sync, Image!ValidMetadata

\* What a cleanup may remove is not needed.
LEMMA ReclaimableUnneeded ==
  ASSUME ImagesInv, cleanup.pc = "decide", NEW i \in Image!Images,
         Image!Reclaimable(i, Image!Used, imageRows, sysrefs)
  PROVE  Unneeded(i)
PROOF
<1>1. \A r \in Image!RefsOf(i, sysrefs) : r.state # "current" /\ r.until <= now
  BY DEF Image!Reclaimable
<1>2. ASSUME NEW r \in Revisions, <<r, i>> \in refs
      PROVE  revision[r].state # "current" /\ revision[r].until <= now
  <2>1. revision[r] \in Image!RefsOf(i, sysrefs)
    BY <1>2 DEF Image!RefsOf
  <2> QED BY <1>1, <2>1
<1>3. ASSUME i = system.previous PROVE system.until <= now
  <2>1. i # Image!None
    BY ImageNames DEF Image!NamesAssumption, Image!Images, Image!None
  <2> DEFINE t == [image |-> system.previous, state |-> "previous", until |-> system.until]
  <2>2. t \in sysrefs
    BY <1>3, <2>1 DEF ImagesInv, Accounted
  <2>3. t.image = i
    BY <1>3
  <2>4. [state |-> t.state, until |-> t.until] \in Image!RefsOf(i, sysrefs)
    BY <2>2, <2>3 DEF Image!RefsOf
  <2>5. [state |-> t.state, until |-> t.until].until <= now
    BY <1>1, <2>4
  <2> QED BY <2>5
<1> QED BY <1>2, <1>3 DEF Unneeded

\* A cleanup step begins with the lease, and keeps it or leaves it.
LEMMA CleaningKeeps ==
  ASSUME ImagesInv, cleanup.pc # "idle", Image!Quiet, UNCHANGED review,
         revision' \in [Revisions -> PackageRevisions],
         cleanup' \in Cleanups, cleanup'.pc # "idle" => excl' = excl,
         Accounted', Settled', Checked'
  PROVE  ImagesInv'
PROOF
<1>1. excl = "cleanup" /\ deploy.pc = "idle" /\ \A s \in Starters : starter[s].pc = "idle"
  BY LeaseFree DEF ImagesInv, LeaseHeld
<1>2. UNCHANGED <<now, system, starter, deploy>>
  BY DEF Image!Quiet
<1>3. ImagesTyped' /\ LeaseHeld'
  BY <1>1, <1>2 DEF ImagesInv, ImagesTyped, LeaseHeld
<1>4. Pinned'
  BY <1>1, <1>2 DEF Pinned
<1> QED BY <1>3, <1>4 DEF ImagesInv

\* The end of a cleanup.
LEMMA EndKeeps ==
  ASSUME ImagesInv, cleanup.pc # "idle", Image!Quiet, UNCHANGED <<review, revision>>, Image!EndCleanup
  PROVE  ImagesInv'
PROOF
<1>1. cleanup' = [pc |-> "idle"]
  BY DEF Image!EndCleanup
<1>2. cleanup' \in Cleanups /\ cleanup'.pc = "idle"
  BY <1>1 DEF Cleanups
<1>3. Accounted' /\ Settled' /\ Checked'
  BY <1>2 DEF Accounted, Settled, Checked
<1>4. revision' \in [Revisions -> PackageRevisions]
  BY DEF ImagesInv, ImagesTyped
<1> QED BY <1>2, <1>3, <1>4, CleaningKeeps

LEMMA PreviewKeeps ==
  ASSUME ImagesInv, Image!Preview
  PROVE  ImagesInv'
PROOF
<1>1. /\ UNCHANGED <<now, system, starter, deploy, revision, cleanup, excl>>
      /\ review' \subseteq Image!Images
  BY DEF Image!Preview, Image!Quiet
<1>2. cleanup.pc = "idle" /\ \A s \in Starters : starter[s].pc = "idle"
  BY LeaseFree DEF Image!Preview
<1>3. ImagesTyped' /\ LeaseHeld'
  BY <1>1 DEF ImagesInv, ImagesTyped, LeaseHeld
<1> QED BY <1>1, <1>2, <1>3, AloneKeeps

LEMMA BeginKeeps ==
  ASSUME ImagesInv, Image!BeginCleanup
  PROVE  ImagesInv'
PROOF
<1>1. UNCHANGED <<now, system, starter, deploy, revision, review>> /\ excl' = "cleanup"
  BY DEF Image!BeginCleanup, Image!Quiet, Image!tables, Image!Enter
<1>2. deploy.pc = "idle" /\ \A s \in Starters : starter[s].pc = "idle"
  BY LeaseFree DEF Image!BeginCleanup, Image!Enter
<1>3. PICK manual \in BOOLEAN :
        cleanup' = [pc |-> "metadata", manual |-> manual, confirmed |-> review]
  BY DEF Image!BeginCleanup
<1>4. cleanup' \in Cleanups /\ cleanup'.pc = "metadata"
  BY <1>3 DEF Cleanups, ImagesInv, ImagesTyped
<1>5. ImagesTyped' /\ LeaseHeld'
  BY <1>1, <1>2, <1>4 DEF ImagesInv, ImagesTyped, LeaseHeld
<1>6. Pinned' /\ Accounted' /\ Settled' /\ Checked'
  BY <1>1, <1>2, <1>4 DEF Pinned, Accounted, Settled, Checked
<1> QED BY <1>5, <1>6 DEF ImagesInv

LEMMA RefreshKeeps ==
  ASSUME ImagesInv, Image!Refresh
  PROVE  ImagesInv'
PROOF
<1>1. /\ cleanup.pc = "metadata" /\ Image!Quiet /\ UNCHANGED <<review, revision, excl>>
      /\ cleanup' = [cleanup EXCEPT !.pc = "expire"] /\ Image!Sync
  BY DEF Image!Refresh, Image!Cleaning
<1>2. cleanup' \in Cleanups /\ cleanup'.pc = "expire"
  <2>1. cleanup \in [pc : {"metadata", "expire", "decide"}, manual : BOOLEAN,
                     confirmed : SUBSET Image!Images]
    BY <1>1 DEF ImagesInv, ImagesTyped, Cleanups
  <2> QED BY <1>1, <2>1 DEF Cleanups
<1>3. Accounted' /\ Settled' /\ Checked'
  BY <1>1, <1>2, SyncAccounts DEF Accounted, Settled, Checked, Image!Quiet
<1>4. revision' \in [Revisions -> PackageRevisions]
  BY <1>1 DEF ImagesInv, ImagesTyped
<1> QED BY <1>1, <1>2, <1>3, <1>4, CleaningKeeps

LEMMA ExpireKeeps ==
  ASSUME ImagesInv, Image!ExpirePackages
  PROVE  ImagesInv'
PROOF
<1>1. /\ cleanup.pc = "expire" /\ Image!Quiet /\ UNCHANGED <<review, sysrefs, excl>>
      /\ cleanup' = [cleanup EXCEPT !.pc = "decide"]
  BY DEF Image!ExpirePackages, Image!Cleaning
<1>2. cleanup' \in Cleanups /\ cleanup'.pc = "decide"
  <2>1. cleanup \in [pc : {"metadata", "expire", "decide"}, manual : BOOLEAN,
                     confirmed : SUBSET Image!Images]
    BY <1>1 DEF ImagesInv, ImagesTyped, Cleanups
  <2> QED BY <1>1, <2>1 DEF Cleanups
<1>3. Accounted' /\ Settled' /\ Checked'
  BY <1>1, <1>2 DEF ImagesInv, Accounted, Settled, Checked, Image!Quiet
<1>4. revision' \in [Revisions -> PackageRevisions]
  BY DEF Image!ExpirePackages, ImagesInv, ImagesTyped, PackageRevisions
<1> QED BY <1>1, <1>2, <1>3, <1>4, CleaningKeeps

LEMMA DecideKeeps ==
  ASSUME ImagesInv, Image!Decide
  PROVE  ImagesInv'
PROOF
<1> DEFINE todo == {i \in Image!Images : Image!Reclaimable(i, Image!Used, imageRows, sysrefs)}
<1>1. /\ cleanup.pc = "decide" /\ Image!Quiet /\ UNCHANGED <<review, revision, refs, sysrefs>>
      /\ \/ Image!EndCleanup
         \/ cleanup' = [pc |-> "remove", todo |-> todo] /\ UNCHANGED excl
  BY DEF Image!Decide, Image!Cleaning, Image!tables
<1>2. CASE Image!EndCleanup
  BY <1>1, <1>2, EndKeeps
<1>3. CASE cleanup' = [pc |-> "remove", todo |-> todo] /\ UNCHANGED excl
  <2>1. cleanup' \in Cleanups /\ cleanup'.pc = "remove" /\ cleanup'.todo = todo
    BY <1>3 DEF Cleanups
  <2>2. \A i \in todo : Unneeded(i)
    BY <1>1, ReclaimableUnneeded
  <2>3. ~system.updating
    BY <1>1 DEF ImagesInv, Accounted
  <2>4. Accounted' /\ Settled' /\ Checked'
    <3> HIDE DEF todo
    <3> QED BY <1>1, <2>1, <2>2, <2>3 DEF Accounted, Settled, Checked, Unneeded, Image!Quiet
  <2>5. revision' \in [Revisions -> PackageRevisions]
    BY <1>1 DEF ImagesInv, ImagesTyped
  <2> QED BY <1>1, <1>3, <2>1, <2>4, <2>5, CleaningKeeps
<1> QED BY <1>1, <1>2, <1>3

\* What is forgotten was no reference to what remains to be removed.
LEMMA RemovalsKeep ==
  ASSUME ImagesInv, Image!RemoveImage \/ Image!ForgetImage \/ \E i \in Image!Images : Image!CheckImage(i)
  PROVE  ImagesInv'
PROOF
<1>1. /\ cleanup.pc \in {"remove", "delete", "forget"} /\ Image!Quiet
      /\ UNCHANGED <<review, revision, excl, aliased>> /\ refs' \subseteq refs
  BY DEF Image!ForgetImage, Image!RemoveImage, Image!CheckImage, Image!Cleaning, Image!tables, Image!Quiet,
         Image!registry
<1>2. /\ cleanup' \in Cleanups /\ cleanup'.pc \in {"remove", "delete", "forget"}
      /\ cleanup'.todo \subseteq cleanup.todo
      /\ cleanup'.pc = "delete" => cleanup'.gone \in cleanup'.todo /\ cleanup'.gone \notin aliased
  <2>1. ASSUME NEW i \in Image!Images, Image!CheckImage(i) PROVE <1>2!:
    <3>1. cleanup \in [pc : {"remove"}, todo : SUBSET Image!Images]
      BY <2>1 DEF Image!CheckImage, Image!Cleaning, ImagesInv, ImagesTyped, Cleanups
    <3>2. \/ cleanup' = [cleanup EXCEPT !.todo = cleanup.todo \ {i}]
          \/ /\ cleanup' = [pc |-> "delete", todo |-> cleanup.todo, gone |-> i, late |-> FALSE]
             /\ i \notin aliased /\ i \in cleanup.todo
      BY <2>1 DEF Image!CheckImage
    <3>3. CASE cleanup' = [cleanup EXCEPT !.todo = cleanup.todo \ {i}]
      <4>1. cleanup' \in [pc : {"remove"}, todo : SUBSET Image!Images]
            /\ cleanup'.todo = cleanup.todo \ {i}
        BY <3>1, <3>3
      <4> QED BY <4>1 DEF Cleanups
    <3>4. CASE /\ cleanup' = [pc |-> "delete", todo |-> cleanup.todo, gone |-> i, late |-> FALSE]
               /\ i \notin aliased /\ i \in cleanup.todo
      <4>1. cleanup' \in [pc : {"delete"}, todo : SUBSET Image!Images, gone : Image!Images,
                          late : BOOLEAN]
        BY <3>1, <3>4
      <4>2. cleanup'.pc = "delete" /\ cleanup'.todo = cleanup.todo /\ cleanup'.gone = i
        BY <3>4
      <4> QED BY <3>4, <4>1, <4>2 DEF Cleanups
    <3> QED BY <3>2, <3>3, <3>4
  <2>2. CASE Image!ForgetImage
    <3>1. cleanup \in [pc : {"forget"}, todo : SUBSET Image!Images, gone : Image!Images]
      BY <2>2 DEF Image!ForgetImage, Image!Cleaning, ImagesInv, ImagesTyped, Cleanups
    <3>2. cleanup' = [pc |-> "remove", todo |-> cleanup.todo \ {cleanup.gone}]
      BY <2>2 DEF Image!ForgetImage
    <3> QED BY <3>1, <3>2 DEF Cleanups
  <2>3. CASE Image!RemoveImage
    <3>1. cleanup \in [pc : {"delete"}, todo : SUBSET Image!Images, gone : Image!Images, late : BOOLEAN]
      BY <2>3 DEF Image!RemoveImage, Image!Cleaning, ImagesInv, ImagesTyped, Cleanups
    <3>2. \/ cleanup' = [pc |-> "remove", todo |-> cleanup.todo \ {cleanup.gone}]
          \/ cleanup' = [pc |-> "forget", todo |-> cleanup.todo, gone |-> cleanup.gone]
      BY <2>3 DEF Image!RemoveImage
    <3> QED BY <3>1, <3>2 DEF Cleanups
  <2> QED BY <2>1, <2>2, <2>3
<1>3. Accounted' /\ Settled' /\ Checked'
  BY <1>1, <1>2 DEF ImagesInv, Accounted, Settled, Checked, Unneeded, Image!Quiet
<1>4. revision' \in [Revisions -> PackageRevisions]
  BY <1>1 DEF ImagesInv, ImagesTyped
<1> QED BY <1>1, <1>2, <1>3, <1>4, CleaningKeeps

LEMMA EndsKeep ==
  ASSUME ImagesInv, Image!Blocked \/ Image!FinishCleanup
  PROVE  ImagesInv'
PROOF
<1>1. cleanup.pc # "idle" /\ Image!Quiet /\ UNCHANGED <<review, revision>> /\ Image!EndCleanup
  BY DEF Image!Blocked, Image!FinishCleanup, Image!Cleaning, Image!tables
<1> QED BY <1>1, EndKeeps

-----------------------------------------------------------------------------
(* Startup, and all steps                                                   *)

LEMMA StartupKeeps ==
  ASSUME ImagesInv, Image!Restart \/ Image!Bootstrap
  PROVE  ImagesInv'
PROOF
<1>1. CASE Image!Restart
  <2>1. /\ UNCHANGED <<now, revision, system>> /\ review' = {} /\ excl' = "bootstrap"
        /\ starter' = [s \in Starters |-> [pc |-> "idle"]]
        /\ deploy' = [pc |-> "idle"] /\ cleanup' = [pc |-> "idle"]
    BY <1>1 DEF Image!Restart, Image!tables
  <2>2. ImagesTyped' /\ LeaseHeld'
    BY <2>1 DEF ImagesInv, ImagesTyped, LeaseHeld, Starts, Deployments, Cleanups
  <2> QED BY <2>1, <2>2, AloneKeeps
<1>2. CASE Image!Bootstrap /\ excl = "bootstrap"
  <2>1. /\ UNCHANGED <<now, system, starter, deploy, cleanup, review>> /\ excl' = Image!None
        /\ revision' \in [Revisions -> PackageRevisions]
    <3>1. ASSUME NEW r \in Revisions, Image!Adopt(r)
          PROVE  revision' \in [Revisions -> PackageRevisions]
      BY <3>1 DEF Image!Adopt, Image!SetState, Image!Forever, ImagesInv, ImagesTyped, PackageRevisions
    <3> QED BY <1>2, <3>1 DEF Image!Bootstrap, ImagesInv, ImagesTyped
  <2>2. cleanup.pc = "idle" /\ deploy.pc = "idle" /\ \A s \in Starters : starter[s].pc = "idle"
    BY <1>2, LeaseFree
  <2>3. ImagesTyped' /\ LeaseHeld'
    BY <2>1, <2>2 DEF ImagesInv, ImagesTyped, LeaseHeld
  <2> QED BY <2>1, <2>2, <2>3, AloneKeeps
<1>3. CASE Image!Bootstrap /\ excl = Image!None
  <2>1. UNCHANGED <<now, revision, refs, sysrefs, system, excl, starter, deploy, cleanup, review,
                    aliased>>
    BY <1>3 DEF Image!Bootstrap, Image!Adopt, Image!None, Image!registry
  <2> QED BY <2>1, BesideKeeps
<1> QED BY <1>1, <1>2, <1>3 DEF Image!Bootstrap

LEMMA AroundKeeps ==
  ASSUME ImagesInv,
         \/ \E i \in AgentImages : Image!StopContainer(i) \/ Image!MoveTag(i)
         \/ \E i \in Image!Images : Image!Prune(i)
         \/ Image!Tick \/ UNCHANGED Image!vars
  PROVE  ImagesInv'
PROOF
<1>1. /\ UNCHANGED <<revision, refs, sysrefs, system, excl, starter, deploy, cleanup, review>>
      /\ now' = now \/ now' = now + 1
      /\ aliased' = aliased
  BY DEF Image!StopContainer, Image!MoveTag, Image!Prune, Image!Tick, Image!vars,
         Image!Outside, Image!tables, Image!lease, Image!registry
<1> QED BY <1>1, BesideKeeps

\* A tag that is added to the image whose tags were checked comes late.
LEMMA AliasKeeps ==
  ASSUME ImagesInv, NEW i \in Image!Images, Image!AddAlias(i)
  PROVE  ImagesInv'
PROOF
<1>1. /\ UNCHANGED <<now, revision, refs, sysrefs, system, excl, starter, deploy, review>>
      /\ aliased' = aliased \cup {i}
      /\ cleanup' = IF cleanup.pc = "delete" /\ cleanup.gone = i
                    THEN [cleanup EXCEPT !.late = TRUE] ELSE cleanup
  BY DEF Image!AddAlias, Image!Outside, Image!tables, Image!lease
<1>2. CASE cleanup.pc = "delete" /\ cleanup.gone = i
  <2>1. cleanup \in [pc : {"delete"}, todo : SUBSET Image!Images, gone : Image!Images, late : BOOLEAN]
    BY <1>2 DEF ImagesInv, ImagesTyped, Cleanups
  <2>2. /\ cleanup' \in Cleanups /\ cleanup'.pc = "delete" /\ cleanup'.late
        /\ cleanup'.todo = cleanup.todo /\ cleanup'.gone = cleanup.gone
    BY <1>1, <1>2, <2>1 DEF Cleanups
  <2>3. ImagesTyped' /\ LeaseHeld'
    BY <1>1, <1>2, <2>2 DEF ImagesInv, ImagesTyped, LeaseHeld
  <2>4. Pinned' /\ Accounted' /\ Settled' /\ Checked'
    BY <1>1, <1>2, <2>2 DEF ImagesInv, Pinned, Accounted, Settled, Checked, Unneeded, Image!Current, Image!Pin
  <2> QED BY <2>3, <2>4 DEF ImagesInv
<1>3. CASE ~(cleanup.pc = "delete" /\ cleanup.gone = i)
  <2>1. UNCHANGED cleanup
    BY <1>1, <1>3
  <2>2. ImagesTyped' /\ LeaseHeld'
    BY <1>1, <2>1 DEF ImagesInv, ImagesTyped, LeaseHeld
  <2>3. Pinned' /\ Accounted' /\ Settled'
    BY <1>1, <2>1 DEF ImagesInv, Pinned, Accounted, Settled, Unneeded, Image!Current, Image!Pin
  <2>4. Checked'
    BY <1>1, <1>3, <2>1 DEF ImagesInv, Checked
  <2> QED BY <2>2, <2>3, <2>4 DEF ImagesInv
<1> QED BY <1>2, <1>3

LEMMA ImagesStay == Image!Spec => []ImagesInv
PROOF
<1>1. ASSUME Image!Init PROVE ImagesInv
  <2>1. /\ now = 1 /\ revision = [r \in Revisions |-> [state |-> "none", until |-> 0]]
        /\ system \in [current : SystemImages, previous : {Image!None}, until : {0}, updating : {FALSE}]
        /\ starter = [s \in Starters |-> [pc |-> "idle"]]
        /\ deploy = [pc |-> "idle"] /\ cleanup = [pc |-> "idle"] /\ review = {}
    BY <1>1 DEF Image!Init
  <2>2. system \in [current : SystemImages, previous : SystemImages \cup {Image!None},
                    until : Nat, updating : BOOLEAN]
    <3>1. PICK i \in SystemImages : system = [current |-> i, previous |-> Image!None,
                                              until |-> 0, updating |-> FALSE]
      BY <2>1
    <3> QED BY <3>1
  <2>3. /\ revision \in [Revisions -> PackageRevisions] /\ starter \in [Starters -> Starts]
        /\ deploy \in Deployments /\ cleanup \in Cleanups /\ now \in Nat
    BY <2>1 DEF PackageRevisions, Starts, Deployments, Cleanups
  <2>4. /\ deploy.pc = "idle" /\ cleanup.pc = "idle"
        /\ \A s \in Starters : starter[s].pc = "idle"
    BY <2>1
  <2> QED BY <2>1, <2>2, <2>3, <2>4
          DEF ImagesInv, ImagesTyped, LeaseHeld, Pinned, Accounted, Settled, Checked
<1>2. ImagesInv /\ [Image!Next]_(Image!vars) => ImagesInv'
  BY DeployKeeps, StartKeeps, UpdatesKeep, PreviewKeeps, BeginKeeps, RefreshKeeps, ExpireKeeps,
     DecideKeeps, RemovalsKeep, EndsKeep, StartupKeeps, AroundKeeps, AliasKeeps DEF Image!Next
<1> QED BY <1>1, <1>2, PTL DEF Image!Spec

\* Only the removal of an image that is not needed takes one away in a cleanup.
LEMMA CleanupsSpare ==
  ASSUME ImagesInv, Image!Next
  PROVE  Image!CleanupSpares
PROOF
<1> SUFFICES ASSUME excl = "cleanup", cleanup' # cleanup, NEW i \in docker \ docker'
             PROVE  /\ i \notin containers /\ ~Image!InRetention(i) /\ (i \in aliased => cleanup.late)
                    /\ i # system.current /\ (i = system.previous => system.until <= now)
  BY DEF Image!CleanupSpares
<1>1. Image!RemoveImage
  <2>1. Image!BeginCleanup => FALSE
    BY DEF Image!BeginCleanup, Image!Enter, Image!Free, Image!None
  <2> QED BY <2>1
    DEF Image!Next, Image!Stage, Image!Uninstall, Image!Pull, Image!RecordPulled, Image!Activate,
        Image!MarkFailed, Image!Deploying, Image!BeginStart, Image!EnsureImage, Image!CreateContainer,
        Image!Running, Image!StopContainer, Image!MoveTag, Image!BeginUpdate, Image!FinishUpdate,
        Image!Outside, Image!Tick, Image!AddAlias, Image!Prune, Image!Preview, Image!Refresh,
        Image!Blocked, Image!ExpirePackages, Image!Decide, Image!CheckImage, Image!ForgetImage,
        Image!FinishCleanup,
        Image!Restart, Image!Bootstrap
<1>2. i = cleanup.gone /\ i \notin Image!Used /\ cleanup.pc = "delete"
  BY <1>1 DEF Image!RemoveImage, Image!Cleaning
<1>3. Unneeded(i) /\ (i \in aliased => cleanup.late)
  BY <1>2 DEF ImagesInv, Settled, Checked
<1>4. ~Image!InRetention(i)
  <2> SUFFICES ASSUME NEW r \in Revisions, <<r, i>> \in refs
               PROVE  revision[r].state # "current" /\ ~(revision[r].until > now)
    BY DEF Image!InRetention, Image!Current
  <2>1. revision[r].until \in Nat /\ now \in Nat
    BY DEF ImagesInv, ImagesTyped, PackageRevisions
  <2>2. revision[r].state # "current" /\ revision[r].until <= now
    BY <1>3 DEF Unneeded
  <2> QED BY <2>1, <2>2
<1> QED BY <1>2, <1>3, <1>4 DEF Unneeded, Image!Used

\* Only an invocation creates a container, of the image it was given.
LEMMA StartsPinned ==
  ASSUME ImagesInv, Image!Next
  PROVE  Image!StartsThePinned
PROOF
<1> SUFFICES ASSUME NEW i \in containers' \ containers
             PROVE  \E r \in Revisions : Image!Current(r) /\ Image!Pin(r) = {i}
  BY DEF Image!StartsThePinned
<1>1. PICK s \in Starters : Image!CreateContainer(s)
  BY DEF Image!Next, Image!Stage, Image!Uninstall, Image!Pull, Image!RecordPulled, Image!Activate,
        Image!MarkFailed, Image!Deploying, Image!BeginStart, Image!EnsureImage,
        Image!Running, Image!StopContainer, Image!MoveTag, Image!BeginUpdate, Image!FinishUpdate,
        Image!Outside, Image!Tick, Image!AddAlias, Image!Prune, Image!Preview, Image!BeginCleanup,
        Image!Refresh, Image!CheckImage, Image!RemoveImage, Image!Quiet, Image!Cleaning,
        Image!Blocked, Image!ExpirePackages, Image!Decide, Image!ForgetImage, Image!FinishCleanup,
        Image!Restart, Image!Bootstrap
<1>2. i = starter[s].image /\ starter[s].pc = "create"
  BY <1>1 DEF Image!CreateContainer, Image!Running
<1> QED BY <1>2 DEF ImagesInv, Pinned

LEMMA ImagesHold == Image!Spec => Image!ImagesInUseKept
PROOF
<1>1. ImagesInv /\ [Image!Next]_(Image!vars) =>
        [Image!CleanupSpares /\ Image!StartsThePinned]_(Image!vars)
  BY CleanupsSpare, StartsPinned
<1> QED BY <1>1, ImagesStay, PTL DEF Image!Spec, Image!ImagesInUseKept

-----------------------------------------------------------------------------
(* The composition                                                          *)

\* A behaviour of the composition is one of each part, which rests unless it
\* was chosen.
LEMMA PartsRun == MCSpec => Account!Spec /\ Image!Spec
PROOF
<1>1. MCInit => Account!Init /\ Image!Init
  BY DEF MCInit
<1>2. [MCNext]_allVars => [Account!Next]_(Account!vars) /\ [Image!Next]_(Image!vars)
  BY DEF MCNext, allVars, accountVars, imageVars, Account!vars, Account!accounts, Account!signins,
         Account!pipes, Account!ghosts, Image!vars, Image!registry, Image!tables, Image!lease
<1> QED BY <1>1, <1>2, PTL DEF MCSpec, Account!Spec, Image!Spec

\* Whatever administrators ask at the same time, of each other too: one remains
\* after the setup, unless a change of role read the account before another made
\* it an administrator; and nobody sees an agent beyond what was chosen for them.
THEOREM AccountsAgree == MCSpec => []AccountsConsistent
PROOF BY AccountsHold, PartsRun, PTL DEF AccountsConsistent

\* Removing an account takes nothing of any other's, on its own channels either.
THEOREM OthersAreLeft == MCSpec => OthersKeepTheirs
PROOF BY AccountsHold, PartsRun, PTL DEF OthersKeepTheirs

\* Whatever deployments, starts, updates, restarts and other users of Docker
\* overlap: a cleanup spares what is in use or retained, and a container starts
\* from the image recorded for the revision that is current.
THEOREM ImagesAreKept == MCSpec => ImagesInUseKept
PROOF BY ImagesHold, PartsRun, PTL DEF ImagesInUseKept
=============================================================================
