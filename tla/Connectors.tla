------------------------------ MODULE Connectors ------------------------------
(***************************************************************************)
(* Setting up and removing the connections of channels                     *)
(* (api/connectors.rs, api/connectors/domain.rs) with what a connection    *)
(* has outside of the tables: the adapter in the process (start_one,       *)
(* stop_one and init_all of the BlueBubbles and Telegram adapters), the    *)
(* webhook on the other server, and the WhatsApp bridge, of which there is *)
(* one.                                                                    *)
(*                                                                         *)
(* A request is a task that several statements and calls split; it ends    *)
(* where it is when its client goes away or the process stops.  The pipe   *)
(* and the config of a connection are written together: one row.           *)
(***************************************************************************)
EXTENDS Naturals, FiniteSets

CONSTANTS Connectors,   \* ids of connections; each is set up at most once
          Callers,      \* requests under way at the same time
          Senders,      \* sender_ref values of people
          MaxFaults     \* bound: failing calls and statements, lost requests, restarts

VARIABLES kind,         \* connection -> the channel it was set up for
          row,          \* connection -> "none", "active", "removed" or, rolled back, "gone"
          people,       \* user_sender_refs
          hook,         \* connection -> webhook on the other server: "none", "known", "unknown"
          adapter,      \* adapters and channel senders of this process
          bridge,       \* the connection the WhatsApp bridge posts to
          caller,
          answer,       \* connection -> answers given to its setup and its removal
          overtaken,    \* connections removed while they were being set up
          faults

tables == <<kind, row, people>>
outside == <<hook, adapter, bridge>>
ghosts == <<answer, overtaken>>
vars == <<tables, outside, caller, ghosts, faults>>

Kinds == {"webhook", "imessage", "telegram", "whatsapp"}
Idle == [pc |-> "idle"]
Off == "off"
At(c, pc) == caller[c].pc = pc
Id(c) == caller[c].id
Goto(c, pc) == caller' = [caller EXCEPT ![c].pc = pc]
Answer(c, a) == /\ caller' = [caller EXCEPT ![c] = Idle]
                /\ answer' = [answer EXCEPT ![Id(c)] = @ \cup {a}]
Fault == faults < MaxFaults /\ faults' = faults + 1

\* active_config_exists
Active(k) == \E p \in Connectors : kind[p] = k /\ row[p] = "active"

Init == /\ kind = [p \in Connectors |-> "none"] /\ row = [p \in Connectors |-> "none"]
        /\ people = [p \in Connectors |-> {}]
        /\ hook = [p \in Connectors |-> "none"] /\ adapter = {} /\ bridge = Off
        /\ caller = [c \in Callers |-> Idle]
        /\ answer = [p \in Connectors |-> {}] /\ overtaken = {} /\ faults = 0

-----------------------------------------------------------------------------
(***************************************************************************)
(* Setup.                                                                  *)
(***************************************************************************)

\* The check for a connection of the kind is not repeated when the rows are written.
BeginCreate(c, p, k) ==
    /\ caller[c] = Idle /\ kind[p] = "none"
    /\ k = "webhook" \/ ~Active(k)
    /\ kind' = [kind EXCEPT ![p] = k]
    /\ caller' = [caller EXCEPT ![c] = [pc |-> IF k = "whatsapp" THEN "ensure" ELSE "insert",
                                        id |-> p, setup |-> TRUE]]
    /\ UNCHANGED <<row, people, outside, ghosts, faults>>

\* The bridge is there first, with the address of the connection to be: the updater removes
\* the container there is and runs one under the same name.
RemoveBridge(c) ==
    /\ At(c, "ensure")
    /\ bridge' = Off
    /\ Goto(c, "run")
    /\ UNCHANGED <<tables, hook, adapter, ghosts, faults>>

EnsureBridge(c) ==
    /\ At(c, "run") /\ bridge = Off
    /\ bridge' = Id(c)
    /\ Goto(c, "insert")
    /\ UNCHANGED <<tables, hook, adapter, ghosts, faults>>

\* No answer, or a refusal: whatever the updater did stays.  Another one that ran in between
\* has the name.
EnsureFails(c) ==
    /\ \/ At(c, "ensure") /\ Fault /\ UNCHANGED bridge
       \/ At(c, "run") /\ bridge = Off /\ Fault /\ bridge' \in {Off, Id(c)}
       \/ At(c, "run") /\ bridge # Off /\ UNCHANGED <<bridge, faults>>
    /\ Answer(c, "refused")
    /\ UNCHANGED <<tables, hook, adapter, overtaken>>

\* Pipe, config and people in one transaction.
Persist(c, k, named) ==
    /\ At(c, "insert") /\ kind[Id(c)] = k
    /\ row' = [row EXCEPT ![Id(c)] = "active"]
    /\ people' = [people EXCEPT ![Id(c)] = named]
    /\ UNCHANGED <<kind, outside, overtaken, faults>>

\* A web hook is its pipe.
CreateSimple(c) == Persist(c, "webhook", {}) /\ Answer(c, "set up")

\* The adapter of the rows comes after them.
CreateImessage(c) ==
    /\ \E s \in SUBSET Senders : Persist(c, "imessage", s)
    /\ Goto(c, "register") /\ UNCHANGED answer

CreateTelegram(c) ==
    /\ \E s \in SUBSET Senders : Persist(c, "telegram", s)
    /\ Goto(c, "register") /\ UNCHANGED answer

PersistWhatsapp(c) ==
    /\ \E s \in SUBSET Senders : Persist(c, "whatsapp", s)
    /\ Answer(c, "set up")

InsertFails(c) ==
    /\ At(c, "insert") /\ Fault
    /\ IF kind[Id(c)] = "whatsapp" THEN Goto(c, "stop bridge") /\ UNCHANGED answer
                                   ELSE Answer(c, "refused")
    /\ UNCHANGED <<tables, outside, overtaken>>

\* start_one reads the rows it was called for, then asks the other server: the id
\* BlueBubbles gives the webhook is stored, Telegram has one webhook.
RegisterWebhook(c) ==
    /\ At(c, "register") /\ kind[Id(c)] = "imessage" /\ row[Id(c)] = "active"
    /\ hook' = [hook EXCEPT ![Id(c)] = "unknown"]
    /\ Goto(c, "store")
    /\ UNCHANGED <<tables, adapter, bridge, ghosts, faults>>

SetWebhook(c) ==
    /\ At(c, "register") /\ kind[Id(c)] = "telegram" /\ row[Id(c)] = "active"
    /\ hook' = [hook EXCEPT ![Id(c)] = "known"]
    /\ Goto(c, "local")
    /\ UNCHANGED <<tables, adapter, bridge, ghosts, faults>>

RegisterRemoved(c) ==
    /\ At(c, "register") /\ row[Id(c)] # "active"
    /\ Goto(c, "rollback")
    /\ UNCHANGED <<tables, outside, ghosts, faults>>

\* The server refuses, or its answer is lost or cannot be read.
RegisterFails(c) ==
    /\ At(c, "register") /\ row[Id(c)] = "active" /\ Fault
    /\ \E h \in {"none", "unknown"} : hook' = [hook EXCEPT ![Id(c)] = h]
    /\ Goto(c, "rollback")
    /\ UNCHANGED <<tables, adapter, bridge, ghosts>>

\* The id is stored, in the row of a removed connection too.
StoreId(c) ==
    /\ At(c, "store")
    /\ hook' = [hook EXCEPT ![Id(c)] = "known"]
    /\ Goto(c, "local")
    /\ UNCHANGED <<tables, adapter, bridge, ghosts, faults>>

StoreIdFails(c) ==
    /\ At(c, "store") /\ Fault
    /\ \E h \in {"none", "unknown"} : hook' = [hook EXCEPT ![Id(c)] = h]
    /\ Goto(c, "rollback")
    /\ UNCHANGED <<tables, adapter, bridge, ghosts>>

\* register_local
RegisterLocal(c) ==
    /\ At(c, "local")
    /\ adapter' = adapter \cup {Id(c)}
    /\ Answer(c, "set up")
    /\ UNCHANGED <<tables, hook, bridge, overtaken, faults>>

\* Mutant: the rows of the connection stay.
RollbackPeople(c) ==
    /\ At(c, "rollback")
    /\ people' = [people EXCEPT ![Id(c)] = {}]
    /\ Answer(c, "refused")
    /\ UNCHANGED <<kind, row, outside, overtaken, faults>>

\* rollback_created_connector
Rollback(c) ==
    /\ At(c, "rollback")
    /\ row' = [row EXCEPT ![Id(c)] = "gone"]
    /\ people' = [people EXCEPT ![Id(c)] = {}]
    /\ Answer(c, "refused")
    /\ UNCHANGED <<kind, outside, overtaken, faults>>

\* Its failure is logged; it is told apart here from a refusal that was rolled back.
RollbackFails(c) ==
    /\ At(c, "rollback") /\ Fault
    /\ Answer(c, "half refused")
    /\ UNCHANGED <<tables, outside, overtaken>>

-----------------------------------------------------------------------------
(***************************************************************************)
(* Removal, and the people of a connection.                                *)
(***************************************************************************)

BeginRemove(c, p) ==
    /\ caller[c] = Idle /\ row[p] = "active"
    /\ caller' = [caller EXCEPT ![c] = [pc |-> IF kind[p] = "telegram" \/ hook[p] = "known"
                                              THEN "unhook" ELSE "deactivate",
                                        id |-> p, setup |-> FALSE]]
    /\ overtaken' = overtaken \cup {Id(d) : d \in {d \in Callers \ {c} :
                                    caller[d] # Idle /\ Id(d) = p /\ caller[d].setup}}
    /\ UNCHANGED <<tables, outside, answer, faults>>

\* The other server forgets the webhook, or does not answer.
Unhook(c) ==
    \/ hook' = [hook EXCEPT ![Id(c)] = "none"] /\ UNCHANGED faults
    \/ Fault /\ UNCHANGED hook

DeregisterWebhook(c) ==
    /\ At(c, "unhook") /\ kind[Id(c)] = "imessage"
    /\ Unhook(c)
    /\ Goto(c, "deactivate")
    /\ UNCHANGED <<tables, adapter, bridge, ghosts>>

DeleteWebhook(c) ==
    /\ At(c, "unhook") /\ kind[Id(c)] = "telegram"
    /\ Unhook(c)
    /\ Goto(c, "deactivate")
    /\ UNCHANGED <<tables, adapter, bridge, ghosts>>

\* deactivate_connector
Deactivate(c) ==
    /\ At(c, "deactivate")
    /\ IF row[Id(c)] = "active"
       THEN /\ row' = [row EXCEPT ![Id(c)] = "removed"]
            /\ CASE kind[Id(c)] \in {"imessage", "telegram"} -> Goto(c, "stop") /\ UNCHANGED answer
                 [] kind[Id(c)] = "whatsapp" -> Goto(c, "check bridge") /\ UNCHANGED answer
                 [] OTHER -> Answer(c, "removed")
       ELSE Answer(c, "not found") /\ UNCHANGED row
    /\ UNCHANGED <<kind, people, outside, overtaken, faults>>

\* stop_one
Stop(c) ==
    /\ At(c, "stop")
    /\ adapter' = adapter \ {Id(c)}
    /\ Answer(c, "removed")
    /\ UNCHANGED <<tables, hook, bridge, overtaken, faults>>

\* stop_bridge_if_no_active_connector looks, and stops it in another step.
CheckBridge(c) ==
    /\ At(c, "check bridge")
    /\ IF Active("whatsapp") THEN Answer(c, "removed")
                             ELSE Goto(c, "stop bridge") /\ UNCHANGED answer
    /\ UNCHANGED <<tables, outside, overtaken, faults>>

\* stop_whatsapp_bridge, after a removal and after a setup that could not be stored: the
\* bridge may be the one of another connection.
StopBridge(c) ==
    /\ At(c, "stop bridge")
    /\ \/ bridge' = Off /\ UNCHANGED faults
       \/ Fault /\ UNCHANGED bridge
    /\ Answer(c, IF caller[c].setup THEN "refused" ELSE "removed")
    /\ UNCHANGED <<tables, hook, adapter, overtaken>>

BeginAddPerson(c, p) ==
    /\ caller[c] = Idle /\ row[p] = "active"
    /\ caller' = [caller EXCEPT ![c] = [pc |-> "add", id |-> p, setup |-> FALSE]]
    /\ UNCHANGED <<tables, outside, ghosts, faults>>

\* The insert is refused for a sender that is there, and for a connection that is gone.
AddPerson(c, s) ==
    /\ At(c, "add")
    /\ people' = [people EXCEPT ![Id(c)] = IF row[Id(c)] = "gone" THEN @ ELSE @ \cup {s}]
    /\ caller' = [caller EXCEPT ![c] = Idle]
    /\ UNCHANGED <<kind, row, outside, ghosts, faults>>

RemovePerson(p, s) ==
    /\ s \in people[p]
    /\ people' = [people EXCEPT ![p] = @ \ {s}]
    /\ UNCHANGED <<kind, row, outside, caller, ghosts, faults>>

\* refresh_telegram_webhook
RefreshWebhook(p) ==
    /\ kind[p] = "telegram" /\ row[p] = "active"
    /\ hook' = [hook EXCEPT ![p] = "known"]
    /\ UNCHANGED <<tables, adapter, bridge, caller, ghosts, faults>>

-----------------------------------------------------------------------------
(***************************************************************************)
(* Lost requests and restarts.                                             *)
(***************************************************************************)

\* The client is gone: the rest of the handler does not run.
Abandon(c) ==
    /\ caller[c] # Idle /\ Fault
    /\ caller' = [caller EXCEPT ![c] = Idle]
    /\ UNCHANGED <<tables, outside, ghosts>>

\* load_active_configs
ActiveConfigs(k) == {p \in Connectors : kind[p] = k /\ row[p] = "active"}

\* What BlueBubbles' init_all does to the webhooks: the stored one is replaced; one failure
\* leaves the others alone.
RegisterAgain(failed) ==
    [p \in Connectors |-> IF p \in ActiveConfigs("imessage") \ failed THEN "known" ELSE hook[p]]

\* ensure_whatsapp_bridge_for_active_pipe: for one of the active connections, or stopped.
EnsureForActivePipe ==
    LET wanted == ActiveConfigs("whatsapp")
    IN  \E b \in (IF wanted = {} THEN {Off} ELSE wanted) : bridge' \in {b, Off, bridge}

\* init_all of both adapters: each active connection, Telegram's without asking Telegram.
InitAdapters == adapter' = ActiveConfigs("imessage") \cup ActiveConfigs("telegram")

\* The startup ends before requests are served; Telegram's webhooks are left as they are.
Restart ==
    /\ Fault
    /\ caller' = [c \in Callers |-> Idle]
    /\ InitAdapters
    /\ \E failed \in SUBSET Connectors : hook' = RegisterAgain(failed)
    /\ EnsureForActivePipe
    /\ UNCHANGED <<tables, ghosts>>

-----------------------------------------------------------------------------

Next ==
    \/ \E c \in Callers, p \in Connectors :
         \/ \E k \in Kinds : BeginCreate(c, p, k)
         \/ BeginRemove(c, p) \/ BeginAddPerson(c, p)
    \/ \E c \in Callers :
         \/ RemoveBridge(c) \/ EnsureBridge(c) \/ EnsureFails(c)
         \/ CreateSimple(c) \/ CreateImessage(c) \/ CreateTelegram(c) \/ PersistWhatsapp(c) \/ InsertFails(c)
         \/ RegisterWebhook(c) \/ SetWebhook(c) \/ RegisterRemoved(c) \/ RegisterFails(c) \/ StoreId(c) \/ StoreIdFails(c)
         \/ RegisterLocal(c) \/ Rollback(c) \/ RollbackFails(c)
         \/ DeregisterWebhook(c) \/ DeleteWebhook(c) \/ Deactivate(c) \/ Stop(c) \/ CheckBridge(c) \/ StopBridge(c)
         \/ \E s \in Senders : AddPerson(c, s)
         \/ Abandon(c)
    \/ \E p \in Connectors : RefreshWebhook(p) \/ \E s \in Senders : RemovePerson(p, s)
    \/ Restart

Spec == Init /\ [][Next]_vars

-----------------------------------------------------------------------------
(***************************************************************************)
(* Properties.                                                             *)
(***************************************************************************)

\* A setup that was refused leaves neither rows nor people nor an adapter behind, whatever
\* part of it failed and whoever removed the connection or added people meanwhile.
RefusedLeavesNothing ==
    \A p \in Connectors : "refused" \in answer[p] =>
        row[p] \in {"none", "gone"} /\ people[p] = {} /\ p \notin adapter

\* What answers messages follows the rows: a connection that was set up and not removed
\* has its adapter, one whose removal was answered has none, unless the removal overtook
\* the setup.
AdapterFollowsRow ==
    \A p \in Connectors :
        kind[p] \in {"imessage", "telegram"} =>
            /\ "set up" \in answer[p] /\ row[p] = "active" => p \in adapter
            /\ "removed" \in answer[p] /\ p \notin overtaken => p \notin adapter

\* Together: rows, people and adapters tell of one connection the same.
ConnectionsConsistent == RefusedLeavesNothing /\ AdapterFollowsRow
=============================================================================
