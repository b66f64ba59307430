---------------------------- MODULE ToolPolicies ----------------------------
(* What an agent may do with its tools, and which tools it has
   (capabilities/discovery.rs, permissions/tool_policy.rs, and the setup of
   agents). A dynamic capability is asked for its tools in a container, which
   takes time; the answer is compared with the tools known before the question.
   Administrators and users set policies meanwhile, by hand or in a setup form
   that was filled in when it was shown.

   One agent with one dynamic capability, and one user. Builtin stands for the
   tools that every agent has.                                              *)
EXTENDS Naturals, FiniteSets

CONSTANTS Tools,       \* the tools that the capability may offer
          Builtin,
          Recommended, \* recommended_policy of each of Tools, or "none"
          PolicyChoices, \* the policies that people set
          Tasks,       \* requests and detached tasks that ask for tools
          MaxChanges,  \* bound on policies set by hand
          MaxFaults    \* bound on failed questions, dropped requests and restarts

VARIABLES installed, setup, \* the row of the agent, and its setup_complete
          discovered, \* discovered_tools
          global,     \* global_tool_policies: tool -> policy or "none"
          own,        \* tool_policies of the user, for Tools
          sync,       \* where each task is
          page,       \* the tools on the setup form that was shown last
          changes, faults,
          byHand,     \* history: tools that had no row when a policy was set for them
          overtaken,  \* history: tools listed again by a task that another overtook
          chosen,     \* history: the default that was set last, by hand or form
          late        \* history: the setup was completed by a task of an earlier install

vars == <<installed, setup, discovered, global, own, sync, page, changes, faults,
          byHand, overtaken, chosen, late>>

(* No policy is the policy of nobody. *)
PolicyAssumption ==
  /\ Builtin \notin Tools
  /\ "none" \notin PolicyChoices
  /\ DOMAIN Recommended = Tools

AllTools == Tools \cup {Builtin}
Unset == [tool \in AllTools |-> "none"]
NoneOwn == [tool \in Tools |-> "none"]
Idle == [pc |-> "idle", kind |-> "none", old |-> {}, found |-> {}, form |-> {}, stale |-> FALSE]

Init == /\ installed = FALSE /\ setup = FALSE
        /\ discovered = {} /\ global = Unset /\ own = NoneOwn
        /\ sync = [t \in Tasks |-> Idle] /\ page = {}
        /\ changes = 0 /\ faults = 0
        /\ byHand = {} /\ overtaken = {} /\ chosen = Unset /\ late = FALSE

-----------------------------------------------------------------------------
Started(kind) == [Idle EXCEPT !.pc = "begun", !.kind = kind]

(* The page asks for the tools that it is to show. *)
OpenPage(t) ==
  /\ sync[t].pc = "idle" /\ installed
  /\ sync' = [sync EXCEPT ![t] = Started("page")]
  /\ UNCHANGED <<installed, setup, discovered, global, own, page, changes, faults,
                 byHand, overtaken, chosen, late>>

(* A package that was installed or updated, and a setup, leave the agent
   inactive until they end. *)
Package(t) ==
  /\ sync[t].pc = "idle"
  /\ installed' = TRUE /\ setup' = FALSE
  /\ sync' = [sync EXCEPT ![t] = Started("package")]
  /\ UNCHANGED <<discovered, global, own, page, changes, faults,
                 byHand, overtaken, chosen, late>>

BeginSetup(t) ==
  /\ sync[t].pc = "idle" /\ installed /\ page # {}
  /\ setup' = FALSE
  /\ sync' = [sync EXCEPT ![t] = [Started("setup") EXCEPT !.form = page]]
  /\ UNCHANGED <<installed, discovered, global, own, page, changes, faults,
                 byHand, overtaken, chosen, late>>

ReadKnown(t) ==
  /\ sync[t].pc = "begun"
  /\ sync' = [sync EXCEPT ![t].pc = "asked", ![t].old = discovered]
  /\ UNCHANGED <<installed, setup, discovered, global, own, page, changes, faults,
                 byHand, overtaken, chosen, late>>

(* What the capability offers is its own affair. *)
Discover(t, tools) ==
  /\ sync[t].pc = "asked"
  /\ sync' = [sync EXCEPT ![t].pc = "found", ![t].found = tools]
  /\ UNCHANGED <<installed, setup, discovered, global, own, page, changes, faults,
                 byHand, overtaken, chosen, late>>

(* A task that started with the process has nothing else to do. *)
Synced(s) == IF s.kind = "startup" THEN Idle
             ELSE [s EXCEPT !.pc = "synced", !.old = {}, !.found = {}]

(* Both attempts failed, or named a tool twice: only a setup ends with it. *)
DiscoverFails(t) ==
  /\ sync[t].pc = "asked" /\ faults < MaxFaults /\ faults' = faults + 1
  /\ sync' = [sync EXCEPT ![t] = IF @.kind = "setup" THEN Idle ELSE Synced(@)]
  /\ UNCHANGED <<installed, setup, discovered, global, own, page, changes,
                 byHand, overtaken, chosen, late>>

DefaultPolicy(tool) == IF Recommended[tool] = "none" THEN "block" ELSE Recommended[tool]

(* One transaction. What is new is what was not known before the question: a
   policy that is there already stays. The policies of what is gone go.     *)
Commit(t) ==
  LET s == sync[t]
      added == s.found \ s.old
      removed == s.old \ s.found
      Without(policy) == [tool \in DOMAIN policy |-> IF tool \in removed THEN "none" ELSE policy[tool]]
  IN /\ s.pc = "found"
     /\ discovered' = (discovered \cup s.found) \ removed
     /\ global' = [tool \in AllTools |-> IF tool \in added /\ global[tool] = "none"
                                         THEN DefaultPolicy(tool) ELSE Without(global)[tool]]
     /\ own' = Without(own)
     /\ sync' = [sync EXCEPT ![t] = Synced(s)]
     /\ byHand' = byHand \ removed
     /\ overtaken' = (overtaken \ removed) \cup ((s.old \cap s.found) \ discovered)
     /\ chosen' = Without(chosen)
     /\ UNCHANGED <<installed, setup, page, changes, faults, late>>

-----------------------------------------------------------------------------
(* What the requests do after the synchronisation. *)
Uncovered == {tool \in discovered \cup {Builtin} : global[tool] = "none"}

(* agent_requires_setup, then the row: an agent that needs none goes live. A
   credential may be missing too.                                           *)
CheckSetup(t, verdict) ==
  /\ sync[t].pc = "synced" /\ sync[t].kind = "package"
  /\ verdict = "complete" => Uncovered = {}
  /\ sync' = [sync EXCEPT ![t].pc = verdict]
  /\ UNCHANGED <<installed, setup, discovered, global, own, page, changes, faults,
                 byHand, overtaken, chosen, late>>

SaveSetup(t) ==
  /\ sync[t].pc \in {"complete", "incomplete"}
  /\ setup' = (installed /\ sync[t].pc = "complete")
  /\ late' = sync[t].stale
  /\ sync' = [sync EXCEPT ![t] = Idle]
  /\ UNCHANGED <<installed, discovered, global, own, page, changes, faults,
                 byHand, overtaken, chosen>>

ShowPage(t) ==
  /\ sync[t].pc = "synced" /\ sync[t].kind = "page"
  /\ page' = discovered \cup {Builtin}
  /\ sync' = [sync EXCEPT ![t] = Idle]
  /\ UNCHANGED <<installed, setup, discovered, global, own, changes, faults,
                 byHand, overtaken, chosen, late>>

Unlisted(tool) == {tool} \ (discovered \cup {Builtin})

(* One upsert for each policy of the form, also for tools that are gone. *)
SavePolicy(t, tool, policy) ==
  /\ sync[t].pc = "synced" /\ tool \in sync[t].form
  /\ global' = [global EXCEPT ![tool] = policy]
  /\ chosen' = [chosen EXCEPT ![tool] = policy]
  /\ byHand' = byHand \cup Unlisted(tool)
  /\ sync' = [sync EXCEPT ![t].form = @ \ {tool}]
  /\ UNCHANGED <<installed, setup, discovered, own, page, changes, faults,
                 overtaken, late>>

FinishSetup(t) ==
  /\ sync[t].pc = "synced" /\ sync[t].kind = "setup" /\ sync[t].form = {}
  /\ setup' = installed
  /\ late' = sync[t].stale
  /\ sync' = [sync EXCEPT ![t] = Idle]
  /\ UNCHANGED <<installed, discovered, global, own, page, changes, faults,
                 byHand, overtaken, chosen>>

-----------------------------------------------------------------------------
(* Policies set by hand, for tools on a page that may be older than the rows. *)
Choosing == installed /\ changes < MaxChanges /\ changes' = changes + 1

SetGlobal(tool, policy) ==
  /\ Choosing
  /\ global' = [global EXCEPT ![tool] = policy]
  /\ chosen' = [chosen EXCEPT ![tool] = policy]
  /\ byHand' = byHand \cup Unlisted(tool)
  /\ UNCHANGED <<installed, setup, discovered, own, sync, page, faults, overtaken, late>>

SetOwn(tool, policy) ==
  /\ Choosing
  /\ own' = [own EXCEPT ![tool] = policy]
  /\ byHand' = byHand \cup Unlisted(tool)
  /\ UNCHANGED <<installed, setup, discovered, global, sync, page, faults,
                 overtaken, chosen, late>>

ResetOwn(tool) ==
  /\ own[tool] # "none" /\ installed
  /\ own' = [own EXCEPT ![tool] = "none"]
  /\ UNCHANGED <<installed, setup, discovered, global, sync, page, changes, faults,
                 byHand, overtaken, chosen, late>>

(* The transaction takes every row with it; tasks under way are not told. *)
Uninstall ==
  /\ installed /\ installed' = FALSE /\ setup' = FALSE
  /\ discovered' = {} /\ global' = Unset /\ own' = NoneOwn
  /\ sync' = [t \in Tasks |-> [sync[t] EXCEPT !.stale = @ \/ sync[t].kind \in {"package", "setup"}]]
  /\ byHand' = {} /\ overtaken' = {} /\ chosen' = Unset /\ late' = FALSE
  /\ UNCHANGED <<page, changes, faults>>

-----------------------------------------------------------------------------
Drop(t) ==
  /\ sync[t].kind \in {"package", "page", "setup"} /\ faults < MaxFaults /\ faults' = faults + 1
  /\ sync' = [sync EXCEPT ![t] = Idle]
  /\ UNCHANGED <<installed, setup, discovered, global, own, page, changes,
                 byHand, overtaken, chosen, late>>

\* Mutant: the policies that are there are written again.
BackfilledAll == IF global = Unset THEN global ELSE [global EXCEPT ![Builtin] = "allow"]

(* backfill_builtin_policies: who has any policy gets those of the built-in
   tools that are missing. *)
Backfilled == IF global = Unset \/ global[Builtin] # "none" THEN global
              ELSE [global EXCEPT ![Builtin] = "allow"]

(* Active agents are asked for their tools, by a task nobody waits for. *)
Restart(t) ==
  /\ faults < MaxFaults /\ faults' = faults + 1
  /\ global' = Backfilled
  /\ sync' = [u \in Tasks |-> IF u = t /\ setup
                              THEN [Idle EXCEPT !.pc = "begun", !.kind = "startup"] ELSE Idle]
  /\ UNCHANGED <<installed, setup, discovered, own, page, changes,
                 byHand, overtaken, chosen, late>>

Next ==
  \/ \E t \in Tasks :
       \/ OpenPage(t) \/ Package(t) \/ BeginSetup(t)
       \/ ReadKnown(t) \/ DiscoverFails(t) \/ Commit(t)
       \/ \E tools \in SUBSET Tools : Discover(t, tools)
       \/ \E verdict \in {"complete", "incomplete"} : CheckSetup(t, verdict)
       \/ SaveSetup(t) \/ ShowPage(t) \/ FinishSetup(t)
       \/ \E tool \in AllTools, policy \in PolicyChoices : SavePolicy(t, tool, policy)
       \/ Drop(t) \/ Restart(t)
  \/ \E tool \in AllTools, policy \in PolicyChoices : SetGlobal(tool, policy)
  \/ \E tool \in Tools : (\E policy \in PolicyChoices : SetOwn(tool, policy)) \/ ResetOwn(tool)
  \/ Uninstall

Spec == Init /\ [][Next]_vars

-----------------------------------------------------------------------------
(* A tool that is listed has a default, but for one that a task listed again
   because it knew it, after another task had found it gone: its call is
   refused and nobody is told, since only what is new is given a policy.    *)
EveryToolDecided == \A tool \in discovered : global[tool] = "none" => tool \in overtaken

(* A tool that comes back inherits nothing: policies of a tool that is not
   listed were set while it was not.                                        *)
NothingInherited ==
  \A tool \in Tools \ discovered : <<global[tool], own[tool]>> # <<"none", "none">> => tool \in byHand

(* What an administrator chose is not undone by a synchronisation, by an
   update or by the backfill, as long as the tool is there.                 *)
ChoiceKept == \A tool \in AllTools : chosen[tool] # "none" => global[tool] = chosen[tool]

(* An active agent has a policy for each of its tools, the built-in ones
   included, unless a task of an earlier installation completed the setup.  *)
SetupCovers == setup /\ ~late => Uncovered \subseteq overtaken

PoliciesFollowTools == EveryToolDecided /\ NothingInherited /\ ChoiceKept /\ SetupCovers
=============================================================================
