------------------------- MODULE CapabilityNetwork -------------------------
(* Where a capability container may connect to (permissions/network_policy.rs,
   the policy cache of capabilities/mod.rs, capabilities/egress_proxy.rs). The
   manifest declares a network mode and hosts, a user overrides access and
   single hosts in the database, a call resolves both into a policy, through
   a cache of 30 seconds, and registers it with the egress proxy, which looks
   it up for every connection.

   One user, agent, capability and session: the key of the cache and of the
   container. Only an exclusive container asks for the user's overrides: a
   shared one, and one that the control plane starts, has the policy of its
   manifest alone. Hosts are names; ports and patterns are left out.

   A decision is saved by one step of its request and the cache dropped by
   another, after which the user is answered; a request dropped in between
   never gets there. Decisions keep their order, so that a policy can be
   compared with what the user had decided at any time.                     *)
EXTENDS Naturals, FiniteSets, Sequences

CONSTANTS Callers,     \* concurrent calls of tools and transfers of artifacts
          Hosts,
          LogCapacity, \* bound of the channel to the egress log
          MaxChanges   \* bound on changes a user makes

VARIABLES manifest,   \* the declared network: [mode, hosts]
          exclusive,  \* the container is one of a user's session
          decided,    \* history: what the user's rows said, the last being what they say
          pending,    \* decisions saved whose request has not dropped the cache yet
          answered,   \* history: the last decision of which the user was told
          cache,      \* the cached policy, or Absent
          call,       \* what each call has resolved
          registered, \* the policy registered for the container in the map, or Absent
          log         \* entries between the proxy and the database

vars == <<manifest, exclusive, decided, pending, answered, cache, call, registered, log>>

Choices == {"unset", "allow", "deny"}
Modes == {"none", "any", "allowlist"}
Nothing == [mode |-> "none", allowed |-> {}, denied |-> {}]
Absent == [mode |-> "absent", allowed |-> {}, denied |-> {}]

(* An explicit denial always wins, then the mode decides. *)
Allows(policy, h) ==
  /\ h \notin policy.denied
  /\ \/ policy.mode = "any"
     \/ policy.mode = "allowlist" /\ h \in policy.allowed

(* The declared hosts and the user's, one list of allowed and one of denied
   hosts. A mode of none with a host allowed becomes an allow list.         *)
Effective(declared, access, hosts) ==
  LET denied == {h \in Hosts : hosts[h] = "deny"}
      allowed == (declared.hosts \cup {h \in Hosts : hosts[h] = "allow"}) \ denied
  IN IF access = "deny" THEN Nothing
     ELSE [mode |-> IF declared.mode = "none" /\ allowed # {} THEN "allowlist" ELSE declared.mode,
           allowed |-> allowed, denied |-> denied]

(* What a shared container and the control plane get. *)
ManifestAlone == [mode |-> manifest.mode, allowed |-> manifest.hosts, denied |-> {}]

Decisions == [access : {"allow", "deny"}, hosts : [Hosts -> Choices]]
Now == decided[Len(decided)]

\* A policy with where it comes from: a cache entry that an answer overtook, or not.
None == [policy |-> Absent, stale |-> FALSE]
Idle == [pc |-> "idle", policy |-> Absent, stale |-> FALSE, access |-> "allow",
         raced |-> FALSE, begun |-> 0, since |-> 0]
Busy == {c \in Callers : call[c].pc # "idle"}
Own(c) == [policy |-> call[c].policy, stale |-> call[c].stale]

Init == /\ manifest \in [mode : Modes, hosts : SUBSET Hosts]
        /\ exclusive \in BOOLEAN
        /\ \E rows \in Decisions : decided = <<rows>>
        /\ pending = {} /\ answered = 1
        /\ cache = None
        /\ call = [c \in Callers |-> Idle]
        /\ registered = None
        /\ log = <<>>

-----------------------------------------------------------------------------
(* The user's changes. Requests overlap: each saves its row, and each drops
   the cached policies of the user, agent and capability after that. A row
   written as it was is left out, and an access never set is one allowed.   *)
Saves(decision) ==
  /\ Len(decided) <= MaxChanges /\ decision # Now
  /\ decided' = Append(decided, decision)
  /\ pending' = pending \cup {Len(decided) + 1}
  /\ UNCHANGED <<manifest, exclusive, answered, cache, call, registered, log>>

SetAccess(access) == Saves([Now EXCEPT !.access = access])

SetHost(h, choice) == Saves([Now EXCEPT !.hosts[h] = choice])

\* Mutant: the row is deleted, the user is told, and the cache forgotten about.
RemoveHostOnly(h) ==
  /\ Now.hosts[h] # "unset" /\ Len(decided) <= MaxChanges
  /\ decided' = Append(decided, [Now EXCEPT !.hosts[h] = "unset"])
  /\ answered' = Len(decided) + 1
  /\ UNCHANGED <<manifest, exclusive, pending, cache, call, registered, log>>

RemoveHost(h) == Saves([Now EXCEPT !.hosts[h] = "unset"])

(* A call that has read a row and has not stored its policy yet is overtaken:
   it will put into the cache what it read.                                 *)
Invalidate(n) ==
  /\ n \in pending /\ pending' = pending \ {n}
  /\ cache' = None
  /\ answered' = IF n > answered THEN n ELSE answered
  /\ call' = [c \in Callers |-> [call[c] EXCEPT !.raced = @ \/ call[c].pc \in {"hosts", "store"}]]
  /\ UNCHANGED <<manifest, exclusive, decided, registered, log>>

(* The session or the capability is closed, or the entry outlives its 30
   seconds.                                                                 *)
Expire ==
  /\ cache # None /\ cache' = None
  /\ UNCHANGED <<manifest, exclusive, decided, pending, answered, call, registered, log>>

-----------------------------------------------------------------------------
(* A call resolves its policy and brings it to the proxy. It remembers, for
   the properties, what the user had been told when it began, and the oldest
   such moment among the calls it began beside.                             *)
Moments == {answered} \cup {call[c].begun : c \in Busy}

Begins(c, pc, found) ==
  /\ call[c].pc = "idle"
  /\ \E oldest \in Moments :
       /\ \A n \in Moments : oldest <= n
       /\ call' = [call EXCEPT ![c] = [pc |-> pc, policy |-> found.policy, stale |-> found.stale, access |-> "allow",
                                       raced |-> FALSE, begun |-> answered, since |-> oldest]]
  /\ UNCHANGED <<manifest, exclusive, decided, pending, answered, cache, registered, log>>

ReadCache(c) ==
  exclusive /\ IF cache # None THEN Begins(c, "resolved", cache) ELSE Begins(c, "access", None)

UseManifest(c) ==
  ~exclusive /\ Begins(c, "resolved", [policy |-> ManifestAlone, stale |-> FALSE])

Moves(c) == UNCHANGED <<manifest, exclusive, decided, pending, answered, log>>

(* Two queries: the access, then the hosts. *)
ReadAccess(c) ==
  /\ call[c].pc = "access"
  /\ call' = [call EXCEPT ![c].pc = "hosts", ![c].access = Now.access]
  /\ Moves(c) /\ UNCHANGED <<cache, registered>>

ReadHosts(c) ==
  /\ call[c].pc = "hosts"
  /\ call' = [call EXCEPT ![c].pc = "store", ![c].access = "allow",
                               ![c].policy = Effective(manifest, call[c].access, Now.hosts)]
  /\ Moves(c) /\ UNCHANGED <<cache, registered>>

(* Nothing compares the rows again: what was read is cached. *)
StoreCache(c) ==
  /\ call[c].pc = "store"
  /\ call' = [call EXCEPT ![c].pc = "resolved", ![c].raced = FALSE]
  /\ cache' = [policy |-> call[c].policy, stale |-> call[c].raced]
  /\ Moves(c) /\ UNCHANGED registered

Runs(c) == call' = [call EXCEPT ![c].pc = "running", ![c].policy = Absent, ![c].stale = FALSE]

(* get_or_start: the container of the key is reused, or one is started, with
   a token of its own, and entered in the map unless another call was first. *)
Look(c) ==
  /\ call[c].pc = "resolved"
  /\ call' = [call EXCEPT ![c].pc = IF registered = None THEN "start" ELSE "reuse"]
  /\ Moves(c) /\ UNCHANGED <<cache, registered>>

RegisterPolicy(c) ==
  /\ call[c].pc = "reuse"
  /\ Runs(c)
  /\ registered' = Own(c)
  /\ Moves(c) /\ UNCHANGED cache

Publish(c) ==
  /\ call[c].pc = "start"
  /\ Runs(c)
  /\ registered' = IF registered = None THEN Own(c) ELSE registered
  /\ Moves(c) /\ UNCHANGED cache

(* Answered, failed or dropped, wherever it was. *)
Finish(c) ==
  /\ c \in Busy /\ call' = [call EXCEPT ![c] = Idle]
  /\ Moves(c) /\ UNCHANGED <<cache, registered>>

(* The container stops and its token is forgotten: the calls that found it in
   the map have no container any more.                                      *)
Deregister ==
  /\ registered # None /\ registered' = None
  /\ call' = [c \in Callers |-> IF call[c].pc \in {"reuse", "running"} THEN Idle ELSE call[c]]
  /\ UNCHANGED <<manifest, exclusive, decided, pending, answered, cache, log>>

-----------------------------------------------------------------------------
(* The proxy decides and logs without waiting: a full channel drops the
   entry. A tunnel needs the token of a registered container; a plain HTTP
   request without one is let through to any host.                          *)
Logged(h, allowed) == IF Len(log) < LogCapacity THEN Append(log, [host |-> h, allowed |-> allowed]) ELSE log

Tunnel(h) ==
  /\ log' = Logged(h, registered # None /\ Allows(registered.policy, h))
  /\ UNCHANGED <<manifest, exclusive, decided, pending, answered, cache, call, registered>>

PlainRequest(h) ==
  /\ \E known \in BOOLEAN : log' = Logged(h, known /\ registered # None => Allows(registered.policy, h))
  /\ UNCHANGED <<manifest, exclusive, decided, pending, answered, cache, call, registered>>

DrainLog ==
  /\ log # <<>> /\ log' = <<>>
  /\ UNCHANGED <<manifest, exclusive, decided, pending, answered, cache, call, registered>>

Next ==
  \/ \E access \in {"allow", "deny"} : SetAccess(access)
  \/ \E h \in Hosts : \/ \E choice \in {"allow", "deny"} : SetHost(h, choice)
                      \/ RemoveHost(h) \/ Tunnel(h) \/ PlainRequest(h)
  \/ \E n \in pending : Invalidate(n)
  \/ Expire \/ Deregister \/ DrainLog
  \/ \E c \in Callers : \/ ReadCache(c) \/ UseManifest(c) \/ ReadAccess(c) \/ ReadHosts(c) \/ StoreCache(c)
                        \/ Look(c) \/ RegisterPolicy(c) \/ Publish(c) \/ Finish(c)

Spec == Init /\ [][Next]_vars

-----------------------------------------------------------------------------
(* A policy agrees with what the user decided from the n-th decision on, as
   far as that stayed the same: a host is refused that was denied, or whose
   access was; one that was allowed is reached, and one left alone is reached
   if the manifest declares it. While access and host trade places as the
   reason of a denial nothing is said: the two are read one after the other. *)
Declares(h) == manifest.mode = "any" \/ h \in manifest.hosts

Later(n) == {decided[m] : m \in n .. Len(decided)}

Respects(policy, n, h) ==
  /\ \/ \A d \in Later(n) : d.access = "deny"
     \/ \A d \in Later(n) : d.hosts[h] = "deny"
     => ~Allows(policy, h)
  /\ \A choice \in {"allow", "unset"} :
       (\A d \in Later(n) : d.access # "deny" /\ d.hosts[h] = choice) =>
         (Allows(policy, h) <=> choice = "allow" \/ Declares(h))

(* The exclusive container of a running call is held to every decision the
   user had been told of when the call began, and any call it ran beside:
   a call beside it may register the policy that it resolved before. The
   exception is a policy from a cache entry stored by a call that read the
   rows before an answer and stored what it read after it: such an entry is
   used for up to 30 seconds.                                               *)
UserDecides ==
  \A c \in Callers :
    exclusive /\ call[c].pc = "running" /\ registered # None /\ ~registered.stale =>
      \A h \in Hosts : Respects(registered.policy, call[c].since, h)
=============================================================================
