------------------------------- MODULE Accounts -------------------------------
(***************************************************************************)
(* People who may sign in: the first administrator, accounts, roles, which *)
(* agents a person sees, and removal (services/accounts.rs,                *)
(* services/auth.rs, api/accounts.rs, api/auth.rs, agents/access.rs), the  *)
(* sign-ins of the app (api/mobile.rs) and the command that resets a       *)
(* password (admin.rs).                                                    *)
(*                                                                         *)
(* A request knows who asks and whether that is an administrator when it   *)
(* begins, and works in later statements.  Names and passwords decide      *)
(* nothing here.  Channels stand for all that refers to a person's pipes.  *)
(***************************************************************************)
EXTENDS Naturals

CONSTANTS Users,        \* ids of accounts; a deleted one is not used again
          Sessions,     \* web_sessions ids
          Channels,     \* pipes people of other accounts may use
          Agents,       \* agents that may be installed, "default" aside
          Callers,      \* requests under way at the same time
          MaxRequests,  \* bound: requests and changes of agents and channels
          MaxFaults     \* bound: failing statements, lost requests

NamesAssumption == "__none__" \notin Agents

VARIABLES users,        \* ids in use
          gone,         \* deleted ids
          admins,       \* users with is_admin
          session,      \* session -> its user, or Nobody
          pairing,      \* users with a live mobile_setup_token
          owner,        \* channel -> user_id of its pipe, or Nobody
          rows,         \* user, channel: the user's senders, threads and messages there
          installed,    \* the agents map
          access,       \* user_agent_access
          caller,
          setups,       \* first administrators created
          slipped,      \* whether one lost the role by a request that had read of none
          chosen,       \* user -> the agents an administrator chose, or all of them
          requests, faults

accounts == <<users, gone, admins, access>>
signins == <<session, pairing>>
pipes == <<owner, rows>>
ghosts == <<setups, slipped, chosen>>
vars == <<accounts, signins, pipes, installed, caller, ghosts, requests, faults>>

Nobody == "nobody"
None == "__none__"
Idle == [op |-> "idle"]
At(c, op) == caller[c].op = op
Done(c) == caller' = [caller EXCEPT ![c] = Idle]
Request == requests < MaxRequests /\ requests' = requests + 1
Fault == faults < MaxFaults /\ faults' = faults + 1

\* visible_agents, "default" aside.
Visible(u) == IF access[u] = {} THEN installed ELSE installed \cap access[u]

Init == /\ users = {} /\ gone = {} /\ admins = {}
        /\ session = [s \in Sessions |-> Nobody] /\ pairing = {}
        /\ owner = [p \in Channels |-> Nobody] /\ rows = {}
        /\ installed \in SUBSET Agents /\ access = [u \in Users |-> {}]
        /\ caller = [c \in Callers |-> Idle]
        /\ setups = 0 /\ slipped = FALSE /\ chosen = [u \in Users |-> Agents]
        /\ requests = 0 /\ faults = 0

-----------------------------------------------------------------------------
(***************************************************************************)
(* Signing in.                                                             *)
(***************************************************************************)

\* setup_first_admin: the check and the rows are one statement and one transaction.
SetUp(u, s) ==
    /\ users = {} /\ u \notin gone /\ session[s] = Nobody
    /\ users' = {u} /\ admins' = {u}
    /\ session' = [session EXCEPT ![s] = u]
    /\ setups' = setups + 1
    /\ UNCHANGED <<gone, access, pairing, pipes, installed, caller, slipped, chosen, requests, faults>>

\* Requests of the app and of administrators are checked against the session's row.
SignedIn(s) == session[s] \in users
AsAdmin(s) == session[s] \in admins

\* login and mobile_login: the password is checked against the row read.
BeginLogin(c, u) ==
    /\ caller[c] = Idle /\ Request /\ u \in users
    /\ caller' = [caller EXCEPT ![c] = [op |-> "open", for |-> u]]
    /\ UNCHANGED <<accounts, signins, pipes, installed, ghosts, faults>>

\* create_session; the row needs its user.
OpenSession(c, s) ==
    /\ At(c, "open") /\ session[s] = Nobody
    /\ session' = IF caller[c].for \in users THEN [session EXCEPT ![s] = caller[c].for] ELSE session
    /\ Done(c)
    /\ UNCHANGED <<accounts, pairing, pipes, installed, ghosts, requests, faults>>

\* create_pairing_token replaces the token before.
Pair(s) ==
    /\ SignedIn(s)
    /\ pairing' = pairing \cup {session[s]}
    /\ UNCHANGED <<accounts, session, pipes, installed, caller, ghosts, requests, faults>>

\* redeem_setup_token looks the token up, marks it, and opens a session.
BeginRedeem(c, u) ==
    /\ caller[c] = Idle /\ Request /\ u \in pairing
    /\ caller' = [caller EXCEPT ![c] = [op |-> "redeem", for |-> u]]
    /\ UNCHANGED <<accounts, signins, pipes, installed, ghosts, faults>>

Redeem(c) ==
    /\ At(c, "redeem")
    /\ \/ pairing' = pairing \ {caller[c].for} /\ UNCHANGED faults
       \/ Fault /\ UNCHANGED pairing
    /\ IF caller[c].for \in users THEN caller' = [caller EXCEPT ![c].op = "open"] ELSE Done(c)
    /\ UNCHANGED <<accounts, session, pipes, installed, ghosts, requests>>

Ends(ss) == session' = [s \in Sessions |-> IF s \in ss THEN Nobody ELSE session[s]]
Of(u) == {s \in Sessions : session[s] = u}

\* logout, or the time is over and the hourly cleanup removes the row.
EndSession(s) ==
    /\ SignedIn(s)
    /\ Ends({s})
    /\ UNCHANGED <<accounts, pairing, pipes, installed, caller, ghosts, requests, faults>>

\* change_password keeps the session that asked.
ChangePassword(s) ==
    /\ SignedIn(s)
    /\ Ends(Of(session[s]) \ {s})
    /\ UNCHANGED <<accounts, pairing, pipes, installed, caller, ghosts, requests, faults>>

\* reset-password on the command line.
ResetPassword(u) ==
    /\ u \in users /\ Of(u) # {}
    /\ Ends(Of(u))
    /\ UNCHANGED <<accounts, pairing, pipes, installed, caller, ghosts, requests, faults>>

-----------------------------------------------------------------------------
(***************************************************************************)
(* Requests of administrators.                                             *)
(***************************************************************************)

\* The ApiAdmin extractor, and the agents for the request's state.
Ask(c, s, op, u) ==
    /\ caller[c] = Idle /\ Request /\ AsAdmin(s)
    /\ caller' = [caller EXCEPT ![c] = [op |-> op, by |-> session[s], for |-> u, all |-> installed]]
    /\ UNCHANGED <<accounts, signins, pipes, installed, ghosts, faults>>

\* create_user with its web pipe; a taken name leaves nothing.
CreateUser(c) ==
    /\ At(c, "create")
    /\ \/ /\ caller[c].for \notin users \cup gone
          /\ users' = users \cup {caller[c].for}
          /\ admins' \in {admins, admins \cup {caller[c].for}}
       \/ caller[c].for \in users \cup gone /\ UNCHANGED <<users, admins>>
    /\ Done(c)
    /\ UNCHANGED <<gone, access, signins, pipes, installed, ghosts, requests, faults>>

\* update_user reads the account before its transaction.
ReadCurrent(c) ==
    /\ At(c, "update")
    /\ IF caller[c].for \in users
       THEN \E role \in BOOLEAN :
              caller' = [caller EXCEPT ![c] = [op |-> "write", for |-> caller[c].for, to |-> role,
                                               was |-> caller[c].for \in admins]]
       ELSE Done(c)
    /\ UNCHANGED <<accounts, signins, pipes, installed, ghosts, requests, faults>>

\* The count of administrators is one or none.
LastAdmin == \A v, w \in admins : v = w

\* The administrators are counted when the account was one as read.
UpdateUser(c) ==
    /\ At(c, "write")
    /\ LET u == caller[c].for
       IN  /\ admins' = IF u \notin users \/ (caller[c].was /\ ~caller[c].to /\ LastAdmin)
                        THEN admins
                        ELSE IF caller[c].to THEN admins \cup {u} ELSE admins \ {u}
           /\ slipped' = (slipped \/ (u \notin admins' /\ u \in admins /\ ~caller[c].was))
    /\ Done(c)
    /\ UNCHANGED <<users, gone, access, signins, pipes, installed, setups, chosen, requests, faults>>

\* Rows of others that refer to a pipe of the user: the statement that deletes the pipes
\* fails, and the whole transaction with it.
Blocked(u) == \E p \in Channels, v \in Users \ {u} : owner[p] = u /\ <<v, p>> \in rows

Remove(u) ==
    /\ users' = users \ {u} /\ gone' = gone \cup {u} /\ admins' = admins \ {u}
    /\ access' = [access EXCEPT ![u] = {}]
    /\ Ends(Of(u)) /\ pairing' = pairing \ {u}
    /\ owner' = [p \in Channels |-> IF owner[p] = u THEN Nobody ELSE owner[p]]
    /\ rows' = {t \in rows : t[1] # u}

\* Mutant: that a request of an administrator came from another account is enough.
DeleteUserOfOther(c) ==
    /\ At(c, "delete")
    /\ LET u == caller[c].for
       IN  IF caller[c].by # u /\ u \in users /\ ~Blocked(u)
           THEN Remove(u)
           ELSE UNCHANGED <<accounts, signins, pipes>>
    /\ Done(c)
    /\ UNCHANGED <<installed, ghosts, requests, faults>>

\* Mutant: what refers to the pipes goes with them.
DeleteUserWithPipes(c) ==
    /\ At(c, "delete")
    /\ LET u == caller[c].for
       IN  IF /\ caller[c].by # u /\ u \in users
              /\ u \in admins => ~LastAdmin
           THEN /\ users' = users \ {u} /\ gone' = gone \cup {u} /\ admins' = admins \ {u}
                /\ access' = [access EXCEPT ![u] = {}] /\ Ends(Of(u)) /\ pairing' = pairing \ {u}
                /\ owner' = [p \in Channels |-> IF owner[p] = u THEN Nobody ELSE owner[p]]
                /\ rows' = {t \in rows : t[1] # u /\ owner[t[2]] # u}
           ELSE UNCHANGED <<accounts, signins, pipes>>
    /\ Done(c)
    /\ UNCHANGED <<installed, ghosts, requests, faults>>

\* delete_user: the checks and the rows are one transaction.
DeleteUser(c) ==
    /\ At(c, "delete")
    /\ LET u == caller[c].for
       IN  IF /\ caller[c].by # u /\ u \in users
              /\ u \in admins => ~LastAdmin
              /\ ~Blocked(u)
           THEN Remove(u)
           ELSE UNCHANGED <<accounts, signins, pipes>>
    /\ Done(c)
    /\ UNCHANGED <<installed, ghosts, requests, faults>>

\* What set_agent_access stores: nothing for all agents, one row for none.
AccessRows(picked, all) ==
    IF picked = {} /\ all # {} THEN {None} ELSE IF picked = all THEN {} ELSE picked

SetAgentAccess(c) ==
    /\ At(c, "access")
    /\ \E picked \in SUBSET caller[c].all :
         LET u == caller[c].for
         IN  IF u \in users
             THEN /\ access' = [access EXCEPT ![u] = AccessRows(picked, caller[c].all)]
                  /\ chosen' = [chosen EXCEPT ![u] = IF picked = caller[c].all THEN Agents ELSE picked]
             ELSE UNCHANGED <<access, chosen>>
    /\ Done(c)
    /\ UNCHANGED <<users, gone, admins, signins, pipes, installed, setups, slipped, requests, faults>>

\* The client is gone, or the request stops at a statement that fails.
Abandon(c) ==
    /\ caller[c] # Idle /\ Fault
    /\ Done(c)
    /\ UNCHANGED <<accounts, signins, pipes, installed, ghosts, requests>>

-----------------------------------------------------------------------------
(***************************************************************************)
(* What goes on meanwhile: agents and channels.                            *)
(***************************************************************************)

SwapAgents(a) ==
    /\ Request
    /\ installed' = IF a \in installed THEN installed \ {a} ELSE installed \cup {a}
    /\ UNCHANGED <<accounts, signins, pipes, caller, ghosts, faults>>

\* A connection belongs to its first person; the rows of other people on it follow.
Connect(p, u) ==
    /\ u \in users /\ <<u, p>> \notin rows /\ Request
    /\ IF owner[p] = Nobody THEN owner' = [owner EXCEPT ![p] = u] ELSE UNCHANGED owner
    /\ rows' = rows \cup {<<u, p>>}
    /\ UNCHANGED <<accounts, signins, installed, caller, ghosts, faults>>

Requests == {"create", "update", "delete", "access"}

Next ==
    \/ \E u \in Users, s \in Sessions : SetUp(u, s)
    \/ \E s \in Sessions : Pair(s) \/ EndSession(s) \/ ChangePassword(s)
    \/ \E u \in Users : ResetPassword(u)
    \/ \E c \in Callers :
         \/ \E u \in Users : BeginLogin(c, u) \/ BeginRedeem(c, u)
         \/ \E s \in Sessions : OpenSession(c, s)
         \/ \E s \in Sessions, op \in Requests, u \in Users : Ask(c, s, op, u)
         \/ Redeem(c) \/ CreateUser(c) \/ ReadCurrent(c) \/ UpdateUser(c) \/ DeleteUser(c)
         \/ SetAgentAccess(c) \/ Abandon(c)
    \/ \E a \in Agents : SwapAgents(a)
    \/ \E p \in Channels, u \in Users : Connect(p, u)

Spec == Init /\ [][Next]_vars

-----------------------------------------------------------------------------
(***************************************************************************)
(* Properties.                                                             *)
(***************************************************************************)

\* After the setup of the first administrator, which runs once, an administrator remains:
\* no order of requests, of administrators who demote and remove each other at the same
\* time for one, leaves none, unless a change of role took the role from an account that
\* had none yet when the request read it.
AdminRemains == ~slipped => setups <= 1 /\ (setups = 1 => admins # {})

\* What an administrator chose for a person bounds what the person sees, whatever agents
\* came and went while the choice was stored and since.
ChoiceHolds == \A u \in users : Visible(u) \subseteq chosen[u]

\* Removing an account leaves the conversations and senders of all others as they are,
\* those on a channel it owned too.
OthersKeepTheirs ==
    [][\A t \in rows : t[1] \in users' => t \in rows']_vars

\* Both hold together, with requests of several administrators under way.
AccountsConsistent == AdminRemains /\ ChoiceHolds
=============================================================================
