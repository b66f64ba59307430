---------------------------- MODULE MCAdministration ----------------------------
(* What administrators change while everything runs, for TLC: connections to     *)
(* channels, accounts, and the images Docker keeps for packages and for the      *)
(* system.  They share no state, so each behaviour is one of a single part,      *)
(* chosen at the start.  Images and revisions may be permuted.                   *)
EXTENDS Connectors, TLC

CONSTANTS i1, i2, i3, i4, r1, r2,
          Users, Sessions, Channels, Agents, AccountCallers, MaxRequests, MaxAccountFaults,
          AgentImages, SystemImages, Revisions, Starters, Grace, Retention, MaxTime, MaxImageFaults

VARIABLES part,
          users, gone, admins, session, pairing, owner, rows, installed, access, accountCaller,
          setups, slipped, chosen, requests, accountFaults,
          now, tag, local, docker, aliased, imageRows, revision, refs, sysrefs, system,
          containers, ready, excl, starter, deploy, cleanup, review, imageFaults

Account == INSTANCE Accounts
              WITH Callers <- AccountCallers, MaxFaults <- MaxAccountFaults,
                   caller <- accountCaller, faults <- accountFaults
Image == INSTANCE ImageRetention
            WITH MaxFaults <- MaxImageFaults, rows <- imageRows, faults <- imageFaults

ASSUME AccountNames == Account!NamesAssumption
ASSUME ImageNames == Image!NamesAssumption
ASSUME ImageTimes == Image!TimesAssumption

accountVars ==
    <<users, gone, admins, session, pairing, owner, rows, installed, access, accountCaller,
      setups, slipped, chosen, requests, accountFaults>>
imageVars ==
    <<now, tag, local, docker, aliased, imageRows, revision, refs, sysrefs, system, containers,
      ready, excl, starter, deploy, cleanup, review, imageFaults>>
allVars == <<part, vars, accountVars, imageVars>>

\* The parts that do not run in a behaviour start in one way.
MCInit ==
    /\ part \in {"connectors", "accounts", "images"}
    /\ Init /\ Account!Init /\ Image!Init
    /\ part # "accounts" => installed = {}
    /\ part # "images" => tag = i1 /\ local = Image!None /\ system.current = i3

MCNext ==
    \/ part = "connectors" /\ Next /\ UNCHANGED <<part, accountVars, imageVars>>
    \/ part = "accounts" /\ Account!Next /\ UNCHANGED <<part, vars, imageVars>>
    \/ part = "images" /\ Image!Next /\ UNCHANGED <<part, vars, accountVars>>

MCSpec == MCInit /\ [][MCNext]_allVars

ImageSymmetry == Permutations({i1, i2}) \cup Permutations({i3, i4}) \cup Permutations({r1, r2})

\* Of Accounts.
AccountsConsistent == Account!AccountsConsistent
OthersKeepTheirs == Account!OthersKeepTheirs

\* Of ImageRetention.
ImagesInUseKept == Image!ImagesInUseKept
=============================================================================
