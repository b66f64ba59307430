---------------------------- MODULE PackageSwitch ----------------------------
(***************************************************************************)
(* What updating an agent promises: the package that the agent runs, or    *)
(* will run once an interrupted switch has been reconciled, and the        *)
(* revision the registry calls current are one revision, and they are      *)
(* replaced by a newer one together, in one step.                          *)
(***************************************************************************)
CONSTANTS Revs, NoRev

VARIABLES package, registered

Init ==
  /\ package \in Revs \cup {NoRev}
  /\ registered = package

Switch ==
  /\ registered # NoRev
  /\ \E r \in Revs \ {registered} :
       /\ package' = r
       /\ registered' = r

Spec == Init /\ [][Switch]_<<package, registered>>
=============================================================================
