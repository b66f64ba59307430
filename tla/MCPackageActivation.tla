------------------------- MODULE MCPackageActivation -------------------------
(* PackageActivation for TLC.  Revisions are fresh UUIDs and workers run    *)
(* the same code, so both sets may be permuted in runs without liveness.    *)
EXTENDS PackageActivation, TLC

RevisionAndWorkerSymmetry == Permutations(Revs) \cup Permutations(Workers)
=============================================================================
