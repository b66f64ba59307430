---------------------------- MODULE MCSystemUpdate ----------------------------
(* SystemUpdate for TLC: two images that work and one that never does.       *)
EXTENDS SystemUpdate

CONSTANTS v1, v2, v3, j1, j2, c1, p1

WorkingImages == {v1, v2}
=============================================================================
