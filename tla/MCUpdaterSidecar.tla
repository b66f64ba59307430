--------------------------- MODULE MCUpdaterSidecar ---------------------------
(* UpdaterSidecar for TLC: three images, the last of which never passes its  *)
(* health check.                                                             *)
EXTENDS UpdaterSidecar

CONSTANTS v1, v2, v3, j1, j2

WorkingImages == {v1, v2}
=============================================================================
