------------------------ MODULE MCRuntimeSupervision ------------------------
(* Bounds for RuntimeSupervision: two Runtimes, so that one can fail while  *)
(* the other is being established, is running, or is being cleaned up.      *)
EXTENDS RuntimeSupervision
=============================================================================
