-------------------------- MODULE MCDataProvisioning --------------------------
(***************************************************************************)
(* DataProvisioning on a small instance.  The bounds are in the cfg.        *)
(***************************************************************************)
EXTENDS DataProvisioning, TLC
=============================================================================
