---------------------- MODULE MCSharedStateSubscription ----------------------
(***************************************************************************)
(* The instance of SharedStateSubscription that TLC checks.                *)
(***************************************************************************)
EXTENDS SharedStateSubscription
=============================================================================
