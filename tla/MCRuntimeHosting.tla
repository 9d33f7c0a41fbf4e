-------------------------- MODULE MCRuntimeHosting -------------------------
(* One launch, on either platform, with its Runtime and one of its planes. *)
EXTENDS RuntimeHosting

CONSTANT state      \* a model value: the Shared State plane
=============================================================================
