--------------------------- MODULE MCServiceClients ---------------------------
(***************************************************************************)
(* The two services that a Subsystem reaches through a client which its    *)
(* Runtime rebinds to a new carrier: the commits of the Shared State and   *)
(* the events of the session.  Both face the same question, what a caller  *)
(* may be told of a call whose carrier is gone, and share no state; one    *)
(* run checks both, each behaviour going one of the two parts.             *)
(***************************************************************************)
EXTENDS SharedStateCommits, SessionEvents

VARIABLE part

InitClients ==
  /\ part \in {"commits", "events"}
  /\ Init /\ InitEvents

NextClients ==
  \/ part = "commits" /\ Next /\ UNCHANGED <<part, eventsVars>>
  \/ part = "events" /\ NextEvents /\ UNCHANGED <<part, vars>>

\* The fairness of each part, for the behaviours that go that part.
SpecClients ==
  /\ InitClients /\ [][NextClients]_<<part, vars, eventsVars>>
  /\ WF_eventsVars(part = "events" /\ System)
  /\ WF_vars(part = "commits" /\ CarrierWork)
=============================================================================
