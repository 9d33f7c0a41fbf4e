---------------------------- MODULE MCMainSession ----------------------------
(***************************************************************************)
(* The Main session on small instances: the Frame authority with two       *)
(* Runtimes, and enough Frames for a stack in which each Runtime owns      *)
(* Frames above and below the other's; and, as a part of its own, the      *)
(* supervision of one Runtime, for what it owes under fairness             *)
(* (MCRuntimeSupervision has its safety with two).  Each behaviour goes    *)
(* one of the two parts.                                                   *)
(***************************************************************************)
EXTENDS FrameAuthority

VARIABLES part, step, runtimePhase, identified, shutdownRequested, runtimeLink, reported,
          statusTurn, fate, physicallyTerminated, attempt, asked, cleanup,
          frameAuthorityStarted, runtimeLane, stopAsked, shutdownQueued, runtimeTerminal, settled
supervisionVars ==
  <<step, runtimePhase, identified, shutdownRequested, runtimeLink, reported, statusTurn, fate,
    physicallyTerminated, attempt, asked, cleanup, frameAuthorityStarted, runtimeLane, stopAsked,
    shutdownQueued, runtimeTerminal, settled>>

Supervision == INSTANCE RuntimeSupervision WITH
  NumRuntimes <- 1, phase <- runtimePhase, link <- runtimeLink, lane <- runtimeLane,
  stopRequested <- stopAsked, terminal <- runtimeTerminal

sessionParts == <<part, vars, supervisionVars>>

InitMain == part \in {"frames", "supervision"} /\ Init /\ Supervision!Init
NextMain ==
  \/ part = "frames" /\ Next /\ UNCHANGED <<part, supervisionVars>>
  \/ part = "supervision" /\ Supervision!Next /\ UNCHANGED <<part, vars>>

SpecMain ==
  /\ InitMain /\ [][NextMain]_sessionParts
  /\ part = "frames" => Fairness
  /\ part = "supervision" => Supervision!Fairness

\* The bootstrap of a Runtime that stays silent ends, and run() settles after every stop.
SupervisionSettles ==
  part = "supervision" => Supervision!BootstrapSettles /\ Supervision!StopSettles
=============================================================================
