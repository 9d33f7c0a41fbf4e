--------------------------- MODULE MCSessionControl ---------------------------
(***************************************************************************)
(* Safety of the two sides Main controls, in three parts that share no     *)
(* state, each behaviour going one of them:                                *)
(*                                                                         *)
(*   frames    FrameControl, the Frame authority with its Runtimes         *)
(*   control   RendererControl, how a page and Main find each other and    *)
(*             agree on the authority                                      *)
(*   holder    PresentationEvents with RendererHolder, what the Renderer   *)
(*             then does with the snapshots, any sequence of which it is   *)
(*             given                                                       *)
(*                                                                         *)
(* For the Frames: the smallest stacks in which a Runtime owns Frames      *)
(* below and above another Runtime's Frame that fails.                     *)
(***************************************************************************)
EXTENDS FrameControl, RendererControl, PresentationEvents, TLC

CONSTANTS map, move, l1, l2      \* model values
VARIABLE part

ListenerSymmetry == Permutations({l1, l2})

InitSession ==
  /\ part \in {"frames", "control", "holder"}
  /\ Init /\ RendererInit /\ InitPresentation
  /\ part # "holder" => \A l \in Listeners : listener[l].state = "none"
NextSession ==
  \/ part = "frames" /\ Next /\ UNCHANGED <<part, rendererControlVars, presentationVars>>
  \/ part = "control" /\ RendererNext /\ UNCHANGED <<part, vars, presentationVars>>
  \/ part = "holder" /\ NextPresentation /\ UNCHANGED <<part, vars, rendererControlVars>>

SpecSession ==
  InitSession /\ [][NextSession]_<<part, vars, rendererControlVars, presentationVars>>
=============================================================================
