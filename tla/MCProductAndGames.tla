-------------------------- MODULE MCProductAndGames --------------------------
(***************************************************************************)
(* The PWA product: the installations of an origin's windows, the sessions *)
(* one window starts after another, and the Data broker of one session;    *)
(* and the libraries of a game that talk to the player: a dialogue, a form *)
(* and the controls.  The parts share no state (those of the product meet  *)
(* only in an installation identity and in the window being current, which *)
(* each takes as it comes): one run checks all of them, each behaviour     *)
(* going one of the parts.                                                 *)
(***************************************************************************)
EXTENDS PwaInstallation, PwaWindow, PwaDataBroker, RpgDialogue, SchemaForm, ControlsInput, TLC

VARIABLE part
pwaVars == <<installationVars, windowVars, brokerVars>>
gameVars == <<dialogueVars, formVars, controlsVars>>

CONSTANTS v                            \* a model value
(* Forms that can be cancelled and are submitted to a callback, and forms   *)
(* that are restored first and just return what is submitted.               *)
MCFormOptions ==
  {[cancelable |-> TRUE, onSubmit |-> TRUE, restorable |-> FALSE, initial |-> v],
   [cancelable |-> FALSE, onSubmit |-> FALSE, restorable |-> TRUE, initial |-> v]}

Symmetry == Permutations(Installations) \union Permutations(Windows)

InitAll ==
  /\ part \in {"installation", "window", "broker", "dialogue", "form", "controls"}
  /\ InitInstallation /\ InitWindow /\ InitBroker /\ InitDialogue /\ InitForm /\ InitControls
  /\ part # "window" => ~controlled
  /\ part # "controls" => ~browser.focused /\ ~consumer.closed

NextPwa ==
  \/ part = "installation" /\ NextInstallation /\ UNCHANGED <<windowVars, brokerVars>>
  \/ part = "window" /\ NextWindow /\ UNCHANGED <<installationVars, brokerVars>>
  \/ part = "broker" /\ NextBroker /\ UNCHANGED <<installationVars, windowVars>>

NextGame ==
  \/ part = "dialogue" /\ NextDialogue /\ UNCHANGED <<formVars, controlsVars>>
  \/ part = "form" /\ NextForm /\ UNCHANGED <<dialogueVars, controlsVars>>
  \/ part = "controls" /\ NextControls /\ UNCHANGED <<dialogueVars, formVars>>

NextAll ==
  /\ UNCHANGED part
  /\ \/ NextPwa /\ UNCHANGED gameVars
     \/ NextGame /\ UNCHANGED pwaVars

SpecAll ==
  /\ InitAll /\ [][NextAll]_<<part, pwaVars, gameVars>>
  /\ WF_controlsVars(part = "controls" /\ Arrive)
  /\ WF_controlsVars(part = "controls" /\ Expire)
=============================================================================
