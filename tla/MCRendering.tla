----------------------------- MODULE MCRendering -----------------------------
(***************************************************************************)
(* Rendering, from the Subsystem's Domains to the document: RenderPublica- *)
(* tion brings a Domain to the Renderer's store, RenderTree applies what   *)
(* arrives to the Domain's forest, WebProjector brings the forests into    *)
(* the document.  They share no state but the committed forest, which each *)
(* takes as it comes; one run checks all three, each behaviour going one   *)
(* of the parts.                                                           *)
(***************************************************************************)
EXTENDS RenderPublication, RenderTree, WebProjector, TLC

CONSTANTS map, hud, na, nb, nc, nd, ne      \* model values
VARIABLE part

(* Two subsystems: one whose three nodes are rearranged in every way, and   *)
(* one with a node of its own and a node whose tag is not registered.       *)
MCSubsystems == <<map, hud>>
MCNodesOf == map :> {na, nb, nc} @@ hud :> {nd, ne}
Symmetry == Permutations({na, nb, nc})

(* A snapshot is flat or one node above another.                            *)
Flat(roots) == [p \in Parents |-> IF p = Root THEN roots ELSE <<>>]
MCBaselines ==
  {Flat(s) : s \in {t \in BoundedSeq(NodeKeys, 2) : IsInjective(t)}}
  \cup {[Flat(<<pair[1]>>) EXCEPT ![pair[1]] = <<pair[2]>>] :
          pair \in {q \in NodeKeys \X NodeKeys : q[1] # q[2]}}

InitRendering ==
  /\ part \in {"publication", "tree", "projection"}
  /\ Init /\ InitTree /\ InitProjector
NextRendering ==
  \/ part = "publication" /\ Next /\ UNCHANGED <<part, treeVars, projectorVars>>
  \/ part = "tree" /\ NextTree /\ UNCHANGED <<part, vars, projectorVars>>
  \/ part = "projection" /\ NextProjector /\ UNCHANGED <<part, vars, treeVars>>

SpecRendering ==
  /\ InitRendering /\ [][NextRendering]_<<part, vars, treeVars, projectorVars>>
  /\ []<>(part = "publication" => ~CanProgress) \/ []<><<part = "publication" /\ Progress>>_vars

\* The Domains of the other part have nowhere to go.
ConvergesHere == part = "publication" => Converges
=============================================================================
