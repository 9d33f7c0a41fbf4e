----------------------------- MODULE WebProjector -----------------------------
(***************************************************************************)
(* The Web Projector of the renderer (packages/renderer/src/internal/      *)
(* web-projector.ts): it makes the managed elements of the document follow *)
(* the committed Render trees, by moving still-live elements rather than   *)
(* making them anew.  The document is a tree: the ordered children of the  *)
(* body and of each element.  A reevaluation is one step; within it the    *)
(* operator Reconcile makes the insertBefore and remove calls in the order *)
(* the code makes them, with the effect the DOM gives them: an insertion   *)
(* moves the element out of its old parent, and an insertion of an element *)
(* under one of its own descendants throws.                                *)
(*                                                                         *)
(* A subsystem has one Domain.  Its committed tree is a forest, written as *)
(* the nodes in document order with the depth of each.  Attributes, data   *)
(* and events are left out; they follow the structure in the same call.    *)
(***************************************************************************)
EXTENDS Naturals, Sequences, FiniteSets, SequencesExt

CONSTANTS
  Subsystems,    \* the keys, a sequence in their lexical order
  NodesOf,       \* the Render node keys each of them may use, a function from its key
  Unregistered,  \* nodes whose tag is no registered Custom Element
  Body           \* the document's body

VARIABLES
  standing,   \* of each subsystem: "absent", "frozen" (its authority stands, its carrier does
              \* not) or "eligible"
  forest,     \* its last committed forest
  spent,      \* the node keys it may not use again
  kids,       \* the document: the children of the body and of every element
  live,       \* the nodes that have a live element
  failed,     \* a structural failure ended the projection
  threw       \* the last reevaluation ended in an exception

projectorVars == <<standing, forest, spent, kids, live, failed, threw>>

SubsystemKeys == {Subsystems[i] : i \in DOMAIN Subsystems}
Nodes == UNION {NodesOf[s] : s \in SubsystemKeys}
Places == Nodes \union {Body}
Owner(n) == CHOOSE s \in SubsystemKeys : n \in NodesOf[s]

----------------------------------------------------------------------------
(* Forests.                                                                *)

Empty == [order |-> <<>>, depth |-> <<>>]
Members(f) == {f.order[i] : i \in DOMAIN f.order}

\* The first node is a root, and a node is at most one level below the one before it.
Nested(depth) ==
  \A i \in DOMAIN depth : IF i = 1 THEN depth[i] = 0 ELSE depth[i] <= depth[i - 1] + 1

Arrangements(S) ==
  {q \in UNION {[1 .. n -> S] : n \in 0 .. Cardinality(S)} :
      \A i, j \in DOMAIN q : q[i] = q[j] => i = j}
ForestsOver(S) ==
  UNION {{[order |-> q, depth |-> d] :
            d \in {e \in [DOMAIN q -> 0 .. Cardinality(S)] : Nested(e)}} : q \in Arrangements(S)}

\* i is a proper ancestor of j, by their positions in document order.
Above(f, i, j) == /\ i < j
                  /\ \A k \in (i + 1) .. j : f.depth[k] > f.depth[i]
Under(f, a, b) == \E i, j \in DOMAIN f.order : f.order[i] = a /\ f.order[j] = b /\ Above(f, i, j)

\* The children, in order, of a node of the forest, and its roots.
ChildrenIn(f, n) ==
  SelectSeq(f.order, LAMBDA c : /\ Under(f, n, c)
                                /\ ~\E m \in Members(f) : Under(f, n, m) /\ Under(f, m, c))
RootsOf(f) == SelectSeq(f.order, LAMBDA c : ~\E m \in Members(f) : Under(f, m, c))

\* collectDomain visits the children of a node before it enters the node: the order in
\* which desired.values() gives them.
Before(f, a, b) ==
  LET i == CHOOSE k \in DOMAIN f.order : f.order[k] = a
      j == CHOOSE k \in DOMAIN f.order : f.order[k] = b
  IN IF i < j THEN ~Above(f, i, j) ELSE Above(f, j, i)
Visited(f) == SetToSortSeq(Members(f), LAMBDA a, b : a # b /\ Before(f, a, b))

----------------------------------------------------------------------------
(* The document.                                                           *)

Holder(k, n) == {p \in Places : n \in Range(k[p])}     \* its parentNode, if it has one
\* The nodes at or below n.
Subtree(k, n) ==
  LET Reach[d \in 0 .. Cardinality(Nodes)] ==
        IF d = 0 THEN {n} ELSE Reach[d - 1] \union UNION {Range(k[m]) : m \in Reach[d - 1]}
  IN Reach[Cardinality(Nodes)]
Detach(k, n) == [p \in Places |-> SelectSeq(k[p], LAMBDA c : c # n)]
InsertBefore(k, p, n, before) ==
  LET gone == Detach(k, n)[p]
      at == IF before = Body THEN Len(gone) + 1 ELSE CHOOSE i \in DOMAIN gone : gone[i] = before
  IN [Detach(k, n) EXCEPT ![p] = InsertAt(@, at, n)]
\* nextSibling, the body standing for null.
NextSibling(k, n) ==
  LET p == CHOOSE q \in Holder(k, n) : TRUE
      i == CHOOSE j \in DOMAIN k[p] : k[p][j] = n
  IN IF Holder(k, n) = {} \/ i = Len(k[p]) THEN Body ELSE k[p][i + 1]

----------------------------------------------------------------------------
(* reconcile(view), for the forests w of the subsystems that are eligible  *)
(* and the set of nodes retained for those that are frozen.                *)

\* Seeded bug: an element whose next sibling is right is not moved, whatever its parent.
PlaceOneBySibling(n, acc) ==
  IF acc.threw THEN acc
  ELSE IF NextSibling(acc.kids, n) = acc.before THEN [acc EXCEPT !.before = n]
  ELSE IF acc.into \in Subtree(acc.kids, n) THEN [acc EXCEPT !.threw = TRUE]
  ELSE [acc EXCEPT !.kids = InsertBefore(@, acc.into, n, acc.before), !.before = n]

\* One child, from the last to the first: it is moved unless it already stands right.
PlaceOne(n, acc) ==
  IF acc.threw THEN acc
  ELSE IF Holder(acc.kids, n) = {acc.into} /\ NextSibling(acc.kids, n) = acc.before
       THEN [acc EXCEPT !.before = n]
  ELSE IF acc.into \in Subtree(acc.kids, n) THEN [acc EXCEPT !.threw = TRUE]
  ELSE [acc EXCEPT !.kids = InsertBefore(@, acc.into, n, acc.before), !.before = n]
PlaceChildren(acc, f, n) ==
  FoldRight(PlaceOne, ChildrenIn(f, n), [acc EXCEPT !.into = n, !.before = Body])

\* The roots of the body in their order; a retained one is an anchor and is not touched.
PlaceRoot(acc, n, retained) ==
  IF n \in retained THEN [acc EXCEPT !.before = n] ELSE PlaceOne(n, acc)

RootSequence(k, desired, retained) ==
  FlattenSeq([i \in DOMAIN Subsystems |->
     IF \E n \in retained : Owner(n) = Subsystems[i]
     THEN SelectSeq(k[Body], LAMBDA n : n \in retained /\ Owner(n) = Subsystems[i])
     ELSE RootsOf(desired[Subsystems[i]])])

\* Elements that are neither desired nor retained are removed from the document.
Discard(k, out) == [p \in Places |-> SelectSeq(k[p], LAMBDA c : c \notin out)]

RootsPlaced(acc, desired, retained) ==
  FoldRight(LAMBDA n, a : PlaceRoot(a, n, retained),
            RootSequence(acc.kids, desired, retained), [acc EXCEPT !.into = Body, !.before = Body])
ChildrenPlaced(acc, desired) ==
  FoldLeft(LAMBDA c, s : FoldLeft(LAMBDA a, n : PlaceChildren(a, desired[s], n),
                                  c, Visited(desired[s])),
           acc, Subsystems)
Discarded(k, out) == [kids |-> Discard(k, out), into |-> Body, before |-> Body, threw |-> FALSE]

Reconcile(k, desired, retained, out) ==
  ChildrenPlaced(RootsPlaced(Discarded(k, out), desired, retained), desired)

----------------------------------------------------------------------------

InitProjector ==
  /\ standing = [s \in SubsystemKeys |-> "absent"]
  /\ forest = [s \in SubsystemKeys |-> Empty]
  /\ spent = [s \in SubsystemKeys |-> {}]
  /\ kids = [p \in Places |-> <<>>]
  /\ live = {} /\ failed = FALSE /\ threw = FALSE

\* The elements of the subsystems that are not eligible although their authority stands.
Retained == {n \in live : standing'[Owner(n)] = "frozen"}

\* reevaluate, once the view has become what standing' and forest' say.
Reevaluate ==
  LET desired == [s \in SubsystemKeys |-> IF standing'[s] = "eligible" THEN forest'[s] ELSE Empty]
      wanted == UNION {Members(desired[s]) : s \in SubsystemKeys}
      out == live \ (wanted \union Retained)
      done == Reconcile(kids, desired, Retained, out)
  IN IF failed THEN UNCHANGED <<kids, live, failed, threw>>
     ELSE IF (wanted \ live) \intersect Unregistered # {}
          THEN failed' = TRUE /\ UNCHANGED <<kids, live, threw>>
     ELSE /\ kids' = [p \in Places |-> IF p \in out THEN <<>> ELSE done.kids[p]]
          /\ live' = wanted \union Retained
          /\ threw' = done.threw
          /\ UNCHANGED failed

\* The Render Store of a subsystem commits a forest, or its rebaseline is complete.
\* A key once removed from a Domain is not used again.
CommitForest(s, f) ==
  /\ Members(f) \intersect spent[s] = {}
  /\ standing' = [standing EXCEPT ![s] = "eligible"]
  /\ forest' = [forest EXCEPT ![s] = f]
  /\ spent' = [spent EXCEPT ![s] = @ \union (Members(forest[s]) \ Members(f))]
  /\ Reevaluate

\* The carrier of the subsystem's Data connection is lost, its authority stands.
CarrierLost(s) ==
  /\ standing[s] = "eligible"
  /\ standing' = [standing EXCEPT ![s] = "frozen"]
  /\ UNCHANGED <<forest, spent>>
  /\ Reevaluate

\* A snapshot withdraws the subsystem or replaces its generation: its nodes are new ones
\* when it comes back.
AuthorityEnds(s) ==
  /\ standing[s] # "absent"
  /\ standing' = [standing EXCEPT ![s] = "absent"]
  /\ forest' = [forest EXCEPT ![s] = Empty]
  /\ spent' = [spent EXCEPT ![s] = {}]
  /\ Reevaluate

NextProjector ==
  \E s \in SubsystemKeys :
    \/ \E f \in ForestsOver(NodesOf[s]) : CommitForest(s, f)
    \/ CarrierLost(s)
    \/ AuthorityEnds(s)

SpecProjector == InitProjector /\ [][NextProjector]_projectorVars

----------------------------------------------------------------------------

\* The document shows the committed forest of every eligible subsystem.
Shows(s) ==
  /\ SelectSeq(kids[Body], LAMBDA n : Owner(n) = s) = RootsOf(forest[s])
  /\ \A n \in Members(forest[s]) : kids[n] = ChildrenIn(forest[s], n)
InOrder ==
  \A i, j \in DOMAIN kids[Body] : i < j =>
    \E a, b \in DOMAIN Subsystems :
      a <= b /\ Owner(kids[Body][i]) = Subsystems[a] /\ Owner(kids[Body][j]) = Subsystems[b]

(* After a reevaluation that did not throw, the body holds the roots of    *)
(* the subsystems in the order of their keys and every element holds the   *)
(* children its node has in the committed tree, whatever the elements were *)
(* before: roots that become children, children that become roots, and     *)
(* subtrees whose parent is removed.                                       *)
ProjectedUnlessThrown ==
  ~threw /\ ~failed => InOrder /\ \A s \in SubsystemKeys : standing[s] = "eligible" => Shows(s)

(* "Move/reparent/reorder must move the still-live HTMLElement": the       *)
(* document follows every committed tree (web-presentation-api-v1.md,      *)
(* section 6), so a reevaluation never ends in an exception.               *)
AlwaysProjected == ~threw
============================================================================
