------------------------------ MODULE RenderTree ------------------------------
(***************************************************************************)
(* The forest of one Render Domain in the Renderer's store, and the         *)
(* incremental index that its Patches are applied through                   *)
(* (packages/renderer/src/internal/render-store.ts).  A Patch works on a    *)
(* candidate, a copy of the committed replica, one operation at a time; a   *)
(* location in the index says where a node stands, and every operation      *)
(* trusts it.  The candidate is committed after the last operation or       *)
(* thrown away with the first one that is refused, which also ends the Data *)
(* connection; the snapshot of the next one replaces the forest, while the  *)
(* identities of the Domain stay.                                           *)
(*                                                                         *)
(* A replica is [kids, at]: the children of every node and of Root, and the *)
(* index from a key to its [parent, pos].  An identity is [live, consumed]. *)
(* Tags, attributes and data are left out: an operation that is refused for *)
(* what is in them is the choice of RefusePatch.                            *)
(***************************************************************************)
EXTENDS Naturals, Sequences, FiniteSets, SequencesExt

CONSTANTS NodeKeys,     \* the keys of RenderNodes
          Root,         \* stands for parentKey === null
          End,          \* stands for beforeKey === null
          Baselines,    \* the children functions that a snapshot may bring
          MaxPatchOps   \* bound: operations of one Patch

ASSUME RenderTreeAssumption == Root \notin NodeKeys /\ End \notin NodeKeys

VARIABLES replica,      \* the committed DomainReplica
          identity,     \* the committed DomainIdentity
          draft,        \* the candidate [kids, at, live, consumed, ops], or NoDraft
          gone          \* history: keys that were live in a committed replica and then not

treeVars == <<replica, identity, draft, gone>>

NoDraft == [ops |-> "none"]
Patching == draft # NoDraft
Parents == NodeKeys \cup {Root}

(***************************************************************************)
(* Walking a forest.                                                       *)
(***************************************************************************)
\* The key and everything below it.
CollectKeys(kids, key) ==
    LET below[n \in 0 .. Cardinality(NodeKeys)] ==
          IF n = 0 THEN {key}
          ELSE below[n - 1] \cup UNION {ToSet(kids[k]) : k \in below[n - 1]}
    IN  below[Cardinality(NodeKeys)]

\* The index of a whole forest.
IndexTree(kids) ==
    [k \in CollectKeys(kids, Root) \ {Root} |->
       CHOOSE l \in [parent : Parents, pos : 1 .. Cardinality(NodeKeys)] :
         l.pos \in DOMAIN kids[l.parent] /\ kids[l.parent][l.pos] = k]

\* Seeded bug: the node that took the freed or the given position is skipped.
ReindexAfter(at, container, parent, from) ==
    [k \in DOMAIN at |->
       IF \E i \in from + 1 .. Len(container) : container[i] = k
       THEN [parent |-> parent, pos |-> CHOOSE i \in from + 1 .. Len(container) : container[i] = k]
       ELSE at[k]]

\* The positions of a container from "from" on are entered again.
ReindexContainer(at, container, parent, from) ==
    [k \in DOMAIN at |->
       IF \E i \in from .. Len(container) : container[i] = k
       THEN [parent |-> parent, pos |-> CHOOSE i \in from .. Len(container) : container[i] = k]
       ELSE at[k]]

(***************************************************************************)
(* Where an operation puts a node: before a sibling or at the end.          *)
(***************************************************************************)
HasDestination(d, parent, before) ==
    /\ parent \in DOMAIN d.at \cup {Root}
    /\ before # End => before \in DOMAIN d.at /\ d.at[before].parent = parent

Destination(d, parent, before) ==
    IF before = End THEN Len(d.kids[parent]) + 1 ELSE d.at[before].pos

\* A node put into a container, and one taken out of it.
Place(d, key, parent, before) ==
    LET pos == Destination(d, parent, before)
        container == InsertAt(d.kids[parent], pos, key)
    IN  [d EXCEPT !.kids[parent] = container,
                  !.at = ReindexContainer(@, container, parent, pos)]

TakeOut(d, key) ==
    LET l == d.at[key]
        container == RemoveAt(d.kids[l.parent], l.pos)
    IN  [d EXCEPT !.kids[l.parent] = container,
                  !.at = ReindexContainer(@, container, l.parent, l.pos)]

(***************************************************************************)
(* The operations of a Patch on the candidate.                             *)
(***************************************************************************)
MayOperate == Patching /\ draft.ops < MaxPatchOps
Operated(d) == draft' = [d EXCEPT !.ops = @ + 1] /\ UNCHANGED <<replica, identity, gone>>

\* The inserted node comes with the children it has in the message.
InsertApplies(d, key, under, parent, before) ==
    /\ IsInjective(<<key>> \o under)
    /\ ({key} \cup ToSet(under)) \cap (d.live \cup d.consumed) = {}
    /\ HasDestination(d, parent, before)

InsertNode(key, under, parent, before) ==
    LET keys == {key} \cup ToSet(under)
        withNode == [draft EXCEPT
          !.kids[key] = under,
          !.at = [k \in DOMAIN @ \cup keys |->
                    IF k = key THEN [parent |-> parent, pos |-> Destination(draft, parent, before)]
                    ELSE IF k \in keys
                    THEN [parent |-> key, pos |-> CHOOSE i \in DOMAIN under : under[i] = k]
                    ELSE @[k]],
          !.live = @ \cup keys]
    IN  /\ MayOperate
        /\ InsertApplies(draft, key, under, parent, before)
        /\ Operated(Place(withNode, key, parent, before))

\* What a removed subtree leaves behind.
Forgotten(d, keys, top) ==
    [d EXCEPT !.live = @ \ keys, !.consumed = @ \cup keys,
              !.at = Restrict(@, DOMAIN @ \ keys),
              !.kids = [k \in DOMAIN @ |-> IF k \in keys THEN <<>> ELSE @[k]]]

RemoveNode(key) ==
    /\ MayOperate /\ key \in DOMAIN draft.at
    /\ Operated(Forgotten(TakeOut(draft, key), CollectKeys(draft.kids, key), key))

MoveApplies(d, key, parent, before) ==
    /\ before # key /\ parent # key /\ key \in DOMAIN d.at
    /\ {parent, before} \cap CollectKeys(d.kids, key) = {}
    /\ HasDestination(TakeOut(d, key), parent, before)

\* The node leaves its place before its destination is looked up.
MoveNode(key, parent, before) ==
    /\ MayOperate /\ MoveApplies(draft, key, parent, before)
    /\ Operated(Place(TakeOut(draft, key), key, parent, before))

UpdateNode(key) == MayOperate /\ key \in DOMAIN draft.at /\ Operated(draft)

(***************************************************************************)
(* Patches and snapshots.                                                  *)
(***************************************************************************)
Replica(kids) == [kids |-> kids, at |-> IndexTree(kids)]

CommitReplica(r, live, consumed) ==
    /\ replica' = r
    /\ identity' = [live |-> live, consumed |-> consumed]
    /\ gone' = gone \cup (identity.live \ live)
    /\ draft' = NoDraft

\* A Patch that changes the structure starts from a copy of the replica.
BeginPatch ==
    /\ ~Patching
    /\ draft' = [kids |-> replica.kids, at |-> IndexTree(replica.kids),
                 live |-> identity.live, consumed |-> identity.consumed, ops |-> 0]
    /\ UNCHANGED <<replica, identity, gone>>

CommitPatch ==
    /\ Patching /\ draft.ops > 0
    /\ CommitReplica(Replica(draft.kids), draft.live, draft.consumed)

\* The operation refers to what is not there, or to a key already used.
RefusePatch ==
    /\ Patching /\ draft' = NoDraft
    /\ UNCHANGED <<replica, identity, gone>>

\* A Patch of updates alone copies only the paths to its nodes, which it
\* finds through the committed index, and keeps that index.
PathOf(at, key) ==
    LET up[n \in 0 .. Cardinality(NodeKeys)] ==
          IF n = 0 THEN {key} ELSE up[n - 1] \cup {at[k].parent : k \in up[n - 1] \ {Root}}
    IN  up[Cardinality(NodeKeys)] \ {Root}

CommitUpdateOnlyPatch(keys) ==
    LET path == UNION {PathOf(replica.at, k) : k \in keys}
        copied == [p \in Parents |-> [i \in DOMAIN replica.kids[p] |->
                     IF \E k \in path : replica.at[k] = [parent |-> p, pos |-> i]
                     THEN CHOOSE k \in path : replica.at[k] = [parent |-> p, pos |-> i]
                     ELSE replica.kids[p][i]]]
    IN  /\ ~Patching /\ keys \subseteq DOMAIN replica.at
        /\ CommitReplica([replica EXCEPT !.kids = copied], identity.live, identity.consumed)

\* A key of the Domain that the snapshot no longer holds is consumed.
TakeSnapshot(kids) ==
    LET new == CollectKeys(kids, Root) \ {Root}
    IN  /\ ~Patching /\ new \cap identity.consumed = {}
        /\ CommitReplica(Replica(kids), new, identity.consumed \cup (identity.live \ new))

(***************************************************************************)
(* The specification.                                                      *)
(***************************************************************************)
InitTree ==
    /\ replica = Replica([p \in Parents |-> <<>>])
    /\ identity = [live |-> {}, consumed |-> {}]
    /\ draft = NoDraft /\ gone = {}

NextTree ==
    \/ \E key \in NodeKeys, under \in {<<>>} \cup {<<k>> : k \in NodeKeys},
          parent \in Parents, before \in NodeKeys \cup {End} :
         InsertNode(key, under, parent, before)
    \/ \E key \in NodeKeys : RemoveNode(key) \/ UpdateNode(key)
    \/ \E key \in NodeKeys, parent \in Parents, before \in NodeKeys \cup {End} :
         MoveNode(key, parent, before)
    \/ BeginPatch \/ CommitPatch \/ RefusePatch
    \/ \E keys \in SUBSET NodeKeys : CommitUpdateOnlyPatch(keys)
    \/ \E kids \in Baselines : TakeSnapshot(kids)

SpecTree == InitTree /\ [][NextTree]_treeVars

(***************************************************************************)
(* Properties.                                                             *)
(***************************************************************************)
\* The index that a Patch maintains step by step is the index of the forest
\* it has made so far, and the live keys are the nodes of that forest: no
\* operation works on a neighbour of the node it names
\* (render-store.ts:217, 623-674).
LocationsExact ==
    /\ replica.at = IndexTree(replica.kids) /\ identity.live = DOMAIN replica.at
    /\ Patching => draft.at = IndexTree(draft.kids) /\ draft.live = DOMAIN draft.at

\* A key that has once named a node and no longer does never names one again,
\* whichever way its node went: by its own removal, with an ancestor, or by a
\* snapshot that left it out (render-store.ts:388, 649).
KeysNeverReturn == identity.live \cap gone = {}
=============================================================================
