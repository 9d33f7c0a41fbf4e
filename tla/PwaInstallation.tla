---------------------------- MODULE PwaInstallation ----------------------------
(***************************************************************************)
(* The installations of the PWA product (apps/pwa): their records in       *)
(* IndexedDB and their objects in OPFS, shared by every window of the      *)
(* origin, and what a window does with them while it starts - collect what *)
(* earlier windows left, find or make an installation, remember it, open   *)
(* it in the session worker - and while it plays, when the service worker  *)
(* serves the content and executable requests of its runners.              *)
(*                                                                         *)
(* One IndexedDB transaction or one OPFS operation is one step.  A window  *)
(* is closed, reloaded or killed between any two of its steps, which loses *)
(* all it knew; the store is what survives.  The objects of a bundle are   *)
(* the texts the session worker verifies and the bodies the service worker *)
(* serves, one of each.  A bundle that is not well formed is refused       *)
(* before it touches the store, and is left out.                           *)
(***************************************************************************)
EXTENDS Naturals, Sequences, FiniteSets

CONSTANTS
  Windows,         \* the windows (tabs) of the origin
  Installations,   \* the installation identities crypto.randomUUID may give
  NoInstallation,
  MaxBoots,        \* bounds how often windows are opened
  MaxFaults,       \* bounds the storage operations that fail
  MaxDamage,       \* bounds the stored objects that are corrupted
  MaxRemovals      \* bounds the calls of uninstallPwaInstallation

VARIABLES
  records,     \* the state of each installation record, "none" if there is no record
  objects,     \* what OPFS holds under each installation's root
  known,       \* the identity in localStorage
  used,        \* the identities given out
  pc,          \* where each window is
  own,         \* the installation a window installs or plays
  left,        \* the objects a window has still to store
  todo,        \* the installations a window has still to collect
  request,     \* the stage of the request a window's runners have at the service worker
  removal,     \* the installation being uninstalled and the stage
  raced,       \* history: installations a collector listed while their installer lived
  boots, faults, damage, removals

store == <<records, objects, known, used>>
window == <<pc, own, left, todo, request>>
budget == <<boots, faults, damage, removals>>
installationVars == <<store, window, removal, raced, budget>>

StoreOrder == <<"text", "body">>
Objects == {"text", "body"}
Stages == {"closed", "listing", "sweepObjects", "sweepRecord", "ensuring", "staging", "storing",
           "verifying", "publishing", "cleanObjects", "cleanRecord", "remembering", "opening",
           "verifyingTexts", "reopening", "playing", "failed"}
\* The stages at which installPwaBundleRecord holds a staging record it still means to publish.
Installing == {"staging", "storing", "verifying", "publishing"}
NoRemoval == [id |-> NoInstallation, stage |-> "idle"]

InitInstallation ==
  /\ records = [i \in Installations |-> "none"]
  /\ objects = [i \in Installations |-> [o \in Objects |-> "absent"]]
  /\ known = NoInstallation /\ used = {}
  /\ pc = [w \in Windows |-> "closed"]
  /\ own = [w \in Windows |-> NoInstallation]
  /\ left = [w \in Windows |-> <<>>]
  /\ todo = [w \in Windows |-> {}]
  /\ request = [w \in Windows |-> "none"]
  /\ removal = NoRemoval /\ raced = {}
  /\ boots = 0 /\ faults = 0 /\ damage = 0 /\ removals = 0

----------------------------------------------------------------------------
(* The store's operations.                                                 *)

Complete(i) == i # NoInstallation /\ records[i] = "complete"
Collectable == {i \in Installations : records[i] \in {"staging", "invalid"}}

\* A storage operation rejects.
Faulty == /\ faults < MaxFaults
          /\ faults' = faults + 1 /\ UNCHANGED <<boots, damage, removals>>
Sound == UNCHANGED budget

Goto(w, stage) == pc' = [pc EXCEPT ![w] = stage]
Put(i, state) == records' = [records EXCEPT ![i] = state]
Erase(i, gone) == objects' = [objects EXCEPT ![i] =
                                [o \in Objects |-> IF o \in gone THEN "absent" ELSE @[o]]]

\* removeInstallationRecord deletes whatever record has the identity.
RemoveRecord(i) == Put(i, "none")

\* Seeded bug: the complete record is put whatever the transaction reads.
PublishableAnyway(i) == TRUE

\* publishInstallation commits only over the staging record of the same root.
Publishable(i) == records[i] = "staging"

\* markInstallationInvalid: only a complete record of the generation that was read.
MarkInvalid(i) == IF records[i] = "complete" THEN Put(i, "invalid") ELSE UNCHANGED records

----------------------------------------------------------------------------
(* A window starts: collectInstallationGarbage, then ensurePwaBundle.      *)

Boot(w) ==
  /\ pc[w] = "closed" /\ boots < MaxBoots
  /\ boots' = boots + 1
  /\ Goto(w, "listing")
  /\ UNCHANGED <<store, own, left, todo, request, removal, raced, faults, damage, removals>>

\* The window is closed, reloaded or killed: everything in its memory is gone.
Leave(w) ==
  /\ pc[w] # "closed"
  /\ Goto(w, "closed")
  /\ own' = [own EXCEPT ![w] = NoInstallation]
  /\ left' = [left EXCEPT ![w] = <<>>]
  /\ todo' = [todo EXCEPT ![w] = {}]
  /\ request' = [request EXCEPT ![w] = "none"]
  /\ UNCHANGED <<store, removal, raced, budget>>

List(w) ==
  /\ pc[w] = "listing"
  /\ todo' = [todo EXCEPT ![w] = Collectable]
  /\ raced' = raced \union {own[v] : v \in {u \in Windows : pc[u] \in Installing /\ own[u] \in Collectable}}
  /\ Goto(w, "sweepObjects")
  /\ UNCHANGED <<store, own, left, request, removal, budget>>

\* The collector removes the objects of an installation it listed, then its record.
SweepObjects(w) ==
  /\ pc[w] = "sweepObjects" /\ todo[w] # {}
  /\ \E i \in todo[w] :
       \/ /\ Sound
          /\ Erase(i, Objects)
          /\ own' = [own EXCEPT ![w] = i]
          /\ Goto(w, "sweepRecord")
       \/ /\ Faulty
          /\ \E gone \in SUBSET Objects : Erase(i, gone)
          /\ Goto(w, "failed")
          /\ UNCHANGED own
  /\ UNCHANGED <<records, known, used, left, todo, request, removal, raced>>

SweepRecord(w) ==
  /\ pc[w] = "sweepRecord"
  /\ \/ /\ Sound
        /\ RemoveRecord(own[w])
        /\ Goto(w, "sweepObjects")
     \/ /\ Faulty
        /\ Goto(w, "failed")
        /\ UNCHANGED records
  /\ todo' = [todo EXCEPT ![w] = @ \ {own[w]}]
  /\ own' = [own EXCEPT ![w] = NoInstallation]
  /\ UNCHANGED <<objects, known, used, left, request, removal, raced>>

Swept(w) ==
  /\ pc[w] = "sweepObjects" /\ todo[w] = {}
  /\ Goto(w, "ensuring")
  /\ UNCHANGED <<store, own, left, todo, request, removal, raced, budget>>

\* ensurePwaBundle: the remembered installation if it is complete, a fresh identity otherwise.
Reuse(w) ==
  /\ pc[w] = "ensuring" /\ Complete(known)
  /\ own' = [own EXCEPT ![w] = known]
  /\ Goto(w, "remembering")
  /\ UNCHANGED <<store, left, todo, request, removal, raced, budget>>

Register(w) ==
  /\ pc[w] = "ensuring" /\ ~Complete(known)
  /\ \E i \in Installations \ used :
       /\ used' = used \union {i}
       /\ \/ /\ Sound
             /\ Put(i, "staging")
             /\ own' = [own EXCEPT ![w] = i]
             /\ left' = [left EXCEPT ![w] = StoreOrder]
             /\ Goto(w, "staging")
          \/ /\ Faulty
             /\ Goto(w, "failed")
             /\ UNCHANGED <<records, own, left>>
  /\ UNCHANGED <<objects, known, todo, request, removal, raced>>

\* The task boundary after the staging record is visible.
Staged(w) ==
  /\ pc[w] = "staging"
  /\ Goto(w, "storing")
  /\ UNCHANGED <<store, own, left, todo, request, removal, raced, budget>>

\* writeInstallationObject makes the directories it needs.
StoreObject(w) ==
  /\ pc[w] = "storing" /\ left[w] # <<>>
  /\ \/ /\ Sound
        /\ objects' = [objects EXCEPT ![own[w]][Head(left[w])] = "good"]
        /\ Goto(w, "verifying")
     \/ /\ Faulty
        /\ Goto(w, "cleanObjects")
        /\ UNCHANGED objects
  /\ UNCHANGED <<records, known, used, own, left, todo, request, removal, raced>>

\* storeObject reads the object back and compares its hash.
VerifyObject(w) ==
  /\ pc[w] = "verifying"
  /\ IF objects[own[w]][Head(left[w])] = "good"
     THEN /\ left' = [left EXCEPT ![w] = Tail(@)]
          /\ Goto(w, IF Len(left[w]) = 1 THEN "publishing" ELSE "storing")
     ELSE Goto(w, "cleanObjects") /\ UNCHANGED left
  /\ UNCHANGED <<store, own, todo, request, removal, raced, budget>>

Publish(w) ==
  /\ pc[w] = "publishing"
  /\ \/ /\ Publishable(own[w]) /\ Sound
        /\ Put(own[w], "complete")
        /\ Goto(w, "remembering")
     \/ /\ ~Publishable(own[w]) /\ Sound
        /\ Goto(w, "cleanObjects")
        /\ UNCHANGED records
     \/ /\ Faulty
        /\ Goto(w, "cleanObjects")
        /\ UNCHANGED records
  /\ UNCHANGED <<objects, known, used, own, left, todo, request, removal, raced>>

\* The failed installation is undone: objects first, the record only if they are gone.
CleanObjects(w) ==
  /\ pc[w] = "cleanObjects"
  /\ left' = [left EXCEPT ![w] = <<>>]
  /\ \/ /\ Sound
        /\ Erase(own[w], Objects)
        /\ Goto(w, "cleanRecord")
     \/ /\ Faulty
        /\ \E gone \in SUBSET Objects : Erase(own[w], gone)
        /\ Goto(w, "failed")
  /\ UNCHANGED <<records, known, used, own, todo, request, removal, raced>>

CleanRecord(w) ==
  /\ pc[w] = "cleanRecord"
  /\ \/ Sound /\ RemoveRecord(own[w])
     \/ Faulty /\ UNCHANGED records
  /\ Goto(w, "failed")
  /\ UNCHANGED <<objects, known, used, own, left, todo, request, removal, raced>>

\* localStorage.setItem with the identity that will be played.
Remember(w) ==
  /\ pc[w] = "remembering"
  /\ known' = own[w]
  /\ Goto(w, "opening")
  /\ UNCHANGED <<records, objects, used, own, left, todo, request, removal, raced, budget>>

----------------------------------------------------------------------------
(* The session worker opens the published installation, and the service    *)
(* worker serves what its runners ask for.                                 *)

Open(w) ==
  /\ pc[w] = "opening"
  /\ Goto(w, IF Complete(own[w]) THEN "verifyingTexts" ELSE "failed")
  /\ UNCHANGED <<store, own, left, todo, request, removal, raced, budget>>

VerifyTexts(w) ==
  /\ pc[w] = "verifyingTexts"
  /\ Goto(w, IF objects[own[w]]["text"] = "good" THEN "reopening" ELSE "failed")
  /\ UNCHANGED <<store, own, left, todo, request, removal, raced, budget>>

Reopen(w) ==
  /\ pc[w] = "reopening"
  /\ Goto(w, IF Complete(own[w]) THEN "playing" ELSE "failed")
  /\ UNCHANGED <<store, own, left, todo, request, removal, raced, budget>>

\* completeInstallation: the record is read in a transaction of its own.
RequestContent(w) ==
  /\ pc[w] = "playing" /\ request[w] = "none" /\ Complete(own[w])
  /\ request' = [request EXCEPT ![w] = "reading"]
  /\ UNCHANGED <<store, pc, own, left, todo, removal, raced, budget>>

\* Bytes that are missing or whose size or hash is not the index's are never served.
ReadContent(w) ==
  /\ request[w] = "reading"
  /\ \E o \in Objects :
       request' = [request EXCEPT ![w] = IF objects[own[w]][o] = "good" THEN "none" ELSE "marking"]
  /\ UNCHANGED <<store, pc, own, left, todo, removal, raced, budget>>

RefuseContent(w) ==
  /\ request[w] = "marking"
  /\ MarkInvalid(own[w])
  /\ request' = [request EXCEPT ![w] = "none"]
  /\ UNCHANGED <<objects, known, used, pc, own, left, todo, removal, raced, budget>>

----------------------------------------------------------------------------
(* uninstallPwaInstallation, and the storage going bad.                    *)

\* Seeded bug: the record stays complete until its objects are gone.
RetireLater(i) ==
  /\ removal = NoRemoval /\ removals < MaxRemovals
  /\ records[i] \in {"complete", "invalid"}
  /\ removals' = removals + 1
  /\ removal' = [id |-> i, stage |-> "objects"]
  /\ UNCHANGED <<store, window, raced, boots, faults, damage>>

\* retireInstallation takes a complete record out of the publishable set.
Retire(i) ==
  /\ removal = NoRemoval /\ removals < MaxRemovals
  /\ records[i] \in {"complete", "invalid"}
  /\ removals' = removals + 1
  /\ Put(i, "invalid")
  /\ removal' = [id |-> i, stage |-> "objects"]
  /\ UNCHANGED <<objects, known, used, window, raced, boots, faults, damage>>

UninstallObjects ==
  /\ removal.stage = "objects"
  /\ \/ Sound /\ Erase(removal.id, Objects) /\ removal' = [removal EXCEPT !.stage = "record"]
     \/ Faulty /\ removal' = NoRemoval /\ UNCHANGED objects
  /\ UNCHANGED <<records, known, used, window, raced>>

UninstallRecord ==
  /\ removal.stage = "record"
  /\ RemoveRecord(removal.id)
  /\ removal' = NoRemoval
  /\ UNCHANGED <<objects, known, used, window, raced, budget>>

\* The window that uninstalls is closed between two steps.
AbandonRemoval ==
  /\ removal # NoRemoval
  /\ removal' = NoRemoval
  /\ UNCHANGED <<store, window, raced, budget>>

Damage(i, o) ==
  /\ damage < MaxDamage /\ objects[i][o] = "good"
  /\ damage' = damage + 1
  /\ objects' = [objects EXCEPT ![i][o] = "damaged"]
  /\ UNCHANGED <<records, known, used, window, removal, raced, boots, faults, removals>>

WindowStep(w) ==
  \/ List(w) \/ SweepObjects(w) \/ SweepRecord(w) \/ Swept(w)
  \/ Reuse(w) \/ Register(w) \/ Staged(w) \/ StoreObject(w) \/ VerifyObject(w) \/ Publish(w)
  \/ CleanObjects(w) \/ CleanRecord(w) \/ Remember(w)
  \/ Open(w) \/ VerifyTexts(w) \/ Reopen(w)
  \/ RequestContent(w) \/ ReadContent(w) \/ RefuseContent(w)

NextInstallation ==
  \/ \E w \in Windows : Boot(w) \/ Leave(w) \/ WindowStep(w)
  \/ \E i \in Installations : Retire(i) \/ (\E o \in Objects : Damage(i, o))
  \/ UninstallObjects \/ UninstallRecord \/ AbandonRemoval

SpecInstallation == InitInstallation /\ [][NextInstallation]_installationVars

----------------------------------------------------------------------------

InstallationTypeOK ==
  /\ records \in [Installations -> {"none", "staging", "complete", "invalid"}]
  /\ objects \in [Installations -> [Objects -> {"absent", "good", "damaged"}]]
  /\ known \in Installations \union {NoInstallation} /\ used \subseteq Installations
  /\ pc \in [Windows -> Stages]
  /\ own \in [Windows -> Installations \union {NoInstallation}]
  /\ todo \in [Windows -> SUBSET Installations]
  /\ request \in [Windows -> {"none", "reading", "marking"}]
  /\ raced \subseteq Installations

(* A record that says complete has all its objects, whatever crashed or    *)
(* failed while they were stored or removed: "the single complete record   *)
(* write is the installation visibility commit", and retirement comes      *)
(* before removal.  The one exception is the code's own: the collector of  *)
(* another window takes a staging record for a leftover while its          *)
(* installer is still at work.                                             *)
CompleteIsWhole ==
  \A i \in Installations \ raced :
    records[i] = "complete" => \A o \in Objects : objects[i][o] # "absent"

(* Objects in OPFS always have a record that points at them, so that the   *)
(* next window to start can find and remove them: "the non-publishable     *)
(* record remains as a durable retry pointer instead of creating an        *)
(* anonymous leak" - again but for an installation raced by a collector.   *)
NoAnonymousLeak ==
  \A i \in Installations \ raced :
    records[i] = "none" => \A o \in Objects : objects[i][o] = "absent"

(* An installation that was retired, marked invalid or collected is never  *)
(* published again, not even by an installer that was at work while a      *)
(* collector of another window took its record away.                       *)
NoResurrection ==
  [][\A i \in used : records[i] \in {"none", "invalid"} => records'[i] # "complete"]_installationVars
============================================================================
