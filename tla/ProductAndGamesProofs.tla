------------------------ MODULE ProductAndGamesProofs ------------------------
(***************************************************************************)
(* Proofs about the parts that MCProductAndGames puts side by side, and    *)
(* about the hosting of a Runtime by either product.                       *)
(*                                                                         *)
(* The PWA product, for any number of windows, installations, sessions and *)
(* connections: its installations keep what a complete record promises     *)
(* through crashes and collectors, its window runs one session worker at a *)
(* time, and its Data broker overlooks no view of the authority.           *)
(*                                                                         *)
(* The game libraries, for any data, buttons, forms and Conversations: a   *)
(* form's controls work for its newest attempt only and a settled form     *)
(* holds nothing; a Conversation is answered by its own answer, but for    *)
(* one being opened at the same time; and the edges that the controls tell *)
(* are those of their states while they keep the window and the keys.      *)
(*                                                                         *)
(* RuntimeHosting with the Runtime inside it, for any number of planes and *)
(* of Data acquisitions: no Data carrier of a Runtime is left behind,      *)
(* however the end of the Runtime, or of its process, crosses the answers  *)
(* of the platform's Data binding.                                         *)
(***************************************************************************)
EXTENDS PwaInstallation, PwaWindow, PwaDataBroker, SchemaForm, RpgDialogue, ControlsInput,
        RuntimeHosting, FiniteSetTheorems, SequenceTheorems, WellFoundedInduction, TLAPS

----------------------------------------------------------------------------
(* Installations.  A window that makes an installation is its only maker.  *)
(* Whatever a collector listed while the maker lived is raced; the rest of *)
(* what it listed can never become complete, and what an uninstaller took  *)
(* hold of is not complete any more.                                       *)

Undoing == {"cleanObjects", "cleanRecord"}
Making == Installing \union Undoing
Empty(i) == \A o \in Objects : objects[i][o] = "absent"

StoreTypeOK ==
  /\ InstallationTypeOK
  /\ left \in [Windows -> {StoreOrder, <<"body">>, <<>>}]
  /\ removal \in [id : Installations \union {NoInstallation}, stage : {"idle", "objects", "record"}]

\* What is left to store agrees with where the window is.
LeftAgrees ==
  \A w \in Windows :
    /\ pc[w] = "staging" => left[w] = StoreOrder
    /\ pc[w] \in {"storing", "verifying"} => left[w] \in {StoreOrder, <<"body">>}
    /\ pc[w] = "publishing" => left[w] = <<>>

\* An identity that was not given out has nothing in the store.
FreshIsEmpty ==
  \A i \in Installations \ used : records[i] = "none" /\ Empty(i)

\* Windows work with identities that were given out, the makers each with its own.
OwnIsUsed ==
  /\ \A w \in Windows : pc[w] \in Making => own[w] \in used
  /\ \A w \in Windows : todo[w] \subseteq used
  /\ \A v, w \in Windows : pc[v] \in Making /\ pc[w] \in Making /\ own[v] = own[w] => v = w

\* What a maker has is not complete yet; unless it is raced, its record stands
\* and what it stored is there.
MakerHolds ==
  \A w \in Windows :
    /\ pc[w] \in Making => records[own[w]] # "complete"
    /\ pc[w] \in Installing /\ own[w] \notin raced =>
         /\ records[own[w]] = "staging"
         /\ left[w] # StoreOrder => objects[own[w]]["text"] # "absent"
         /\ left[w] = <<>> => objects[own[w]]["body"] # "absent"
    /\ pc[w] = "cleanRecord" /\ own[w] \notin raced => Empty(own[w])

\* What a collector listed is raced or will not be complete.
SweeperHolds ==
  \A v \in Windows :
    /\ \A w \in Windows : pc[w] \in Installing /\ own[w] \in todo[v] => own[w] \in raced
    /\ \A i \in todo[v] \ raced : records[i] # "complete"
    /\ pc[v] = "sweepRecord" =>
         own[v] \in todo[v] /\ (own[v] \notin raced => Empty(own[v]))

RemovalHolds ==
  removal.stage # "idle" =>
    /\ removal.id \in used /\ records[removal.id] \in {"invalid", "none"}
    /\ removal.stage = "record" /\ removal.id \notin raced => Empty(removal.id)

StoreInv ==
  /\ StoreTypeOK /\ LeftAgrees /\ FreshIsEmpty /\ OwnIsUsed
  /\ MakerHolds /\ SweeperHolds /\ RemovalHolds
  /\ CompleteIsWhole /\ NoAnonymousLeak

LEMMA LeftFacts ==
  /\ StoreOrder # <<"body">> /\ StoreOrder # <<>> /\ <<"body">> # <<>>
  /\ Tail(StoreOrder) = <<"body">> /\ Len(StoreOrder) # 1 /\ Head(StoreOrder) = "text"
  /\ Tail(<<"body">>) = <<>> /\ Len(<<"body">>) = 1 /\ Head(<<"body">>) = "body"
<1>1. Len(StoreOrder) = 2 /\ Head(StoreOrder) = "text"
  BY DEF StoreOrder
<1>2. Tail(StoreOrder) = <<"body">>
  BY DEF StoreOrder
<1>3. Len(<<"body">>) = 1 /\ Head(<<"body">>) = "body" /\ Tail(<<"body">>) = <<>> /\ Len(<<>>) = 0
  OBVIOUS
<1>4. StoreOrder # <<"body">> /\ StoreOrder # <<>> /\ <<"body">> # <<>>
  BY <1>1, <1>3
<1>5. Len(StoreOrder) # 1
  BY <1>1
<1> QED BY <1>1, <1>2, <1>3, <1>4, <1>5

\* Erase() takes the objects of one installation, and only those.
LEMMA ErasedObjects ==
  ASSUME InstallationTypeOK, NEW i \in Installations, NEW gone \in SUBSET Objects, Erase(i, gone)
  PROVE  /\ objects' \in [Installations -> [Objects -> {"absent", "good", "damaged"}]]
         /\ \A j \in Installations, o \in Objects :
              objects'[j][o] = IF j = i /\ o \in gone THEN "absent" ELSE objects[j][o]
BY DEF InstallationTypeOK, Erase

LEMMA StoreInit == InitInstallation => StoreInv
BY DEF InitInstallation, StoreInv, StoreTypeOK, InstallationTypeOK, LeftAgrees, FreshIsEmpty,
       OwnIsUsed, MakerHolds, SweeperHolds, RemovalHolds, CompleteIsWhole, NoAnonymousLeak, Empty,
       Making, Installing, Undoing, Objects, Stages, NoRemoval

\* The steps of a window that leave the records and the objects alone.
LEMMA WindowKeepsStore ==
  ASSUME StoreInv, NEW w \in Windows,
         \/ Boot(w) \/ Leave(w) \/ Swept(w) \/ Reuse(w) \/ Staged(w)
         \/ Remember(w) \/ Open(w) \/ VerifyTexts(w) \/ Reopen(w) \/ RequestContent(w) \/ ReadContent(w)
  PROVE  StoreInv'
<1> USE DEF StoreInv, StoreTypeOK, InstallationTypeOK, LeftAgrees, FreshIsEmpty,
       OwnIsUsed, MakerHolds, SweeperHolds, RemovalHolds, CompleteIsWhole, NoAnonymousLeak, Empty,
       Making, Installing, Undoing, Objects, Stages, Goto, store, budget
<1>1. CASE Boot(w)
  BY <1>1 DEF Boot
<1>2. CASE Leave(w)
  BY <1>2 DEF Leave
<1>3. CASE Swept(w)
  BY <1>3 DEF Swept
<1>4. CASE Reuse(w)
  BY <1>4 DEF Reuse, Complete
<1>5. CASE Staged(w)
  BY <1>5 DEF Staged
<1>6. CASE Remember(w)
  BY <1>6 DEF Remember
<1>7. CASE Open(w)
  BY <1>7 DEF Open
<1>8. CASE VerifyTexts(w)
  BY <1>8 DEF VerifyTexts
<1>9. CASE Reopen(w)
  BY <1>9 DEF Reopen
<1>10. CASE RequestContent(w)
  BY <1>10 DEF RequestContent
<1>11. CASE ReadContent(w)
  BY <1>11 DEF ReadContent
<1> QED BY <1>1, <1>2, <1>3, <1>4, <1>5, <1>6, <1>7, <1>8, <1>9, <1>10, <1>11

\* The verified object is one less to store; the last one is followed by the publication.
LEMMA VerifyKeepsStore ==
  ASSUME StoreInv, NEW w \in Windows, VerifyObject(w)
  PROVE  StoreInv'
<1> DEFINE rest == Tail(left[w])
           good == objects[own[w]][Head(left[w])] = "good"
<1>1. left[w] \in {StoreOrder, <<"body">>}
  BY DEF VerifyObject, StoreInv, LeftAgrees
<1>2. /\ rest \in {<<"body">>, <<>>} /\ rest # StoreOrder
      /\ rest = <<>> <=> Len(left[w]) = 1
      /\ rest = <<>> => Head(left[w]) = "body" /\ left[w] # StoreOrder
      /\ rest # <<>> => Head(left[w]) = "text"
  <2>1. CASE left[w] = StoreOrder
    BY <2>1, LeftFacts, Zenon
  <2>2. CASE left[w] = <<"body">>
    BY <2>2, LeftFacts, Zenon
  <2> QED BY <1>1, <2>1, <2>2
<1>3. /\ pc[w] = "verifying" /\ UNCHANGED <<store, own, todo, request, removal, raced, budget>>
      /\ good => /\ left' = [left EXCEPT ![w] = rest]
                 /\ pc' = [pc EXCEPT ![w] = IF rest = <<>> THEN "publishing" ELSE "storing"]
      /\ ~good => UNCHANGED left /\ pc' = [pc EXCEPT ![w] = "cleanObjects"]
  BY <1>2 DEF VerifyObject, Goto
<1> HIDE DEF rest
<1>4. StoreTypeOK'
  <2>1. left' \in [Windows -> {StoreOrder, <<"body">>, <<>>}]
    BY <1>2, <1>3 DEF StoreInv, StoreTypeOK
  <2>2. pc' \in [Windows -> Stages]
    BY <1>3 DEF StoreInv, StoreTypeOK, InstallationTypeOK, Stages
  <2>3. StoreTypeOK
    BY DEF StoreInv
  <2> QED BY <1>3, <2>1, <2>2, <2>3 DEF store, StoreTypeOK, InstallationTypeOK
<1>5. LeftAgrees'
  BY <1>2, <1>3 DEF store, budget, StoreInv, StoreTypeOK, InstallationTypeOK, LeftAgrees
<1>6. FreshIsEmpty'
  BY <1>2, <1>3 DEF store, budget, StoreInv, StoreTypeOK, InstallationTypeOK, FreshIsEmpty,
           OwnIsUsed, SweeperHolds, RemovalHolds, Empty, Objects, Making, Installing, Undoing
<1>7. OwnIsUsed'
  BY <1>2, <1>3 DEF store, budget, StoreInv, StoreTypeOK, InstallationTypeOK, OwnIsUsed,
           SweeperHolds, FreshIsEmpty, Making, Installing, Undoing
<1>8. MakerHolds'
  BY <1>2, <1>3 DEF store, budget, StoreInv, StoreTypeOK, InstallationTypeOK, MakerHolds,
           OwnIsUsed, SweeperHolds, RemovalHolds, LeftAgrees, FreshIsEmpty, Empty, Objects, Making,
           Installing, Undoing
<1>9. SweeperHolds'
  BY <1>2, <1>3 DEF store, budget, StoreInv, StoreTypeOK, InstallationTypeOK, SweeperHolds,
           OwnIsUsed, MakerHolds, RemovalHolds, FreshIsEmpty, Empty, Objects, Making, Installing,
           Undoing
<1>10. RemovalHolds'
  BY <1>2, <1>3 DEF store, budget, StoreInv, StoreTypeOK, InstallationTypeOK, RemovalHolds,
           OwnIsUsed, MakerHolds, SweeperHolds, Empty, Objects, NoRemoval, Making, Installing,
           Undoing
<1>11. CompleteIsWhole'
  BY <1>2, <1>3 DEF store, budget, StoreInv, StoreTypeOK, InstallationTypeOK,
           CompleteIsWhole, MakerHolds, OwnIsUsed, SweeperHolds, RemovalHolds, LeftAgrees, Objects,
           Making, Installing, Undoing
<1>12. NoAnonymousLeak'
  BY <1>2, <1>3 DEF store, budget, StoreInv, StoreTypeOK, InstallationTypeOK,
           NoAnonymousLeak, MakerHolds, OwnIsUsed, SweeperHolds, RemovalHolds, FreshIsEmpty, Empty,
           Objects, Making, Installing, Undoing
<1> QED BY <1>4, <1>5, <1>6, <1>7, <1>8, <1>9, <1>10, <1>11, <1>12 DEF StoreInv

\* The steps of a window that change them.
LEMMA WindowChangesStore ==
  ASSUME StoreInv, NEW w \in Windows,
         \/ List(w) \/ SweepObjects(w) \/ SweepRecord(w) \/ Register(w) \/ StoreObject(w)
         \/ Publish(w) \/ CleanObjects(w) \/ CleanRecord(w) \/ RefuseContent(w)
  PROVE  StoreInv'
<1>1. CASE List(w)
  <2>1. StoreTypeOK'
    BY <1>1 DEF List, Collectable, Goto, store, budget, StoreInv, StoreTypeOK, InstallationTypeOK,
           Stages, Objects, LeftAgrees
  <2>2. LeftAgrees'
    BY <1>1 DEF List, Collectable, Goto, store, budget, StoreInv, StoreTypeOK, InstallationTypeOK,
           LeftAgrees
  <2>3. FreshIsEmpty'
    BY <1>1 DEF List, Collectable, Goto, store, budget, StoreInv, StoreTypeOK, InstallationTypeOK,
           FreshIsEmpty, OwnIsUsed, SweeperHolds, RemovalHolds, Empty, Objects, Making, Installing,
           Undoing
  <2>4. OwnIsUsed'
    BY <1>1 DEF List, Collectable, Goto, store, budget, StoreInv, StoreTypeOK, InstallationTypeOK,
           OwnIsUsed, SweeperHolds, FreshIsEmpty, Making, Installing, Undoing
  <2>5. MakerHolds'
    BY <1>1 DEF List, Collectable, Goto, store, budget, StoreInv, StoreTypeOK, InstallationTypeOK,
           MakerHolds, OwnIsUsed, SweeperHolds, RemovalHolds, LeftAgrees, FreshIsEmpty, Empty,
           Objects, Making, Installing, Undoing
  <2>6. SweeperHolds'
    BY <1>1 DEF List, Collectable, Goto, store, budget, StoreInv, StoreTypeOK, InstallationTypeOK,
           SweeperHolds, OwnIsUsed, MakerHolds, RemovalHolds, FreshIsEmpty, Empty, Objects, Making,
           Installing, Undoing
  <2>7. RemovalHolds'
    BY <1>1 DEF List, Collectable, Goto, store, budget, StoreInv, StoreTypeOK, InstallationTypeOK,
           RemovalHolds, OwnIsUsed, MakerHolds, SweeperHolds, Empty, Objects, NoRemoval, Making,
           Installing, Undoing
  <2>8. CompleteIsWhole'
    BY <1>1 DEF List, Collectable, Goto, store, budget, StoreInv, StoreTypeOK, InstallationTypeOK,
           CompleteIsWhole, MakerHolds, OwnIsUsed, SweeperHolds, RemovalHolds, LeftAgrees, Objects,
           Making, Installing, Undoing
  <2>9. NoAnonymousLeak'
    BY <1>1 DEF List, Collectable, Goto, store, budget, StoreInv, StoreTypeOK, InstallationTypeOK,
           NoAnonymousLeak, MakerHolds, OwnIsUsed, SweeperHolds, RemovalHolds, FreshIsEmpty, Empty,
           Objects, Making, Installing, Undoing
  <2> QED BY <2>1, <2>2, <2>3, <2>4, <2>5, <2>6, <2>7, <2>8, <2>9 DEF StoreInv
<1>2. CASE SweepObjects(w)
  <2>10. PICK i \in todo[w], gone \in SUBSET Objects :
           /\ Erase(i, gone)
           /\ \/ /\ gone = Objects /\ own' = [own EXCEPT ![w] = i]
                 /\ pc' = [pc EXCEPT ![w] = "sweepRecord"]
              \/ UNCHANGED own /\ pc' = [pc EXCEPT ![w] = "failed"]
    BY <1>2 DEF SweepObjects, Goto
  <2>11. pc[w] = "sweepObjects" /\ UNCHANGED <<records, known, used, left, todo, request, removal, raced>>
    BY <1>2 DEF SweepObjects
  <2>12. i \in Installations
    BY DEF StoreInv, StoreTypeOK, InstallationTypeOK
  <2>13. /\ objects' \in [Installations -> [Objects -> {"absent", "good", "damaged"}]]
         /\ \A j \in Installations, o \in Objects :
              objects'[j][o] = IF j = i /\ o \in gone THEN "absent" ELSE objects[j][o]
    BY <2>10, <2>12, ErasedObjects DEF StoreInv, StoreTypeOK
  <2>1. StoreTypeOK'
    BY <2>10, <2>11, <2>12, <2>13 DEF StoreInv, StoreTypeOK,
           InstallationTypeOK, Stages, Objects, LeftAgrees
  <2>2. LeftAgrees'
    BY <2>10, <2>11, <2>12, <2>13 DEF StoreInv, StoreTypeOK,
           InstallationTypeOK, LeftAgrees
  <2>3. FreshIsEmpty'
    BY <2>10, <2>11, <2>12, <2>13 DEF StoreInv, StoreTypeOK,
           InstallationTypeOK, FreshIsEmpty, OwnIsUsed, SweeperHolds, RemovalHolds, Empty, Objects,
           Making, Installing, Undoing
  <2>4. OwnIsUsed'
    <3>1. \A v \in Windows : pc'[v] \in Making => pc[v] \in Making /\ own'[v] = own[v]
      BY <2>10, <2>11 DEF StoreInv, StoreTypeOK, InstallationTypeOK, Making, Installing, Undoing
    <3> QED BY <2>11, <3>1 DEF StoreInv, OwnIsUsed
  <2>5. MakerHolds'
    <3>1. \A v \in Windows : pc'[v] \in Making => pc'[v] = pc[v] /\ own'[v] = own[v]
      BY <2>10, <2>11 DEF StoreInv, StoreTypeOK, InstallationTypeOK, Making, Installing, Undoing
    <3>2. \A v \in Windows : pc[v] \in Making => own[v] \in Installations
      BY DEF StoreInv, StoreTypeOK, InstallationTypeOK, OwnIsUsed
    <3>3. \A v \in Windows : pc[v] \in Installing /\ own[v] \notin raced => own[v] # i
      BY DEF StoreInv, SweeperHolds
    <3> QED BY <2>11, <2>13, <3>1, <3>2, <3>3
            DEF StoreInv, MakerHolds, Empty, Objects, Making, Installing, Undoing
  <2>6. SweeperHolds'
    BY <2>10, <2>11, <2>12, <2>13 DEF StoreInv, StoreTypeOK,
           InstallationTypeOK, SweeperHolds, OwnIsUsed, MakerHolds, RemovalHolds, FreshIsEmpty,
           Empty, Objects, Making, Installing, Undoing
  <2>7. RemovalHolds'
    BY <2>10, <2>11, <2>12, <2>13 DEF StoreInv, StoreTypeOK,
           InstallationTypeOK, RemovalHolds, OwnIsUsed, MakerHolds, SweeperHolds, Empty, Objects,
           NoRemoval, Making, Installing, Undoing
  <2>8. CompleteIsWhole'
    BY <2>10, <2>11, <2>12, <2>13 DEF StoreInv, StoreTypeOK,
           InstallationTypeOK, CompleteIsWhole, MakerHolds, OwnIsUsed, SweeperHolds, RemovalHolds,
           LeftAgrees, Objects, Making, Installing, Undoing
  <2>9. NoAnonymousLeak'
    BY <2>10, <2>11, <2>12, <2>13 DEF StoreInv, StoreTypeOK,
           InstallationTypeOK, NoAnonymousLeak, MakerHolds, OwnIsUsed, SweeperHolds, RemovalHolds,
           FreshIsEmpty, Empty, Objects, Making, Installing, Undoing
  <2> QED BY <2>1, <2>2, <2>3, <2>4, <2>5, <2>6, <2>7, <2>8, <2>9 DEF StoreInv
<1>3. CASE SweepRecord(w)
  <2>1. StoreTypeOK'
    BY <1>3 DEF SweepRecord, Put, RemoveRecord, Goto, store, budget, StoreInv, StoreTypeOK,
           InstallationTypeOK, Stages, Objects, LeftAgrees
  <2>2. LeftAgrees'
    BY <1>3 DEF SweepRecord, Put, RemoveRecord, Goto, store, budget, StoreInv, StoreTypeOK,
           InstallationTypeOK, LeftAgrees
  <2>3. FreshIsEmpty'
    BY <1>3 DEF SweepRecord, Put, RemoveRecord, Goto, store, budget, StoreInv, StoreTypeOK,
           InstallationTypeOK, FreshIsEmpty, OwnIsUsed, SweeperHolds, RemovalHolds, Empty, Objects,
           Making, Installing, Undoing
  <2>4. OwnIsUsed'
    BY <1>3 DEF SweepRecord, Put, RemoveRecord, Goto, store, budget, StoreInv, StoreTypeOK,
           InstallationTypeOK, OwnIsUsed, SweeperHolds, FreshIsEmpty, Making, Installing, Undoing
  <2>5. MakerHolds'
    BY <1>3 DEF SweepRecord, Put, RemoveRecord, Goto, store, budget, StoreInv, StoreTypeOK,
           InstallationTypeOK, MakerHolds, OwnIsUsed, SweeperHolds, RemovalHolds, LeftAgrees,
           FreshIsEmpty, Empty, Objects, Making, Installing, Undoing
  <2>6. SweeperHolds'
    BY <1>3 DEF SweepRecord, Put, RemoveRecord, Goto, store, budget, StoreInv, StoreTypeOK,
           InstallationTypeOK, SweeperHolds, OwnIsUsed, MakerHolds, RemovalHolds, FreshIsEmpty,
           Empty, Objects, Making, Installing, Undoing
  <2>7. RemovalHolds'
    BY <1>3 DEF SweepRecord, Put, RemoveRecord, Goto, store, budget, StoreInv, StoreTypeOK,
           InstallationTypeOK, RemovalHolds, OwnIsUsed, MakerHolds, SweeperHolds, Empty, Objects,
           NoRemoval, Making, Installing, Undoing
  <2>8. CompleteIsWhole'
    BY <1>3 DEF SweepRecord, Put, RemoveRecord, Goto, store, budget, StoreInv, StoreTypeOK,
           InstallationTypeOK, CompleteIsWhole, MakerHolds, OwnIsUsed, SweeperHolds, RemovalHolds,
           LeftAgrees, Objects, Making, Installing, Undoing
  <2>9. NoAnonymousLeak'
    BY <1>3 DEF SweepRecord, Put, RemoveRecord, Goto, store, budget, StoreInv, StoreTypeOK,
           InstallationTypeOK, NoAnonymousLeak, MakerHolds, OwnIsUsed, SweeperHolds, RemovalHolds,
           FreshIsEmpty, Empty, Objects, Making, Installing, Undoing
  <2> QED BY <2>1, <2>2, <2>3, <2>4, <2>5, <2>6, <2>7, <2>8, <2>9 DEF StoreInv
<1>4. CASE Register(w)
  <2>10. PICK i \in Installations \ used :
           /\ used' = used \union {i}
           /\ \/ /\ records' = [records EXCEPT ![i] = "staging"] /\ own' = [own EXCEPT ![w] = i]
                 /\ left' = [left EXCEPT ![w] = StoreOrder] /\ pc' = [pc EXCEPT ![w] = "staging"]
              \/ UNCHANGED <<records, own, left>> /\ pc' = [pc EXCEPT ![w] = "failed"]
    BY <1>4 DEF Register, Goto, Put
  <2>11. pc[w] = "ensuring" /\ UNCHANGED <<objects, known, todo, request, removal, raced>>
    BY <1>4 DEF Register
  <2>1. StoreTypeOK'
    <3>1. StoreTypeOK
      BY DEF StoreInv
    <3>2. /\ records' \in [Installations -> {"none", "staging", "complete", "invalid"}]
          /\ own' \in [Windows -> Installations \union {NoInstallation}]
      <4>1. /\ records \in [Installations -> {"none", "staging", "complete", "invalid"}]
            /\ own \in [Windows -> Installations \union {NoInstallation}]
        BY <3>1 DEF StoreTypeOK, InstallationTypeOK
      <4>2. CASE UNCHANGED <<records, own, left>>
        BY <4>1, <4>2
      <4>3. CASE records' = [records EXCEPT ![i] = "staging"] /\ own' = [own EXCEPT ![w] = i]
        BY <4>1, <4>3
      <4> QED BY <2>10, <4>2, <4>3
    <3>3. left' \in [Windows -> {StoreOrder, <<"body">>, <<>>}] /\ pc' \in [Windows -> Stages]
      BY <2>10, <3>1 DEF StoreTypeOK, InstallationTypeOK, Stages
    <3>4. used' \subseteq Installations
      BY <2>10, <3>1 DEF StoreTypeOK, InstallationTypeOK
    <3> QED BY <2>11, <3>1, <3>2, <3>3, <3>4 DEF StoreTypeOK, InstallationTypeOK
  <2>2. LeftAgrees'
    BY <2>10, <2>11, LeftFacts DEF StoreInv, StoreTypeOK, InstallationTypeOK,
           LeftAgrees
  <2>3. FreshIsEmpty'
    BY <2>10, <2>11, LeftFacts DEF StoreInv, StoreTypeOK, InstallationTypeOK,
           FreshIsEmpty, OwnIsUsed, SweeperHolds, RemovalHolds, Empty, Objects, Making, Installing,
           Undoing
  <2>4. OwnIsUsed'
    <3>1. \A v \in Windows : pc'[v] \in Making =>
            IF v = w THEN own'[v] = i ELSE pc[v] \in Making /\ own'[v] = own[v]
      BY <2>10, <2>11 DEF StoreInv, StoreTypeOK, InstallationTypeOK, Making, Installing, Undoing
    <3>2. \A v \in Windows : pc'[v] \in Making => own'[v] \in used'
      BY <2>10, <3>1 DEF StoreInv, OwnIsUsed
    <3>3. ASSUME NEW u \in Windows, NEW v \in Windows,
                 pc'[u] \in Making, pc'[v] \in Making, own'[u] = own'[v]
          PROVE  u = v
      BY <3>1, <3>3 DEF StoreInv, OwnIsUsed
    <3> QED BY <2>10, <2>11, <3>2, <3>3 DEF StoreInv, OwnIsUsed
  <2>5. MakerHolds'
    BY <2>10, <2>11, LeftFacts DEF StoreInv, StoreTypeOK, InstallationTypeOK,
           MakerHolds, OwnIsUsed, SweeperHolds, RemovalHolds, LeftAgrees, FreshIsEmpty, Empty,
           Objects, Making, Installing, Undoing
  <2>6. SweeperHolds'
    BY <2>10, <2>11, LeftFacts DEF StoreInv, StoreTypeOK, InstallationTypeOK,
           SweeperHolds, OwnIsUsed, MakerHolds, RemovalHolds, FreshIsEmpty, Empty, Objects, Making,
           Installing, Undoing
  <2>7. RemovalHolds'
    BY <2>10, <2>11, LeftFacts DEF StoreInv, StoreTypeOK, InstallationTypeOK,
           RemovalHolds, OwnIsUsed, MakerHolds, SweeperHolds, Empty, Objects, NoRemoval, Making,
           Installing, Undoing
  <2>8. CompleteIsWhole'
    BY <2>10, <2>11, LeftFacts DEF StoreInv, StoreTypeOK, InstallationTypeOK,
           CompleteIsWhole, MakerHolds, OwnIsUsed, SweeperHolds, RemovalHolds, LeftAgrees, Objects,
           Making, Installing, Undoing
  <2>9. NoAnonymousLeak'
    BY <2>10, <2>11, LeftFacts DEF StoreInv, StoreTypeOK, InstallationTypeOK,
           NoAnonymousLeak, MakerHolds, OwnIsUsed, SweeperHolds, RemovalHolds, FreshIsEmpty, Empty,
           Objects, Making, Installing, Undoing
  <2> QED BY <2>1, <2>2, <2>3, <2>4, <2>5, <2>6, <2>7, <2>8, <2>9 DEF StoreInv
<1>5. CASE StoreObject(w)
  <2>10. /\ pc[w] = "storing"
         /\ \E l \in {"verifying", "cleanObjects"} : pc' = [pc EXCEPT ![w] = l]
         /\ UNCHANGED <<records, known, used, own, left, todo, request, removal, raced>>
    BY <1>5 DEF StoreObject, Goto
  <2>11. own[w] \in Installations /\ Head(left[w]) \in Objects
    <3>1. own[w] \in Installations
      BY <2>10 DEF StoreInv, StoreTypeOK, InstallationTypeOK, OwnIsUsed, Making, Installing
    <3>2. left[w] \in {StoreOrder, <<"body">>}
      BY <2>10 DEF StoreInv, LeftAgrees
    <3> QED BY <3>1, <3>2, LeftFacts DEF Objects
  <2>12. /\ objects' \in [Installations -> [Objects -> {"absent", "good", "damaged"}]]
         /\ \A j \in Installations, o \in Objects :
              objects'[j][o] = objects[j][o] \/ (j = own[w] /\ objects'[j][o] = "good")
    <3>0. objects \in [Installations -> [Objects -> {"absent", "good", "damaged"}]]
      BY DEF StoreInv, StoreTypeOK, InstallationTypeOK
    <3>1. CASE objects' = objects
      BY <3>0, <3>1
    <3>2. CASE objects' = [objects EXCEPT ![own[w]][Head(left[w])] = "good"]
      <4> DEFINE h == Head(left[w])
                 cell == [objects[own[w]] EXCEPT ![h] = "good"]
      <4>1. cell \in [Objects -> {"absent", "good", "damaged"}]
        BY <3>0, <2>11
      <4>2. \A o \in Objects : cell[o] = objects[own[w]][o] \/ cell[o] = "good"
        BY <3>0, <2>11
      <4>3. objects' = [objects EXCEPT ![own[w]] = cell]
        BY <3>2
      <4> HIDE DEF cell
      <4> QED BY <3>0, <2>11, <4>1, <4>2, <4>3
    <3> QED BY <1>5, <3>1, <3>2 DEF StoreObject
  <2>1. StoreTypeOK'
    BY <2>10, <2>11, <2>12 DEF StoreInv, StoreTypeOK, InstallationTypeOK,
           Stages, Objects, LeftAgrees
  <2>2. LeftAgrees'
    BY <2>10, <2>11, <2>12 DEF StoreInv, StoreTypeOK, InstallationTypeOK,
           LeftAgrees
  <2>3. FreshIsEmpty'
    BY <2>10, <2>11, <2>12 DEF StoreInv, StoreTypeOK, InstallationTypeOK,
           FreshIsEmpty, OwnIsUsed, SweeperHolds, RemovalHolds, Empty, Objects, Making, Installing,
           Undoing
  <2>4. OwnIsUsed'
    BY <2>10, <2>11, <2>12 DEF StoreInv, StoreTypeOK, InstallationTypeOK,
           OwnIsUsed, SweeperHolds, FreshIsEmpty, Making, Installing, Undoing
  <2>5. MakerHolds'
    BY <2>10, <2>11, <2>12 DEF StoreInv, StoreTypeOK, InstallationTypeOK,
           MakerHolds, OwnIsUsed, SweeperHolds, RemovalHolds, LeftAgrees, FreshIsEmpty, Empty,
           Objects, Making, Installing, Undoing
  <2>6. SweeperHolds'
    <3>1. /\ \A v \in Windows : pc'[v] = "sweepRecord" => pc[v] = "sweepRecord"
          /\ \A v \in Windows : pc'[v] \in Installing => pc[v] \in Installing
      BY <2>10 DEF StoreInv, StoreTypeOK, InstallationTypeOK, Installing
    <3>2. \A v \in Windows : /\ pc[v] = "sweepRecord" /\ own[v] \notin raced
                             => own[v] # own[w] /\ own[v] \in Installations
      BY <2>10, <2>11 DEF StoreInv, StoreTypeOK, InstallationTypeOK, SweeperHolds, Installing
    <3>3. \A v \in Windows : pc'[v] = "sweepRecord" /\ own[v] \notin raced => Empty(own[v])'
      BY <2>10, <2>12, <3>1, <3>2 DEF StoreInv, SweeperHolds, Empty
    <3> QED BY <2>10, <3>1, <3>3 DEF StoreInv, SweeperHolds
  <2>7. RemovalHolds'
    <3>1. removal.stage # "idle" /\ removal.id \notin raced => removal.id # own[w]
      BY <2>10 DEF StoreInv, RemovalHolds, MakerHolds, Installing
    <3>2. removal.stage # "idle" => removal.id \in Installations
      BY DEF StoreInv, StoreTypeOK, InstallationTypeOK, RemovalHolds
    <3>3. removal.stage = "record" /\ removal.id \notin raced => Empty(removal.id)'
      BY <2>10, <2>12, <3>1, <3>2 DEF StoreInv, RemovalHolds, Empty
    <3> QED BY <2>10, <3>3 DEF StoreInv, RemovalHolds
  <2>8. CompleteIsWhole'
    BY <2>10, <2>11, <2>12 DEF StoreInv, StoreTypeOK, InstallationTypeOK,
           CompleteIsWhole, MakerHolds, OwnIsUsed, SweeperHolds, RemovalHolds, LeftAgrees, Objects,
           Making, Installing, Undoing
  <2>9. NoAnonymousLeak'
    BY <2>10, <2>11, <2>12 DEF StoreInv, StoreTypeOK, InstallationTypeOK,
           NoAnonymousLeak, MakerHolds, OwnIsUsed, SweeperHolds, RemovalHolds, FreshIsEmpty, Empty,
           Objects, Making, Installing, Undoing
  <2> QED BY <2>1, <2>2, <2>3, <2>4, <2>5, <2>6, <2>7, <2>8, <2>9 DEF StoreInv
<1>6. CASE Publish(w)
  <2>1. StoreTypeOK'
    BY <1>6, LeftFacts DEF Publish, Publishable, Put, Goto, store, budget, StoreInv, StoreTypeOK,
           InstallationTypeOK, Stages, Objects, LeftAgrees
  <2>2. LeftAgrees'
    BY <1>6, LeftFacts DEF Publish, Publishable, Put, Goto, store, budget, StoreInv, StoreTypeOK,
           InstallationTypeOK, LeftAgrees
  <2>3. FreshIsEmpty'
    BY <1>6, LeftFacts DEF Publish, Publishable, Put, Goto, store, budget, StoreInv, StoreTypeOK,
           InstallationTypeOK, FreshIsEmpty, OwnIsUsed, SweeperHolds, RemovalHolds, Empty, Objects,
           Making, Installing, Undoing
  <2>4. OwnIsUsed'
    <3>1. /\ \A v \in Windows : pc'[v] \in Making => pc[v] \in Making
          /\ UNCHANGED <<own, used, todo>>
      BY <1>6 DEF Publish, Goto, StoreInv, StoreTypeOK, InstallationTypeOK, Making, Installing, Undoing
    <3> QED BY <3>1 DEF StoreInv, OwnIsUsed
  <2>5. MakerHolds'
    BY <1>6, LeftFacts DEF Publish, Publishable, Put, Goto, store, budget, StoreInv, StoreTypeOK,
           InstallationTypeOK, MakerHolds, OwnIsUsed, SweeperHolds, RemovalHolds, LeftAgrees,
           FreshIsEmpty, Empty, Objects, Making, Installing, Undoing
  <2>6. SweeperHolds'
    BY <1>6, LeftFacts DEF Publish, Publishable, Put, Goto, store, budget, StoreInv, StoreTypeOK,
           InstallationTypeOK, SweeperHolds, OwnIsUsed, MakerHolds, RemovalHolds, FreshIsEmpty,
           Empty, Objects, Making, Installing, Undoing
  <2>7. RemovalHolds'
    BY <1>6, LeftFacts DEF Publish, Publishable, Put, Goto, store, budget, StoreInv, StoreTypeOK,
           InstallationTypeOK, RemovalHolds, OwnIsUsed, MakerHolds, SweeperHolds, Empty, Objects,
           NoRemoval, Making, Installing, Undoing
  <2>8. CompleteIsWhole'
    BY <1>6, LeftFacts DEF Publish, Publishable, Put, Goto, store, budget, StoreInv, StoreTypeOK,
           InstallationTypeOK, CompleteIsWhole, MakerHolds, OwnIsUsed, SweeperHolds, RemovalHolds,
           LeftAgrees, Objects, Making, Installing, Undoing
  <2>9. NoAnonymousLeak'
    BY <1>6, LeftFacts DEF Publish, Publishable, Put, Goto, store, budget, StoreInv, StoreTypeOK,
           InstallationTypeOK, NoAnonymousLeak, MakerHolds, OwnIsUsed, SweeperHolds, RemovalHolds,
           FreshIsEmpty, Empty, Objects, Making, Installing, Undoing
  <2> QED BY <2>1, <2>2, <2>3, <2>4, <2>5, <2>6, <2>7, <2>8, <2>9 DEF StoreInv
<1>7. CASE CleanObjects(w)
  <2>10. PICK gone \in SUBSET Objects :
           /\ Erase(own[w], gone)
           /\ \/ gone = Objects /\ pc' = [pc EXCEPT ![w] = "cleanRecord"]
              \/ pc' = [pc EXCEPT ![w] = "failed"]
    BY <1>7 DEF CleanObjects, Goto
  <2>11. /\ pc[w] = "cleanObjects" /\ left' = [left EXCEPT ![w] = <<>>]
         /\ UNCHANGED <<records, known, used, own, todo, request, removal, raced>>
    BY <1>7 DEF CleanObjects
  <2>12. own[w] \in Installations
    BY <2>11 DEF StoreInv, StoreTypeOK, InstallationTypeOK, OwnIsUsed, Making, Undoing
  <2>13. /\ objects' \in [Installations -> [Objects -> {"absent", "good", "damaged"}]]
         /\ \A j \in Installations, o \in Objects :
              objects'[j][o] = IF j = own[w] /\ o \in gone THEN "absent" ELSE objects[j][o]
    BY <2>10, <2>12, ErasedObjects DEF StoreInv, StoreTypeOK
  <2>1. StoreTypeOK'
    <3>1. StoreTypeOK
      BY DEF StoreInv
    <3>2. left' \in [Windows -> {StoreOrder, <<"body">>, <<>>}] /\ pc' \in [Windows -> Stages]
      BY <2>10, <2>11, <3>1 DEF StoreTypeOK, InstallationTypeOK, Stages
    <3> QED BY <2>11, <2>13, <3>1, <3>2 DEF StoreTypeOK, InstallationTypeOK
  <2>2. LeftAgrees'
    BY <2>10, <2>11, <2>12, <2>13 DEF StoreInv, StoreTypeOK,
           InstallationTypeOK, LeftAgrees
  <2>3. FreshIsEmpty'
    BY <2>10, <2>11, <2>12, <2>13 DEF StoreInv, StoreTypeOK,
           InstallationTypeOK, FreshIsEmpty, OwnIsUsed, SweeperHolds, RemovalHolds, Empty, Objects,
           Making, Installing, Undoing
  <2>4. OwnIsUsed'
    <3>1. \A v \in Windows : pc'[v] \in Making => pc[v] \in Making
      BY <2>10, <2>11 DEF StoreInv, StoreTypeOK, InstallationTypeOK, Making, Installing, Undoing
    <3> QED BY <2>11, <3>1 DEF StoreInv, OwnIsUsed
  <2>5. MakerHolds'
    BY <2>10, <2>11, <2>12, <2>13 DEF StoreInv, StoreTypeOK,
           InstallationTypeOK, MakerHolds, OwnIsUsed, SweeperHolds, RemovalHolds, LeftAgrees,
           FreshIsEmpty, Empty, Objects, Making, Installing, Undoing
  <2>6. SweeperHolds'
    BY <2>10, <2>11, <2>12, <2>13 DEF StoreInv, StoreTypeOK,
           InstallationTypeOK, SweeperHolds, OwnIsUsed, MakerHolds, RemovalHolds, FreshIsEmpty,
           Empty, Objects, Making, Installing, Undoing
  <2>7. RemovalHolds'
    <3>1. removal.stage # "idle" => removal.id \in Installations
      BY DEF StoreInv, StoreTypeOK, InstallationTypeOK, RemovalHolds
    <3> QED BY <2>11, <2>13, <3>1 DEF StoreInv, RemovalHolds, Empty
  <2>8. CompleteIsWhole'
    <3>1. records[own[w]] # "complete"
      BY <2>11 DEF StoreInv, MakerHolds, Making, Undoing
    <3> QED BY <2>11, <2>13, <3>1 DEF StoreInv, CompleteIsWhole
  <2>9. NoAnonymousLeak'
    BY <2>10, <2>11, <2>12, <2>13 DEF StoreInv, StoreTypeOK,
           InstallationTypeOK, NoAnonymousLeak, MakerHolds, OwnIsUsed, SweeperHolds, RemovalHolds,
           FreshIsEmpty, Empty, Objects, Making, Installing, Undoing
  <2> QED BY <2>1, <2>2, <2>3, <2>4, <2>5, <2>6, <2>7, <2>8, <2>9 DEF StoreInv
<1>8. CASE CleanRecord(w)
  <2>1. StoreTypeOK'
    BY <1>8 DEF CleanRecord, Put, RemoveRecord, Goto, store, budget, StoreInv, StoreTypeOK,
           InstallationTypeOK, Stages, Objects, LeftAgrees
  <2>2. LeftAgrees'
    BY <1>8 DEF CleanRecord, Put, RemoveRecord, Goto, store, budget, StoreInv, StoreTypeOK,
           InstallationTypeOK, LeftAgrees
  <2>3. FreshIsEmpty'
    BY <1>8 DEF CleanRecord, Put, RemoveRecord, Goto, store, budget, StoreInv, StoreTypeOK,
           InstallationTypeOK, FreshIsEmpty, OwnIsUsed, SweeperHolds, RemovalHolds, Empty, Objects,
           Making, Installing, Undoing
  <2>4. OwnIsUsed'
    BY <1>8 DEF CleanRecord, Put, RemoveRecord, Goto, store, budget, StoreInv, StoreTypeOK,
           InstallationTypeOK, OwnIsUsed, SweeperHolds, FreshIsEmpty, Making, Installing, Undoing
  <2>5. MakerHolds'
    BY <1>8 DEF CleanRecord, Put, RemoveRecord, Goto, store, budget, StoreInv, StoreTypeOK,
           InstallationTypeOK, MakerHolds, OwnIsUsed, SweeperHolds, RemovalHolds, LeftAgrees,
           FreshIsEmpty, Empty, Objects, Making, Installing, Undoing
  <2>6. SweeperHolds'
    BY <1>8 DEF CleanRecord, Put, RemoveRecord, Goto, store, budget, StoreInv, StoreTypeOK,
           InstallationTypeOK, SweeperHolds, OwnIsUsed, MakerHolds, RemovalHolds, FreshIsEmpty,
           Empty, Objects, Making, Installing, Undoing
  <2>7. RemovalHolds'
    BY <1>8 DEF CleanRecord, Put, RemoveRecord, Goto, store, budget, StoreInv, StoreTypeOK,
           InstallationTypeOK, RemovalHolds, OwnIsUsed, MakerHolds, SweeperHolds, Empty, Objects,
           NoRemoval, Making, Installing, Undoing
  <2>8. CompleteIsWhole'
    BY <1>8 DEF CleanRecord, Put, RemoveRecord, Goto, store, budget, StoreInv, StoreTypeOK,
           InstallationTypeOK, CompleteIsWhole, MakerHolds, OwnIsUsed, SweeperHolds, RemovalHolds,
           LeftAgrees, Objects, Making, Installing, Undoing
  <2>9. NoAnonymousLeak'
    BY <1>8 DEF CleanRecord, Put, RemoveRecord, Goto, store, budget, StoreInv, StoreTypeOK,
           InstallationTypeOK, NoAnonymousLeak, MakerHolds, OwnIsUsed, SweeperHolds, RemovalHolds,
           FreshIsEmpty, Empty, Objects, Making, Installing, Undoing
  <2> QED BY <2>1, <2>2, <2>3, <2>4, <2>5, <2>6, <2>7, <2>8, <2>9 DEF StoreInv
<1>9. CASE RefuseContent(w)
  <2>1. StoreTypeOK'
    BY <1>9 DEF RefuseContent, MarkInvalid, Put, Goto, store, budget, StoreInv, StoreTypeOK,
           InstallationTypeOK, Stages, Objects, LeftAgrees
  <2>2. LeftAgrees'
    BY <1>9 DEF RefuseContent, MarkInvalid, Put, Goto, store, budget, StoreInv, StoreTypeOK,
           InstallationTypeOK, LeftAgrees
  <2>3. FreshIsEmpty'
    BY <1>9 DEF RefuseContent, MarkInvalid, Put, Goto, store, budget, StoreInv, StoreTypeOK,
           InstallationTypeOK, FreshIsEmpty, OwnIsUsed, SweeperHolds, RemovalHolds, Empty, Objects,
           Making, Installing, Undoing
  <2>4. OwnIsUsed'
    BY <1>9 DEF RefuseContent, MarkInvalid, Put, Goto, store, budget, StoreInv, StoreTypeOK,
           InstallationTypeOK, OwnIsUsed, SweeperHolds, FreshIsEmpty, Making, Installing, Undoing
  <2>5. MakerHolds'
    BY <1>9 DEF RefuseContent, MarkInvalid, Put, Goto, store, budget, StoreInv, StoreTypeOK,
           InstallationTypeOK, MakerHolds, OwnIsUsed, SweeperHolds, RemovalHolds, LeftAgrees,
           FreshIsEmpty, Empty, Objects, Making, Installing, Undoing
  <2>6. SweeperHolds'
    BY <1>9 DEF RefuseContent, MarkInvalid, Put, Goto, store, budget, StoreInv, StoreTypeOK,
           InstallationTypeOK, SweeperHolds, OwnIsUsed, MakerHolds, RemovalHolds, FreshIsEmpty,
           Empty, Objects, Making, Installing, Undoing
  <2>7. RemovalHolds'
    BY <1>9 DEF RefuseContent, MarkInvalid, Put, Goto, store, budget, StoreInv, StoreTypeOK,
           InstallationTypeOK, RemovalHolds, OwnIsUsed, MakerHolds, SweeperHolds, Empty, Objects,
           NoRemoval, Making, Installing, Undoing
  <2>8. CompleteIsWhole'
    BY <1>9 DEF RefuseContent, MarkInvalid, Put, Goto, store, budget, StoreInv, StoreTypeOK,
           InstallationTypeOK, CompleteIsWhole, MakerHolds, OwnIsUsed, SweeperHolds, RemovalHolds,
           LeftAgrees, Objects, Making, Installing, Undoing
  <2>9. NoAnonymousLeak'
    BY <1>9 DEF RefuseContent, MarkInvalid, Put, Goto, store, budget, StoreInv, StoreTypeOK,
           InstallationTypeOK, NoAnonymousLeak, MakerHolds, OwnIsUsed, SweeperHolds, RemovalHolds,
           FreshIsEmpty, Empty, Objects, Making, Installing, Undoing
  <2> QED BY <2>1, <2>2, <2>3, <2>4, <2>5, <2>6, <2>7, <2>8, <2>9 DEF StoreInv
<1> QED BY <1>1, <1>2, <1>3, <1>4, <1>5, <1>6, <1>7, <1>8, <1>9

\* An uninstall, and a stored object going bad.
LEMMA RemovalChangesStore ==
  ASSUME StoreInv,
         \/ \E i \in Installations : Retire(i) \/ (\E o \in Objects : Damage(i, o))
         \/ UninstallObjects \/ UninstallRecord \/ AbandonRemoval
  PROVE  StoreInv'
<1>1. ASSUME NEW i \in Installations, Retire(i) PROVE StoreInv'
  <2>1. StoreTypeOK'
    BY <1>1 DEF Retire, Put, store, window, budget, StoreInv, StoreTypeOK, InstallationTypeOK,
           Stages, Objects, LeftAgrees
  <2>2. LeftAgrees'
    BY <1>1 DEF Retire, Put, store, window, budget, StoreInv, StoreTypeOK, InstallationTypeOK,
           LeftAgrees
  <2>3. FreshIsEmpty'
    BY <1>1 DEF Retire, Put, store, window, budget, StoreInv, StoreTypeOK, InstallationTypeOK,
           FreshIsEmpty, OwnIsUsed, SweeperHolds, RemovalHolds, Empty, Objects, Making, Installing,
           Undoing
  <2>4. OwnIsUsed'
    BY <1>1 DEF Retire, Put, store, window, budget, StoreInv, StoreTypeOK, InstallationTypeOK,
           OwnIsUsed, SweeperHolds, FreshIsEmpty, Making, Installing, Undoing
  <2>5. MakerHolds'
    BY <1>1 DEF Retire, Put, store, window, budget, StoreInv, StoreTypeOK, InstallationTypeOK,
           MakerHolds, OwnIsUsed, SweeperHolds, RemovalHolds, LeftAgrees, FreshIsEmpty, Empty,
           Objects, Making, Installing, Undoing
  <2>6. SweeperHolds'
    BY <1>1 DEF Retire, Put, store, window, budget, StoreInv, StoreTypeOK, InstallationTypeOK,
           SweeperHolds, OwnIsUsed, MakerHolds, RemovalHolds, FreshIsEmpty, Empty, Objects, Making,
           Installing, Undoing
  <2>7. RemovalHolds'
    BY <1>1 DEF FreshIsEmpty, Retire, Put, store, window, budget, StoreInv, StoreTypeOK, InstallationTypeOK,
           RemovalHolds, OwnIsUsed, MakerHolds, SweeperHolds, Empty, Objects, NoRemoval, Making,
           Installing, Undoing
  <2>8. CompleteIsWhole'
    BY <1>1 DEF Retire, Put, store, window, budget, StoreInv, StoreTypeOK, InstallationTypeOK,
           CompleteIsWhole, MakerHolds, OwnIsUsed, SweeperHolds, RemovalHolds, LeftAgrees, Objects,
           Making, Installing, Undoing
  <2>9. NoAnonymousLeak'
    BY <1>1 DEF Retire, Put, store, window, budget, StoreInv, StoreTypeOK, InstallationTypeOK,
           NoAnonymousLeak, MakerHolds, OwnIsUsed, SweeperHolds, RemovalHolds, FreshIsEmpty, Empty,
           Objects, Making, Installing, Undoing
  <2> QED BY <2>1, <2>2, <2>3, <2>4, <2>5, <2>6, <2>7, <2>8, <2>9 DEF StoreInv
<1>2. ASSUME NEW i \in Installations, NEW o \in Objects, Damage(i, o) PROVE StoreInv'
  <2>1. StoreTypeOK'
    BY <1>2 DEF Damage, store, window, budget, StoreInv, StoreTypeOK, InstallationTypeOK, Stages,
           Objects, LeftAgrees
  <2>2. LeftAgrees'
    BY <1>2 DEF Damage, store, window, budget, StoreInv, StoreTypeOK, InstallationTypeOK,
           LeftAgrees
  <2>3. FreshIsEmpty'
    BY <1>2 DEF Damage, store, window, budget, StoreInv, StoreTypeOK, InstallationTypeOK,
           FreshIsEmpty, OwnIsUsed, SweeperHolds, RemovalHolds, Empty, Objects, Making, Installing,
           Undoing
  <2>4. OwnIsUsed'
    BY <1>2 DEF Damage, store, window, budget, StoreInv, StoreTypeOK, InstallationTypeOK,
           OwnIsUsed, SweeperHolds, FreshIsEmpty, Making, Installing, Undoing
  <2>5. MakerHolds'
    BY <1>2 DEF Damage, store, window, budget, StoreInv, StoreTypeOK, InstallationTypeOK,
           MakerHolds, OwnIsUsed, SweeperHolds, RemovalHolds, LeftAgrees, FreshIsEmpty, Empty,
           Objects, Making, Installing, Undoing
  <2>6. SweeperHolds'
    BY <1>2 DEF Damage, store, window, budget, StoreInv, StoreTypeOK, InstallationTypeOK,
           SweeperHolds, OwnIsUsed, MakerHolds, RemovalHolds, FreshIsEmpty, Empty, Objects, Making,
           Installing, Undoing
  <2>7. RemovalHolds'
    BY <1>2 DEF Damage, store, window, budget, StoreInv, StoreTypeOK, InstallationTypeOK,
           RemovalHolds, OwnIsUsed, MakerHolds, SweeperHolds, Empty, Objects, NoRemoval, Making,
           Installing, Undoing
  <2>8. CompleteIsWhole'
    BY <1>2 DEF Damage, store, window, budget, StoreInv, StoreTypeOK, InstallationTypeOK,
           CompleteIsWhole, MakerHolds, OwnIsUsed, SweeperHolds, RemovalHolds, LeftAgrees, Objects,
           Making, Installing, Undoing
  <2>9. NoAnonymousLeak'
    BY <1>2 DEF Damage, store, window, budget, StoreInv, StoreTypeOK, InstallationTypeOK,
           NoAnonymousLeak, MakerHolds, OwnIsUsed, SweeperHolds, RemovalHolds, FreshIsEmpty, Empty,
           Objects, Making, Installing, Undoing
  <2> QED BY <2>1, <2>2, <2>3, <2>4, <2>5, <2>6, <2>7, <2>8, <2>9 DEF StoreInv
<1>3. CASE UninstallObjects
  <2>10. /\ removal.stage = "objects" /\ UNCHANGED <<records, known, used, window, raced>>
         /\ \/ Erase(removal.id, Objects) /\ removal' = [removal EXCEPT !.stage = "record"]
            \/ UNCHANGED objects /\ removal' = NoRemoval
    BY <1>3 DEF UninstallObjects
  <2>11. removal.id \in Installations
    BY <2>10 DEF StoreInv, StoreTypeOK, InstallationTypeOK, RemovalHolds
  <2>12. /\ objects' \in [Installations -> [Objects -> {"absent", "good", "damaged"}]]
         /\ \A j \in Installations, o \in Objects :
              objects'[j][o] = objects[j][o] \/ (j = removal.id /\ objects'[j][o] = "absent")
    <3>1. InstallationTypeOK
      BY DEF StoreInv, StoreTypeOK
    <3>2. objects \in [Installations -> [Objects -> {"absent", "good", "damaged"}]]
      BY <3>1 DEF InstallationTypeOK
    <3>3. CASE Erase(removal.id, Objects)
      <4>1. Objects \in SUBSET Objects
        OBVIOUS
      <4> QED BY <2>11, <3>1, <3>3, <4>1, ErasedObjects
    <3> QED BY <2>10, <3>2, <3>3
  <2>13. removal' # NoRemoval =>
           /\ removal' = [removal EXCEPT !.stage = "record"]
           /\ \A o \in Objects : objects'[removal.id][o] = "absent"
    BY <2>10, <2>11, ErasedObjects DEF StoreInv, StoreTypeOK
  <2>1. StoreTypeOK'
    BY <2>10, <2>11, <2>12, <2>13 DEF NoRemoval, window, StoreInv, StoreTypeOK,
           InstallationTypeOK, Stages, Objects, LeftAgrees
  <2>2. LeftAgrees'
    BY <2>10, <2>11, <2>12, <2>13 DEF NoRemoval, window, StoreInv, StoreTypeOK,
           InstallationTypeOK, LeftAgrees
  <2>3. FreshIsEmpty'
    BY <2>10, <2>11, <2>12, <2>13 DEF NoRemoval, window, StoreInv, StoreTypeOK,
           InstallationTypeOK, FreshIsEmpty, OwnIsUsed, SweeperHolds, RemovalHolds, Empty, Objects,
           Making, Installing, Undoing
  <2>4. OwnIsUsed'
    BY <2>10, <2>11, <2>12, <2>13 DEF NoRemoval, window, StoreInv, StoreTypeOK,
           InstallationTypeOK, OwnIsUsed, SweeperHolds, FreshIsEmpty, Making, Installing, Undoing
  <2>5. MakerHolds'
    BY <2>10, <2>11, <2>12, <2>13 DEF NoRemoval, window, StoreInv, StoreTypeOK,
           InstallationTypeOK, MakerHolds, OwnIsUsed, SweeperHolds, RemovalHolds, LeftAgrees,
           FreshIsEmpty, Empty, Objects, Making, Installing, Undoing
  <2>6. SweeperHolds'
    <3>1. UNCHANGED <<records, window, raced>> /\ removal.id \in Installations
      BY <1>3 DEF UninstallObjects, StoreInv, StoreTypeOK, InstallationTypeOK, RemovalHolds
    <3>2. \A j \in Installations, o \in Objects : objects[j][o] = "absent" => objects'[j][o] = "absent"
      BY <1>3 DEF UninstallObjects, Erase, StoreInv, StoreTypeOK, InstallationTypeOK
    <3> QED BY <3>1, <3>2 DEF window, StoreInv, StoreTypeOK, InstallationTypeOK, SweeperHolds, Empty
  <2>7. RemovalHolds'
    <3>1. removal'.stage # "idle" => removal' = [removal EXCEPT !.stage = "record"]
      BY <2>13 DEF NoRemoval
    <3>2. removal'.stage # "idle" => removal'.id = removal.id /\ Empty(removal.id)'
      BY <2>13, <3>1 DEF NoRemoval, StoreInv, StoreTypeOK, Empty
    <3> QED BY <2>10, <3>2 DEF StoreInv, RemovalHolds
  <2>8. CompleteIsWhole'
    <3>1. records[removal.id] # "complete"
      BY <2>10 DEF StoreInv, RemovalHolds
    <3> QED BY <2>10, <2>12, <3>1 DEF StoreInv, CompleteIsWhole
  <2>9. NoAnonymousLeak'
    BY <2>10, <2>11, <2>12, <2>13 DEF NoRemoval, window, StoreInv, StoreTypeOK,
           InstallationTypeOK, NoAnonymousLeak, MakerHolds, OwnIsUsed, SweeperHolds, RemovalHolds,
           FreshIsEmpty, Empty, Objects, Making, Installing, Undoing
  <2> QED BY <2>1, <2>2, <2>3, <2>4, <2>5, <2>6, <2>7, <2>8, <2>9 DEF StoreInv
<1>4. CASE UninstallRecord
  <2>1. StoreTypeOK'
    BY <1>4 DEF UninstallRecord, Put, RemoveRecord, NoRemoval, store, window, budget, StoreInv,
           StoreTypeOK, InstallationTypeOK, Stages, Objects, LeftAgrees
  <2>2. LeftAgrees'
    BY <1>4 DEF UninstallRecord, Put, RemoveRecord, NoRemoval, store, window, budget, StoreInv,
           StoreTypeOK, InstallationTypeOK, LeftAgrees
  <2>3. FreshIsEmpty'
    BY <1>4 DEF UninstallRecord, Put, RemoveRecord, NoRemoval, store, window, budget, StoreInv,
           StoreTypeOK, InstallationTypeOK, FreshIsEmpty, OwnIsUsed, SweeperHolds, RemovalHolds,
           Empty, Objects, Making, Installing, Undoing
  <2>4. OwnIsUsed'
    BY <1>4 DEF UninstallRecord, Put, RemoveRecord, NoRemoval, store, window, budget, StoreInv,
           StoreTypeOK, InstallationTypeOK, OwnIsUsed, SweeperHolds, FreshIsEmpty, Making,
           Installing, Undoing
  <2>5. MakerHolds'
    BY <1>4 DEF UninstallRecord, Put, RemoveRecord, NoRemoval, store, window, budget, StoreInv,
           StoreTypeOK, InstallationTypeOK, MakerHolds, OwnIsUsed, SweeperHolds, RemovalHolds,
           LeftAgrees, FreshIsEmpty, Empty, Objects, Making, Installing, Undoing
  <2>6. SweeperHolds'
    BY <1>4 DEF UninstallRecord, Put, RemoveRecord, NoRemoval, store, window, budget, StoreInv,
           StoreTypeOK, InstallationTypeOK, SweeperHolds, OwnIsUsed, MakerHolds, RemovalHolds,
           FreshIsEmpty, Empty, Objects, Making, Installing, Undoing
  <2>7. RemovalHolds'
    BY <1>4 DEF UninstallRecord, Put, RemoveRecord, NoRemoval, store, window, budget, StoreInv,
           StoreTypeOK, InstallationTypeOK, RemovalHolds, OwnIsUsed, MakerHolds, SweeperHolds,
           Empty, Objects, NoRemoval, Making, Installing, Undoing
  <2>8. CompleteIsWhole'
    BY <1>4 DEF UninstallRecord, Put, RemoveRecord, NoRemoval, store, window, budget, StoreInv,
           StoreTypeOK, InstallationTypeOK, CompleteIsWhole, MakerHolds, OwnIsUsed, SweeperHolds,
           RemovalHolds, LeftAgrees, Objects, Making, Installing, Undoing
  <2>9. NoAnonymousLeak'
    BY <1>4 DEF UninstallRecord, Put, RemoveRecord, NoRemoval, store, window, budget, StoreInv,
           StoreTypeOK, InstallationTypeOK, NoAnonymousLeak, MakerHolds, OwnIsUsed, SweeperHolds,
           RemovalHolds, FreshIsEmpty, Empty, Objects, Making, Installing, Undoing
  <2> QED BY <2>1, <2>2, <2>3, <2>4, <2>5, <2>6, <2>7, <2>8, <2>9 DEF StoreInv
<1>5. CASE AbandonRemoval
  <2>1. StoreTypeOK'
    BY <1>5 DEF AbandonRemoval, NoRemoval, store, window, budget, StoreInv, StoreTypeOK,
           InstallationTypeOK, Stages, Objects, LeftAgrees
  <2>2. LeftAgrees'
    BY <1>5 DEF AbandonRemoval, NoRemoval, store, window, budget, StoreInv, StoreTypeOK,
           InstallationTypeOK, LeftAgrees
  <2>3. FreshIsEmpty'
    BY <1>5 DEF AbandonRemoval, NoRemoval, store, window, budget, StoreInv, StoreTypeOK,
           InstallationTypeOK, FreshIsEmpty, OwnIsUsed, SweeperHolds, RemovalHolds, Empty, Objects,
           Making, Installing, Undoing
  <2>4. OwnIsUsed'
    BY <1>5 DEF AbandonRemoval, NoRemoval, store, window, budget, StoreInv, StoreTypeOK,
           InstallationTypeOK, OwnIsUsed, SweeperHolds, FreshIsEmpty, Making, Installing, Undoing
  <2>5. MakerHolds'
    BY <1>5 DEF AbandonRemoval, NoRemoval, store, window, budget, StoreInv, StoreTypeOK,
           InstallationTypeOK, MakerHolds, OwnIsUsed, SweeperHolds, RemovalHolds, LeftAgrees,
           FreshIsEmpty, Empty, Objects, Making, Installing, Undoing
  <2>6. SweeperHolds'
    BY <1>5 DEF AbandonRemoval, NoRemoval, store, window, budget, StoreInv, StoreTypeOK,
           InstallationTypeOK, SweeperHolds, OwnIsUsed, MakerHolds, RemovalHolds, FreshIsEmpty,
           Empty, Objects, Making, Installing, Undoing
  <2>7. RemovalHolds'
    BY <1>5 DEF AbandonRemoval, NoRemoval, store, window, budget, StoreInv, StoreTypeOK,
           InstallationTypeOK, RemovalHolds, OwnIsUsed, MakerHolds, SweeperHolds, Empty, Objects,
           NoRemoval, Making, Installing, Undoing
  <2>8. CompleteIsWhole'
    BY <1>5 DEF AbandonRemoval, NoRemoval, store, window, budget, StoreInv, StoreTypeOK,
           InstallationTypeOK, CompleteIsWhole, MakerHolds, OwnIsUsed, SweeperHolds, RemovalHolds,
           LeftAgrees, Objects, Making, Installing, Undoing
  <2>9. NoAnonymousLeak'
    BY <1>5 DEF AbandonRemoval, NoRemoval, store, window, budget, StoreInv, StoreTypeOK,
           InstallationTypeOK, NoAnonymousLeak, MakerHolds, OwnIsUsed, SweeperHolds, RemovalHolds,
           FreshIsEmpty, Empty, Objects, Making, Installing, Undoing
  <2> QED BY <2>1, <2>2, <2>3, <2>4, <2>5, <2>6, <2>7, <2>8, <2>9 DEF StoreInv
<1> QED BY <1>1, <1>2, <1>3, <1>4, <1>5

THEOREM StoreInvariant == SpecInstallation => []StoreInv
<1>1. ASSUME StoreInv, [NextInstallation]_installationVars
      PROVE  StoreInv'
  <2>1. CASE UNCHANGED installationVars
    BY <1>1, <2>1
    DEF installationVars, store, window, budget, StoreInv, StoreTypeOK, InstallationTypeOK,
        LeftAgrees, FreshIsEmpty, OwnIsUsed, MakerHolds, SweeperHolds, RemovalHolds,
        CompleteIsWhole, NoAnonymousLeak, Empty
  <2>2. ASSUME NEW w \in Windows, Boot(w) \/ Leave(w) \/ WindowStep(w)
        PROVE  StoreInv'
    BY <1>1, <2>2, WindowKeepsStore, WindowChangesStore, VerifyKeepsStore DEF WindowStep
  <2> QED BY <1>1, <2>1, <2>2, RemovalChangesStore DEF NextInstallation
<1> QED BY <1>1, StoreInit, PTL DEF SpecInstallation

\* A complete record has all its objects (idb.ts, installer.ts, uninstall.ts):
\* in every interleaving of installers, collectors, uninstallers and crashes.
THEOREM CompleteStaysWhole == SpecInstallation => []CompleteIsWhole
BY StoreInvariant, PTL DEF StoreInv

\* No object in OPFS is left without a record that leads a collector to it.
THEOREM NothingLeaks == SpecInstallation => []NoAnonymousLeak
BY StoreInvariant, PTL DEF StoreInv

\* What is retired, marked invalid or collected is never published again: the
\* transaction that publishes reads the staging record it replaces.
THEOREM NothingResurrects == SpecInstallation => NoResurrection
<1>1. ASSUME StoreInv, [NextInstallation]_installationVars,
             NEW i \in used, records[i] \in {"none", "invalid"}
      PROVE  records'[i] # "complete"
  <2>1. i \in Installations /\ records \in [Installations -> {"none", "staging", "complete", "invalid"}]
        /\ used \subseteq Installations
    BY <1>1 DEF StoreInv, StoreTypeOK, InstallationTypeOK
  <2>2. CASE UNCHANGED records
    BY <1>1, <2>2
  <2>3. ASSUME NEW w \in Windows, WindowStep(w), ~UNCHANGED records
        PROVE  records'[i] # "complete"
    <3>1. CASE SweepRecord(w)
      BY <2>1, <1>1, <3>1 DEF SweepRecord, RemoveRecord, Put
    <3>2. CASE Register(w)
      BY <2>1, <1>1, <3>2 DEF Register, Put
    <3>3. CASE Publish(w)
      BY <2>1, <1>1, <3>3 DEF Publish, Publishable, Put
    <3>4. CASE CleanRecord(w)
      BY <2>1, <1>1, <3>4 DEF CleanRecord, RemoveRecord, Put
    <3>5. CASE RefuseContent(w)
      BY <2>1, <1>1, <3>5 DEF RefuseContent, MarkInvalid, Put
    <3> QED BY <2>3, <3>1, <3>2, <3>3, <3>4, <3>5
            DEF WindowStep, List, SweepObjects, Swept, Reuse, Staged, StoreObject, VerifyObject,
                CleanObjects, Remember, Open, VerifyTexts, Reopen, RequestContent, ReadContent, store
  <2>4. ASSUME NEW j \in Installations, Retire(j)
        PROVE  records'[i] # "complete"
    BY <2>1, <2>4, <1>1 DEF Retire, Put
  <2>5. CASE UninstallRecord
    BY <2>1, <2>5, <1>1 DEF UninstallRecord, RemoveRecord, Put
  <2> QED BY <1>1, <2>2, <2>3, <2>4, <2>5
          DEF NextInstallation, installationVars, store, Boot, Leave, Damage, UninstallObjects, AbandonRemoval
<1>2. StoreInv /\ [NextInstallation]_installationVars =>
        [\A i \in used : records[i] \in {"none", "invalid"} => records'[i] # "complete"]_installationVars
  BY <1>1
<1> QED BY <1>2, StoreInvariant, PTL DEF SpecInstallation, NoResurrection

----------------------------------------------------------------------------
(* The window.  A start waits for the session that was stopped last, and   *)
(* sessions are closed in the order they were stopped: once that one is    *)
(* closed none is left, and none runs until the start launches its own.    *)

LEMMA ClosingAppends ==
  ASSUME NEW s \in Seq(Sessions), NEW e \in Sessions
  PROVE  /\ Append(s, e) \in Seq(Sessions) /\ Append(s, e) # <<>>
         /\ Last(Append(s, e)) = e /\ Range(Append(s, e)) = Range(s) \union {e}
BY DEF Last, Range

LEMMA ClosingShortens ==
  ASSUME NEW s \in Seq(Sessions), s # <<>>
  PROVE  /\ Head(s) \in Sessions /\ Tail(s) \in Seq(Sessions)
         /\ Tail(s) # <<>> => Last(Tail(s)) = Last(s)
         /\ Range(Tail(s)) \subseteq Range(s) /\ Range(s) \subseteq Range(Tail(s)) \union {Head(s)}
         /\ Head(s) \in Range(s) /\ Last(s) \in Range(s) /\ Range(s) \subseteq Sessions
<1>1. Head(s) \in Sessions /\ Tail(s) \in Seq(Sessions) /\ Len(s) \in Nat \ {0}
  OBVIOUS
<1>2. Len(Tail(s)) = Len(s) - 1 /\ \A k \in 1 .. Len(s) - 1 : Tail(s)[k] = s[k + 1]
  OBVIOUS
<1>3. DOMAIN s = 1 .. Len(s) /\ DOMAIN Tail(s) = 1 .. Len(s) - 1 /\ Head(s) = s[1]
  BY <1>1, <1>2
<1>4. Tail(s) # <<>> => Last(Tail(s)) = Last(s)
  BY <1>1, <1>2 DEF Last
<1>5. Range(Tail(s)) \subseteq Range(s)
  <2>1. \A k \in 1 .. Len(s) - 1 : k + 1 \in 1 .. Len(s)
    BY <1>1
  <2> QED BY <1>2, <1>3, <2>1 DEF Range
<1>6. Range(s) \subseteq Range(Tail(s)) \union {Head(s)}
  <2>1. ASSUME NEW k \in 1 .. Len(s), k # 1
        PROVE  s[k] \in Range(Tail(s))
    <3>1. k - 1 \in 1 .. Len(s) - 1 /\ (k - 1) + 1 = k
      BY <1>1, <2>1
    <3>2. Tail(s)[k - 1] = s[k]
      BY <1>2, <3>1
    <3> QED BY <1>3, <3>1, <3>2 DEF Range
  <2> QED BY <1>3, <2>1 DEF Range
<1>7. Head(s) \in Range(s) /\ Last(s) \in Range(s) /\ Range(s) \subseteq Sessions
  BY <1>1, <1>3 DEF Last, Range
<1> QED BY <1>1, <1>4, <1>5, <1>6, <1>7

WorkerStates == Gone \union {"preparing", "running", "settled", "closed"}

\* Sessions are launched in the order of their numbers.
LaunchedInOrder ==
  /\ worker \in [Sessions -> WorkerStates]
  /\ \E n \in 0 .. MaxStarts : Launched = 1 .. n
  /\ current # 0 => current \in Launched
  /\ closing \in Seq(Sessions) /\ Range(closing) \subseteq Launched
  /\ current \notin Range(closing)

\* What a start that was begun has already stopped.
StartsBehindStops ==
  /\ start = [rev |-> start.rev, stage |-> start.stage, waits |-> start.waits]
  /\ start.stage \in {"none", "stopping", "gate", "selecting", "hosting"}
  /\ start.stage # "none" => current = 0
  /\ start.stage = "stopping" /\ closing # <<>> => start.waits = Last(closing)
  /\ start.stage \in {"gate", "selecting", "hosting"} => closing = <<>>
  /\ closing # <<>> => lastStop = Last(closing)

LiveIsHeld ==
  /\ \A e \in Sessions : worker[e] \notin Gone => e = current \/ e \in Range(closing)
  /\ \A e, f \in Sessions : worker[e] \notin Gone /\ worker[f] \notin Gone => e = f

WindowInv == LaunchedInOrder /\ StartsBehindStops /\ LiveIsHeld

LEMMA WindowInit == InitWindow => WindowInv
<1> SUFFICES ASSUME InitWindow PROVE WindowInv
  OBVIOUS
<1>1. Launched = 1 .. 0
  BY DEF InitWindow, Launched
<1>2. Range(closing) = {} /\ closing \in Seq(Sessions)
  BY DEF InitWindow, Range
<1> QED BY <1>1, <1>2, WindowAssumption
        DEF InitWindow, WindowInv, LaunchedInOrder, StartsBehindStops, LiveIsHeld, WorkerStates, Gone,
            NoStart, Launched

\* Stopping what runs puts it behind the others.
LEMMA StopKeepsWindow ==
  ASSUME WindowInv, StopCurrent, UNCHANGED <<start, worker>>
  PROVE  WindowInv'
<1>1. Launched' = Launched
  BY DEF Launched
<1>2. CASE current = 0
  BY <1>1, <1>2 DEF WindowInv, StopCurrent, LaunchedInOrder, StartsBehindStops, LiveIsHeld
<1>3. CASE current # 0
  <2>1. current \in Sessions /\ closing \in Seq(Sessions)
    BY <1>3 DEF WindowInv, LaunchedInOrder, Launched
  <2>2. /\ closing' = Append(closing, current) /\ closing' \in Seq(Sessions)
        /\ Last(closing') = current /\ Range(closing') = Range(closing) \union {current}
        /\ lastStop' = current /\ current' = 0
    BY <1>3, <2>1, ClosingAppends DEF StopCurrent
  <2>3. 0 \notin Range(closing')
    BY <2>1, <2>2 DEF WindowInv, LaunchedInOrder, Launched, Sessions
  <2>4. LaunchedInOrder'
    BY <1>1, <1>3, <2>2, <2>3 DEF WindowInv, LaunchedInOrder
  <2>5. StartsBehindStops'
    BY <1>3, <2>2 DEF WindowInv, StartsBehindStops
  <2>6. LiveIsHeld'
    BY <2>2 DEF WindowInv, LiveIsHeld
  <2> QED BY <2>4, <2>5, <2>6 DEF WindowInv
<1> QED BY <1>2, <1>3

\* A start that proceeds or is given up, when nothing is being stopped.
LEMMA StartKeepsWindow ==
  ASSUME WindowInv, UNCHANGED <<current, closing, lastStop, worker>>,
         start.stage # "none",
         \/ start' = NoStart
         \/ /\ closing = <<>>
            /\ \E further \in {"gate", "selecting", "hosting"} : start' = [start EXCEPT !.stage = further]
  PROVE  WindowInv'
BY DEF WindowInv, LaunchedInOrder, StartsBehindStops, LiveIsHeld, NoStart, Launched

\* No worker that has ended lives again.
LEMMA WorkerKeepsWindow ==
  ASSUME WindowInv, NEW e \in Sessions, WorkerStep(e)
  PROVE  WindowInv'
<1>1. PICK state \in WorkerStates \ {"none"} :
        /\ worker' = [worker EXCEPT ![e] = state] /\ worker[e] \notin Gone
        /\ UNCHANGED <<start, current, closing, lastStop>>
  BY DEF WorkerStep, Prepared, BootstrapFails, Settles, Closes, RunFails, WorkerCrashes, Post, starting,
         WorkerStates, Gone
<1>2. /\ \A f \in Sessions : worker'[f] = IF f = e THEN state ELSE worker[f]
      /\ worker' \in [Sessions -> WorkerStates]
  BY <1>1 DEF WindowInv, LaunchedInOrder
<1>3. Launched' = Launched
  BY <1>1, <1>2 DEF Launched, Gone
<1>4. LaunchedInOrder'
  BY <1>1, <1>2, <1>3 DEF WindowInv, LaunchedInOrder
<1>5. StartsBehindStops'
  BY <1>1 DEF WindowInv, StartsBehindStops
<1>6. LiveIsHeld'
  BY <1>1, <1>2 DEF WindowInv, LiveIsHeld
<1> QED BY <1>4, <1>5, <1>6 DEF WindowInv

\* The session at the head of the chain is over with.
LEMMA DisposeKeepsWindow ==
  ASSUME WindowInv, Dispose
  PROVE  WindowInv'
<1> DEFINE e == Head(closing)
<1>1. /\ closing # <<>> /\ closing' = Tail(closing) /\ worker' = [worker EXCEPT ![e] = "terminated"]
      /\ UNCHANGED <<start, current, lastStop>>
  BY DEF Dispose, starting
<1>2. /\ e \in Sessions /\ closing' \in Seq(Sessions)
      /\ closing' # <<>> => Last(closing') = Last(closing)
      /\ Range(closing') \subseteq Range(closing) /\ Range(closing) \subseteq Range(closing') \union {e}
      /\ e \in Range(closing)
  <2>1. closing \in Seq(Sessions)
    BY DEF WindowInv, LaunchedInOrder
  <2> QED BY <1>1, <2>1, ClosingShortens
<1> HIDE DEF e
<1>3. worker[e] # "none" /\ e \in Launched
  BY <1>2 DEF WindowInv, LaunchedInOrder, Launched
<1>4. /\ \A f \in Sessions : worker'[f] = IF f = e THEN "terminated" ELSE worker[f]
      /\ worker' \in [Sessions -> WorkerStates]
  BY <1>1, <1>2 DEF WindowInv, LaunchedInOrder, WorkerStates, Gone
<1>5. Launched' = Launched
  BY <1>3, <1>4 DEF Launched
<1>6. LaunchedInOrder'
  BY <1>1, <1>2, <1>4, <1>5 DEF WindowInv, LaunchedInOrder
<1>7. StartsBehindStops'
  BY <1>1, <1>2 DEF WindowInv, StartsBehindStops
<1>8. LiveIsHeld'
  BY <1>1, <1>2, <1>4 DEF WindowInv, LiveIsHeld, Gone
<1> QED BY <1>6, <1>7, <1>8 DEF WindowInv

\* Nothing is left of the sessions before when a new one is launched.
LEMMA LaunchKeepsWindow ==
  ASSUME WindowInv, NEW e \in Sessions, LaunchSession(e)
  PROVE  WindowInv'
<1>1. /\ start.stage = "hosting" /\ start' = NoStart /\ e = Cardinality(Launched) + 1
      /\ UNCHANGED <<closing, lastStop>>
  BY DEF LaunchSession, Abandon
<1>2. current = 0 /\ closing = <<>> /\ \A f \in Sessions : worker[f] \in Gone
  <2>1. Range(<<>>) = {}
    BY DEF Range
  <2> QED BY <1>1, <2>1 DEF WindowInv, StartsBehindStops, LiveIsHeld, Sessions
<1>3. CASE UNCHANGED <<current, worker>>
  BY <1>1, <1>3, StartKeepsWindow
<1>4. CASE current' = e /\ worker' = [worker EXCEPT ![e] = "preparing"]
  <2>1. PICK n \in 0 .. MaxStarts : Launched = 1 .. n
    BY DEF WindowInv, LaunchedInOrder
  <2>2. e = n + 1
    <3>1. n \in Int /\ n >= 0 /\ 1 \in Int
      BY WindowAssumption
    <3>2. Cardinality(1 .. n) = IF 1 > n THEN 0 ELSE n - 1 + 1
      BY <3>1, FS_Interval
    <3>3. Cardinality(1 .. n) = n
      BY <3>1, <3>2
    <3> QED BY <1>1, <2>1, <3>3
  <2>3. /\ \A f \in Sessions : worker'[f] = IF f = e THEN "preparing" ELSE worker[f]
        /\ worker' \in [Sessions -> WorkerStates]
    BY <1>4 DEF WindowInv, LaunchedInOrder, WorkerStates
  <2>4. Launched' = Launched \union {e}
    BY <2>3 DEF Launched
  <2>5. Launched' = 1 .. n + 1 /\ n + 1 \in 0 .. MaxStarts
    BY <2>1, <2>2, <2>4, WindowAssumption DEF Sessions
  <2>6. Range(closing') = {} /\ closing' = <<>> /\ closing' \in Seq(Sessions)
    BY <1>1, <1>2 DEF Range
  <2>7. LaunchedInOrder'
    BY <1>4, <2>3, <2>4, <2>5, <2>6 DEF LaunchedInOrder
  <2>8. StartsBehindStops'
    BY <1>1, <2>6 DEF StartsBehindStops, NoStart
  <2>9. LiveIsHeld'
    BY <1>2, <1>4, <2>3 DEF LiveIsHeld
  <2> QED BY <2>7, <2>8, <2>9 DEF WindowInv
<1> QED BY <1>3, <1>4 DEF LaunchSession

THEOREM WindowInvariant == SpecWindow => []WindowInv
<1>1. ASSUME WindowInv, [NextWindow]_windowVars
      PROVE  WindowInv'
  <2>1. CASE UNCHANGED <<start, current, closing, lastStop, worker>>
    BY <1>1, <2>1 DEF WindowInv, LaunchedInOrder, StartsBehindStops, LiveIsHeld, Launched
  <2>2. CASE PageHide
    BY <1>1, <2>2, StopKeepsWindow DEF PageHide
  <2>3. CASE BeginStart
    <3>1. /\ start = NoStart /\ start'.stage = "stopping" /\ start'.waits = Awaited
          /\ start' = [rev |-> start'.rev, stage |-> start'.stage, waits |-> start'.waits]
          /\ StopCurrent /\ UNCHANGED worker
      BY <2>3 DEF BeginStart
    <3>2. CASE current = 0
      BY <1>1, <3>1, <3>2
      DEF StopCurrent, Awaited, NoStart, WindowInv, LaunchedInOrder, StartsBehindStops, LiveIsHeld, Launched
    <3>3. CASE current # 0
      <4>1. current \in Sessions /\ closing \in Seq(Sessions)
        BY <1>1, <3>3 DEF WindowInv, LaunchedInOrder, Launched
      <4>2. /\ closing' = Append(closing, current) /\ closing' \in Seq(Sessions)
            /\ Last(closing') = current /\ Range(closing') = Range(closing) \union {current}
            /\ lastStop' = current /\ current' = 0 /\ Launched' = Launched
        BY <3>1, <3>3, <4>1, ClosingAppends DEF StopCurrent, Launched
      <4>3. 0 \notin Range(closing')
        BY <1>1, <4>1, <4>2 DEF WindowInv, LaunchedInOrder, Launched, Sessions
      <4>4. LaunchedInOrder'
        BY <1>1, <3>1, <3>3, <4>2, <4>3 DEF WindowInv, LaunchedInOrder
      <4>5. StartsBehindStops'
        BY <3>1, <3>3, <4>2 DEF Awaited, StartsBehindStops
      <4>6. LiveIsHeld'
        BY <1>1, <3>1, <4>2 DEF WindowInv, LiveIsHeld
      <4> QED BY <4>4, <4>5, <4>6 DEF WindowInv
    <3> QED BY <3>2, <3>3
  <2>4. CASE Stopped
    <3>1. /\ start.stage = "stopping" /\ start.waits \notin Range(closing)
          /\ UNCHANGED <<current, closing, lastStop, worker>>
      BY <2>4 DEF Stopped, sessions
    <3>2. closing = <<>>
      BY <1>1, <3>1, ClosingShortens DEF WindowInv, LaunchedInOrder, StartsBehindStops
    <3>3. start' = NoStart \/ start' = [start EXCEPT !.stage = "gate"]
      BY <2>4 DEF Stopped, Abandon, Proceed, Enter
    <3> QED BY <1>1, <3>1, <3>2, <3>3, StartKeepsWindow
  <2>5. ASSUME Handshake \/ FirstInstall \/ Select \/ HostFails
        PROVE  WindowInv'
    <3>2. start.stage \in {"gate", "selecting", "hosting"} /\ UNCHANGED <<current, closing, lastStop, worker>>
      BY <2>5 DEF Handshake, FirstInstall, Select, HostFails, sessions
    <3>3. start' = NoStart \/ \E further \in {"selecting", "hosting"} : start' = [start EXCEPT !.stage = further]
      BY <2>5 DEF Handshake, FirstInstall, Select, HostFails, Abandon, Proceed, Enter
    <3>4. closing = <<>>
      BY <1>1, <3>2 DEF WindowInv, StartsBehindStops
    <3> QED BY <1>1, <3>2, <3>3, <3>4, StartKeepsWindow
  <2>6. ASSUME NEW e \in Sessions, Receive(e)
        PROVE  WindowInv'
    <3>1. CASE StopCurrent
      BY <1>1, <2>6, <3>1, StopKeepsWindow DEF Receive, starting
    <3>2. CASE ~StopCurrent
      BY <2>1, <2>6, <3>2 DEF Receive, starting
    <3> QED BY <3>1, <3>2
  <2>7. CASE Restart \/ PageShow \/ FlipVisibility \/ PostShutdown \/ \E e \in Sessions : HearLifecycle(e)
    BY <2>1, <2>7 DEF Restart, PageShow, FlipVisibility, PostShutdown, HearLifecycle, starting, sessions
  <2> QED BY <1>1, <2>1, <2>2, <2>3, <2>4, <2>5, <2>6, <2>7, WorkerKeepsWindow, DisposeKeepsWindow,
             LaunchKeepsWindow
          DEF NextWindow, StartStep, windowVars, starting, sessions
<1> QED BY <1>1, WindowInit, PTL DEF SpecWindow

\* No two session workers live at the same time (window-product.ts).
THEOREM OneWorkerAtATime == SpecWindow => []OneWorker
<1>1. WindowInv => OneWorker
  <2> SUFFICES ASSUME WindowInv PROVE OneWorker
    OBVIOUS
  <2> DEFINE live == {e \in Sessions : worker[e] \notin Gone}
  <2>1. CASE live = {}
    BY <2>1, FS_EmptySet DEF OneWorker
  <2>2. CASE live # {}
    <3>1. PICK e : live = {e}
      BY <2>2 DEF WindowInv, LiveIsHeld
    <3>2. Cardinality(live) = 1
      BY <3>1, FS_Singleton
    <3> HIDE DEF live
    <3>3. Cardinality(live) <= 1
      BY <3>2
    <3> QED BY <3>3 DEF OneWorker, live
  <2> QED BY <2>1, <2>2
<1> QED BY <1>1, WindowInvariant, PTL

\* Every variable of the window stays in its range.
THEOREM WindowTypeInvariant == SpecWindow => []WindowTypeOK
<1> DEFINE Typed == WindowTypeOK /\ visible \in BOOLEAN /\ lane \in [Sessions -> Seq(BOOLEAN)]
<1>1. InitWindow => Typed
  <2>1. 1 \in 1 .. MaxStarts
    BY WindowAssumption
  <2>2. Range(<<>>) = {} /\ <<>> \in Seq(BOOLEAN)
    BY DEF Range
  <2> QED BY <2>1, <2>2 DEF InitWindow, WindowTypeOK, NoStart, Gone, Sessions
<1>2. ASSUME Typed, WindowInv, WindowInv', [NextWindow]_windowVars
      PROVE  Typed'
  <2> USE <1>2
  <2>1. /\ start'.stage \in {"none", "stopping", "gate", "selecting", "hosting"}
        /\ current' \in Sessions \union {0} /\ Range(closing') \subseteq Sessions
        /\ current' \notin Range(closing')
        /\ worker' \in [Sessions -> Gone \union {"preparing", "running", "settled", "closed"}]
        /\ closing \in Seq(Sessions) /\ current \in Sessions \union {0}
    BY DEF WindowInv, LaunchedInOrder, StartsBehindStops, WorkerStates, Launched
  <2>2. closing # <<>> => Head(closing) \in Sessions
    BY <2>1
  <2>3. page' \in {"shown", "away"}
    <3>1. CASE UNCHANGED page
      BY <3>1 DEF WindowTypeOK
    <3> QED BY <3>1 DEF NextWindow, windowVars, starting, sessions, lifecycle, gate, Restart, PageHide,
               PageShow, FlipVisibility, StartStep, PostShutdown, Dispose, BeginStart, Stopped,
               Handshake, FirstInstall, Select, HostFails, LaunchSession, WorkerStep, Receive,
               HearLifecycle, Prepared, BootstrapFails, Settles, Closes, RunFails, WorkerCrashes,
               Post
  <2>4. revision' \in 1 .. MaxStarts
    <3>1. CASE UNCHANGED revision
      BY <3>1 DEF WindowTypeOK
    <3>2. CASE revision < MaxStarts /\ revision' = revision + 1
      BY <3>2, WindowAssumption DEF WindowTypeOK
    <3> QED BY <3>1, <3>2 DEF Queue, NextWindow, windowVars, starting, sessions, lifecycle, gate, Restart, PageHide,
               PageShow, FlipVisibility, StartStep, PostShutdown, Dispose, BeginStart, Stopped,
               Handshake, FirstInstall, Select, HostFails, LaunchSession, WorkerStep, Receive,
               HearLifecycle, Prepared, BootstrapFails, Settles, Closes, RunFails, WorkerCrashes,
               Post
  <2>5. lastStop' \in Sessions \union {0}
    <3>1. CASE UNCHANGED lastStop
      BY <3>1 DEF WindowTypeOK
    <3> QED BY <2>1, <3>1 DEF StopCurrent, NextWindow, windowVars, starting, sessions, lifecycle, gate, Restart, PageHide,
               PageShow, FlipVisibility, StartStep, PostShutdown, Dispose, BeginStart, Stopped,
               Handshake, FirstInstall, Select, HostFails, LaunchSession, WorkerStep, Receive,
               HearLifecycle, Prepared, BootstrapFails, Settles, Closes, RunFails, WorkerCrashes,
               Post
  <2>6. broken' \subseteq Sessions /\ shut' \subseteq Sessions
    <3>1. CASE UNCHANGED <<broken, shut>>
      BY <3>1 DEF WindowTypeOK
    <3> QED BY <2>2, <3>1 DEF WindowTypeOK, NextWindow, windowVars, starting, sessions, lifecycle, gate, Restart, PageHide,
               PageShow, FlipVisibility, StartStep, PostShutdown, Dispose, BeginStart, Stopped,
               Handshake, FirstInstall, Select, HostFails, LaunchSession, WorkerStep, Receive,
               HearLifecycle, Prepared, BootstrapFails, Settles, Closes, RunFails, WorkerCrashes,
               Post
  <2>7. marked' \subseteq Sessions
    <3>1. CASE UNCHANGED marked
      BY <3>1 DEF WindowTypeOK
    <3>2. ASSUME NEW e \in Sessions, Receive(e)
          PROVE  marked' \subseteq Sessions
      BY <3>2 DEF Receive, WindowTypeOK
    <3> QED BY <3>1, <3>2 DEF NextWindow, windowVars, starting, sessions, lifecycle, gate, Restart, PageHide,
               PageShow, FlipVisibility, StartStep, PostShutdown, Dispose, BeginStart, Stopped,
               Handshake, FirstInstall, Select, HostFails, LaunchSession, WorkerStep, HearLifecycle,
               Prepared, BootstrapFails, Settles, Closes, RunFails, WorkerCrashes, Post
  <2>8. visible' \in BOOLEAN /\ lane' \in [Sessions -> Seq(BOOLEAN)] /\ told' \in [Sessions -> BOOLEAN]
        /\ heard' \in [Sessions -> BOOLEAN]
    <3> USE DEF WindowTypeOK
    <3>1. CASE UNCHANGED <<visible, lane, told, heard>>
      BY <3>1
    <3>2. CASE FlipVisibility
      <4>1. (~visible) \in BOOLEAN /\ visible' \in BOOLEAN /\ UNCHANGED heard
        BY <3>2 DEF FlipVisibility, lifecycle
      <4>2. CASE UNCHANGED <<told, lane>>
        BY <4>1, <4>2
      <4>3. CASE /\ current \in Sessions /\ told' = [told EXCEPT ![current] = ~visible]
                 /\ lane' = [lane EXCEPT ![current] = Append(@, ~visible)]
        <5>1. Append(lane[current], ~visible) \in Seq(BOOLEAN)
          BY <4>1, <4>3
        <5> QED BY <4>1, <4>3, <5>1
      <4> QED BY <2>1, <3>2, <4>2, <4>3 DEF FlipVisibility
    <3>3. CASE Dispose
      <4>1. <<>> \in Seq(BOOLEAN)
        OBVIOUS
      <4> QED BY <4>1, <3>3 DEF Dispose
    <3>4. ASSUME NEW e \in Sessions, LaunchSession(e)
          PROVE  /\ visible' \in BOOLEAN /\ lane' \in [Sessions -> Seq(BOOLEAN)]
                 /\ told' \in [Sessions -> BOOLEAN] /\ heard' \in [Sessions -> BOOLEAN]
      BY <3>4 DEF LaunchSession, TellAtLaunch
    <3>5. ASSUME NEW e \in Sessions, HearLifecycle(e)
          PROVE  /\ visible' \in BOOLEAN /\ lane' \in [Sessions -> Seq(BOOLEAN)]
                 /\ told' \in [Sessions -> BOOLEAN] /\ heard' \in [Sessions -> BOOLEAN]
      <4>1. lane[e] \in Seq(BOOLEAN) /\ lane[e] # <<>>
        BY <3>5 DEF HearLifecycle
      <4>2. Head(lane[e]) \in BOOLEAN /\ Tail(lane[e]) \in Seq(BOOLEAN)
        BY <4>1
      <4> QED BY <4>2, <3>5 DEF HearLifecycle
    <3> QED BY <3>1, <3>2, <3>3, <3>4, <3>5 DEF NextWindow, windowVars, starting, sessions, lifecycle, gate, Restart, PageHide,
               PageShow, StartStep, PostShutdown, BeginStart, Stopped, Handshake, FirstInstall,
               Select, HostFails, WorkerStep, Receive, Prepared, BootstrapFails, Settles, Closes,
               RunFails, WorkerCrashes, Post
  <2> QED BY <2>1, <2>3, <2>4, <2>5, <2>6, <2>7, <2>8 DEF WindowTypeOK
<1> QED BY <1>1, <1>2, WindowInvariant, PTL DEF SpecWindow

----------------------------------------------------------------------------
(* The broker.  A connection that was made for the view that still stands  *)
(* has that view's generation, and a drain that stops short of what is     *)
(* asked leaves a retry behind.                                            *)

BrokerTypeOK ==
  /\ authority \in [rev : Nat, gen : Nat] /\ made \in Nat
  /\ connection \in [id : Nat, rev : Nat, gen : Nat, revoked : SUBSET Endpoints,
                     stage : {"none", "preparing", "committed", "revoking"}]

EntryAgrees ==
  /\ connection.rev \in 0 .. authority.rev
  /\ connection.stage # "none" /\ connection.rev = authority.rev => connection.gen = authority.gen
  /\ connection.stage = "none" => connection = NoConnection
  /\ drain \in {"install runner", "install window"} => connection.stage = "preparing"
  /\ drain \in {"revoke runner", "revoke window", "revoked"} => connection.stage = "revoking"

ShutIsClosed == shutting => closed

BrokerInv == BrokerTypeOK /\ EntryAgrees /\ ShutIsClosed /\ QuietMeansSettled

THEOREM BrokerInvariant == SpecBroker => []BrokerInv
<1>1. InitBroker => BrokerInv
  BY DEF InitBroker, BrokerInv, BrokerTypeOK, EntryAgrees, ShutIsClosed, NoConnection, QuietMeansSettled,
         Desired, Kept
<1>2. ASSUME BrokerInv, [NextBroker]_brokerVars
      PROVE  BrokerTypeOK' /\ EntryAgrees'
  <2> DEFINE a == authority.rev
             c == connection.rev
  <2>1. /\ BrokerTypeOK /\ a \in Nat /\ c \in 0 .. a
        /\ EntryAgrees
    BY <1>2 DEF BrokerInv, BrokerTypeOK, EntryAgrees
  <2>2. CASE UNCHANGED <<authority, connection, made, drain>>
    BY <2>1, <2>2 DEF BrokerTypeOK, EntryAgrees
  <2>3. ASSUME UNCHANGED <<connection, made, drain>>, authority' \in [rev : {a + 1}, gen : Nat]
        PROVE  BrokerTypeOK' /\ EntryAgrees'
    <3>1. /\ authority'.rev = a + 1 /\ authority' \in [rev : Nat, gen : Nat]
      BY <2>1, <2>3
    <3>2. c \in 0 .. a + 1 /\ c # a + 1
      <4> HIDE DEF a, c
      <4> QED BY <2>1
    <3> QED BY <2>1, <2>3, <3>1, <3>2 DEF BrokerTypeOK, EntryAgrees
  <2>4. ASSUME UNCHANGED <<authority, made>>, connection.stage # "none", drain' \in {"revoke window", "revoke runner", "revoked"},
               connection' \in [id : Nat, rev : {c}, gen : {connection.gen}, revoked : SUBSET Endpoints,
                                stage : {"revoking"}]
        PROVE  BrokerTypeOK' /\ EntryAgrees'
    <3>1. /\ connection' \in [id : Nat, rev : Nat, gen : Nat, revoked : SUBSET Endpoints,
                              stage : {"none", "preparing", "committed", "revoking"}]
          /\ connection'.rev = c /\ connection'.gen = connection.gen /\ connection'.stage = "revoking"
      BY <2>1, <2>4 DEF BrokerTypeOK
    <3>2. connection.stage # "none"
      BY <2>4
    <3>3. BrokerTypeOK'
      BY <2>1, <2>4, <3>1 DEF BrokerTypeOK
    <3>4. EntryAgrees'
      BY <2>1, <2>4, <3>1, <3>2 DEF EntryAgrees
    <3> QED BY <3>3, <3>4
  <2>5. ASSUME UNCHANGED <<authority, made>>, drain' = "idle",
               connection.stage # "none",
               connection' = [connection EXCEPT !.stage = "committed", !.revoked = {}]
        PROVE  BrokerTypeOK' /\ EntryAgrees'
    <3>1. /\ connection' \in [id : Nat, rev : Nat, gen : Nat, revoked : SUBSET Endpoints,
                              stage : {"none", "preparing", "committed", "revoking"}]
          /\ connection'.rev = c /\ connection'.gen = connection.gen /\ connection'.stage = "committed"
      BY <2>1, <2>5 DEF BrokerTypeOK
    <3> QED BY <2>1, <2>5, <3>1 DEF BrokerTypeOK, EntryAgrees
  <2>6. ASSUME NEW gen \in 0 .. MaxRevisions, Replace(gen)
        PROVE  BrokerTypeOK' /\ EntryAgrees'
    BY <2>1, <2>3, <2>6, BrokerAssumption DEF Replace
  <2>7. CASE Close
    BY <2>3, <2>7 DEF Close
  <2>8. CASE Begin
    BY <2>1, <2>8 DEF Begin, BrokerTypeOK, EntryAgrees
  <2>9. ASSUME NEW fails, AskToRevoke([connection EXCEPT !.stage = "revoking"], fails),
               connection.stage # "none", UNCHANGED <<authority, made>>
        PROVE  BrokerTypeOK' /\ EntryAgrees'
    BY <2>1, <2>4, <2>9 DEF AskToRevoke, BrokerTypeOK, Endpoints
  <2>10. CASE Reconcile
    <3>1. ASSUME made' = made + 1, drain' = "install runner", UNCHANGED authority,
                 connection' = [id |-> made + 1, rev |-> authority.rev, gen |-> authority.gen,
                                stage |-> "preparing", revoked |-> {}]
          PROVE  BrokerTypeOK' /\ EntryAgrees'
      <4>1. a \in 0 .. a
        BY <2>1
      <4>2. BrokerTypeOK'
        <5>1. made + 1 \in Nat /\ authority.rev \in Nat /\ authority.gen \in Nat /\ {} \in SUBSET Endpoints
          BY <2>1 DEF BrokerTypeOK
        <5>2. connection' \in [id : Nat, rev : Nat, gen : Nat, revoked : SUBSET Endpoints,
                               stage : {"none", "preparing", "committed", "revoking"}]
          BY <3>1, <5>1
        <5> QED BY <2>1, <3>1, <5>1, <5>2 DEF BrokerTypeOK
      <4> QED BY <3>1, <4>1, <4>2 DEF EntryAgrees
    <3>2. ASSUME UNCHANGED <<authority, connection, made>>, drain' = "idle"
          PROVE  BrokerTypeOK' /\ EntryAgrees'
      BY <2>1, <3>2 DEF BrokerTypeOK, EntryAgrees
    <3> QED BY <2>1, <2>9, <2>10, <3>1, <3>2 DEF Reconcile, AcknowledgedAtFirst, EntryAgrees
  <2>11. CASE Installed
    <3>1. CASE answer = "ok" /\ StillDesired
      <4>1. CASE drain = "install runner"
        BY <2>1, <2>11, <3>1, <4>1 DEF Installed, BrokerTypeOK, EntryAgrees
      <4>2. CASE drain # "install runner"
        BY <2>1, <2>5, <2>11, <3>1, <4>2 DEF Installed, AwaitsInstall, EntryAgrees
      <4> QED BY <4>1, <4>2
    <3> QED BY <2>1, <2>9, <2>11, <3>1 DEF Installed, AwaitsInstall, EntryAgrees
  <2>12. CASE Revoked
    <3>1. /\ UNCHANGED <<authority, made>> /\ drain' \in {"revoked", "revoke runner"}
          /\ \E acked \in SUBSET Endpoints : connection' = [connection EXCEPT !.revoked = acked]
      BY <2>1, <2>12 DEF Revoked, Revoking, AwaitedEnd, Endpoints, BrokerTypeOK
    <3>2. connection.stage = "revoking"
      BY <2>1, <2>12 DEF Revoked, Revoking, EntryAgrees
    <3> QED BY <2>1, <2>4, <3>1, <3>2 DEF BrokerTypeOK
  <2>13. CASE RevocationEnds
    <3>1. connection' \in {connection, NoConnection} /\ UNCHANGED <<authority, made>>
          /\ drain' \in {"shut", "idle", "reconcile"}
      BY <2>13 DEF RevocationEnds
    <3>2. CASE connection' = connection
      BY <2>1, <3>1, <3>2 DEF BrokerTypeOK, EntryAgrees
    <3>3. CASE connection' = NoConnection
      <4>1. /\ NoConnection \in [id : Nat, rev : Nat, gen : Nat, revoked : SUBSET Endpoints,
                                 stage : {"none", "preparing", "committed", "revoking"}]
            /\ NoConnection.rev = 0 /\ NoConnection.stage = "none"
        BY DEF NoConnection
      <4>2. 0 \in 0 .. a
        BY <2>1
      <4> QED BY <2>1, <3>1, <3>3, <4>1, <4>2 DEF BrokerTypeOK, EntryAgrees
    <3> QED BY <3>1, <3>2, <3>3
  <2>14. CASE Shutdown
    <3>1. ASSUME UNCHANGED <<authority, connection, made>>, drain' = "shut"
          PROVE  BrokerTypeOK' /\ EntryAgrees'
      BY <2>1, <3>1 DEF BrokerTypeOK, EntryAgrees
    <3> QED BY <2>1, <2>9, <2>14, <3>1 DEF Shutdown, EntryAgrees
  <2> QED BY <1>2, <2>2, <2>6, <2>7, <2>8, <2>10, <2>11, <2>12, <2>13, <2>14
          DEF NextBroker, brokerVars, brokerState, RegisterProvisioner, ProvisionerTerminal, Timeout, Handle,
              WindowLeaves
<1>3. ASSUME BrokerInv, [NextBroker]_brokerVars
      PROVE  ShutIsClosed'
  <2> USE DEF BrokerInv, ShutIsClosed
  <2>1. CASE UNCHANGED shutting /\ (closed => closed')
    BY <1>3, <2>1
  <2>2. CASE Shutdown
    BY <2>2 DEF Shutdown, MayShut
  <2> QED BY <1>3, <2>1, <2>2
          DEF NextBroker, brokerVars, brokerState, Replace, Close, Begin, Reconcile, Installed, Revoked,
              RevocationEnds, RegisterProvisioner, ProvisionerTerminal, Timeout, Handle, WindowLeaves
<1>4. ASSUME BrokerInv, [NextBroker]_brokerVars
      PROVE  QuietMeansSettled'
  <2>1. CASE drain' # "idle" \/ dirty' \/ retry' \/ closed'
    BY <2>1 DEF QuietMeansSettled
  <2>2. CASE UNCHANGED <<authority, runtime, connection, made, drain, dirty, retry, closed>>
    BY <1>4, <2>2 DEF BrokerInv, QuietMeansSettled, Desired, Kept
  <2>3. CASE Reconcile
    <3>1. ASSUME NEW fails, AskToRevoke([connection EXCEPT !.stage = "revoking"], fails)
          PROVE  drain' # "idle"
      BY <3>1 DEF AskToRevoke
    <3>2. CASE /\ Kept \/ (connection = NoConnection /\ ~(Desired /\ runtime = "ready" /\ made < MaxConnections))
               /\ drain' = "idle" /\ UNCHANGED <<connection, made>>
      BY <2>3, <3>2 DEF Reconcile, QuietMeansSettled, Desired, Kept
    <3> QED BY <2>1, <2>3, <3>1, <3>2 DEF Reconcile
  <2>4. CASE Installed
    <3>1. CASE answer = "ok" /\ StillDesired /\ drain = "install window"
      <4>1. /\ connection' = [connection EXCEPT !.stage = "committed", !.revoked = {}]
            /\ UNCHANGED <<authority, runtime, made, dirty, retry, closed>>
            /\ connection.rev = authority.rev /\ connection.stage = "preparing" /\ Desired
        BY <1>4, <2>4, <3>1 DEF Installed, StillDesired, BrokerInv, EntryAgrees
      <4>2. connection'.stage = "committed" /\ connection'.gen = authority.gen
        BY <1>4, <4>1 DEF BrokerInv, BrokerTypeOK, EntryAgrees
      <4> QED BY <4>1, <4>2 DEF QuietMeansSettled, Desired, Kept
    <3>2. CASE answer = "ok" /\ StillDesired /\ drain = "install runner"
      BY <2>1, <2>4, <3>2 DEF Installed
    <3>3. CASE ~(answer = "ok" /\ StillDesired)
      BY <2>1, <2>4, <3>3 DEF Installed, AskToRevoke
    <3> QED BY <2>4, <3>1, <3>2, <3>3 DEF Installed, AwaitsInstall
  <2>5. CASE RevocationEnds
    BY <1>4, <2>1, <2>5 DEF RevocationEnds, Rearm, BrokerInv, ShutIsClosed
  <2>6. CASE Shutdown
    BY <2>1, <2>6 DEF Shutdown, MayShut
  <2>7. CASE Revoked
    BY <2>1, <2>7 DEF Revoked
  <2>8. ASSUME NEW gen \in 0 .. MaxRevisions, Replace(gen)
        PROVE  dirty'
    BY <2>8 DEF Replace, Schedule
  <2>9. RegisterProvisioner \/ ProvisionerTerminal => dirty' \/ closed'
    <3>1. RegisterProvisioner => dirty'
      BY DEF RegisterProvisioner, Schedule
    <3>2. ProvisionerTerminal /\ ~closed => dirty'
      BY DEF ProvisionerTerminal
    <3>3. ProvisionerTerminal /\ closed => closed'
      BY DEF ProvisionerTerminal
    <3> QED BY <3>1, <3>2, <3>3
  <2>10. (Close => closed') /\ (Begin => drain' # "idle")
    BY DEF Close, Begin
  <2> QED BY <1>4, <2>1, <2>2, <2>3, <2>4, <2>5, <2>6, <2>7, <2>8, <2>9, <2>10
          DEF NextBroker, brokerVars, brokerState, Timeout, Handle, WindowLeaves
<1> QED BY <1>1, <1>2, <1>3, <1>4, PTL DEF SpecBroker, BrokerInv

\* A drain that ends with nothing to do and no retry pending has done what
\* the newest view asks: nothing that arrived meanwhile was overlooked.
THEOREM NoViewIsOverlooked == SpecBroker => []QuietMeansSettled
BY BrokerInvariant, PTL DEF BrokerInv

-----------------------------------------------------------------------------
(* SchemaForm.  Two facts tie a form to its Frame: it is pending exactly    *)
(* while it is the active one, and it listens to the abort exactly while    *)
(* its subscription is held.                                               *)

FormFields ==
    {"options", "result", "canonical", "restorePending", "domain", "loading", "subscription",
     "abortListener", "attempt", "state", "snapshots", "running"}

FormShape(form) == FormFields \subseteq DOMAIN form /\ \E S : form.snapshots \in Seq(S)

Submission(form) ==
    form.result.type = "submitted" /\ form.result.by # 0
      => /\ form.result.by = Len(form.snapshots)
         /\ form.result.value = form.snapshots[form.result.by]

Lock(form) == form.domain = "shown" => form.loading = Loading(form)

SoundForm(form) ==
    /\ FormShape(form)
    /\ form.attempt # 0 => form.attempt = Len(form.snapshots)
    /\ form.result.type # "pending"
         => form.attempt = 0 /\ form.domain # "shown" /\ form.subscription # "held"
    /\ form.abortListener <=> form.result.type = "pending" /\ form.subscription = "held"
    /\ Submission(form)
    /\ Lock(form)

FormsInv ==
    /\ \E S : forms \in Seq(S)
    /\ \E S : events \in Seq(S)
    /\ \A k \in DOMAIN events : events[k].form \in DOMAIN forms
    /\ \A f \in DOMAIN forms : SoundForm(forms[f]) /\ (IsPending(f) <=> activeForm = f)
    /\ activeForm # 0 => activeForm \in DOMAIN forms
    /\ frameAborted => \A f \in DOMAIN forms : ~forms[f].abortListener

-----------------------------------------------------------------------------
\* Cleaning up leaves a sound form, whatever it is settled with.
LEMMA CleanedSound ==
  ASSUME NEW form, NEW result, FormShape(form), result.type # "pending",
         result.type = "submitted" /\ result.by # 0
           => result.by = Len(form.snapshots) /\ result.value = form.snapshots[result.by]
  PROVE  /\ SoundForm(Cleaned(form, result))
         /\ Cleaned(form, result).result.type # "pending"
         /\ ~Cleaned(form, result).abortListener
<1> DEFINE c == Cleaned(form, result)
<1>1. /\ DOMAIN c = DOMAIN form /\ c.result = result /\ c.attempt = 0 /\ c.abortListener = FALSE
      /\ c.snapshots = form.snapshots
      /\ c.subscription = IF form.subscription = "held" THEN "closed" ELSE form.subscription
      /\ c.domain = IF form.domain = "shown" THEN "closed" ELSE form.domain
  BY DEF Cleaned, FormShape, FormFields
<1> HIDE DEF c
<1>2. c.subscription # "held" /\ c.domain # "shown"
  BY <1>1
<1>3. FormShape(c)
  BY <1>1 DEF FormShape
<1> QED BY <1>1, <1>2, <1>3 DEF SoundForm, Submission, Lock, c

\* A form is replaced by a sound one that is as pending as it was and listens
\* as it did; or starts to listen, in a Frame that is not aborted.
LEMMA KeepKeeps ==
  ASSUME FormsInv, NEW f \in DOMAIN forms, NEW form, Keep(f, form), SoundForm(form),
         form.result.type = "pending" <=> IsPending(f),
         form.abortListener => forms[f].abortListener \/ ~frameAborted,
         UNCHANGED frameAborted, \E S : events' \in Seq(S),
         \A k \in DOMAIN events' : events'[k].form \in DOMAIN forms
  PROVE  FormsInv'
<1>1. PICK S : forms \in Seq(S)
  BY DEF FormsInv
<1>2. forms' = [forms EXCEPT ![f] = form] /\ activeForm' = activeForm
  BY DEF Keep
<1>3. /\ DOMAIN forms' = DOMAIN forms /\ forms'[f] = form
      /\ \A g \in DOMAIN forms \ {f} : forms'[g] = forms[g]
  BY <1>2
<1>4. forms' \in Seq(S \cup {form})
  <2>1. forms \in Seq(S \cup {form}) /\ f \in 1 .. Len(forms)
    BY <1>1, SeqMonotonic, LenProperties
  <2> QED BY <1>2, <2>1, ExceptSeq
<1>5. \A g \in DOMAIN forms' : SoundForm(forms'[g]) /\ (forms'[g].result.type = "pending" <=> activeForm' = g)
  BY <1>2, <1>3 DEF FormsInv, IsPending
<1>6. frameAborted' => \A g \in DOMAIN forms' : ~forms'[g].abortListener
  BY <1>3 DEF FormsInv
<1> QED BY <1>2, <1>3, <1>4, <1>5, <1>6 DEF FormsInv, IsPending

\* A form is settled.
LEMMA FinishKeeps ==
  ASSUME FormsInv, NEW f \in DOMAIN forms, NEW form, NEW result, Finish(f, form, result),
         FormShape(form), result.type # "pending",
         result.type = "submitted" /\ result.by # 0
           => result.by = Len(form.snapshots) /\ result.value = form.snapshots[result.by],
         frameAborted' => \A g \in DOMAIN forms \ {f} : ~forms[g].abortListener,
         \E S : events' \in Seq(S),
         \A k \in DOMAIN events' : events'[k].form \in DOMAIN forms
  PROVE  FormsInv'
<1> DEFINE c == Cleaned(form, result)
<1>0. SoundForm(c) /\ c.result.type # "pending" /\ ~c.abortListener
  BY CleanedSound
<1>1. PICK S : forms \in Seq(S)
  BY DEF FormsInv
<1>2. /\ forms' = [forms EXCEPT ![f] = c]
      /\ activeForm' = IF activeForm = f THEN 0 ELSE activeForm
  BY DEF Finish
<1> HIDE DEF c
<1>3. /\ DOMAIN forms' = DOMAIN forms /\ forms'[f] = c
      /\ \A g \in DOMAIN forms \ {f} : forms'[g] = forms[g]
  BY <1>2
<1>4. forms' \in Seq(S \cup {c})
  <2>1. forms \in Seq(S \cup {c}) /\ f \in 1 .. Len(forms)
    BY <1>1, SeqMonotonic, LenProperties
  <2> QED BY <1>2, <2>1, ExceptSeq
<1>5. DOMAIN forms = 1 .. Len(forms) /\ Len(forms) \in Nat
  BY <1>1, LenProperties
<1>6. 0 \notin DOMAIN forms
  BY <1>5
<1>7. \A g \in DOMAIN forms' : SoundForm(forms'[g]) /\ (forms'[g].result.type = "pending" <=> activeForm' = g)
  BY <1>0, <1>2, <1>3, <1>6 DEF FormsInv, IsPending
<1>8. frameAborted' => \A g \in DOMAIN forms' : ~forms'[g].abortListener
  BY <1>0, <1>3
<1>9. activeForm' # 0 => activeForm' \in DOMAIN forms'
  BY <1>2, <1>3 DEF FormsInv
<1> QED BY <1>3, <1>4, <1>7, <1>8, <1>9 DEF FormsInv, IsPending

-----------------------------------------------------------------------------
(* Each step keeps the invariant.                                          *)

LEMMA FormFacts ==
  ASSUME FormsInv, NEW f \in DOMAIN forms
  PROVE  /\ SoundForm(forms[f]) /\ FormShape(forms[f])
         /\ IsPending(f) <=> activeForm = f
         /\ \E S : events \in Seq(S)
         /\ \A k \in DOMAIN events : events[k].form \in DOMAIN forms
         /\ frameAborted => \A g \in DOMAIN forms : ~forms[g].abortListener
  BY DEF FormsInv, SoundForm

LEMMA OpenKeeps ==
  ASSUME FormsInv, NEW options, OpenSchemaForm(options)
  PROVE  FormsInv'
<1> DEFINE form == [options |-> options, result |-> NoResult, canonical |-> options.initial,
                    restorePending |-> options.restorable, domain |-> "shown", loading |-> FALSE,
                    subscription |-> "asked", abortListener |-> FALSE,
                    attempt |-> 0, state |-> "none", snapshots |-> <<>>, running |-> {}]
           gone == [form EXCEPT !.domain = "none", !.subscription = "none", !.result = Rejected]
<1>1. /\ SoundForm(form) /\ form.result.type = "pending" /\ ~form.abortListener
      /\ SoundForm(gone) /\ gone.result.type # "pending" /\ ~gone.abortListener
  <2>1. <<>> \in Seq({0})
    BY EmptySeq
  <2>2. FormShape(form) /\ FormShape(gone)
    BY <2>1 DEF FormShape, FormFields
  <2>3. SoundForm(form) /\ form.result.type = "pending" /\ ~form.abortListener
    BY <2>2 DEF SoundForm, Submission, Lock, Loading, NoResult
  <2>4. SoundForm(gone) /\ gone.result.type # "pending" /\ ~gone.abortListener
    BY <2>2 DEF SoundForm, Submission, Lock, Loading, Rejected
  <2> QED BY <2>3, <2>4
<1>2. /\ activeForm = 0 /\ UNCHANGED <<frameAborted, events>>
      /\ \/ forms' = Append(forms, form) /\ activeForm' = Len(forms) + 1
         \/ forms' = Append(forms, gone) /\ activeForm' = activeForm
  BY DEF OpenSchemaForm
<1> HIDE DEF form, gone
<1>3. PICK S : forms \in Seq(S)
  BY DEF FormsInv
<1>4. forms \in Seq(S \cup {form, gone})
  BY <1>3, SeqMonotonic
<1>5. \A x \in {form, gone} :
        /\ Append(forms, x) \in Seq(S \cup {form, gone})
        /\ DOMAIN Append(forms, x) = DOMAIN forms \cup {Len(forms) + 1}
        /\ Append(forms, x)[Len(forms) + 1] = x
        /\ \A g \in DOMAIN forms : Append(forms, x)[g] = forms[g]
        /\ Len(forms) + 1 \notin DOMAIN forms /\ 0 \notin DOMAIN forms /\ Len(forms) + 1 # 0
  <2>1. DOMAIN forms = 1 .. Len(forms) /\ Len(forms) \in Nat
    BY <1>4, LenProperties
  <2> QED BY <1>4, <2>1, AppendProperties
<1>6. PICK x \in {form, gone} :
        /\ forms' = Append(forms, x)
        /\ activeForm' = IF x.result.type = "pending" THEN Len(forms) + 1 ELSE 0
  BY <1>1, <1>2
<1>7. \A g \in DOMAIN forms' : SoundForm(forms'[g]) /\ (forms'[g].result.type = "pending" <=> activeForm' = g)
  BY <1>1, <1>2, <1>5, <1>6 DEF FormsInv, IsPending
<1>8. frameAborted' => \A g \in DOMAIN forms' : ~forms'[g].abortListener
  BY <1>1, <1>2, <1>5, <1>6 DEF FormsInv
<1>9. activeForm' # 0 => activeForm' \in DOMAIN forms'
  BY <1>5, <1>6
<1>10. \A k \in DOMAIN events' : events'[k].form \in DOMAIN forms'
  BY <1>2, <1>5, <1>6 DEF FormsInv
<1> QED BY <1>2, <1>5, <1>6, <1>7, <1>8, <1>9, <1>10 DEF FormsInv, IsPending

LEMMA SubscriptionKeeps ==
  ASSUME FormsInv, NEW f \in DOMAIN forms,
         HubSubscribes(f) \/ SubscribeFails(f) \/ SubscribeReturns(f)
  PROVE  FormsInv'
<1> DEFINE form == forms[f]
           Changed(c, s) == /\ DOMAIN c = DOMAIN form /\ c.subscription = s
                            /\ \A x \in FormFields \ {"subscription", "abortListener"} : c[x] = form[x]
<1>0. SoundForm(form) /\ FormShape(form) /\ (IsPending(f) <=> form.result.type = "pending")
  BY FormFacts DEF IsPending
<1>1. UNCHANGED <<frameAborted, events>> /\ \E S : events' \in Seq(S)
  BY DEF HubSubscribes, SubscribeFails, SubscribeReturns, FormsInv
<1>2. \A k \in DOMAIN events' : events'[k].form \in DOMAIN forms
  BY <1>1 DEF FormsInv
<1>3. frameAborted' => \A g \in DOMAIN forms : ~forms[g].abortListener
  BY <1>1 DEF FormsInv
\* Only the subscription and what depends on it has changed.
<1>4. ASSUME NEW c, NEW s, Changed(c, s), s # "held" \/ form.result.type = "pending",
             c.abortListener <=> form.result.type = "pending" /\ s = "held"
      PROVE  /\ SoundForm(c) /\ FormShape(c)
             /\ c.result.type = "pending" <=> IsPending(f)
  <2>1. /\ c.result = form.result /\ c.attempt = form.attempt /\ c.domain = form.domain
        /\ c.loading = form.loading /\ c.state = form.state /\ c.snapshots = form.snapshots
    BY <1>4 DEF FormFields
  <2>2. FormShape(c)
    BY <1>0, <1>4, <2>1 DEF FormShape
  <2> QED BY <1>0, <1>4, <2>1, <2>2 DEF SoundForm, Submission, Lock, Loading
<1>5. CASE HubSubscribes(f)
  <2> DEFINE c == [form EXCEPT !.subscription = "delivering"]
  <2>1. form.subscription = "asked" /\ Keep(f, c)
    BY <1>5 DEF HubSubscribes
  <2>2. Changed(c, "delivering") /\ c.abortListener = form.abortListener
    BY <1>0 DEF FormShape, FormFields
  <2>3. ~form.abortListener
    BY <1>0, <2>1 DEF SoundForm
  <2> HIDE DEF c, Changed
  <2>4. SoundForm(c) /\ (c.result.type = "pending" <=> IsPending(f))
    BY <1>4, <2>2, <2>3
  <2> QED BY <1>1, <1>2, <2>1, <2>2, <2>3, <2>4, KeepKeeps
<1>6. CASE SubscribeFails(f)
  <2> DEFINE c == [form EXCEPT !.subscription = "none"]
  <2>1. Finish(f, c, Rejected)
    BY <1>6 DEF SubscribeFails
  <2>2. FormShape(c) /\ Rejected.type = "rejected"
    <3>1. DOMAIN c = DOMAIN form /\ c.snapshots = form.snapshots
      BY <1>0 DEF FormShape, FormFields
    <3> QED BY <1>0, <3>1 DEF FormShape, Rejected
  <2> HIDE DEF c
  <2> QED BY <1>1, <1>2, <1>3, <2>1, <2>2, FinishKeeps
<1>7. CASE SubscribeReturns(f)
  <2> DEFINE h == [form EXCEPT !.subscription = "held"]
             unsubscribed == [h EXCEPT !.subscription = "closed"]
             listens == [h EXCEPT !.abortListener = TRUE]
  <2>1. form.subscription = "delivering" /\ ~form.abortListener
    BY <1>0, <1>7 DEF SubscribeReturns, SoundForm
  <2>2. \/ ~IsPending(f) /\ Keep(f, unsubscribed)
        \/ IsPending(f) /\ frameAborted /\ Finish(f, h, Rejected)
        \/ IsPending(f) /\ ~frameAborted /\ Keep(f, listens)
    BY <1>7 DEF SubscribeReturns
  <2>3. /\ Changed(unsubscribed, "closed") /\ unsubscribed.abortListener = form.abortListener
        /\ Changed(listens, "held") /\ listens.abortListener
    BY <1>0 DEF FormShape, FormFields
  <2>4. FormShape(h) /\ Rejected.type = "rejected"
    <3>1. DOMAIN h = DOMAIN form /\ h.snapshots = form.snapshots
      BY <1>0 DEF FormShape, FormFields
    <3> QED BY <1>0, <3>1 DEF FormShape, Rejected
  <2> HIDE DEF h, unsubscribed, listens, Changed
  <2>5. CASE ~IsPending(f) /\ Keep(f, unsubscribed)
    <3>1. SoundForm(unsubscribed) /\ (unsubscribed.result.type = "pending" <=> IsPending(f))
      BY <1>4, <2>1, <2>3
    <3> QED BY <1>1, <1>2, <2>1, <2>3, <2>5, <3>1, KeepKeeps
  <2>6. CASE IsPending(f) /\ frameAborted /\ Finish(f, h, Rejected)
    BY <1>1, <1>2, <1>3, <2>4, <2>6, FinishKeeps
  <2>7. CASE IsPending(f) /\ ~frameAborted /\ Keep(f, listens)
    <3>1. SoundForm(listens) /\ (listens.result.type = "pending" <=> IsPending(f))
      BY <1>0, <1>4, <2>3, <2>7
    <3> QED BY <1>1, <1>2, <2>7, <3>1, KeepKeeps
  <2> QED BY <2>2, <2>5, <2>6, <2>7
<1> QED BY <1>5, <1>6, <1>7

LEMMA AbortKeeps ==
  ASSUME FormsInv, AbortFrame
  PROVE  FormsInv'
<1>1. frameAborted' = TRUE /\ events' = events
  BY DEF AbortFrame
<1>2. CASE \E f \in DOMAIN forms : forms[f].abortListener
  <2> DEFINE f == CHOOSE g \in DOMAIN forms : forms[g].abortListener
  <2>1. f \in DOMAIN forms /\ forms[f].abortListener
    BY <1>2
  <2>2. Finish(f, forms[f], Rejected)
    BY <1>2 DEF AbortFrame
  <2> HIDE DEF f
  <2>3. \A g \in DOMAIN forms \ {f} : ~forms[g].abortListener
    BY <2>1 DEF FormsInv, SoundForm, IsPending
  <2>4. FormShape(forms[f]) /\ Rejected.type = "rejected"
    BY <2>1, FormFacts DEF Rejected
  <2>5. (\E S : events' \in Seq(S)) /\ \A k \in DOMAIN events' : events'[k].form \in DOMAIN forms
    BY <1>1 DEF FormsInv
  <2> QED BY <2>1, <2>2, <2>3, <2>4, <2>5, FinishKeeps
<1>3. CASE ~\E f \in DOMAIN forms : forms[f].abortListener
  <2>1. UNCHANGED <<forms, activeForm>>
    BY <1>3 DEF AbortFrame
  <2> QED BY <1>1, <1>3, <2>1 DEF FormsInv, IsPending
<1> QED BY <1>2, <1>3

\* Only the events on their way change.
LEMMA EventsStep ==
  ASSUME FormsInv, UNCHANGED <<forms, activeForm, frameAborted>>, \E S : events' \in Seq(S),
         \A k \in DOMAIN events' : events'[k].form \in DOMAIN forms
  PROVE  FormsInv'
  BY DEF FormsInv, IsPending

LEMMA SendFormEventKeeps ==
  ASSUME FormsInv, NEW f \in DOMAIN forms, SendFormEvent(f)
  PROVE  FormsInv'
<1>1. PICK S : events \in Seq(S)
  BY DEF FormsInv
<1>2. PICK e : e.form = f /\ events' = Append(events, e)
  BY DEF SendFormEvent
<1>3. events \in Seq(S \cup {e})
  BY <1>1, SeqMonotonic
<1>4. events' \in Seq(S \cup {e})
  BY <1>2, <1>3, AppendProperties
<1>5. \A k \in DOMAIN events' : events'[k].form \in DOMAIN forms
  <2>1. /\ DOMAIN events = 1 .. Len(events) /\ Len(events) \in Nat
        /\ DOMAIN events' = 1 .. Len(events) + 1
    BY <1>2, <1>3, <1>4, LenProperties, AppendProperties
  <2>2. /\ events'[Len(events) + 1] = e
        /\ \A k \in 1 .. Len(events) : events'[k] = events[k]
    BY <1>2, <1>3, AppendProperties
  <2> QED BY <1>2, <2>1, <2>2 DEF FormsInv
<1> QED BY <1>4, <1>5, EventsStep DEF SendFormEvent

\* A pending form takes over other data, and perhaps begins an attempt.
LEMMA CandidateKeeps ==
  ASSUME FormsInv, NEW f \in DOMAIN forms, IsPending(f), NEW e, Candidate(f, e),
         e.type = "submit" => forms[f].attempt = 0,
         UNCHANGED frameAborted, \E S : events' \in Seq(S),
         \A k \in DOMAIN events' : events'[k].form \in DOMAIN forms
  PROVE  FormsInv'
<1> DEFINE form == [forms[f] EXCEPT !.restorePending = FALSE, !.canonical = e.data]
           data == e.data
           n == Len(form.snapshots) + 1
           begun == [form EXCEPT !.attempt = n, !.state = "CALLBACK_ACTIVE",
                                 !.snapshots = Append(@, data), !.running = @ \cup {n}]
           value == [type |-> "submitted", value |-> data, by |-> 0]
<1>0. /\ SoundForm(forms[f]) /\ FormShape(forms[f]) /\ forms[f].result.type = "pending"
      /\ frameAborted' => \A g \in DOMAIN forms : ~forms[g].abortListener
  BY FormFacts DEF IsPending
<1>1. /\ DOMAIN form = DOMAIN forms[f] /\ form.result = forms[f].result /\ form.attempt = forms[f].attempt
      /\ form.domain = forms[f].domain /\ form.loading = forms[f].loading
      /\ form.state = forms[f].state /\ form.snapshots = forms[f].snapshots
      /\ form.subscription = forms[f].subscription /\ form.abortListener = forms[f].abortListener
  BY <1>0 DEF FormShape, FormFields
<1>2. \/ Keep(f, form)
      \/ Finish(f, forms[f], Rejected)
      \/ e.type = "submit" /\ Finish(f, form, value)
      \/ e.type = "submit" /\ Keep(f, begun)
  BY DEF Candidate, Submitted
<1> HIDE DEF form
<1>3. FormShape(form) /\ SoundForm(form)
  BY <1>0, <1>1 DEF FormShape, SoundForm, Submission, Lock, Loading
<1>4. CASE Keep(f, form)
  BY <1>0, <1>1, <1>3, <1>4, KeepKeeps DEF IsPending
<1>5. CASE Finish(f, forms[f], Rejected)
  <2>1. Rejected.type = "rejected"
    BY DEF Rejected
  <2> QED BY <1>0, <1>5, <2>1, FinishKeeps
<1>6. CASE Finish(f, form, value)
  <2>1. value.type = "submitted" /\ value.by = 0
    OBVIOUS
  <2> HIDE DEF value
  <2> QED BY <1>0, <1>3, <1>6, <2>1, FinishKeeps
<1>7. CASE e.type = "submit" /\ Keep(f, begun)
  <2>1. PICK S : form.snapshots \in Seq(S)
    BY <1>3 DEF FormShape
  <2>2. form.snapshots \in Seq(S \cup {data})
    BY <2>1, SeqMonotonic
  <2>3. /\ Append(form.snapshots, data) \in Seq(S \cup {data})
        /\ Len(Append(form.snapshots, data)) = n
    BY <2>2, AppendProperties
  <2>4. /\ DOMAIN begun = DOMAIN form /\ begun.result = form.result /\ begun.domain = form.domain
        /\ begun.loading = form.loading /\ begun.subscription = form.subscription
        /\ begun.abortListener = form.abortListener /\ begun.attempt = n
        /\ begun.state = "CALLBACK_ACTIVE" /\ begun.snapshots = Append(form.snapshots, data)
    BY <1>3 DEF FormShape, FormFields
  <2>5. form.attempt = 0 /\ form.result.type = "pending"
    BY <1>0, <1>1, <1>7
  <2> HIDE DEF begun, n
  <2>6. FormShape(begun)
    BY <1>3, <2>3, <2>4 DEF FormShape
  <2>7. Lock(begun)
    BY <1>3, <2>4, <2>5 DEF SoundForm, Lock, Loading
  <2>8. SoundForm(begun)
    BY <1>3, <2>3, <2>4, <2>5, <2>6, <2>7 DEF SoundForm, Submission
  <2> QED BY <1>0, <1>1, <1>7, <2>4, <2>8, KeepKeeps DEF IsPending
<1> QED BY <1>2, <1>4, <1>5, <1>6, <1>7

LEMMA RestoreKeeps ==
  ASSUME FormsInv, NEW f \in DOMAIN forms, IsPending(f), NEW data, Restore(f, data),
         UNCHANGED frameAborted, \E S : events' \in Seq(S),
         \A k \in DOMAIN events' : events'[k].form \in DOMAIN forms
  PROVE  FormsInv'
<1> DEFINE form == [forms[f] EXCEPT !.restorePending = FALSE, !.canonical = data]
<1>0. /\ SoundForm(forms[f]) /\ FormShape(forms[f]) /\ forms[f].result.type = "pending"
      /\ frameAborted' => \A g \in DOMAIN forms : ~forms[g].abortListener
  BY FormFacts DEF IsPending
<1>1. /\ DOMAIN form = DOMAIN forms[f] /\ form.result = forms[f].result /\ form.attempt = forms[f].attempt
      /\ form.domain = forms[f].domain /\ form.loading = forms[f].loading
      /\ form.state = forms[f].state /\ form.snapshots = forms[f].snapshots
      /\ form.subscription = forms[f].subscription /\ form.abortListener = forms[f].abortListener
  BY <1>0 DEF FormShape, FormFields
<1>2. \/ UNCHANGED <<forms, activeForm>>
      \/ Keep(f, form)
      \/ Finish(f, forms[f], Rejected)
  BY DEF Restore
<1> HIDE DEF form
<1>3. FormShape(form) /\ SoundForm(form)
  BY <1>0, <1>1 DEF FormShape, SoundForm, Submission, Lock, Loading
<1>4. CASE Keep(f, form)
  BY <1>0, <1>1, <1>3, <1>4, KeepKeeps DEF IsPending
<1>5. CASE Finish(f, forms[f], Rejected)
  <2>1. Rejected.type = "rejected"
    BY DEF Rejected
  <2> QED BY <1>0, <1>5, <2>1, FinishKeeps
<1> QED BY <1>2, <1>4, <1>5, EventsStep

LEMMA DeliverKeeps ==
  ASSUME FormsInv, DeliverEvent
  PROVE  FormsInv'
<1> DEFINE e == Head(events)
           f == e.form
<1>1. PICK S : events \in Seq(S)
  BY DEF FormsInv
<1>2. /\ DOMAIN events = 1 .. Len(events) /\ Len(events) \in Nat /\ Len(events) > 0
      /\ Head(events) = events[1]
      /\ Tail(events) \in Seq(S) /\ Len(Tail(events)) = Len(events) - 1
      /\ \A i \in 1 .. Len(Tail(events)) : Tail(events)[i] = events[i + 1]
      /\ DOMAIN Tail(events) = 1 .. Len(Tail(events))
  BY <1>1, HeadTailProperties, LenProperties, EmptySeq DEF DeliverEvent
<1>3. events' = Tail(events) /\ UNCHANGED frameAborted
  BY DEF DeliverEvent
<1>4. f \in DOMAIN forms
  BY <1>2 DEF FormsInv
<1>5. (\E T : events' \in Seq(T)) /\ \A k \in DOMAIN events' : events'[k].form \in DOMAIN forms
  BY <1>2, <1>3 DEF FormsInv
<1>6. \/ UNCHANGED <<forms, activeForm>>
      \/ IsPending(f) /\ Finish(f, forms[f], [type |-> "cancelled"])
      \/ IsPending(f) /\ Restore(f, e.data)
      \/ IsPending(f) /\ Candidate(f, e) /\ (e.type = "submit" => forms[f].attempt = 0)
  BY DEF DeliverEvent, ReceiveFormEvent, Cancel
<1> HIDE DEF f, e
<1>7. CASE IsPending(f) /\ Finish(f, forms[f], [type |-> "cancelled"])
  <2>1. [type |-> "cancelled"].type = "cancelled"
    OBVIOUS
  <2>2. FormShape(forms[f]) /\ (frameAborted' => \A g \in DOMAIN forms \ {f} : ~forms[g].abortListener)
    BY <1>3, <1>4, FormFacts
  <2> DEFINE r == [type |-> "cancelled"]
  <2> HIDE DEF r
  <2> QED BY <1>4, <1>5, <1>7, <2>1, <2>2, FinishKeeps DEF r
<1> QED BY <1>3, <1>4, <1>5, <1>6, <1>7, EventsStep, RestoreKeeps, CandidateKeeps

LEMMA AttemptKeeps ==
  ASSUME FormsInv, NEW f \in DOMAIN forms, NEW attempt \in Attempts(f),
         \/ SetLoading(f, attempt) \/ CancelLoading(f, attempt)
         \/ CloseAttempt(f, attempt) \/ CallbackEnds(f, attempt)
  PROVE  FormsInv'
<1> DEFINE form == forms[f]
           Changed(c) == /\ DOMAIN c = DOMAIN form
                         /\ \A x \in FormFields \ {"loading", "state", "attempt", "running"} : c[x] = form[x]
<1>0. /\ SoundForm(form) /\ FormShape(form) /\ (IsPending(f) <=> form.result.type = "pending")
      /\ UNCHANGED <<frameAborted, events>>
  BY FormFacts DEF IsPending, SetLoading, CancelLoading, CloseAttempt, CallbackEnds
<1>1. /\ \E S : events' \in Seq(S)
      /\ \A k \in DOMAIN events' : events'[k].form \in DOMAIN forms
      /\ frameAborted' => \A g \in DOMAIN forms : ~forms[g].abortListener
  BY <1>0, FormFacts
<1>2. attempt # 0
  <2>1. PICK S : form.snapshots \in Seq(S)
    BY <1>0 DEF FormShape
  <2>2. attempt \in 1 .. Len(form.snapshots) /\ Len(form.snapshots) \in Nat
    BY <2>1, LenProperties DEF Attempts
  <2> QED BY <2>2
\* Only the attempt, its lock and the callbacks that run have changed.
<1>3. ASSUME NEW c, Changed(c), Lock(c),
             c.attempt = form.attempt \/ c.attempt = 0
      PROVE  /\ SoundForm(c)
             /\ c.result.type = "pending" <=> IsPending(f)
             /\ c.abortListener = form.abortListener
  <2>1. /\ c.result = form.result /\ c.domain = form.domain /\ c.subscription = form.subscription
        /\ c.snapshots = form.snapshots /\ c.abortListener = form.abortListener
    BY <1>3 DEF FormFields
  <2>2. FormShape(c)
    BY <1>0, <1>3, <2>1 DEF FormShape
  <2> QED BY <1>0, <1>3, <2>1, <2>2 DEF SoundForm, Submission
<1>4. ASSUME NEW c, Changed(c), Lock(c), c.attempt = form.attempt \/ c.attempt = 0, Keep(f, c)
      PROVE  FormsInv'
  <2>1. SoundForm(c) /\ (c.result.type = "pending" <=> IsPending(f)) /\ c.abortListener = form.abortListener
    BY <1>3, <1>4
  <2> HIDE DEF Changed
  <2> QED BY <1>0, <1>1, <1>4, <2>1, KeepKeeps
<1>5. CASE SetLoading(f, attempt)
  <2> DEFINE c == [form EXCEPT !.loading = TRUE, !.state = "LOADING"]
  <2>1. Keep(f, c) /\ form.attempt = attempt
    BY <1>5 DEF SetLoading, IsCurrentAttempt
  <2>2. Changed(c) /\ c.attempt = form.attempt /\ c.loading = TRUE /\ c.state = "LOADING"
    BY <1>0 DEF FormShape, FormFields
  <2> HIDE DEF c, Changed
  <2>3. Lock(c)
    BY <1>2, <2>1, <2>2 DEF Lock, Loading
  <2> QED BY <1>4, <2>1, <2>2, <2>3
<1>6. CASE CancelLoading(f, attempt)
  <2> DEFINE c == [form EXCEPT !.loading = FALSE, !.state = "CALLBACK_ACTIVE"]
  <2>1. Keep(f, c)
    BY <1>6 DEF CancelLoading
  <2>2. Changed(c) /\ c.attempt = form.attempt /\ c.loading = FALSE /\ c.state = "CALLBACK_ACTIVE"
    BY <1>0 DEF FormShape, FormFields
  <2> HIDE DEF c, Changed
  <2>3. Lock(c)
    BY <2>2 DEF Lock, Loading
  <2> QED BY <1>4, <2>1, <2>2, <2>3
\* The current attempt is the newest one, whose snapshot is taken.
<1>7. CASE CloseAttempt(f, attempt)
  <2> DEFINE r == [type |-> "submitted", value |-> form.snapshots[attempt], by |-> attempt]
  <2>1. Finish(f, form, r) /\ form.attempt = attempt
    BY <1>7 DEF CloseAttempt, IsCurrentAttempt
  <2>2. r.type = "submitted" /\ r.by = Len(form.snapshots) /\ r.value = form.snapshots[r.by]
    BY <1>0, <1>2, <2>1 DEF SoundForm
  <2> HIDE DEF r
  <2> QED BY <1>0, <1>1, <2>1, <2>2, FinishKeeps
<1>8. CASE CallbackEnds(f, attempt)
  <2> DEFINE w == WithoutAttempt(f, attempt)
             done == Completed(w)
  <2>1. \/ Keep(f, w)
        \/ Keep(f, done)
        \/ Finish(f, w, Rejected)
    BY <1>8 DEF CallbackEnds
  <2>2. /\ Changed(w) /\ w.attempt = form.attempt /\ w.loading = form.loading /\ w.state = form.state
        /\ w.domain = form.domain /\ w.snapshots = form.snapshots
    BY <1>0 DEF FormShape, FormFields, WithoutAttempt
  <2> HIDE DEF w
  <2>3. Changed(done) /\ done.attempt = 0 /\ done.loading = FALSE
    BY <1>0, <2>2 DEF FormShape, FormFields, Completed
  <2> HIDE DEF done, Changed
  <2>4. Lock(w) /\ Lock(done)
    BY <1>0, <2>2, <2>3 DEF SoundForm, Lock, Loading
  <2>5. CASE Finish(f, w, Rejected)
    <3>1. FormShape(w) /\ Rejected.type = "rejected"
      BY <1>0, <2>2 DEF FormShape, Rejected, Changed
    <3> QED BY <1>0, <1>1, <2>5, <3>1, FinishKeeps
  <2> QED BY <1>4, <2>1, <2>2, <2>3, <2>4, <2>5
<1> QED BY <1>5, <1>6, <1>7, <1>8

\* Forms: the invariant holds in every state.
THEOREM FormInvariant == SpecForm => []FormsInv
<1>1. InitForm => FormsInv
  <2>1. <<>> \in Seq({0}) /\ DOMAIN <<>> = {}
    BY EmptySeq
  <2> QED BY <2>1 DEF InitForm, FormsInv
<1>2. FormsInv /\ [NextForm]_formVars => FormsInv'
  <2> SUFFICES ASSUME FormsInv, [NextForm]_formVars PROVE FormsInv'
    OBVIOUS
  <2>1. CASE UNCHANGED formVars
    BY <2>1, EventsStep DEF formVars, FormsInv
  <2>2. ASSUME NEW options \in FormOptions, OpenSchemaForm(options) PROVE FormsInv'
    BY <2>2, OpenKeeps
  <2>3. ASSUME NEW f \in DOMAIN forms, HubSubscribes(f) \/ SubscribeFails(f) \/ SubscribeReturns(f)
        PROVE  FormsInv'
    BY <2>3, SubscriptionKeeps
  <2>4. ASSUME NEW f \in DOMAIN forms, SendFormEvent(f) PROVE FormsInv'
    BY <2>4, SendFormEventKeeps
  <2>5. CASE AbortFrame \/ DeliverEvent
    BY <2>5, AbortKeeps, DeliverKeeps
  <2>6. ASSUME NEW f \in DOMAIN forms, NEW attempt \in Attempts(f),
               \/ SetLoading(f, attempt) \/ CancelLoading(f, attempt)
               \/ CloseAttempt(f, attempt) \/ CallbackEnds(f, attempt)
        PROVE  FormsInv'
    BY <2>6, AttemptKeeps
  <2> QED BY <2>1, <2>2, <2>3, <2>4, <2>5, <2>6 DEF NextForm
<1> QED BY <1>1, <1>2, PTL DEF SpecForm

\* A form is closed with the snapshot of its newest attempt, whatever controls
\* of earlier attempts the caller has kept.
THEOREM NewestAttemptWins == SpecForm => []OnlyTheNewestAttempt
<1>1. FormsInv => OnlyTheNewestAttempt
  BY DEF FormsInv, SoundForm, Submission, OnlyTheNewestAttempt
<1> QED BY <1>1, FormInvariant, PTL

\* A settled form shows nothing, listens to nothing and is registered nowhere,
\* and the element shows that it is loading exactly while the lock is on.
THEOREM SettledFormsHoldNothing == SpecForm => [](SettledHoldsNothing /\ LoadingIsLocked)
<1>1. FormsInv => SettledHoldsNothing /\ LoadingIsLocked
  BY DEF FormsInv, SoundForm, Lock, IsPending, SettledHoldsNothing, LoadingIsLocked
<1> QED BY <1>1, FormInvariant, PTL

-----------------------------------------------------------------------------
(* ControlsInput.                                                          *)

ControlsType ==
    /\ browser \in [focused : BOOLEAN, typing : BOOLEAN, pads : Samples]
    /\ machine \in [usable : BOOLEAN, capture : BOOLEAN, keyboard : SUBSET Buttons,
                    pads : Samples, custom : SUBSET Buttons]
    /\ element \in [connected : BOOLEAN, context : BOOLEAN, started : BOOLEAN, refresh : SUBSET Buttons]
    /\ owner \in {"nobody", "element", "another"}
    /\ hold \in [pressed : BOOLEAN, timer : BOOLEAN, overlay : BOOLEAN]

\* A window is watched only by an element that has started.
ControlsInv == ControlsType /\ HeldCanBeReleased /\ (machine.usable => element.started)

\* What a machine may be: it holds nothing it would not be told the release of.
SoundMachine(m) ==
    /\ m \in [usable : BOOLEAN, capture : BOOLEAN, keyboard : SUBSET Buttons,
              pads : Samples, custom : SUBSET Buttons]
    /\ m.keyboard # {} => m.capture
    /\ OtherSourceDown(m) # {} => m.usable

LEMMA SamplesHoldButtons ==
  ASSUME NEW pads \in Samples
  PROVE  Union(pads) \in SUBSET Buttons
  BY DEF Samples, Union

LEMMA NothingIsHeld == NoPads \in Samples /\ Union(NoPads) = {}
<1>1. DOMAIN NoPads = {}
  BY DEF NoPads
<1>2. NoPads \in [{} -> SUBSET Buttons]
  BY DEF NoPads
<1> QED BY <1>1, <1>2 DEF Samples, Union

\* The timer of the overlay runs only while Select is down.
LEMMA HeldFollows ==
  ASSUME NEW pressed \in BOOLEAN, hold \in [pressed : BOOLEAN, timer : BOOLEAN, overlay : BOOLEAN],
         hold.timer => hold.pressed
  PROVE  /\ Held(pressed) \in [pressed : BOOLEAN, timer : BOOLEAN, overlay : BOOLEAN]
         /\ Held(pressed).pressed <=> pressed
         /\ Held(pressed).timer => pressed
  BY DEF Held

\* A publication of a sound machine leaves the element repeating what is down.
LEMMA PublicationKeeps ==
  ASSUME ControlsInv, element.started, NEW next, SoundMachine(next), NEW must, NEW sent,
         Publication(next, must, sent)
  PROVE  ControlsInv'
<1>1. machine' = next /\ browser' = browser
  BY DEF Publication
<1>2. EffectiveDown(next) \in SUBSET Buttons
  BY SamplesHoldButtons DEF SoundMachine, EffectiveDown, OtherSourceDown
<1>3. \/ /\ element' = [element EXCEPT !.refresh = EffectiveDown(next)]
         /\ hold' = Held(SelectButton \in EffectiveDown(next))
      \/ element' = element /\ hold' = hold /\ EffectiveDown(next) = EffectiveDown(machine)
  BY DEF Publication
<1>4. /\ element' \in [connected : BOOLEAN, context : BOOLEAN, started : BOOLEAN, refresh : SUBSET Buttons]
      /\ element'.refresh = EffectiveDown(next) /\ element'.started = element.started
      /\ owner' = owner
  BY <1>2, <1>3 DEF ControlsInv, ControlsType, HeldCanBeReleased, Publication
<1>7. /\ hold' \in [pressed : BOOLEAN, timer : BOOLEAN, overlay : BOOLEAN]
      /\ (hold'.pressed <=> SelectButton \in EffectiveDown(next)) /\ (hold'.timer => hold'.pressed)
  <2>0. /\ hold \in [pressed : BOOLEAN, timer : BOOLEAN, overlay : BOOLEAN]
        /\ hold.timer => hold.pressed
        /\ hold.pressed <=> SelectButton \in EffectiveDown(machine)
    BY DEF ControlsInv, ControlsType, HeldCanBeReleased
  <2> DEFINE p == SelectButton \in EffectiveDown(next)
  <2>4. p \in BOOLEAN
    OBVIOUS
  <2> HIDE DEF p
  <2>1. /\ Held(p) \in [pressed : BOOLEAN, timer : BOOLEAN, overlay : BOOLEAN]
        /\ (Held(p).pressed <=> p) /\ (Held(p).timer => p)
    BY <2>0, <2>4, HeldFollows
  <2>2. CASE hold' = Held(p)
    BY <2>1, <2>2 DEF p
  <2>3. CASE hold' = hold /\ EffectiveDown(next) = EffectiveDown(machine)
    BY <2>0, <2>3
  <2> QED BY <1>3, <2>2, <2>3 DEF p
<1>5. ControlsType'
  BY <1>1, <1>4, <1>7 DEF ControlsInv, ControlsType, SoundMachine
<1>6. EffectiveDown(machine)' = EffectiveDown(next) /\ OtherSourceDown(machine)' = OtherSourceDown(next)
  BY <1>1 DEF EffectiveDown, OtherSourceDown, Union
<1> QED BY <1>1, <1>4, <1>5, <1>6, <1>7 DEF ControlsInv, HeldCanBeReleased, SoundMachine

LEMMA FreshIsSound ==
  ASSUME NEW usable \in BOOLEAN, NEW pads \in Samples, pads = NoPads \/ usable
  PROVE  SoundMachine(Fresh(usable, pads))
<1>1. /\ Fresh(usable, pads).keyboard = {}
      /\ OtherSourceDown(Fresh(usable, pads)) = Union(pads)
  BY DEF Fresh, OtherSourceDown
<1> QED BY <1>1, NothingIsHeld DEF SoundMachine, Fresh

LEMMA RecaptureIsSound ==
  ASSUME NEW m, SoundMachine(m), NEW capture \in BOOLEAN
  PROVE  SoundMachine(Recapture(m, capture))
<1> DEFINE r == Recapture(m, capture)
<1>1. /\ r \in [usable : BOOLEAN, capture : BOOLEAN, keyboard : SUBSET Buttons,
               pads : Samples, custom : SUBSET Buttons]
      /\ r.capture = capture /\ r.usable = m.usable /\ r.pads = m.pads /\ r.custom = m.custom
      /\ r.keyboard = IF capture THEN m.keyboard ELSE {}
  BY DEF SoundMachine, Recapture
<1> HIDE DEF r
<1> QED BY <1>1 DEF SoundMachine, OtherSourceDown, r

\* The sources: what each tells, and that the machine stays sound.
LEMMA SourceStep ==
  ASSUME ControlsInv, Source
  PROVE  ControlsInv'
<1>0. /\ SoundMachine(machine) /\ browser.pads \in Samples /\ browser.focused \in BOOLEAN
      /\ browser.typing \in BOOLEAN
  BY DEF ControlsInv, ControlsType, HeldCanBeReleased, SoundMachine
<1>1. ASSUME NEW button \in Buttons, Keyup(button) PROVE ControlsInv'
  <2>1. SoundMachine([machine EXCEPT !.keyboard = @ \ {button}])
    BY <1>0, <1>1 DEF Keyup, SoundMachine, OtherSourceDown
  <2> QED BY <1>1, <2>1, PublicationKeeps DEF Keyup
<1>2. ASSUME NEW button \in Buttons, NEW repeat \in BOOLEAN, Keydown(button, repeat) PROVE ControlsInv'
  <2>1. SoundMachine([machine EXCEPT !.keyboard = @ \cup {button}])
    BY <1>0, <1>2 DEF Keydown, SoundMachine, OtherSourceDown
  <2> QED BY <1>2, <2>1, PublicationKeeps DEF Keydown
<1>3. ASSUME Poll PROVE ControlsInv'
  <2>1. SoundMachine([machine EXCEPT !.pads = browser.pads])
    BY <1>0, <1>3 DEF Poll, SoundMachine, OtherSourceDown
  <2> QED BY <1>3, <2>1, PublicationKeeps DEF Poll
<1>4. ASSUME NEW down \in SUBSET Buttons, CustomState(down) PROVE ControlsInv'
  <2>1. SoundMachine([machine EXCEPT !.custom = down])
    BY <1>0, <1>4 DEF CustomState, SoundMachine, OtherSourceDown
  <2> QED BY <1>4, <2>1, PublicationKeeps DEF CustomState
<1>5. ASSUME ReconcileWindow PROVE ControlsInv'
  <2>1. SoundMachine(Reset(machine, browser.focused))
    BY <1>0, FreshIsSound, NothingIsHeld DEF Reset
  <2>2. SoundMachine(Reconciled)
    BY <1>0, <2>1, RecaptureIsSound DEF Reconciled
  <2> QED BY <1>5, <2>2, PublicationKeeps DEF ReconcileWindow
<1> QED BY <1>1, <1>2, <1>3, <1>4, <1>5 DEF Source

LEMMA ElementStarts ==
  ASSUME ControlsInv, NEW connected \in BOOLEAN, NEW context \in BOOLEAN,
         StartIfReady(connected, context), browser' = browser
  PROVE  ControlsInv'
<1>0. SoundMachine(machine) /\ browser.pads \in Samples /\ browser.typing \in BOOLEAN
  BY DEF ControlsInv, ControlsType, HeldCanBeReleased, SoundMachine
<1>1. CASE ~(connected /\ context) \/ element.started \/ owner = "another"
  <2>1. /\ element' = [element EXCEPT !.connected = connected, !.context = context]
        /\ UNCHANGED <<machine, owner, hold>>
    BY <1>1 DEF StartIfReady
  <2>2. ControlsType' /\ element'.refresh = element.refresh /\ element'.started = element.started
    BY <2>1 DEF ControlsInv, ControlsType
  <2> QED BY <2>1, <2>2 DEF ControlsInv, HeldCanBeReleased, EffectiveDown, OtherSourceDown, Union
<1>2. CASE ~(~(connected /\ context) \/ element.started \/ owner = "another")
  <2> DEFINE next == IF browser.focused THEN Recapture(Reset(machine, TRUE), ~browser.typing) ELSE machine
  <2>1. SoundMachine(next)
    <3>1. SoundMachine(Recapture(Reset(machine, TRUE), ~browser.typing))
      BY <1>0, FreshIsSound, RecaptureIsSound DEF Reset
    <3> QED BY <1>0, <3>1
  <2>2. /\ machine' = next /\ owner' = "element"
        /\ element' = [connected |-> TRUE, context |-> TRUE, started |-> TRUE,
                       refresh |-> EffectiveDown(next)]
        /\ IF browser.focused THEN hold' = Held(SelectButton \in EffectiveDown(next)) ELSE hold' = hold
        /\ ~browser.focused => next = machine
    BY <1>2 DEF StartIfReady
  <2> HIDE DEF next
  <2>3. /\ hold' \in [pressed : BOOLEAN, timer : BOOLEAN, overlay : BOOLEAN]
        /\ (hold'.pressed <=> SelectButton \in EffectiveDown(next)) /\ (hold'.timer => hold'.pressed)
    <3>0. /\ hold \in [pressed : BOOLEAN, timer : BOOLEAN, overlay : BOOLEAN]
          /\ hold.timer => hold.pressed
          /\ hold.pressed <=> SelectButton \in EffectiveDown(machine)
      BY DEF ControlsInv, ControlsType, HeldCanBeReleased
    <3> DEFINE p == SelectButton \in EffectiveDown(next)
    <3>4. p \in BOOLEAN
      OBVIOUS
    <3> HIDE DEF p
    <3>1. /\ Held(p) \in [pressed : BOOLEAN, timer : BOOLEAN, overlay : BOOLEAN]
          /\ (Held(p).pressed <=> p) /\ (Held(p).timer => p)
      BY <3>0, <3>4, HeldFollows
    <3>2. CASE hold' = Held(p)
      BY <3>1, <3>2 DEF p
    <3>3. CASE hold' = hold /\ next = machine
      BY <3>0, <3>3
    <3> QED BY <2>2, <3>2, <3>3 DEF p
  <2>4. EffectiveDown(next) \in SUBSET Buttons
    BY <2>1, SamplesHoldButtons DEF SoundMachine, EffectiveDown, OtherSourceDown
  <2>5. ControlsType'
    BY <2>1, <2>2, <2>3, <2>4 DEF ControlsInv, ControlsType, SoundMachine
  <2>6. EffectiveDown(machine)' = EffectiveDown(next) /\ OtherSourceDown(machine)' = OtherSourceDown(next)
    BY <2>2 DEF EffectiveDown, OtherSourceDown, Union
  <2> QED BY <2>1, <2>2, <2>3, <2>5, <2>6 DEF ControlsInv, HeldCanBeReleased, SoundMachine
<1> QED BY <1>1, <1>2

LEMMA ElementStep ==
  ASSUME ControlsInv, Connect \/ ReceiveRenderContext \/ Disconnect
  PROVE  ControlsInv'
<1>1. CASE Connect
  BY <1>1, ElementStarts DEF Connect, ControlsInv, ControlsType
<1>2. CASE ReceiveRenderContext
  BY <1>2, ElementStarts DEF ReceiveRenderContext, ControlsInv, ControlsType
<1>3. CASE Disconnect
  <2>1. /\ SoundMachine(Fresh(FALSE, NoPads)) /\ EffectiveDown(Fresh(FALSE, NoPads)) = {}
        /\ ~Fresh(FALSE, NoPads).usable
    BY FreshIsSound, NothingIsHeld DEF EffectiveDown, OtherSourceDown, Fresh
  <2>2. /\ machine' = Fresh(FALSE, NoPads) /\ browser' = browser
        /\ element'.refresh = {} /\ element'.started = FALSE
        /\ element' \in [connected : BOOLEAN, context : BOOLEAN, started : BOOLEAN, refresh : SUBSET Buttons]
        /\ owner' \in {"nobody", "element", "another"}
        /\ hold' = [pressed |-> FALSE, timer |-> FALSE, overlay |-> FALSE]
    BY <1>3 DEF Disconnect, ControlsInv, ControlsType
  <2>3. ControlsType'
    BY <2>1, <2>2 DEF ControlsInv, ControlsType, SoundMachine
  <2>4. /\ EffectiveDown(machine)' = EffectiveDown(Fresh(FALSE, NoPads))
        /\ OtherSourceDown(machine)' = OtherSourceDown(Fresh(FALSE, NoPads))
    BY <2>2 DEF EffectiveDown, OtherSourceDown, Union
  <2> QED BY <2>1, <2>2, <2>3, <2>4 DEF ControlsInv, HeldCanBeReleased, SoundMachine
<1> QED BY <1>1, <1>2, <1>3

\* The element repeats what is down at this moment, and the sources hold nothing
\* whose release they would not be told.
THEOREM ControlsInvariant == SpecControls => []ControlsInv
<1>1. InitControls => ControlsInv
  <2> SUFFICES ASSUME InitControls PROVE ControlsInv
    OBVIOUS
  <2>1. /\ SoundMachine(Fresh(FALSE, NoPads)) /\ EffectiveDown(Fresh(FALSE, NoPads)) = {}
        /\ ~Fresh(FALSE, NoPads).usable
    BY FreshIsSound, NothingIsHeld DEF EffectiveDown, OtherSourceDown, Fresh
  <2>2. ControlsType
    BY <2>1, NothingIsHeld DEF InitControls, ControlsType, SoundMachine
  <2> QED BY <2>1, <2>2 DEF InitControls, ControlsInv, HeldCanBeReleased, SoundMachine
<1>2. ControlsInv /\ [NextControls]_controlsVars => ControlsInv'
  <2> SUFFICES ASSUME ControlsInv, [NextControls]_controlsVars PROVE ControlsInv'
    OBVIOUS
  <2>1. CASE Source
    BY <2>1, SourceStep
  <2>2. CASE Connect \/ ReceiveRenderContext \/ Disconnect
    BY <2>2, ElementStep
  <2>3. ASSUME UNCHANGED <<machine, element>>,
               browser' \in [focused : BOOLEAN, typing : BOOLEAN, pads : Samples],
               owner' \in {"nobody", "element", "another"}, owner = "element" => owner' = owner,
               hold' \in [pressed : {hold.pressed}, timer : {FALSE, hold.timer}, overlay : BOOLEAN]
        PROVE  ControlsInv'
    <3>1. ControlsType' /\ hold'.pressed = hold.pressed /\ (hold'.timer => hold.timer)
      BY <2>3 DEF ControlsInv, ControlsType
    <3> QED BY <2>3, <3>1 DEF ControlsInv, HeldCanBeReleased, EffectiveDown, OtherSourceDown, Union
  <2>4. CASE BrowserChanges
    BY <2>3, <2>4 DEF BrowserChanges, ControlsInv, ControlsType
  <2>5. CASE Refresh \/ Arrive \/ Expire \/ CloseConsumer \/ UNCHANGED controlsVars
    BY <2>3, <2>5 DEF Refresh, Arrive, Expire, CloseConsumer, controlsVars, ControlsInv, ControlsType
  <2>6. CASE SelectHeld
    BY <2>3, <2>6 DEF SelectHeld, ControlsInv, ControlsType
  <2>7. CASE OverlayCloses
    BY <2>3, <2>7 DEF OverlayCloses, ControlsInv, ControlsType
  <2>8. CASE OtherElement
    BY <2>3, <2>8 DEF OtherElement, ControlsInv, ControlsType
  <2> QED BY <2>1, <2>2, <2>4, <2>5, <2>6, <2>7, <2>8 DEF NextControls
<1> QED BY <1>1, <1>2, PTL DEF SpecControls

\* What is told has happened.
LEMMA ToldEdgesHappen ==
  ASSUME ControlsInv, NextControls
  PROVE  EdgesHappened
<1> SUFFICES ASSUME machine' # machine, NEW e \in edges'
             PROVE  IF e.action = "down"
                    THEN e.button \in EffectiveDown(machine') \ EffectiveDown(machine)
                    ELSE e.button \in EffectiveDown(machine) \ EffectiveDown(machine')
  BY DEF EdgesHappened
<1>0. ControlsType
  BY DEF ControlsInv
<1>1. ASSUME NEW button \in Buttons, Keyup(button) PROVE e.action = "up" /\ e.button = button
               /\ button \in EffectiveDown(machine) \ EffectiveDown(machine')
  <2>1. /\ machine' = [machine EXCEPT !.keyboard = @ \ {button}] /\ button \in machine.keyboard
        /\ e \in Releases({button} \ OtherSourceDown(machine))
    BY <1>1 DEF Keyup, Publication
  <2>2. e.action = "up" /\ e.button = button /\ button \notin OtherSourceDown(machine)
    BY <2>1 DEF Releases, Edge
  <2>3. OtherSourceDown(machine') = OtherSourceDown(machine) /\ machine'.keyboard = machine.keyboard \ {button}
    BY <1>0, <2>1 DEF ControlsType, OtherSourceDown
  <2> QED BY <2>1, <2>2, <2>3 DEF EffectiveDown
<1>2. ASSUME NEW button \in Buttons, NEW repeat \in BOOLEAN, Keydown(button, repeat)
      PROVE  /\ e.action = "down" /\ e.button = button
             /\ button \in EffectiveDown(machine') \ EffectiveDown(machine)
  <2>1. machine' = [machine EXCEPT !.keyboard = @ \cup {button}]
    BY <1>2 DEF Keydown, Publication
  <2>2. button \notin machine.keyboard
    <3>1. button \in machine.keyboard => machine.keyboard \cup {button} = machine.keyboard
      OBVIOUS
    <3> QED BY <1>0, <2>1, <3>1 DEF ControlsType
  <2>3. e \in Pressings({button} \ OtherSourceDown(machine))
    BY <1>2, <2>2 DEF Keydown, Publication
  <2>4. e.action = "down" /\ e.button = button /\ button \notin OtherSourceDown(machine)
    BY <2>3 DEF Pressings, Edge
  <2>5. machine'.keyboard = machine.keyboard \cup {button}
    BY <1>0, <2>1 DEF ControlsType
  <2> QED BY <2>2, <2>4, <2>5 DEF EffectiveDown
<1>3. ASSUME Poll \/ \E down \in SUBSET Buttons : CustomState(down)
      PROVE  \/ e.action = "down" /\ e.button \in EffectiveDown(machine') \ EffectiveDown(machine)
             \/ e.action = "up" /\ e.button \in EffectiveDown(machine) \ EffectiveDown(machine')
  <2>1. \/ e \in Pressings(EffectiveDown(machine') \ EffectiveDown(machine))
        \/ e \in Releases(EffectiveDown(machine) \ EffectiveDown(machine'))
    <3>1. CASE Poll
      <4>1. /\ machine' = [machine EXCEPT !.pads = browser.pads]
            /\ LET was == EffectiveDown(machine)
                   now == EffectiveDown([machine EXCEPT !.pads = browser.pads])
               IN  \/ e \in Pressings((now \ was) \cap PhysicalPress(machine.pads, browser.pads))
                   \/ e \in Releases((was \ now) \cap PhysicalRelease(machine.pads, browser.pads))
        BY <3>1 DEF Poll, Publication
      <4> QED BY <4>1 DEF Pressings, Releases
    <3>2. ASSUME NEW down \in SUBSET Buttons, CustomState(down)
          PROVE  \/ e \in Pressings(EffectiveDown(machine') \ EffectiveDown(machine))
                 \/ e \in Releases(EffectiveDown(machine) \ EffectiveDown(machine'))
      BY <3>2 DEF CustomState, Publication
    <3> QED BY <1>3, <3>1, <3>2
  <2> QED BY <2>1 DEF Pressings, Releases, Edge
<1>4. ASSUME ReconcileWindow \/ Connect \/ ReceiveRenderContext \/ Disconnect PROVE FALSE
  BY <1>4 DEF ReconcileWindow, Connect, ReceiveRenderContext, StartIfReady, Disconnect, Publication
<1> QED BY <1>1, <1>2, <1>3, <1>4 DEF NextControls, Source, Refresh, SelectHeld, OverlayCloses, BrowserChanges,
                                      OtherElement, Arrive, Expire, CloseConsumer

\* While the window and the keys stay, a button that goes down or up is told.
LEMMA NoEdgeIsMissing ==
  ASSUME ControlsInv, NextControls
  PROVE  NothingGoesUntold
<1> DEFINE was == EffectiveDown(machine)
           now == EffectiveDown(machine')
           Down == \A b \in now \ was : b \notin BroughtAlong => Edge("down", b, FALSE) \in edges'
           Up == \A b \in was \ now : Edge("up", b, FALSE) \in edges'
<1>0. ControlsType /\ HeldCanBeReleased /\ (machine.usable => element.started)
  BY DEF ControlsInv
<1> SUFFICES ASSUME SameWindow PROVE Down /\ Up
  BY DEF NothingGoesUntold, Pressings, Releases
<1>1. ASSUME machine' = machine PROVE Down /\ Up
  BY <1>1
<1>2. ASSUME NEW button \in Buttons, Keyup(button) PROVE Down /\ Up
  <2>1. /\ machine' = [machine EXCEPT !.keyboard = @ \ {button}]
        /\ edges' = Releases({button} \ OtherSourceDown(machine))
    BY <1>2 DEF Keyup, Publication
  <2>2. OtherSourceDown(machine') = OtherSourceDown(machine) /\ machine'.keyboard = machine.keyboard \ {button}
    BY <1>0, <2>1 DEF ControlsType, OtherSourceDown
  <2>3. now \subseteq was /\ was \ now \subseteq {button} \ OtherSourceDown(machine)
    BY <2>2 DEF EffectiveDown
  <2> QED BY <2>1, <2>3 DEF Releases
<1>3. ASSUME NEW button \in Buttons, NEW repeat \in BOOLEAN, Keydown(button, repeat) PROVE Down /\ Up
  <2>1. /\ machine' = [machine EXCEPT !.keyboard = @ \cup {button}]
        /\ button \notin machine.keyboard => edges' = Pressings({button} \ OtherSourceDown(machine))
    BY <1>3 DEF Keydown, Publication
  <2>2. OtherSourceDown(machine') = OtherSourceDown(machine) /\ machine'.keyboard = machine.keyboard \cup {button}
    BY <1>0, <2>1 DEF ControlsType, OtherSourceDown
  <2>3. /\ was \subseteq now /\ now \ was \subseteq {button} \ OtherSourceDown(machine)
        /\ now # was => button \notin machine.keyboard
    BY <2>2 DEF EffectiveDown
  <2> QED BY <2>1, <2>3 DEF Pressings
<1>4. ASSUME Poll PROVE Down /\ Up
  <2> DEFINE press == PhysicalPress(machine.pads, browser.pads)
             release == PhysicalRelease(machine.pads, browser.pads)
  <2>1. /\ machine' = [machine EXCEPT !.pads = browser.pads]
        /\ edges' = Pressings((now \ was) \cap press) \cup Releases((was \ now) \cap release)
    BY <1>4 DEF Poll, Publication
  <2>2. machine'.pads = browser.pads /\ machine'.keyboard = machine.keyboard /\ machine'.custom = machine.custom
    BY <1>0, <2>1 DEF ControlsType
  <2>3. ASSUME NEW b \in now \ was, b \notin BroughtAlong PROVE b \in press
    <3>1. PICK p \in DOMAIN browser.pads : b \in browser.pads[p]
      BY <2>2 DEF EffectiveDown, OtherSourceDown, Union
    <3>2. p \in DOMAIN machine.pads
      BY <2>2, <2>3, <3>1 DEF BroughtAlong
    <3>3. b \notin machine.pads[p]
      BY <3>2 DEF EffectiveDown, OtherSourceDown, Union
    <3> QED BY <3>1, <3>2, <3>3 DEF PhysicalPress
  <2>4. ASSUME NEW b \in was \ now PROVE b \in release
    <3>1. PICK p \in DOMAIN machine.pads : b \in machine.pads[p]
      BY <2>2 DEF EffectiveDown, OtherSourceDown, Union
    <3>2. b \notin Pressed(p, browser.pads)
      BY <2>2 DEF EffectiveDown, OtherSourceDown, Union, Pressed
    <3> QED BY <3>1, <3>2 DEF PhysicalRelease
  <2> QED BY <2>1, <2>3, <2>4 DEF Pressings, Releases
<1>5. ASSUME NEW down \in SUBSET Buttons, CustomState(down) PROVE Down /\ Up
  <2>1. edges' = Pressings(now \ was) \cup Releases(was \ now)
    BY <1>5 DEF CustomState, Publication
  <2> QED BY <2>1 DEF Pressings, Releases
<1>6. ASSUME ReconcileWindow PROVE machine' = machine
  <2>1. machine' = Reconciled
    BY <1>6 DEF ReconcileWindow, Publication
  <2>2. browser.focused = machine.usable
    <3>1. ASSUME browser.focused # machine.usable PROVE Reconciled.usable = browser.focused
      BY <3>1 DEF Reconciled, Reset, Fresh, Recapture
    <3> QED BY <2>1, <3>1 DEF SameWindow
  <2>3. \/ Reconciled = machine
        \/ \E capture \in BOOLEAN : capture # machine.capture /\ Reconciled = Recapture(machine, capture)
    BY <1>0, <2>2 DEF Reconciled, ControlsType
  <2>4. ASSUME NEW capture \in BOOLEAN PROVE Recapture(machine, capture).capture = capture
    BY <1>0 DEF Recapture, ControlsType
  <2> QED BY <2>1, <2>3, <2>4 DEF SameWindow
<1>7. ASSUME Connect \/ ReceiveRenderContext PROVE machine' = machine
  <2>1. PICK connected, context : StartIfReady(connected, context)
    BY <1>7 DEF Connect, ReceiveRenderContext
  <2>2. CASE ~(connected /\ context) \/ element.started \/ owner = "another" \/ ~browser.focused
    BY <2>1, <2>2 DEF StartIfReady
  <2>3. CASE ~(~(connected /\ context) \/ element.started \/ owner = "another" \/ ~browser.focused)
    <3>1. machine' = Recapture(Reset(machine, TRUE), ~browser.typing)
      BY <2>1, <2>3 DEF StartIfReady
    <3>2. machine'.usable = TRUE
      BY <3>1 DEF Recapture, Reset, Fresh
    <3> QED BY <1>0, <2>3, <3>2 DEF SameWindow, ControlsType
  <2> QED BY <2>2, <2>3
<1>8. ASSUME Disconnect PROVE Down /\ Up
  <2>1. machine' = Fresh(FALSE, NoPads)
    BY <1>8 DEF Disconnect
  <2>2. machine'.usable = FALSE /\ machine'.capture = FALSE /\ EffectiveDown(Fresh(FALSE, NoPads)) = {}
    BY <2>1, NothingIsHeld DEF EffectiveDown, OtherSourceDown, Fresh
  <2>3. was = {}
    BY <1>0, <2>2 DEF SameWindow, HeldCanBeReleased, EffectiveDown
  <2> QED BY <2>1, <2>2, <2>3
<1>9. ASSUME \/ Refresh \/ SelectHeld \/ OverlayCloses \/ BrowserChanges \/ OtherElement
             \/ Arrive \/ Expire \/ CloseConsumer
      PROVE  machine' = machine
  BY <1>9 DEF Refresh, SelectHeld, OverlayCloses, BrowserChanges, OtherElement, Arrive, Expire, CloseConsumer
<1> QED BY <1>1, <1>2, <1>3, <1>4, <1>5, <1>6, <1>7, <1>8, <1>9 DEF NextControls, Source

\* Every edge that is told is a transition of the button as a whole, and while
\* the element keeps the window and the keys every transition is told, but one
\* that an arriving pad brings (controls-machine.ts:115-181).
THEOREM EdgesTellTransitions == SpecControls => EdgesAreTransitions
<1>1. ControlsInv /\ [NextControls]_controlsVars => [EdgesHappened /\ NothingGoesUntold]_controlsVars
  BY ToldEdgesHappen, NoEdgeIsMissing
<1> QED BY <1>1, ControlsInvariant, PTL DEF SpecControls, EdgesAreTransitions

-----------------------------------------------------------------------------
(* RpgDialogue.  An answer names a Conversation by its number, so the proof *)
(* is about the numbers of all the calls somebody can still refer to: the   *)
(* active one, the ones that Domains show, the ones that answers on their   *)
(* way were given to, and the ones being opened.  A number is drawn when    *)
(* the opening begins and used up when it is over.  Two of these calls have *)
(* the same number only if both were being opened before the dialogue had   *)
(* its Domain, whatever the caller does in between.                         *)

Waiting(call) == call.phase \in {"queued", "opening"}
Conversation(i) == calls[i].plan.conversation

Known ==
    {i \in {dialogue.active} : i # 0} \cup {domains[d].shows : d \in DOMAIN domains}
    \cup {submits[k].by : k \in DOMAIN submits}

\* The calls that have drawn a number and can still be referred to.
Drawn == Known \cup OpeningCalls
TellsApart(i, j) == Conversation(i) = Conversation(j) => i = j \/ Together(i, j)

CallFields == {"phase", "request", "plan", "by", "beside"}
DialogueShape(d) == {"active", "domain", "nextConversation"} \subseteq DOMAIN d
CallsShape(c) ==
    (\E S : c \in Seq(S)) /\ \A i \in DOMAIN c : CallFields \subseteq DOMAIN c[i]
DomainsShape(ds) ==
    (\E S : ds \in Seq(S)) /\ \A i \in DOMAIN ds : {"open", "live", "consumed", "shows"} \subseteq DOMAIN ds[i]
Shapes ==
    /\ DialogueShape(dialogue) /\ CallsShape(calls) /\ DomainsShape(domains)
    /\ \E S : submits \in Seq(S)

DialogueInv ==
    /\ Shapes
    /\ dialogue.nextConversation \in Nat
    /\ dialogue.domain # 0 => dialogue.domain \in DOMAIN domains
    /\ \A i \in DOMAIN calls : calls[i].phase = "queued" => calls[i].beside = {}
    /\ \A i \in OpeningCalls :
         /\ Conversation(i) \in Nat /\ Conversation(i) <= dialogue.nextConversation
         /\ dialogue.domain # 0 => Conversation(i) < dialogue.nextConversation
    /\ \A i \in Known : /\ i \in DOMAIN calls /\ ~Waiting(calls[i])
                        /\ Conversation(i) \in Nat /\ Conversation(i) < dialogue.nextConversation
    /\ \A i, j \in Drawn : TellsApart(i, j)
    /\ \A k \in DOMAIN submits : submits[k].conversation = Conversation(submits[k].by)
    /\ \A i \in DOMAIN calls : calls[i].phase = "submitted" => calls[i].by \in DOMAIN calls
    /\ AnswersItsOwn

\* Steps that refer to nothing new, and only settle calls.
QuietDialogue ==
    /\ DialogueShape(dialogue')
    /\ dialogue'.nextConversation = dialogue.nextConversation
    /\ dialogue'.domain \in {0, dialogue.domain} /\ dialogue'.active \in {0, dialogue.active}
QuietCalls ==
    /\ CallsShape(calls') /\ DOMAIN calls' = DOMAIN calls
    /\ \A i \in DOMAIN calls :
         /\ calls'[i].plan = calls[i].plan /\ calls'[i].beside = calls[i].beside
         /\ Waiting(calls'[i]) => calls'[i].phase = calls[i].phase
         /\ calls'[i].phase = "submitted" =>
              calls'[i].by \in DOMAIN calls /\ (calls'[i].by = i \/ Together(i, calls'[i].by))
QuietDomains ==
    /\ DomainsShape(domains') /\ DOMAIN domains' = DOMAIN domains
    /\ \A d \in DOMAIN domains : domains'[d].shows = domains[d].shows
QuietSubmits ==
    /\ \E S : submits' \in Seq(S)
    /\ \A k \in DOMAIN submits' : /\ submits'[k].by \in Known
                                  /\ submits'[k].conversation = Conversation(submits'[k].by)

LEMMA QuietStep ==
  ASSUME DialogueInv, QuietDialogue, QuietCalls, QuietDomains, QuietSubmits
  PROVE  DialogueInv'
<1>1. Known' \subseteq Known
  BY DEF QuietDialogue, QuietDomains, QuietSubmits, Known
<1>2. \A i \in DOMAIN calls : Conversation(i)' = Conversation(i)
  BY DEF QuietCalls, Conversation
<1>3. \A i \in Known : i \in DOMAIN calls
  BY DEF DialogueInv
<1>4. Shapes'
  BY DEF QuietDialogue, QuietCalls, QuietDomains, QuietSubmits, Shapes, DialogueShape, CallsShape, DomainsShape
<1>5. dialogue'.nextConversation \in Nat /\ (dialogue'.domain # 0 => dialogue'.domain \in DOMAIN domains')
  BY DEF QuietDialogue, QuietDomains, DialogueInv
<1>6. \A i \in DOMAIN calls' : calls'[i].phase = "queued" => calls'[i].beside = {}
  BY DEF QuietCalls, DialogueInv, Waiting
<1>7. OpeningCalls' \subseteq OpeningCalls /\ \A i \in OpeningCalls : i \in DOMAIN calls
  BY DEF QuietCalls, OpeningCalls, Waiting
<1>8. \A i \in OpeningCalls' :
        /\ Conversation(i)' \in Nat /\ Conversation(i)' <= dialogue'.nextConversation
        /\ dialogue'.domain # 0 => Conversation(i)' < dialogue'.nextConversation
  BY <1>2, <1>7 DEF QuietDialogue, DialogueInv
<1>9. \A i \in Known' : /\ i \in DOMAIN calls' /\ ~Waiting(calls'[i])
                        /\ Conversation(i)' \in Nat /\ Conversation(i)' < dialogue'.nextConversation
  BY <1>1, <1>2 DEF QuietCalls, QuietDialogue, DialogueInv, Waiting
<1>10. \A i, j \in DOMAIN calls : Together(i, j) => Together(i, j)'
  BY DEF QuietCalls, Together
<1>11. \A i, j \in Drawn' : TellsApart(i, j)'
  <2>1. Drawn' \subseteq Drawn /\ \A i \in Drawn : i \in DOMAIN calls
    BY <1>1, <1>3, <1>7 DEF Drawn
  <2>2. ASSUME NEW i \in Drawn', NEW j \in Drawn' PROVE TellsApart(i, j)'
    <3>1. i \in Drawn /\ j \in Drawn /\ i \in DOMAIN calls /\ j \in DOMAIN calls
      BY <2>1
    <3>2. TellsApart(i, j)
      BY <3>1 DEF DialogueInv
    <3> QED BY <1>2, <1>10, <3>1, <3>2 DEF TellsApart
  <2> QED BY <2>2
<1>12. \A k \in DOMAIN submits' : submits'[k].conversation = calls'[submits'[k].by].plan.conversation
  BY <1>2, <1>3 DEF QuietSubmits, Conversation, QuietCalls
<1>13. /\ AnswersItsOwn'
       /\ \A i \in DOMAIN calls' : calls'[i].phase = "submitted" => calls'[i].by \in DOMAIN calls'
  BY <1>10 DEF QuietCalls, AnswersItsOwn
<1> QED BY <1>4, <1>5, <1>6, <1>8, <1>9, <1>11, <1>12, <1>13 DEF DialogueInv, Waiting, Conversation

\* What is unchanged is quiet.
LEMMA Unmoved ==
  ASSUME DialogueInv
  PROVE  /\ UNCHANGED dialogue => QuietDialogue
         /\ UNCHANGED calls => QuietCalls
         /\ UNCHANGED domains => QuietDomains
         /\ UNCHANGED submits => QuietSubmits
<1>1. UNCHANGED dialogue => QuietDialogue
  BY DEF DialogueInv, Shapes, QuietDialogue
<1>2. UNCHANGED calls => QuietCalls
  BY DEF DialogueInv, Shapes, QuietCalls, AnswersItsOwn
<1>3. UNCHANGED domains => QuietDomains
  BY DEF DialogueInv, Shapes, QuietDomains
<1>4. UNCHANGED submits => QuietSubmits
  BY DEF DialogueInv, Shapes, QuietSubmits, Known
<1> QED BY <1>1, <1>2, <1>3, <1>4

\* A call's record is replaced by one of its shape.
LEMMA CallReplaced ==
  ASSUME DialogueInv, NEW i \in DOMAIN calls, NEW call,
         CallFields \subseteq DOMAIN call,
         calls' = [calls EXCEPT ![i] = call]
  PROVE  /\ CallsShape(calls') /\ DOMAIN calls' = DOMAIN calls /\ calls'[i] = call
         /\ \A j \in DOMAIN calls \ {i} : calls'[j] = calls[j]
<1>1. PICK S : calls \in Seq(S)
  BY DEF DialogueInv, Shapes, CallsShape
<1>2. calls \in Seq(S \cup {call}) /\ i \in 1 .. Len(calls)
  BY <1>1, SeqMonotonic, LenProperties
<1>3. calls' \in Seq(S \cup {call})
  BY <1>2, ExceptSeq
<1>4. /\ DOMAIN calls' = DOMAIN calls /\ calls'[i] = call
      /\ \A j \in DOMAIN calls \ {i} : calls'[j] = calls[j]
  OBVIOUS
<1> QED BY <1>3, <1>4 DEF DialogueInv, Shapes, CallsShape

LEMMA RejectedIsQuiet ==
  ASSUME DialogueInv, NEW i \in DOMAIN calls, NEW phase \in {"rejected", "cancelled"},
         calls' = [calls EXCEPT ![i].phase = phase]
  PROVE  QuietCalls
<1> DEFINE call == [calls[i] EXCEPT !.phase = phase]
<1>0. CallFields \subseteq DOMAIN calls[i]
  BY DEF DialogueInv, Shapes, CallsShape
<1>1. /\ CallFields \subseteq DOMAIN call
      /\ call.phase = phase /\ call.plan = calls[i].plan /\ call.beside = calls[i].beside
  BY <1>0 DEF CallFields
<1>2. calls' = [calls EXCEPT ![i] = call]
  OBVIOUS
<1> HIDE DEF call
<1>3. /\ CallsShape(calls') /\ DOMAIN calls' = DOMAIN calls /\ calls'[i] = call
      /\ \A j \in DOMAIN calls \ {i} : calls'[j] = calls[j]
  BY <1>1, <1>2, CallReplaced
<1> QED BY <1>1, <1>3 DEF QuietCalls, Waiting, DialogueInv, AnswersItsOwn

LEMMA TerminateIsQuiet ==
  ASSUME DialogueInv, TerminateDialogue(calls)
  PROVE  QuietDialogue /\ QuietCalls /\ QuietDomains
<1>1. QuietDialogue
  BY DEF TerminateDialogue, QuietDialogue, DialogueInv, Shapes, DialogueShape
<1>2. QuietCalls
  <2>1. CASE dialogue.active = 0
    BY <2>1, Unmoved DEF TerminateDialogue
  <2>2. CASE dialogue.active # 0
    <3>1. dialogue.active \in DOMAIN calls
      BY <2>2 DEF DialogueInv, Known
    <3>2. calls' = [calls EXCEPT ![dialogue.active].phase = "rejected"]
      BY <2>2 DEF TerminateDialogue
    <3> QED BY <3>1, <3>2, RejectedIsQuiet
  <2> QED BY <2>1, <2>2
<1>3. QuietDomains
  <2> DEFINE without(d) == IF d = dialogue.domain THEN [domains[d] EXCEPT !.open = FALSE] ELSE domains[d]
  <2>1. PICK S : domains \in Seq(S)
    BY DEF DialogueInv, Shapes, DomainsShape
  <2>2. DOMAIN domains = 1 .. Len(domains) /\ Len(domains) \in Nat
    BY <2>1, LenProperties
  <2>3. domains' = [d \in 1 .. Len(domains) |-> without(d)]
    BY <2>2 DEF TerminateDialogue
  <2> DEFINE T == {without(d) : d \in 1 .. Len(domains)}
  <2>4. domains' \in [1 .. Len(domains) -> T]
    BY <2>3
  <2>5. domains' \in Seq(T)
    <3> HIDE DEF T
    <3> QED BY <2>2, <2>4
  <2>6. \A d \in DOMAIN domains : /\ {"open", "live", "consumed", "shows"} \subseteq DOMAIN without(d)
                                  /\ without(d).shows = domains[d].shows
    BY DEF DialogueInv, Shapes, DomainsShape
  <2> QED BY <2>2, <2>3, <2>5, <2>6 DEF QuietDomains, DomainsShape
<1> QED BY <1>1, <1>2, <1>3

\* The projection of a Conversation that is shown already.
LEMMA ReplaceDomains ==
  ASSUME DialogueInv, NEW keys, NEW call, ReplaceSucceeds(keys, call)
  PROVE  /\ DomainsShape(domains') /\ DOMAIN domains' = DOMAIN domains
         /\ \A d \in DOMAIN domains :
              domains'[d].shows = IF d = dialogue.domain THEN call ELSE domains[d].shows
<1> DEFINE D == dialogue.domain
<1>1. PICK S : domains \in Seq(S)
  BY DEF DialogueInv, Shapes, DomainsShape
<1>2. /\ DOMAIN domains' = DOMAIN domains
      /\ \A d \in DOMAIN domains \ {D} : domains'[d] = domains[d]
      /\ domains' = [d \in DOMAIN domains |-> domains'[d]]
  BY DEF ReplaceSucceeds
<1>3. ASSUME D \in DOMAIN domains
      PROVE  {"open", "live", "consumed", "shows"} \subseteq DOMAIN domains'[D] /\ domains'[D].shows = call
  BY <1>3 DEF ReplaceSucceeds, DialogueInv, Shapes, DomainsShape
<1>4. domains' \in Seq(S \cup {domains'[D]})
  <2>1. DOMAIN domains = 1 .. Len(domains) /\ Len(domains) \in Nat
        /\ \A d \in 1 .. Len(domains) : domains[d] \in S
    BY <1>1, LenProperties, ElementOfSeq
  <2>2. \A d \in DOMAIN domains : domains'[d] \in S \cup {domains'[D]}
    BY <1>2, <2>1
  <2>3. domains' \in [1 .. Len(domains) -> S \cup {domains'[D]}]
    BY <1>2, <2>1, <2>2
  <2> QED BY <2>1, <2>3
<1> QED BY <1>2, <1>3, <1>4 DEF DialogueInv, Shapes, DomainsShape

LEMMA ReplaceIsQuiet ==
  ASSUME DialogueInv, NEW keys, dialogue.domain # 0,
         ReplaceSucceeds(keys, domains[dialogue.domain].shows)
  PROVE  QuietDomains
  BY ReplaceDomains DEF DialogueInv, QuietDomains

\* The active call is settled, after a projection or with the dialogue.
LEMMA ResolveIsQuiet ==
  ASSUME DialogueInv, Talking, NEW settled, ResolveActive(settled),
         calls' = settled => QuietCalls
  PROVE  QuietDialogue /\ QuietCalls /\ QuietDomains
<1>1. CASE TerminateDialogue(calls)
  BY <1>1, TerminateIsQuiet
<1>2. CASE /\ ReplaceSucceeds(CurrentState(dialogue, dialogue.history, dialogue.historyKeys),
                              domains[dialogue.domain].shows)
           /\ dialogue' = [dialogue EXCEPT !.lifecycle = "READY", !.mode = "CONVERSATION", !.active = 0]
           /\ calls' = settled
  <2>1. QuietDialogue
    BY <1>2 DEF QuietDialogue, DialogueInv, Shapes, DialogueShape
  <2> QED BY <1>2, <2>1, ReplaceIsQuiet DEF Talking
<1> QED BY <1>1, <1>2 DEF ResolveActive

LEMMA SetModeIsQuiet ==
  ASSUME DialogueInv, Talking, NEW mode, SetMode(mode)
  PROVE  QuietDialogue /\ QuietCalls /\ QuietDomains
<1>1. CASE TerminateDialogue(calls)
  BY <1>1, TerminateIsQuiet
<1>2. CASE /\ ReplaceSucceeds(CurrentState(dialogue, dialogue.history, dialogue.historyKeys),
                              domains[dialogue.domain].shows)
           /\ dialogue' = [dialogue EXCEPT !.mode = mode] /\ UNCHANGED calls
  <2>1. QuietDialogue
    BY <1>2 DEF QuietDialogue, DialogueInv, Shapes, DialogueShape
  <2> QED BY <1>2, <2>1, ReplaceIsQuiet, Unmoved DEF Talking
<1> QED BY <1>1, <1>2 DEF SetMode

-----------------------------------------------------------------------------
(* Each step keeps the invariant.                                          *)

LEMMA EndingKeeps ==
  ASSUME DialogueInv, CloseDialogue \/ FrameAbort \/ ScopeAbort
  PROVE  DialogueInv'
<1>1. UNCHANGED submits /\ (TerminateDialogue(calls) \/ UNCHANGED <<dialogue, calls, domains>>)
  BY DEF CloseDialogue, FrameAbort, ScopeAbort
<1> QED BY <1>1, TerminateIsQuiet, Unmoved, QuietStep

LEMMA CommandKeeps ==
  ASSUME DialogueInv, NEW action, Command(action)
  PROVE  DialogueInv'
<1>1. Talking /\ UNCHANGED submits
  BY DEF Command
<1>2. \/ \E mode : SetMode(mode)
      \/ ResolveActive([calls EXCEPT ![dialogue.active].phase = "cancelled"])
      \/ TerminateDialogue(calls)
  BY DEF Command
<1>3. CASE ResolveActive([calls EXCEPT ![dialogue.active].phase = "cancelled"])
  <2>1. dialogue.active \in DOMAIN calls
    BY <1>1 DEF Talking, DialogueInv, Known
  <2>2. calls' = [calls EXCEPT ![dialogue.active].phase = "cancelled"] => QuietCalls
    BY <2>1, RejectedIsQuiet
  <2>3. QuietDialogue /\ QuietCalls /\ QuietDomains
    BY <1>1, <1>3, <2>2, ResolveIsQuiet
  <2> QED BY <1>1, <2>3, Unmoved, QuietStep
<1> QED BY <1>1, <1>2, <1>3, SetModeIsQuiet, TerminateIsQuiet, Unmoved, QuietStep

\* An answer that is accepted has the number of the active Conversation, and
\* numbers tell apart what was not opened together.
LEMMA ReceiveKeeps ==
  ASSUME DialogueInv, ReceivePresentationEvent
  PROVE  DialogueInv'
<1> DEFINE s == Head(submits)
           a == dialogue.active
           settled == [calls EXCEPT ![a].phase = "submitted", ![a].by = s.by]
<1>1. PICK S : submits \in Seq(S)
  BY DEF DialogueInv, Shapes
<1>2. /\ DOMAIN submits = 1 .. Len(submits) /\ Len(submits) \in Nat /\ Len(submits) > 0
      /\ Head(submits) = submits[1]
      /\ Tail(submits) \in Seq(S) /\ Len(Tail(submits)) = Len(submits) - 1
      /\ \A k \in 1 .. Len(Tail(submits)) : Tail(submits)[k] = submits[k + 1]
      /\ DOMAIN Tail(submits) = 1 .. Len(Tail(submits))
  BY <1>1, HeadTailProperties, LenProperties, EmptySeq DEF ReceivePresentationEvent
<1>3. submits' = Tail(submits)
  BY DEF ReceivePresentationEvent
<1>4. QuietSubmits
  <2>1. \A k \in DOMAIN submits : submits[k].by \in Known /\ submits[k].conversation = Conversation(submits[k].by)
    BY DEF DialogueInv, Known
  <2> QED BY <1>2, <1>3, <2>1 DEF QuietSubmits
<1>5. CASE AcceptsSubmit(s) /\ ResolveActive(settled)
  <2>1. a \in Known /\ a \in DOMAIN calls /\ Talking
    BY <1>5 DEF AcceptsSubmit, Talking, DialogueInv, Known
  <2>2. s.by \in Known /\ s.conversation = Conversation(s.by)
    BY <1>2 DEF DialogueInv, Known
  <2>3. s.by \in DOMAIN calls /\ (s.by = a \/ Together(a, s.by))
    <3>1. Conversation(a) = Conversation(s.by) /\ s.by \in DOMAIN calls
      BY <1>5, <2>2 DEF AcceptsSubmit, Conversation, DialogueInv
    <3>2. TellsApart(a, s.by)
      BY <2>1, <2>2 DEF DialogueInv, Drawn
    <3> QED BY <3>1, <3>2 DEF TellsApart
  <2> DEFINE call == [calls[a] EXCEPT !.phase = "submitted", !.by = s.by]
  <2>4. /\ CallFields \subseteq DOMAIN call
        /\ call.phase = "submitted" /\ call.plan = calls[a].plan /\ call.beside = calls[a].beside
        /\ call.by = s.by
    BY <2>1 DEF DialogueInv, Shapes, CallsShape, CallFields
  <2>5. settled = [calls EXCEPT ![a] = call]
    BY <2>1
  <2> HIDE DEF call, settled, s, a
  <2>6. calls' = settled => QuietCalls
    <3> SUFFICES ASSUME calls' = settled PROVE QuietCalls
      OBVIOUS
    <3>1. /\ CallsShape(calls') /\ DOMAIN calls' = DOMAIN calls /\ calls'[a] = call
          /\ \A j \in DOMAIN calls \ {a} : calls'[j] = calls[j]
      BY <2>1, <2>4, <2>5, CallReplaced
    <3> QED BY <2>1, <2>3, <2>4, <3>1 DEF QuietCalls, Waiting, DialogueInv, AnswersItsOwn
  <2>7. QuietDialogue /\ QuietCalls /\ QuietDomains
    BY <1>5, <2>1, <2>6, ResolveIsQuiet
  <2> QED BY <1>4, <2>7, QuietStep
<1>6. CASE UNCHANGED <<dialogue, calls, domains>>
  BY <1>4, <1>6, Unmoved, QuietStep
<1> QED BY <1>5, <1>6 DEF ReceivePresentationEvent

LEMMA PostSubmitKeeps ==
  ASSUME DialogueInv, PostSubmit
  PROVE  DialogueInv'
<1>1. PICK S : submits \in Seq(S)
  BY DEF DialogueInv, Shapes
<1>2. PICK d, s :
        /\ d \in DOMAIN domains /\ submits' = Append(submits, s) /\ s.by = domains[d].shows
        /\ s.conversation = calls[domains[d].shows].plan.conversation
  BY DEF PostSubmit
<1>3. submits \in Seq(S \cup {s})
  BY <1>1, SeqMonotonic
<1>4. submits' \in Seq(S \cup {s})
  BY <1>2, <1>3, AppendProperties
<1>5. \A k \in DOMAIN submits' : \/ submits'[k] = s
                                 \/ k \in DOMAIN submits /\ submits'[k] = submits[k]
  <2>1. /\ DOMAIN submits = 1 .. Len(submits) /\ Len(submits) \in Nat
        /\ DOMAIN submits' = 1 .. Len(submits) + 1
    BY <1>2, <1>3, <1>4, LenProperties, AppendProperties
  <2>2. /\ submits'[Len(submits) + 1] = s
        /\ \A k \in 1 .. Len(submits) : submits'[k] = submits[k]
    BY <1>2, <1>3, AppendProperties
  <2> QED BY <2>1, <2>2
<1>6. QuietSubmits
  BY <1>2, <1>4, <1>5 DEF QuietSubmits, DialogueInv, Known, Conversation
<1>7. UNCHANGED <<dialogue, calls, domains>>
  BY DEF PostSubmit
<1> QED BY <1>6, <1>7, Unmoved, QuietStep

LEMMA SetHistoryKeeps ==
  ASSUME DialogueInv, NEW entries, SetHistory(entries)
  PROVE  DialogueInv'
<1>1. UNCHANGED <<calls, submits>>
  BY DEF SetHistory
<1>2. \/ UNCHANGED dialogue
      \/ \E keys, next : dialogue' = [dialogue EXCEPT !.history = entries, !.historyKeys = keys, !.nextNode = next]
  BY DEF SetHistory
<1>3. QuietDialogue
  <2>1. CASE UNCHANGED dialogue
    BY <2>1, Unmoved
  <2>2. ASSUME NEW keys, NEW next,
               dialogue' = [dialogue EXCEPT !.history = entries, !.historyKeys = keys, !.nextNode = next]
        PROVE  QuietDialogue
    BY <2>2 DEF QuietDialogue, DialogueInv, Shapes, DialogueShape
  <2> QED BY <1>2, <2>1, <2>2
<1>4. \/ UNCHANGED domains
      \/ dialogue.domain # 0 /\ \E keys : ReplaceSucceeds(keys, domains[dialogue.domain].shows)
  BY DEF SetHistory
<1>5. QuietDomains
  BY <1>4, Unmoved, ReplaceIsQuiet
<1> QED BY <1>1, <1>3, <1>5, Unmoved, QuietStep

\* A call that waited becomes active: its number is told apart from the others'.
LEMMA ActivateKeeps ==
  ASSUME DialogueInv, NEW i \in DOMAIN calls, Waiting(calls[i]), NEW p,
         p.conversation \in Nat, p.conversation <= dialogue.nextConversation,
         \A j \in Drawn \ {i} : Conversation(j) = p.conversation => Together(i, j),
         NEW domain, NEW subscription, Activate(i, p, domain, subscription),
         DomainsShape(domains'), domain \in DOMAIN domains',
         \A d \in DOMAIN domains' : domains'[d].shows \in Known \cup {i}, UNCHANGED submits
  PROVE  DialogueInv'
<1> DEFINE call == [calls[i] EXCEPT !.phase = "active", !.plan = p]
<1>1. /\ DialogueShape(dialogue') /\ dialogue'.active = i /\ dialogue'.domain = domain
      /\ dialogue'.nextConversation = dialogue.nextConversation + 1
      /\ dialogue.nextConversation \in Nat
  BY DEF Activate, DialogueInv, Shapes, DialogueShape
<1>2. /\ CallFields \subseteq DOMAIN call
      /\ call.phase = "active" /\ call.plan = p /\ call.beside = calls[i].beside
  BY DEF DialogueInv, Shapes, CallsShape, CallFields
<1>3. calls' = [calls EXCEPT ![i] = call]
  BY DEF Activate
<1> HIDE DEF call
<1>4. /\ CallsShape(calls') /\ DOMAIN calls' = DOMAIN calls /\ calls'[i] = call
      /\ \A j \in DOMAIN calls \ {i} : calls'[j] = calls[j]
  BY <1>2, <1>3, CallReplaced
<1>5. Known' \subseteq Known \cup {i} /\ i \notin Known /\ OpeningCalls' = OpeningCalls \ {i}
  BY <1>1, <1>2, <1>4 DEF Known, OpeningCalls, DialogueInv
<1>6. \A j \in Drawn \ {i} : j \in DOMAIN calls \ {i}
  BY DEF DialogueInv, Drawn, OpeningCalls
<1>7. Shapes'
  BY <1>1, <1>4 DEF Shapes, DialogueInv
<1>8. \A j \in DOMAIN calls' : calls'[j].phase = "queued" => calls'[j].beside = {}
  BY <1>2, <1>4 DEF DialogueInv
<1>9. Conversation(i)' = p.conversation /\ \A j \in Drawn \ {i} : Conversation(j)' = Conversation(j)
  BY <1>2, <1>4, <1>6 DEF Conversation
<1>10. \A j, k \in DOMAIN calls : Together(j, k) => Together(j, k)'
  BY <1>2, <1>4 DEF Together
<1>11. \A j \in Known' : /\ j \in DOMAIN calls' /\ ~Waiting(calls'[j])
                         /\ Conversation(j)' \in Nat /\ Conversation(j)' < dialogue'.nextConversation
  <2>1. ~Waiting(calls'[i])
    BY <1>2, <1>4 DEF Waiting
  <2>2. ASSUME NEW j \in Known
        PROVE  /\ j \in DOMAIN calls' /\ ~Waiting(calls'[j])
               /\ Conversation(j)' \in Nat /\ Conversation(j)' < dialogue'.nextConversation
    <3>1. j \in Drawn \ {i} /\ j \in DOMAIN calls \ {i}
      BY <1>5, <1>6 DEF Drawn
    <3>2. Conversation(j)' = Conversation(j) /\ calls'[j] = calls[j]
      BY <1>4, <1>9, <3>1
    <3> QED BY <1>1, <1>4, <3>1, <3>2 DEF DialogueInv
  <2> QED BY <1>1, <1>4, <1>5, <1>9, <2>1, <2>2
<1>12. \A j \in OpeningCalls' :
         /\ Conversation(j)' \in Nat /\ Conversation(j)' <= dialogue'.nextConversation
         /\ dialogue'.domain # 0 => Conversation(j)' < dialogue'.nextConversation
  <2> SUFFICES ASSUME NEW j \in OpeningCalls \ {i}
               PROVE  Conversation(j)' \in Nat /\ Conversation(j)' < dialogue'.nextConversation
    BY <1>1, <1>5
  <2>1. Conversation(j)' = Conversation(j)
    BY <1>9 DEF Drawn
  <2> QED BY <1>1, <2>1 DEF DialogueInv
<1>13. \A j, k \in Drawn' : TellsApart(j, k)'
  <2>1. Drawn' \subseteq Drawn \cup {i}
    BY <1>5 DEF Drawn
  <2>2. ASSUME NEW j \in Drawn \ {i}, NEW k \in Drawn \ {i} PROVE TellsApart(j, k)'
    <3>1. TellsApart(j, k)
      BY DEF DialogueInv
    <3> QED BY <1>6, <1>9, <1>10, <3>1 DEF TellsApart
  <2>3. ASSUME NEW j \in Drawn \ {i} PROVE TellsApart(i, j)' /\ TellsApart(j, i)'
    <3>1. Conversation(j) = p.conversation => Together(i, j)' /\ Together(j, i)'
      BY <1>6, <1>10 DEF Together
    <3> QED BY <1>9, <3>1 DEF TellsApart
  <2>4. TellsApart(i, i)'
    BY DEF TellsApart
  <2> QED BY <2>1, <2>2, <2>3, <2>4
<1>14. \A k \in DOMAIN submits' : submits'[k].conversation = calls'[submits'[k].by].plan.conversation
  <2>1. \A k \in DOMAIN submits : submits[k].by \in Known
    BY DEF Known
  <2> QED BY <1>4, <1>5, <1>6, <2>1 DEF DialogueInv, Conversation, Drawn
<1>15. /\ AnswersItsOwn'
       /\ \A j \in DOMAIN calls' : calls'[j].phase = "submitted" => calls'[j].by \in DOMAIN calls'
  BY <1>2, <1>4, <1>10 DEF DialogueInv, AnswersItsOwn
<1> QED BY <1>1, <1>4, <1>7, <1>8, <1>11, <1>12, <1>13, <1>14, <1>15 DEF DialogueInv, Conversation, Waiting

LEMMA PlanDrawsTheNumber ==
  ASSUME NEW d, NEW asked
  PROVE  Plan(d, asked).conversation = d.nextConversation
  BY DEF Plan

LEMMA OpenConversationKeeps ==
  ASSUME DialogueInv, NEW asked, OpenConversation(asked)
  PROVE  DialogueInv'
<1> DEFINE call == [phase |-> "queued", request |-> asked, plan |-> 0, by |-> 0, beside |-> {}]
           n == Len(calls) + 1
<1>1. PICK S : calls \in Seq(S)
  BY DEF DialogueInv, Shapes, CallsShape
<1>2. calls' = Append(calls, call) /\ UNCHANGED <<dialogue, domains, submits>>
  BY DEF OpenConversation
<1>3. CallFields \subseteq DOMAIN call /\ call.phase = "queued" /\ call.beside = {}
  BY DEF CallFields
<1> HIDE DEF call
<1>4. calls \in Seq(S \cup {call})
  BY <1>1, SeqMonotonic
<1>5. /\ calls' \in Seq(S \cup {call})
      /\ DOMAIN calls' = DOMAIN calls \cup {n} /\ n \notin DOMAIN calls
      /\ calls'[n] = call /\ \A i \in DOMAIN calls : calls'[i] = calls[i]
  <2>1. DOMAIN calls = 1 .. Len(calls) /\ Len(calls) \in Nat
    BY <1>4, LenProperties
  <2> QED BY <1>2, <1>4, <2>1, AppendProperties, LenProperties
<1> HIDE DEF n
<1>6. CallsShape(calls')
  BY <1>3, <1>5 DEF CallsShape, DialogueInv, Shapes
<1>7. Known' = Known /\ OpeningCalls' = OpeningCalls /\ \A i \in Drawn : i \in DOMAIN calls
  BY <1>2, <1>3, <1>5 DEF Known, OpeningCalls, Drawn, DialogueInv
<1>8. Shapes'
  BY <1>2, <1>6 DEF Shapes, DialogueInv
<1>9. \A i \in Drawn : Conversation(i)' = Conversation(i)
  BY <1>5, <1>7 DEF Conversation
<1>10. \A i, j \in DOMAIN calls : Together(i, j) => Together(i, j)'
  BY <1>5 DEF Together
<1>11. \A i \in OpeningCalls' :
         /\ Conversation(i)' \in Nat /\ Conversation(i)' <= dialogue'.nextConversation
         /\ dialogue'.domain # 0 => Conversation(i)' < dialogue'.nextConversation
  BY <1>2, <1>7, <1>9 DEF DialogueInv, Drawn
<1>12. \A i \in Known' : /\ i \in DOMAIN calls' /\ ~Waiting(calls'[i])
                         /\ Conversation(i)' \in Nat /\ Conversation(i)' < dialogue'.nextConversation
  BY <1>2, <1>5, <1>7, <1>9 DEF DialogueInv, Drawn
<1>13. \A i, j \in Drawn' : TellsApart(i, j)'
  <2> SUFFICES ASSUME NEW i \in Drawn, NEW j \in Drawn PROVE TellsApart(i, j)'
    BY <1>7 DEF Drawn
  <2>1. TellsApart(i, j)
    BY DEF DialogueInv
  <2> QED BY <1>7, <1>9, <1>10, <2>1 DEF TellsApart
<1>14. \A k \in DOMAIN submits' : submits'[k].conversation = calls'[submits'[k].by].plan.conversation
  BY <1>2, <1>5, <1>7 DEF DialogueInv, Conversation, Known, Drawn
<1>15. /\ AnswersItsOwn'
       /\ \A i \in DOMAIN calls' : calls'[i].phase = "submitted" => calls'[i].by \in DOMAIN calls'
       /\ \A i \in DOMAIN calls' : calls'[i].phase = "queued" => calls'[i].beside = {}
  BY <1>3, <1>5, <1>10 DEF DialogueInv, AnswersItsOwn
<1> QED BY <1>2, <1>8, <1>11, <1>12, <1>13, <1>14, <1>15, <1>5 DEF DialogueInv, Conversation, Waiting

\* An opening draws the number that the other openings may have drawn as well,
\* and nothing that is known.
LEMMA BeginFirstKeeps ==
  ASSUME DialogueInv, NEW i \in DOMAIN calls, calls[i].phase = "queued", BeginFirst(i), UNCHANGED submits
  PROVE  DialogueInv'
<1> DEFINE p == Plan(dialogue, calls[i].request)
           call == [calls[i] EXCEPT !.phase = "opening", !.plan = p, !.beside = OpeningCalls]
<1>0. p.conversation = dialogue.nextConversation /\ dialogue.nextConversation \in Nat
  BY PlanDrawsTheNumber DEF DialogueInv
<1>1. /\ UNCHANGED <<dialogue, domains, submits>> /\ calls' = [calls EXCEPT ![i] = call]
      /\ dialogue.domain = 0
  BY DEF BeginFirst
<1> HIDE DEF p
<1>2. /\ CallFields \subseteq DOMAIN call
      /\ call.phase = "opening" /\ call.plan = p /\ call.beside = OpeningCalls
  BY DEF DialogueInv, Shapes, CallsShape, CallFields
<1> HIDE DEF call
<1>3. /\ CallsShape(calls') /\ DOMAIN calls' = DOMAIN calls /\ calls'[i] = call
      /\ \A j \in DOMAIN calls \ {i} : calls'[j] = calls[j]
  BY <1>1, <1>2, CallReplaced
<1>4. /\ Known' = Known /\ OpeningCalls' = OpeningCalls \cup {i}
      /\ \A j \in Drawn : j \in DOMAIN calls \ {i}
  BY <1>1, <1>2, <1>3 DEF Known, OpeningCalls, Drawn, DialogueInv, Waiting
<1>5. Shapes'
  BY <1>1, <1>3 DEF Shapes, DialogueInv
<1>6. Conversation(i)' = dialogue.nextConversation /\ \A j \in Drawn : Conversation(j)' = Conversation(j)
  BY <1>0, <1>2, <1>3, <1>4 DEF Conversation
<1>7. \A j, k \in DOMAIN calls : Together(j, k) => Together(j, k)'
  <2>1. calls[i].beside = {}
    BY DEF DialogueInv
  <2> QED BY <1>3, <2>1 DEF Together
<1>8. \A j \in OpeningCalls' :
        /\ Conversation(j)' \in Nat /\ Conversation(j)' <= dialogue'.nextConversation
        /\ dialogue'.domain # 0 => Conversation(j)' < dialogue'.nextConversation
  BY <1>0, <1>1, <1>4, <1>6 DEF DialogueInv, Drawn
<1>9. \A j \in Known' : /\ j \in DOMAIN calls' /\ ~Waiting(calls'[j])
                        /\ Conversation(j)' \in Nat /\ Conversation(j)' < dialogue'.nextConversation
  BY <1>1, <1>3, <1>4, <1>6 DEF DialogueInv, Drawn
<1>10. \A j, k \in Drawn' : TellsApart(j, k)'
  <2>1. Drawn' = Drawn \cup {i}
    BY <1>4 DEF Drawn
  <2>2. ASSUME NEW j \in Drawn, NEW k \in Drawn PROVE TellsApart(j, k)'
    <3>1. TellsApart(j, k)
      BY DEF DialogueInv
    <3> QED BY <1>4, <1>6, <1>7, <3>1 DEF TellsApart
  <2>3. ASSUME NEW j \in Drawn PROVE TellsApart(i, j)' /\ TellsApart(j, i)'
    <3>1. CASE j \in OpeningCalls
      <4>1. j \in calls'[i].beside
        BY <1>2, <1>3, <3>1
      <4> QED BY <4>1 DEF TellsApart, Together
    <3>2. CASE j \in Known
      <4>1. Conversation(j)' # Conversation(i)'
        BY <1>0, <1>6, <3>2 DEF DialogueInv, Drawn
      <4> QED BY <4>1 DEF TellsApart
    <3> QED BY <3>1, <3>2 DEF Drawn
  <2>4. TellsApart(i, i)'
    BY DEF TellsApart
  <2> QED BY <2>1, <2>2, <2>3, <2>4
<1>11. \A k \in DOMAIN submits' : submits'[k].conversation = calls'[submits'[k].by].plan.conversation
  <2>1. \A k \in DOMAIN submits : submits[k].by \in Drawn
    BY DEF Known, Drawn
  <2> QED BY <1>1, <1>3, <1>4, <2>1 DEF DialogueInv, Conversation
<1>12. /\ AnswersItsOwn'
       /\ \A j \in DOMAIN calls' : calls'[j].phase = "submitted" => calls'[j].by \in DOMAIN calls'
       /\ \A j \in DOMAIN calls' : calls'[j].phase = "queued" => calls'[j].beside = {}
  BY <1>2, <1>3, <1>7 DEF DialogueInv, AnswersItsOwn
<1> QED BY <1>1, <1>3, <1>5, <1>8, <1>9, <1>10, <1>11, <1>12 DEF DialogueInv, Waiting, Conversation

LEMMA RejectKeeps ==
  ASSUME DialogueInv, NEW i \in DOMAIN calls, Reject(i), UNCHANGED <<domains, submits>>
  PROVE  DialogueInv'
<1>1. QuietCalls
  BY RejectedIsQuiet DEF Reject
<1> QED BY <1>1, Unmoved, QuietStep DEF Reject

LEMMA BeginKeeps ==
  ASSUME DialogueInv, NEW i \in DOMAIN calls, BeginConversation(i)
  PROVE  DialogueInv'
<1>1. calls[i].phase = "queued" /\ Waiting(calls[i]) /\ UNCHANGED submits
  BY DEF BeginConversation, Waiting
<1>2. CASE BeginRefused(i)
  BY <1>1, <1>2, RejectKeeps DEF BeginRefused
<1>3. CASE BeginFirst(i)
  BY <1>1, <1>3, BeginFirstKeeps
<1>4. CASE BeginNext(i)
  <2> DEFINE p == Plan(dialogue, calls[i].request)
             keys == Projection(p, p.history, p.historyKeys)
  <2>1. p.conversation = dialogue.nextConversation
    BY PlanDrawsTheNumber
  <2>2. /\ dialogue.domain # 0
        /\ \/ ReplaceSucceeds(keys, i) /\ Activate(i, p, dialogue.domain, dialogue.subscription)
           \/ Reject(i) /\ UNCHANGED domains
    BY <1>4 DEF BeginNext
  <2> HIDE DEF p, keys
  <2>3. CASE ReplaceSucceeds(keys, i) /\ Activate(i, p, dialogue.domain, dialogue.subscription)
    <3>1. /\ DomainsShape(domains') /\ DOMAIN domains' = DOMAIN domains
          /\ \A d \in DOMAIN domains : domains'[d].shows = IF d = dialogue.domain THEN i ELSE domains[d].shows
      BY <2>3, ReplaceDomains
    <3>2. dialogue.domain \in DOMAIN domains'
      BY <2>2, <3>1 DEF DialogueInv
    <3>3. \A d \in DOMAIN domains' : domains'[d].shows \in Known \cup {i}
      BY <3>1 DEF Known
    <3>4. /\ p.conversation \in Nat /\ p.conversation <= dialogue.nextConversation
          /\ \A j \in Drawn \ {i} : Conversation(j) # p.conversation
      BY <2>1, <2>2 DEF DialogueInv, Drawn
    <3> QED BY <1>1, <2>3, <3>1, <3>2, <3>3, <3>4, ActivateKeeps
  <2> QED BY <1>1, <2>2, <2>3, RejectKeeps
<1> QED BY <1>2, <1>3, <1>4 DEF BeginConversation

LEMMA ContinueKeeps ==
  ASSUME DialogueInv, NEW i \in DOMAIN calls, ContinueConversation(i)
  PROVE  DialogueInv'
<1> DEFINE p == calls[i].plan
           new == [open |-> TRUE, live |-> Projection(p, p.history, p.historyKeys), consumed |-> {}, shows |-> i]
<1>0. i \in OpeningCalls
  BY DEF ContinueConversation, OpeningCalls
<1>1. /\ Waiting(calls[i]) /\ UNCHANGED submits
      /\ p.conversation \in Nat /\ p.conversation <= dialogue.nextConversation
      /\ domains' = Append(domains, new)
      /\ Activate(i, p, Len(domains) + 1, Len(listening) + 1)
  BY <1>0 DEF ContinueConversation, Waiting, DialogueInv, Conversation
<1>8. \A j \in Drawn \ {i} : Conversation(j) = p.conversation => Together(i, j)
  BY <1>0 DEF DialogueInv, Drawn, TellsApart, Conversation
<1>2. {"open", "live", "consumed", "shows"} \subseteq DOMAIN new /\ new.shows = i
  OBVIOUS
<1> HIDE DEF p, new
<1>3. PICK S : domains \in Seq(S)
  BY DEF DialogueInv, Shapes, DomainsShape
<1>4. domains \in Seq(S \cup {new})
  BY <1>3, SeqMonotonic
<1>5. /\ domains' \in Seq(S \cup {new})
      /\ DOMAIN domains' = DOMAIN domains \cup {Len(domains) + 1}
      /\ domains'[Len(domains) + 1] = new
      /\ \A d \in DOMAIN domains : domains'[d] = domains[d]
  <2>1. DOMAIN domains = 1 .. Len(domains) /\ Len(domains) \in Nat
    BY <1>4, LenProperties
  <2> QED BY <1>1, <1>4, <2>1, AppendProperties, LenProperties
<1>6. DomainsShape(domains')
  BY <1>2, <1>5 DEF DomainsShape, DialogueInv, Shapes
<1>7. \A d \in DOMAIN domains' : domains'[d].shows \in Known \cup {i}
  BY <1>2, <1>5 DEF Known
<1> QED BY <1>1, <1>5, <1>6, <1>7, <1>8, ActivateKeeps

\* Whatever its caller does, the dialogue gives one number to two Conversations
\* only if both were being opened before it had a Domain: the active one, the
\* shown ones and those whose answers are on their way are told apart
\* (runtime.ts:185-251).
THEOREM DialogueInvariant == SpecDialogue => []DialogueInv
<1>1. InitDialogue => DialogueInv
  <2> SUFFICES ASSUME InitDialogue PROVE DialogueInv
    OBVIOUS
  <2>1. <<>> \in Seq({0}) /\ DOMAIN <<>> = {}
    BY EmptySeq
  <2>2. /\ DialogueShape(dialogue) /\ dialogue.active = 0 /\ dialogue.domain = 0
        /\ dialogue.nextConversation = 1
    BY DEF InitDialogue, DialogueShape
  <2>3. calls = <<>> /\ domains = <<>> /\ submits = <<>>
    BY DEF InitDialogue
  <2>4. Drawn = {} /\ Known = {} /\ OpeningCalls = {}
    BY <2>1, <2>2, <2>3 DEF Known, Drawn, OpeningCalls
  <2>5. Shapes
    BY <2>1, <2>2, <2>3 DEF Shapes, CallsShape, DomainsShape
  <2> QED BY <2>1, <2>2, <2>3, <2>4, <2>5 DEF DialogueInv, AnswersItsOwn
<1>2. DialogueInv /\ [NextDialogue]_dialogueVars => DialogueInv'
  <2> SUFFICES ASSUME DialogueInv, [NextDialogue]_dialogueVars PROVE DialogueInv'
    OBVIOUS
  <2>1. CASE UNCHANGED dialogueVars
    BY <2>1, Unmoved, QuietStep DEF dialogueVars
  <2>2. ASSUME NEW asked \in Requests, OpenConversation(asked) PROVE DialogueInv'
    BY <2>2, OpenConversationKeeps
  <2>3. ASSUME NEW i \in DOMAIN calls, BeginConversation(i) \/ ContinueConversation(i) \/ OpeningFails(i)
        PROVE  DialogueInv'
    BY <2>3, BeginKeeps, ContinueKeeps, RejectKeeps DEF OpeningFails
  <2>4. CASE CloseDialogue \/ FrameAbort \/ ScopeAbort
    BY <2>4, EndingKeeps
  <2>5. CASE PostSubmit \/ ReceivePresentationEvent
    BY <2>5, PostSubmitKeeps, ReceiveKeeps
  <2>6. ASSUME NEW action, Command(action) PROVE DialogueInv'
    BY <2>6, CommandKeeps
  <2>7. ASSUME NEW entries, SetHistory(entries) PROVE DialogueInv'
    BY <2>7, SetHistoryKeeps
  <2> QED BY <2>1, <2>2, <2>3, <2>4, <2>5, <2>6, <2>7 DEF NextDialogue
<1> QED BY <1>1, <1>2, PTL DEF SpecDialogue

\* A Conversation is answered by what the player answered to it, never by an
\* answer to another one that was still on its way, whatever calls the caller
\* makes; but for one that was being opened at the same time (runtime.ts:298).
THEOREM AnswersAreItsOwn == SpecDialogue => []AnswersItsOwn
<1>1. DialogueInv => AnswersItsOwn
  BY DEF DialogueInv
<1> QED BY <1>1, DialogueInvariant, PTL

----------------------------------------------------------------------------
(* A Runtime has one acquisition under way at most, and none while a       *)
(* carrier is current.  So the continuation that installs a carrier finds  *)
(* no current one that it would push aside without closing it.             *)

Busy(acq) == {a \in Acquires : acq[a] \in {"pending", "given", "refused"}}

OneAcquisition ==
  /\ \A a, b \in Pending : a = b
  /\ Pending # {} => dataPeer = 0

DataTypeOK ==
  /\ acquire \in [Acquires -> {"idle", "pending", "abandoned", "given",
                               "late", "refused", "settled"}]
  /\ carrier \in [Acquires -> {"none", "open", "closing", "closed"}]
  /\ dataPeer \in 0 .. MaxAcquires

HostInv == DataTypeOK /\ OneAcquisition /\ DataOwned

\* A set of acquisitions that is not empty has a least element.
LEMMA LeastAcquire ==
  ASSUME NEW S, S \subseteq Acquires, S # {}
  PROVE  \E a \in S : \A b \in S : a <= b
<1>1. S \subseteq Nat
  BY MaxAcquiresIsNat DEF Acquires
<1>2. PICK a \in S : \A b \in S : ~ (<<b, a>> \in OpToRel(<, Nat))
  BY <1>1, NatLessThanWellFounded, WFMin
<1>3. \A b \in S : ~ (b < a)
  BY <1>1, <1>2 DEF OpToRel
<1> QED BY <1>1, <1>3

\* startDataAcquire asks for one more carrier, if none is current or asked for.
LEMMA StartedAcquire ==
  ASSUME NEW acq, NEW peer, NEW stopped
  PROVE  \/ StartDataAcquire(acq, peer, stopped) = acq
         \/ /\ peer = 0 /\ Busy(acq) = {}
            /\ \E a \in Acquires : /\ acq[a] = "idle"
                                   /\ StartDataAcquire(acq, peer, stopped) = [acq EXCEPT ![a] = "pending"]
<1> DEFINE free == {a \in Acquires : acq[a] = "idle"}
           least == CHOOSE a \in free : \A b \in free : a <= b
<1>1. CASE peer = 0 /\ ~stopped /\ Busy(acq) = {} /\ free # {}
  <2>1. \E a \in free : \A b \in free : a <= b
    BY <1>1, LeastAcquire
  <2>2. least \in free
    BY <2>1
  <2>3. StartDataAcquire(acq, peer, stopped) = [acq EXCEPT ![least] = "pending"]
    BY <1>1 DEF StartDataAcquire, Busy
  <2> HIDE DEF least
  <2> QED BY <1>1, <2>2, <2>3
<1>2. CASE ~(peer = 0 /\ ~stopped /\ Busy(acq) = {} /\ free # {})
  BY <1>2 DEF StartDataAcquire, Busy
<1> QED BY <1>1, <1>2

\* leaveDataReady closes the current carrier and gives up the acquisition.
LEMMA LeaveKeeps ==
  ASSUME HostInv, LeaveDataReady
  PROVE  HostInv' /\ dataPeer' = 0 /\ Pending' = {}
<1>1. DataTypeOK'
  BY MaxAcquiresIsNat DEF HostInv, DataTypeOK, LeaveDataReady
<1>2. dataPeer' = 0 /\ Pending' = {}
  BY DEF HostInv, DataTypeOK, LeaveDataReady, Pending
<1>3. \A a \in Acquires : carrier'[a] = "open" => acquire'[a] \in {"given", "late"}
  BY DEF HostInv, DataTypeOK, LeaveDataReady, DataOwned
<1> QED BY <1>1, <1>2, <1>3 DEF HostInv, OneAcquisition, DataOwned

LEMMA FailRuntimeKeeps ==
  ASSUME HostInv, FailRuntime
  PROVE  HostInv'
<1>1. CASE cause # "none"
  BY <1>1 DEF FailRuntime, dataVars, HostInv, DataTypeOK, OneAcquisition, DataOwned, Pending
<1>2. CASE cause = "none"
  BY <1>2, LeaveKeeps DEF FailRuntime
<1> QED BY <1>1, <1>2

\* The end of the process ends everything.
LEMMA HostEndsKeeps ==
  ASSUME HostEnds
  PROVE  HostInv'
BY MaxAcquiresIsNat DEF HostEnds, HostInv, DataTypeOK, OneAcquisition, DataOwned, Pending, Acquires

\* What the Data binding and the continuations of the Runtime do.
LEMMA DataKeeps ==
  ASSUME HostInv, DataStep \/ DataEnvironment
  PROVE  HostInv'
<1> USE MaxAcquiresIsNat DEF HostInv, DataTypeOK
<1>1. ASSUME NEW a \in Acquires, InstallDataAcquire(a), cause' = cause
      PROVE  HostInv'
  <2>1. CASE acquire[a] = "late"
    BY <1>1, <2>1 DEF InstallDataAcquire, OneAcquisition, DataOwned, Pending
  <2>2. CASE acquire[a] = "given"
    <3>1. Pending = {a} /\ dataPeer = 0 /\ cause = "none"
      BY <2>2 DEF OneAcquisition, DataOwned, Pending
    <3>2. acquire' = [acquire EXCEPT ![a] = "settled"] /\ dataPeer' \in {0, a} /\ a \in 0 .. MaxAcquires
      BY <1>1, <2>2, <3>1 DEF InstallDataAcquire, Acquires
    <3>3. Pending' = {}
      BY <3>1, <3>2 DEF Pending
    <3>4. /\ carrier' \in [Acquires -> {"none", "open", "closing", "closed"}]
          /\ \A b \in Acquires : carrier'[b] = "open" =>
               carrier[b] = "open" /\ (b = a => dataPeer' = a)
      BY <1>1, <2>2 DEF InstallDataAcquire
    <3>5. ASSUME NEW b \in Acquires, carrier'[b] = "open"
          PROVE  b = dataPeer' \/ acquire'[b] \in {"given", "late"}
      <4>1. CASE b = a
        BY <3>4, <3>5, <4>1
      <4>2. CASE b # a
        <5>1. b # dataPeer /\ acquire'[b] = acquire[b]
          BY <3>1, <3>2, <4>2 DEF Acquires
        <5> QED BY <3>4, <3>5, <5>1 DEF DataOwned
      <4> QED BY <4>1, <4>2
    <3>6. DataTypeOK'
      <4>1. acquire' \in [Acquires -> {"idle", "pending", "abandoned", "given",
                                      "late", "refused", "settled"}]
        BY <3>2
      <4>2. dataPeer' \in 0 .. MaxAcquires
        BY <3>2
      <4> QED BY <3>4, <4>1, <4>2, Zenon
    <3> QED BY <1>1, <3>1, <3>3, <3>5, <3>6 DEF OneAcquisition, DataOwned
  <2> QED BY <1>1, <2>1, <2>2 DEF InstallDataAcquire
<1>2. ASSUME NEW a \in Acquires, RejectDataAcquire(a), cause' = cause
      PROVE  HostInv'
  BY <1>2 DEF RejectDataAcquire, OneAcquisition, DataOwned, Pending
<1>3. ASSUME DataPeerTerminal, cause' = cause
      PROVE  HostInv'
  <2>1. cause = "none" /\ Pending = {} /\ dataPeer' = 0 /\ carrier' = carrier
    BY <1>3 DEF DataPeerTerminal, OneAcquisition, DataOwned
  <2>2. \A a \in Acquires : carrier[a] = "open" => acquire[a] = "late"
    BY <1>3, <2>1 DEF DataPeerTerminal, DataOwned, Pending
  <2>3. \/ acquire' = acquire
        \/ \E a \in Acquires : acquire[a] = "idle" /\ acquire' = [acquire EXCEPT ![a] = "pending"]
    BY <1>3, StartedAcquire DEF DataPeerTerminal
  <2> QED BY <1>3, <2>1, <2>2, <2>3 DEF OneAcquisition, DataOwned, Pending
<1>4. ASSUME NEW a \in Acquires, BindingGives(a), cause' = cause
      PROVE  HostInv'
  BY <1>4 DEF BindingGives, OneAcquisition, DataOwned, Pending
<1>5. ASSUME NEW a \in Acquires, BindingRefuses(a), cause' = cause
      PROVE  HostInv'
  BY <1>5 DEF BindingRefuses, OneAcquisition, DataOwned, Pending
<1>6. ASSUME NEW a \in Acquires, CarrierCloses(a), cause' = cause
      PROVE  HostInv'
  BY <1>6 DEF CarrierCloses, OneAcquisition, DataOwned, Pending
<1> QED BY <1>1, <1>2, <1>3, <1>4, <1>5, <1>6 DEF DataStep, DataEnvironment

\* The Runtime becomes ready: it asks for its first carrier.
LEMMA BecomesReadyKeeps ==
  ASSUME HostInv, BecomesReady
  PROVE  HostInv'
<1>1. CASE FailRuntime
  BY <1>1, FailRuntimeKeeps
<1>2. CASE UNCHANGED <<cause, dataVars>>
  BY <1>2 DEF dataVars, HostInv, DataTypeOK, OneAcquisition, DataOwned, Pending
<1>3. CASE /\ cause = "none" /\ UNCHANGED <<cause, carrier, dataPeer>>
           /\ acquire' = StartDataAcquire(acquire, dataPeer, dataStopped)
  <2>1. \/ acquire' = acquire
        \/ /\ dataPeer = 0 /\ Busy(acquire) = {}
           /\ \E a \in Acquires : acquire[a] = "idle" /\ acquire' = [acquire EXCEPT ![a] = "pending"]
    BY <1>3, StartedAcquire
  <2> QED BY <1>3, <2>1 DEF HostInv, DataTypeOK, OneAcquisition, DataOwned, Pending, Busy
<1> QED BY <1>1, <1>2, <1>3 DEF BecomesReady

LEMMA HostKeeps ==
  ASSUME HostInv, Start \/ HostStep \/ HostEnvironment \/ ControlAcquired \/ UNCHANGED hostVars
  PROVE  HostInv'
<1>1. CASE DataStep \/ DataEnvironment
  BY <1>1, DataKeeps
<1>2. CASE BecomesReady
  BY <1>2, BecomesReadyKeeps
<1>3. CASE UNCHANGED <<cause, dataVars>>
  BY <1>3 DEF dataVars, HostInv, DataTypeOK, OneAcquisition, DataOwned, Pending
<1>4. CASE FailRuntime
  BY <1>4, FailRuntimeKeeps
<1>5. CASE LeaveDataReady
  BY <1>5, LeaveKeeps
<1>6. CASE Start \/ HelloSettled \/ StatusWritten("initializing", "initialize") \/ PeerTerminal
           \/ InitializeReturns \/ RuntimeFails \/ ControlRefused
  BY <1>3, <1>4, <1>6 DEF Start, HelloSettled, StatusWritten, PeerTerminal, InitializeReturns,
                          RuntimeFails, ControlRefused
<1>7. CASE ReplyAccepted \/ ReplyDropped \/ StatusSettled \/ CleanupSettled \/ HookReturns
           \/ ControlLost \/ ControlAcquired \/ UNCHANGED hostVars
  BY <1>3, <1>7 DEF ReplyAccepted, ReplyDropped, StatusSettled, CleanupSettled, HookReturns,
                    ControlLost, ControlAcquired, hostVars, dataVars
<1>8. CASE OnShutdown
  BY <1>3, <1>5, <1>8 DEF OnShutdown
<1> QED BY <1>1, <1>2, <1>6, <1>7, <1>8 DEF HostStep, HostEnvironment

\* Every step of the platform is one of the Runtime, its end, or none of its.
LEMMA HostingKeeps ==
  ASSUME HostInv, [Next]_vars
  PROVE  HostInv'
<1>1. CASE Supervise
  BY <1>1, HostKeeps, HostEndsKeeps DEF Supervise, Launch, Spawned, HandOver, HandshakeSettles,
     Killed, ExitObserved, Terminate, Escalate, ProcessEnds, RunnerGone, RunnerKept
<1>2. CASE RunnerStep
  BY <1>2, HostKeeps, HostEndsKeeps DEF RunnerStep, ControlEnds, HungUp, Settled, Finishes, Inside,
     ProcessEnds, RunnerGone, HostEnvironment
<1>3. CASE PlaneStep \/ HostSeesBreak
  BY <1>3, HostKeeps DEF PlaneStep, HostSeesBreak, FirstDial, PlaneDialled, RunnerNotices, Redial,
     DialFails, HostNotices
<1>4. CASE Environment
  BY <1>4, HostKeeps, HostEndsKeeps DEF Environment, Abort, ServerFails, Acquire, AcquireAborted,
     RequestTermination, Crashes, WorkerAnswers, Import, Connected, PlaneBreaks, DialFails, Inside,
     ProcessEnds, RunnerGone
<1> QED BY <1>1, <1>2, <1>3, <1>4, HostKeeps DEF Next, vars

\* The inductive invariant: the Data carriers of a Runtime and what became of
\* its acquisitions, in every state of its launch (startDataAcquire,
\* installDataAcquire, leaveDataReady in run-subsystem.ts).
THEOREM HostInvariant == Spec => []HostInv
<1>1. Init => HostInv
  BY MaxAcquiresIsNat DEF Init, HostInit, HostInv, DataTypeOK, OneAcquisition, DataOwned, Pending,
     Acquires
<1> QED BY <1>1, HostingKeeps, PTL DEF Spec

\* Every open Data carrier is the current one, or one that a continuation is
\* about to install or close; once a terminal cause is latched none is current
\* and none is asked for.
THEOREM CarriersAreOwned == Spec => []DataOwned
<1>1. HostInv => DataOwned
  BY DEF HostInv
<1> QED BY <1>1, HostInvariant, PTL

\* The Runtime never has two acquisitions under way, nor one beside a current
\* carrier.
THEOREM OneAcquisitionAtATime == Spec => []OneAcquisition
<1>1. HostInv => OneAcquisition
  BY DEF HostInv
<1> QED BY <1>1, HostInvariant, PTL
=============================================================================
