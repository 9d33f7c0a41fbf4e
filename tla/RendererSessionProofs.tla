------------------------ MODULE RendererSessionProofs ------------------------
(***************************************************************************)
(* Proofs about the Renderer's side of a session.                          *)
(*                                                                         *)
(* RendererControl, for any number of documents and revisions: Main speaks *)
(* to one document at a time, and gives it up only for its own end.  Both  *)
(* rest on two facts that the lane of Main carries through every           *)
(* replacement: a peer that may still say something is the current one,    *)
(* and the lane tells only losses that have happened.                      *)
(*                                                                         *)
(* PresentationEvents with RendererHolder, for any subsystems, channels,   *)
(* listeners and numbers of moves: handlers honour the lease of an event,  *)
(* and run for later and later events.  That rests on the order that the   *)
(* events keep from the gate over the carriers, the lost ones before those *)
(* that took their place, to the handlers.                                 *)
(***************************************************************************)
EXTENDS RendererControl, PresentationEvents, FiniteSetTheorems, SequenceTheorems,
        NaturalsInduction, WellFoundedInduction, TLAPS

-----------------------------------------------------------------------------
(* A document becomes the participant: the inductive invariant.            *)

MainRecords ==
    [revision : Revisions, candidate : Nat, current : Attempts \cup {None},
     issued : Nat, armDue : BOOLEAN, bindingTerminal : BOOLEAN,
     stopRequested : BOOLEAN, terminal : BOOLEAN]

PeerRecords ==
    [helloState : {"none", "pending", "sending", "current"},
     accepted : 0 .. Refusal, inFlight : BOOLEAN,
     pending : Revisions \cup {None}, terminal : BOOLEAN]

SessionTypeOK == main \in MainRecords /\ peer \in [Attempts -> PeerRecords]

\* It has been accepted: it has sent a snapshot, or is about to.
Speaks(p) == \/ p.helloState \in {"sending", "current"}
             \/ p.inFlight
             \/ p.accepted \in Revisions

SpeakerIsCurrent ==
    \A a \in Attempts : Speaks(peer[a]) => /\ peer[a].helloState # "none"
                                           /\ ~peer[a].terminal => main.current = a

\* What an operation of the lane says of the peers p.
Holds(op, p) ==
    /\ op[1] = "hello" => op[2] \in Attempts /\ p[op[2]].helloState # "none"
    /\ op[1] = "lost" => op[2] \in Attempts /\ p[op[2]].terminal

Truthful(s, p) == \E S : s \in Seq(S) /\ \A op \in S : Holds(op, p)

SessionInv == SessionTypeOK /\ SpeakerIsCurrent /\ Truthful(mainLane, peer)

-----------------------------------------------------------------------------
(* Lanes, as queues of operations.                                         *)

LEMMA AppendTruthful ==
  ASSUME NEW s, NEW p, NEW op, Truthful(s, p), Holds(op, p)
  PROVE  Truthful(Append(s, op), p)
<1>1. PICK S : s \in Seq(S) /\ \A x \in S : Holds(x, p)
  BY DEF Truthful
<1>2. s \in Seq(S \cup {op})
  BY <1>1, SeqMonotonic
<1>3. Append(s, op) \in Seq(S \cup {op})
  BY <1>2, AppendProperties
<1> QED BY <1>1, <1>3 DEF Truthful

LEMMA HeadTruthful ==
  ASSUME NEW s, NEW p, Truthful(s, p), s # <<>>
  PROVE  Holds(Head(s), p) /\ Truthful(Tail(s), p)
<1>1. PICK S : s \in Seq(S) /\ \A x \in S : Holds(x, p)
  BY DEF Truthful
<1>2. Head(s) \in S /\ Tail(s) \in Seq(S)
  BY <1>1, HeadTailProperties
<1> QED BY <1>1, <1>2 DEF Truthful

LEMMA ConcatTruthful ==
  ASSUME NEW s, NEW t, NEW p, Truthful(s, p), Truthful(t, p)
  PROVE  Truthful(s \o t, p)
<1>1. PICK S : s \in Seq(S) /\ \A x \in S : Holds(x, p)
  BY DEF Truthful
<1>2. PICK T : t \in Seq(T) /\ \A x \in T : Holds(x, p)
  BY DEF Truthful
<1>3. s \in Seq(S \cup T) /\ t \in Seq(S \cup T)
  BY <1>1, <1>2, SeqMonotonic
<1>4. s \o t \in Seq(S \cup T)
  BY <1>3, ConcatProperties
<1> QED BY <1>1, <1>2, <1>4 DEF Truthful

\* A peer that has ended stays so, and one that is bound stays so.
Later(p, q) ==
    \A a \in Attempts : /\ p[a].terminal => q[a].terminal
                        /\ p[a].helloState # "none" => q[a].helloState # "none"

LEMMA LaterTruthful ==
  ASSUME NEW s, NEW p, NEW q, Truthful(s, p), Later(p, q)
  PROVE  Truthful(s, q)
<1>1. PICK S : s \in Seq(S) /\ \A x \in S : Holds(x, p)
  BY DEF Truthful
<1>2. \A x \in S : Holds(x, q)
  BY <1>1 DEF Holds, Later
<1> QED BY <1>1, <1>2 DEF Truthful

\* A finite set can be enumerated.
LEMMA SetToSeqElements ==
  ASSUME NEW S, IsFiniteSet(S)
  PROVE  SetToSeq(S) \in Seq(S)
<1>1. Cardinality(S) \in Nat /\ ExistsBijection(1 .. Cardinality(S), S)
  BY FS_CardinalityType
<1>2. PICK f : f \in Bijection(1 .. Cardinality(S), S)
  BY <1>1 DEF ExistsBijection
<1>3. f \in [1 .. Cardinality(S) -> S] /\ IsInjective(f)
  BY <1>2 DEF Bijection, Injection
<1>4. SetToSeq(S) \in [1 .. Cardinality(S) -> S]
  <2> DEFINE F == [1 .. Cardinality(S) -> S]
  <2>1. \E g \in F : IsInjective(g)
    BY <1>3
  <2>2. SetToSeq(S) = CHOOSE g \in F : IsInjective(g)
    BY DEF SetToSeq
  <2> HIDE DEF F
  <2>3. SetToSeq(S) \in F
    BY <2>1, <2>2, Zenon
  <2> QED BY <2>3 DEF F
<1> DEFINE n == Cardinality(S)
<1> HIDE DEF n
<1>5. n \in Nat /\ SetToSeq(S) \in [1 .. n -> S]
  BY <1>1, <1>4 DEF n
<1>6. \A g \in [1 .. n -> S] : g \in Seq(S)
  BY <1>5
<1> QED BY <1>5, <1>6

\* The losses of S are those of its live peers.
LEMMA LossesElements ==
  ASSUME NEW S, IsFiniteSet(S)
  PROVE  Losses(S) \in Seq({<<"lost", a>> : a \in Live(S)})
<1> DEFINE T == {<<"lost", a>> : a \in Live(S)}
<1>1. IsFiniteSet(Live(S))
  BY FS_Subset DEF Live
<1>2. IsFiniteSet(T)
  <2> DEFINE f == [a \in Live(S) |-> <<"lost", a>>]
  <2>1. f \in Surjection(Live(S), T)
    BY DEF Surjection
  <2> HIDE DEF f, T
  <2> QED BY <1>1, <2>1, FS_Surjection
<1> HIDE DEF T
<1>3. SetToSeq(T) \in Seq(T)
  BY <1>2, SetToSeqElements
<1> QED BY <1>3 DEF Losses, T

\* Retiring the peers of S ends those of its peers that live.
LEMMA RetiredType ==
  ASSUME NEW S, SessionTypeOK
  PROVE  RetiredPeers(S) \in [Attempts -> PeerRecords]
<1> SUFFICES ASSUME NEW a \in Attempts
             PROVE  (IF a \in Live(S) THEN Ended(peer[a]) ELSE peer[a]) \in PeerRecords
  BY DEF RetiredPeers
<1>1. peer[a] \in PeerRecords
  BY DEF SessionTypeOK
<1>2. Ended(peer[a]) \in PeerRecords
  BY <1>1 DEF Ended, PeerRecords
<1> QED BY <1>1, <1>2

\* Retiring the peers of S, and telling the lane so.
LEMMA RetiredTruthful ==
  ASSUME NEW S, IsFiniteSet(S), NEW s, Truthful(s, peer), SessionTypeOK
  PROVE  Later(peer, RetiredPeers(S)) /\ Truthful(s \o Losses(S), RetiredPeers(S))
<1>1. Later(peer, RetiredPeers(S))
  BY DEF Later, RetiredPeers, Live, Ended, SessionTypeOK
<1>2. \A op \in {<<"lost", a>> : a \in Live(S)} : Holds(op, RetiredPeers(S))
  <2> SUFFICES ASSUME NEW a \in Live(S) PROVE Holds(<<"lost", a>>, RetiredPeers(S))
    OBVIOUS
  <2>1. a \in Attempts /\ RetiredPeers(S)[a].terminal
    BY DEF Live, RetiredPeers, Ended, SessionTypeOK
  <2> QED BY <2>1 DEF Holds
<1>3. Truthful(Losses(S), RetiredPeers(S))
  BY <1>2, LossesElements DEF Truthful
<1>4. Truthful(s, RetiredPeers(S))
  BY <1>1, LaterTruthful
<1> QED BY <1>1, <1>3, <1>4, ConcatTruthful

-----------------------------------------------------------------------------
(* What each part of a step leaves of the invariant.                       *)

\* Operations that are about a slot say nothing of a peer.
LEMMA SlotHolds == \A a, p : Holds(Fails(a), p) /\ Holds(<<"bind", a>>, p) /\ Holds(<<"stop", a>>, p)
  BY DEF Holds, Fails

LEMMA RetireDocumentTruthful ==
  ASSUME NEW d, NEW tail, Truthful(tail, peer), RetireDocument(d, tail)
  PROVE  Truthful(mainLane', peer)
  BY AppendTruthful, SlotHolds DEF RetireDocument

\* A step that leaves Main and its peers alone keeps the invariant if it
\* keeps the lane truthful.
LEMMA LaneStep ==
  ASSUME SessionInv, UNCHANGED <<main, peer>>, Truthful(mainLane', peer)
  PROVE  SessionInv'
  BY DEF SessionInv, SessionTypeOK, SpeakerIsCurrent

\* One peer becomes q.
LEMMA PeerStep ==
  ASSUME SessionTypeOK, main' \in MainRecords, NEW a \in Attempts, NEW q \in PeerRecords,
         peer' = [peer EXCEPT ![a] = q],
         peer[a].terminal => q.terminal, peer[a].helloState # "none" => q.helloState # "none"
  PROVE  /\ SessionTypeOK' /\ Later(peer, peer')
         /\ peer'[a] = q /\ \A b \in Attempts \ {a} : peer'[b] = peer[b]
  BY DEF SessionTypeOK, Later

LEMMA ArmSlotKeeps ==
  ASSUME NEW m, NEW tail, SessionInv, UNCHANGED peer, ArmSlot(m, tail), Truthful(tail, peer),
         m \in MainRecords,
         \A a \in Attempts : Speaks(peer[a]) /\ ~peer[a].terminal => m.current = a
  PROVE  SessionInv' /\ main'.current = m.current
<1>1. Truthful(mainLane', peer)
  <2>1. mainLane' = tail \/ mainLane' = Append(tail, Fails(m.issued + 1))
    BY DEF ArmSlot
  <2>2. Truthful(Append(tail, Fails(m.issued + 1)), peer)
    BY AppendTruthful, SlotHolds
  <2> QED BY <2>1, <2>2
<1>2. /\ main' \in MainRecords
      /\ main'.current = m.current
  <2>1. \/ main' = m
        \/ main' = [m EXCEPT !.candidate = m.issued + 1, !.issued = m.issued + 1]
    BY DEF ArmSlot
  <2>2. m.issued + 1 \in Nat
    BY DEF MainRecords
  <2> QED BY <2>1, <2>2 DEF MainRecords
<1>3. SessionTypeOK'
  BY <1>2 DEF SessionInv, SessionTypeOK, PeerRecords
<1>4. SpeakerIsCurrent'
  BY <1>2 DEF SessionInv, SpeakerIsCurrent
<1> QED BY <1>1, <1>2, <1>3, <1>4 DEF SessionInv

-----------------------------------------------------------------------------
(* Each step keeps the invariant.                                          *)

LEMMA PeerStepsKeep ==
  ASSUME SessionInv, NEW a \in Attempts,
         ReadHello(a) \/ AnswerHello(a) \/ SendDone(a) \/ MainSeesClose(a)
  PROVE  SessionInv'
<1> USE DEF SessionInv
<1>1. CASE ReadHello(a)
  <2>1. Holds(<<"hello", a>>, peer)
    BY <1>1 DEF ReadHello, Holds
  <2>2. Truthful(mainLane', peer)
    BY <1>1, <2>1, AppendTruthful DEF ReadHello
  <2> QED BY <1>1, <2>2, LaneStep DEF ReadHello
<1>2. CASE AnswerHello(a)
  <2>0. peer[a] \in PeerRecords /\ main' = main /\ main \in MainRecords
    BY <1>2 DEF AnswerHello, SessionTypeOK
  <2>00. None \in 0 .. Refusal
    BY RendererControlAssumption DEF None, Refusal
  <2> DEFINE Is(q) == /\ q \in PeerRecords /\ peer' = [peer EXCEPT ![a] = q]
                      /\ peer[a].terminal => q.terminal
                      /\ peer[a].helloState # "none" => q.helloState # "none"
                      /\ Speaks(q) /\ ~q.terminal => Speaks(peer[a]) /\ ~peer[a].terminal
                      /\ Speaks(q) => q.helloState # "none"
                      /\ mainLane' = mainLane \/ (mainLane' = Append(mainLane, <<"lost", a>>) /\ q.terminal)
  <2>1. \E q : Is(q)
    <3>1. CASE peer[a].terminal
      <4> DEFINE q == [peer[a] EXCEPT !.accepted = None]
      <4>1. peer' = [peer EXCEPT ![a] = q] /\ mainLane' = mainLane
        BY <1>2, <3>1 DEF AnswerHello, SessionTypeOK
      <4>2. q \in PeerRecords /\ q.terminal /\ q.helloState = peer[a].helloState
        BY <2>0, <2>00, <3>1 DEF PeerRecords
      <4>3. Speaks(q) => Speaks(peer[a])
        BY <2>0 DEF Speaks, PeerRecords, None, Revisions
      <4>4. Speaks(peer[a]) => peer[a].helloState # "none"
        BY DEF SpeakerIsCurrent
      <4> HIDE DEF q
      <4> QED BY <4>1, <4>2, <4>3, <4>4, <3>1
    <3>2. CASE ~peer[a].terminal /\ peer[a].accepted = Refusal
      <4> DEFINE q == Ended([peer[a] EXCEPT !.accepted = None])
      <4>1. peer' = [peer EXCEPT ![a] = q] /\ mainLane' = Append(mainLane, <<"lost", a>>)
        BY <1>2, <3>2 DEF AnswerHello, SessionTypeOK
      <4>2. q \in PeerRecords /\ q.terminal /\ q.helloState = peer[a].helloState
        BY <2>0, <2>00 DEF PeerRecords, Ended
      <4>3. Speaks(q) => Speaks(peer[a])
        BY <2>0 DEF Speaks, PeerRecords, None, Revisions, Ended
      <4>4. Speaks(peer[a]) => peer[a].helloState # "none"
        BY DEF SpeakerIsCurrent
      <4> HIDE DEF q
      <4> QED BY <4>1, <4>2, <4>3, <4>4
    <3>3. CASE ~peer[a].terminal /\ peer[a].accepted # Refusal
      <4> DEFINE q == [peer[a] EXCEPT !.helloState = "sending", !.accepted = None]
      <4>1. peer' = [peer EXCEPT ![a] = q] /\ mainLane' = mainLane
        BY <1>2, <3>3 DEF AnswerHello, SessionTypeOK
      <4>2. q \in PeerRecords /\ q.terminal = peer[a].terminal /\ q.helloState = "sending"
        BY <2>0, <2>00, <3>3 DEF PeerRecords
      <4>3. peer[a].accepted \in Revisions
        BY <1>2, <2>0, <3>3, RendererControlAssumption DEF AnswerHello, PeerRecords, Revisions, Refusal, None
      <4>4. Speaks(peer[a])
        BY <4>3 DEF Speaks
      <4> HIDE DEF q
      <4> QED BY <4>1, <4>2, <4>4, <3>3
    <3> QED BY <3>1, <3>2, <3>3
  <2>2. PICK q : Is(q)
    BY <2>1
  <2>3. /\ SessionTypeOK' /\ Later(peer, peer')
        /\ peer'[a] = q /\ \A b \in Attempts \ {a} : peer'[b] = peer[b]
    BY <2>0, <2>2, PeerStep
  <2>4. SpeakerIsCurrent'
    BY <2>0, <2>2, <2>3 DEF SpeakerIsCurrent
  <2>5. Truthful(mainLane, peer')
    BY <2>3, LaterTruthful
  <2>6. q.terminal => Holds(<<"lost", a>>, peer')
    BY <2>3 DEF Holds
  <2>7. Truthful(mainLane', peer')
    BY <2>2, <2>5, <2>6, AppendTruthful
  <2> QED BY <2>3, <2>4, <2>7
<1>3. CASE SendDone(a)
  <2> DEFINE q == [peer[a] EXCEPT !.inFlight = (peer[a].pending # None), !.pending = None,
                                  !.helloState = "current"]
  <2>0. /\ peer' = [peer EXCEPT ![a] = q] /\ main' = main
        /\ q \in PeerRecords /\ q.terminal = peer[a].terminal /\ q.helloState = "current"
    BY <1>3 DEF SendDone, SessionTypeOK, PeerRecords
  <2> HIDE DEF q
  <2>1. SessionTypeOK' /\ Later(peer, peer')
    BY <2>0, PeerStep DEF SessionTypeOK
  <2>2. SpeakerIsCurrent'
    BY <1>3 DEF SendDone, SpeakerIsCurrent, Speaks, SessionTypeOK, PeerRecords
  <2>3. Truthful(mainLane', peer')
    BY <1>3, <2>1, LaterTruthful DEF SendDone
  <2> QED BY <2>1, <2>2, <2>3
<1>4. CASE MainSeesClose(a)
  <2>1. SessionTypeOK' /\ Later(peer, peer') /\ peer'[a].terminal
    BY <1>4 DEF MainSeesClose, SessionTypeOK, PeerRecords, Later, Ended
  <2>2. SpeakerIsCurrent'
    BY <1>4 DEF MainSeesClose, SpeakerIsCurrent, Speaks, SessionTypeOK, PeerRecords, Ended
  <2>3. Holds(<<"lost", a>>, peer')
    BY <2>1 DEF Holds
  <2>4. Truthful(mainLane', peer')
    BY <1>4, <2>1, <2>3, LaterTruthful, AppendTruthful DEF MainSeesClose
  <2> QED BY <2>1, <2>2, <2>4
<1> QED BY <1>1, <1>2, <1>3, <1>4

LEMMA DocumentStepsKeep ==
  ASSUME SessionInv,
         \/ BeginDocument \/ CloseBinding \/ Pair(TRUE) \/ Pair(FALSE)
         \/ \E d \in DOMAIN document : CancelDocument(d) \/ AnswerDocument(d) \/ PageConnects(d)
         \/ \E a \in Attempts : PageReads(a) \/ PageSeesClose(a) \/ PageGoes(a)
  PROVE  SessionInv'
<1>1. Truthful(mainLane, peer)
  BY DEF SessionInv
<1>2. \A x : Truthful(Append(mainLane, Fails(x)), peer) /\ Truthful(Append(mainLane, <<"bind", x>>), peer)
  BY <1>1, SlotHolds, AppendTruthful
<1>3. UNCHANGED <<main, peer>>
  BY DEF BeginDocument, CloseBinding, Pair, CancelDocument, AnswerDocument, PageConnects,
         PageReads, PageSeesClose, PageGoes
<1>4. CASE BeginDocument
  <2>1. Truthful(mainLane', peer)
    BY <1>1, <1>4, RetireDocumentTruthful DEF BeginDocument
  <2> QED BY <1>3, <2>1, LaneStep
<1>5. CASE CloseBinding
  <2>1. PICK failed : /\ RetireDocument(rendezvous.current, failed)
                      /\ failed = mainLane \/ failed = Append(mainLane, Fails(rendezvous.acquire))
    BY <1>5 DEF CloseBinding
  <2>2. Truthful(mainLane', peer)
    BY <1>1, <1>2, <2>1, RetireDocumentTruthful
  <2> QED BY <1>3, <2>2, LaneStep
<1>6. CASE Pair(TRUE) \/ Pair(FALSE)
  <2>1. mainLane' = mainLane \/ mainLane' = Append(mainLane, Fails(SlotOf(rendezvous.pairing)))
    BY <1>6 DEF Pair
  <2>2. Truthful(mainLane', peer)
    BY <1>1, <1>2, <2>1
  <2> QED BY <1>3, <2>2, LaneStep
<1>7. ASSUME NEW d \in DOMAIN document, CancelDocument(d)
      PROVE  SessionInv'
  <2>1. mainLane' = mainLane \/ RetireDocument(d, mainLane)
    BY <1>7 DEF CancelDocument
  <2>2. Truthful(mainLane', peer)
    BY <1>1, <2>1, RetireDocumentTruthful
  <2> QED BY <1>3, <2>2, LaneStep
<1>8. ASSUME NEW d \in DOMAIN document, AnswerDocument(d) \/ PageConnects(d)
      PROVE  SessionInv'
  <2>1. mainLane' = mainLane \/ mainLane' = Append(mainLane, <<"bind", SlotOf(d)>>)
    BY <1>8 DEF AnswerDocument, PageConnects
  <2>2. Truthful(mainLane', peer)
    BY <1>1, <1>2, <2>1
  <2> QED BY <1>3, <2>2, LaneStep
<1>9. ASSUME NEW a \in Attempts, PageReads(a) \/ PageSeesClose(a) \/ PageGoes(a)
      PROVE  SessionInv'
  <2>1. mainLane' = mainLane
    BY <1>9 DEF PageReads, PageSeesClose, PageGoes
  <2> QED BY <1>1, <1>3, <2>1, LaneStep
<1> QED BY <1>4, <1>5, <1>6, <1>7, <1>8, <1>9

\* The operation at the head of the lane, and what is left of it.
LEMMA LaneHead ==
  ASSUME SessionInv, NEW op, Next1(op)
  PROVE  /\ Truthful(Tail(mainLane), peer)
         /\ op = "hello" => Head(mainLane)[2] \in Attempts /\ peer[Head(mainLane)[2]].helloState # "none"
         /\ op = "lost" => Head(mainLane)[2] \in Attempts /\ peer[Head(mainLane)[2]].terminal
  BY HeadTruthful DEF SessionInv, Next1, Holds

LEMMA BindKeeps ==
  ASSUME SessionInv, NEW a, Next1("bind"), Bind(a)
  PROVE  SessionInv'
<1>1. Truthful(Tail(mainLane), peer)
  BY LaneHead
<1>2. peer' = peer \/ peer' = [peer EXCEPT ![a].helloState = "pending"]
  BY DEF Bind
<1>3. SessionTypeOK' /\ Later(peer, peer')
  BY <1>2 DEF Bind, SessionInv, SessionTypeOK, PeerRecords, Later
<1>4. SpeakerIsCurrent'
  BY <1>2 DEF Bind, SessionInv, SpeakerIsCurrent, Speaks, SessionTypeOK, PeerRecords
<1>5. Truthful(mainLane', peer')
  BY <1>1, <1>3, LaterTruthful DEF Bind
<1> QED BY <1>3, <1>4, <1>5 DEF SessionInv

LEMMA AcceptHelloKeeps ==
  ASSUME SessionInv, NEW a \in Attempts, peer[a].helloState # "none",
         Truthful(Tail(mainLane), peer), AcceptHello(a)
  PROVE  SessionInv'
<1> USE DEF SessionInv
<1>1. CASE main.terminal \/ main.candidate # a
  <2>1. peer' = [peer EXCEPT ![a].accepted = Refusal] /\ main' = main
    BY <1>1 DEF AcceptHello
  <2>2. Refusal \in 0 .. Refusal /\ Refusal \notin Revisions
    BY RendererControlAssumption DEF Refusal, Revisions
  <2>3. SessionTypeOK' /\ Later(peer, peer')
    BY <2>1, <2>2 DEF SessionTypeOK, PeerRecords, Later
  <2>4. SpeakerIsCurrent'
    BY <2>1, <2>2 DEF SpeakerIsCurrent, Speaks, SessionTypeOK, PeerRecords
  <2>5. Truthful(mainLane', peer')
    BY <1>1, <2>3, LaterTruthful DEF AcceptHello
  <2> QED BY <2>3, <2>4, <2>5
<1>2. CASE ~(main.terminal \/ main.candidate # a)
  <2> DEFINE S == {main.current}
  <2>1. /\ main' = [main EXCEPT !.current = a, !.candidate = None, !.armDue = TRUE]
        /\ peer' = [RetiredPeers(S) EXCEPT ![a].accepted = main.revision]
        /\ mainLane' = Tail(mainLane) \o Losses(S)
    BY <1>2 DEF AcceptHello
  <2>2. /\ Later(peer, RetiredPeers(S))
        /\ Truthful(Tail(mainLane) \o Losses(S), RetiredPeers(S))
    BY RetiredTruthful, FS_Singleton
  <2>3. RetiredPeers(S) \in [Attempts -> PeerRecords]
    BY RetiredType
  <2>4. main.revision \in 0 .. Refusal
    BY RendererControlAssumption DEF SessionTypeOK, MainRecords, Revisions, Refusal
  <2>5. SessionTypeOK'
    <3>1. main' \in MainRecords
      BY <2>1 DEF SessionTypeOK, MainRecords, None
    <3>2. peer' \in [Attempts -> PeerRecords]
      BY <2>1, <2>3, <2>4 DEF PeerRecords
    <3> QED BY <3>1, <3>2 DEF SessionTypeOK
  <2>6. Later(RetiredPeers(S), peer')
    BY <2>1, <2>3 DEF Later
  <2>7. Truthful(mainLane', peer')
    BY <2>1, <2>2, <2>6, LaterTruthful
  <2>8. SpeakerIsCurrent'
    <3> SUFFICES ASSUME NEW b \in Attempts, Speaks(peer'[b])
                 PROVE  peer'[b].helloState # "none" /\ (~peer'[b].terminal => main'.current = b)
      BY DEF SpeakerIsCurrent
    <3>1. main'.current = a
      BY <2>1 DEF SessionTypeOK, PeerRecords
    <3>2. CASE b = a
      BY <2>2, <2>6, <3>1, <3>2 DEF Later
    <3>3. CASE b # a
      <4>1. peer'[b] = RetiredPeers(S)[b]
        BY <2>1, <2>3, <3>3
      <4>2. Speaks(peer[b])
        BY <4>1 DEF RetiredPeers, Ended, Speaks, SessionTypeOK, PeerRecords
      <4>3. peer[b].helloState # "none" /\ (~peer[b].terminal => b \in Live(S))
        BY <4>2 DEF SpeakerIsCurrent, Live
      <4>4. peer'[b].terminal /\ peer'[b].helloState # "none"
        BY <4>1, <4>3 DEF RetiredPeers, Ended, SessionTypeOK, PeerRecords
      <4> QED BY <4>4
    <3> QED BY <3>2, <3>3
  <2> QED BY <2>5, <2>7, <2>8
<1> QED BY <1>1, <1>2

LEMMA ObserveLossKeeps ==
  ASSUME SessionInv, NEW a \in Attempts, peer[a].terminal,
         Truthful(Tail(mainLane), peer), ObserveLoss(a)
  PROVE  SessionInv' /\ main'.current = IF main.current = a THEN None ELSE main.current
<1> DEFINE m == [main EXCEPT !.current = IF @ = a THEN None ELSE @]
<1>1. \/ ArmSlot([m EXCEPT !.candidate = None], Tail(mainLane)) /\ UNCHANGED peer
      \/ main' = m /\ mainLane' = Tail(mainLane) /\ UNCHANGED peer
  BY DEF ObserveLoss
<1>2. \A n \in {m, [m EXCEPT !.candidate = None]} :
        /\ n \in MainRecords
        /\ n.current = IF main.current = a THEN None ELSE main.current
  <2> DEFINE k == [m EXCEPT !.candidate = None]
  <2>1. main \in MainRecords
    BY DEF SessionInv, SessionTypeOK
  <2>2. m \in MainRecords /\ m.current = IF main.current = a THEN None ELSE main.current
    BY <2>1 DEF MainRecords
  <2>3. k \in MainRecords /\ k.current = m.current
    BY <2>2 DEF MainRecords, None
  <2> HIDE DEF m, k
  <2>4. \A n \in {m, k} : n \in MainRecords /\ n.current = m.current
    BY <2>2, <2>3
  <2> QED BY <2>2, <2>4 DEF k
<1>3. \A n \in {m, [m EXCEPT !.candidate = None]} :
        \A b \in Attempts : Speaks(peer[b]) /\ ~peer[b].terminal => n.current = b
  BY <1>2 DEF SessionInv, SpeakerIsCurrent
<1> HIDE DEF m
<1>4. CASE ArmSlot([m EXCEPT !.candidate = None], Tail(mainLane)) /\ UNCHANGED peer
  BY <1>2, <1>3, <1>4, ArmSlotKeeps
<1>5. CASE main' = m /\ mainLane' = Tail(mainLane) /\ UNCHANGED peer
  <2>1. SessionTypeOK'
    BY <1>2, <1>5 DEF SessionInv, SessionTypeOK, PeerRecords
  <2>2. SpeakerIsCurrent'
    BY <1>3, <1>5 DEF SessionInv, SpeakerIsCurrent
  <2> QED BY <1>2, <1>5, <2>1, <2>2 DEF SessionInv
<1> QED BY <1>1, <1>4, <1>5

LEMMA SettleFailureKeeps ==
  ASSUME SessionInv, NEW a, Truthful(Tail(mainLane), peer), SettleFailure(a)
  PROVE  SessionInv' /\ main'.current = main.current
<1>1. /\ main' \in MainRecords
      /\ main'.current = main.current
  BY DEF SettleFailure, SessionInv, SessionTypeOK, MainRecords, None
<1>2. UNCHANGED peer /\ mainLane' = Tail(mainLane)
  BY DEF SettleFailure
<1> QED BY <1>1, <1>2 DEF SessionInv, SessionTypeOK, SpeakerIsCurrent

LEMMA TerminateKeeps ==
  ASSUME SessionInv, NEW queue, Truthful(queue, peer), Terminate(queue)
  PROVE  SessionInv' /\ main'.terminal
<1> DEFINE S == {main.candidate, main.current}
<1>1. PICK tail : /\ tail = queue \/ tail = Append(queue, Fails(rendezvous.acquire))
                  /\ mainLane' = tail \o Losses(S)
  BY DEF Terminate
<1>2. peer' = RetiredPeers(S) /\ main' = [main EXCEPT !.terminal = TRUE, !.candidate = None, !.current = None]
  BY DEF Terminate
<1>3. IsFiniteSet(S)
  <2>1. IsFiniteSet({main.candidate}) /\ S = {main.candidate} \cup {main.current}
    BY FS_Singleton
  <2> QED BY <2>1, FS_AddElement
<1>4. Truthful(tail, peer)
  BY <1>1, AppendTruthful, SlotHolds
<1>5. Truthful(mainLane', peer')
  BY <1>1, <1>2, <1>3, <1>4, RetiredTruthful DEF SessionInv
<1>6. SessionTypeOK' /\ main'.terminal
  <2>1. /\ main' \in MainRecords
        /\ main'.terminal
    BY <1>2 DEF SessionInv, SessionTypeOK, MainRecords, None
  <2>2. peer' \in [Attempts -> PeerRecords]
    BY <1>2, RetiredType DEF SessionInv
  <2> QED BY <2>1, <2>2 DEF SessionTypeOK
<1>7. SpeakerIsCurrent'
  <2> SUFFICES ASSUME NEW b \in Attempts, Speaks(peer'[b])
               PROVE  peer'[b].helloState # "none" /\ peer'[b].terminal
    BY DEF SpeakerIsCurrent
  <2>1. Speaks(peer[b])
    BY <1>2 DEF RetiredPeers, Ended, Speaks, SessionInv, SessionTypeOK, PeerRecords
  <2>2. peer[b].helloState # "none" /\ (~peer[b].terminal => b \in Live(S))
    BY <2>1 DEF SessionInv, SpeakerIsCurrent, Live
  <2> QED BY <1>2, <2>2 DEF RetiredPeers, Ended, SessionInv, SessionTypeOK, PeerRecords
<1> QED BY <1>5, <1>6, <1>7 DEF SessionInv

LEMMA CommitKeeps ==
  ASSUME SessionInv, Commit
  PROVE  SessionInv' /\ main'.current = main.current
<1> USE DEF SessionInv
<1>1. /\ main' \in MainRecords
      /\ main'.current = main.current
      /\ main.revision + 1 \in Revisions
  BY RendererControlAssumption DEF Commit, SessionTypeOK, MainRecords, Revisions
<1> DEFINE a == main.current
<1> DEFINE Is(q) == /\ a \in Attempts /\ q \in PeerRecords /\ peer' = [peer EXCEPT ![a] = q]
                    /\ q.terminal = peer[a].terminal /\ q.helloState = peer[a].helloState
                    /\ Speaks(q) => Speaks(peer[a])
<1>2. peer' = peer \/ \E q : Is(q)
  <2>1. peer' = peer \/ (a \in Attempts /\ Publish(a, main.revision + 1))
    BY DEF Commit, SessionTypeOK, MainRecords, None
  <2>2. ASSUME a \in Attempts, Publish(a, main.revision + 1), peer' # peer
        PROVE  \E q : Is(q)
    <3> DEFINE q == [peer[a] EXCEPT !.pending = main.revision + 1]
               r == [peer[a] EXCEPT !.inFlight = TRUE]
    <3>1. \/ peer' = [peer EXCEPT ![a] = q]
          \/ peer' = [peer EXCEPT ![a] = r] /\ peer[a].helloState = "current"
      BY <2>2 DEF Publish
    <3>2. q \in PeerRecords /\ q.terminal = peer[a].terminal /\ q.helloState = peer[a].helloState
      BY <1>1, <2>2 DEF SessionTypeOK, PeerRecords
    <3>3. r \in PeerRecords /\ r.terminal = peer[a].terminal /\ r.helloState = peer[a].helloState
      BY <2>2 DEF SessionTypeOK, PeerRecords
    <3>4. Speaks(q) => Speaks(peer[a])
      BY <2>2 DEF SessionTypeOK, PeerRecords, Speaks
    <3>5. peer[a].helloState = "current" => Speaks(peer[a])
      BY DEF Speaks
    <3> HIDE DEF a, q, r
    <3> QED BY <2>2, <3>1, <3>2, <3>3, <3>4, <3>5
  <2> QED BY <2>1, <2>2
<1>3. /\ SessionTypeOK' /\ Later(peer, peer')
      /\ \A b \in Attempts : /\ Speaks(peer'[b]) => Speaks(peer[b])
                             /\ peer'[b].terminal = peer[b].terminal
                             /\ peer'[b].helloState = peer[b].helloState
  <2>1. CASE peer' = peer
    BY <1>1, <2>1 DEF SessionTypeOK, Later
  <2>2. CASE \E q : Is(q)
    <3>1. PICK q : Is(q)
      BY <2>2
    <3>2. /\ SessionTypeOK' /\ Later(peer, peer')
          /\ peer'[a] = q /\ \A b \in Attempts \ {a} : peer'[b] = peer[b]
      BY <1>1, <3>1, PeerStep
    <3> HIDE DEF a
    <3> QED BY <3>1, <3>2
  <2> QED BY <1>2, <2>1, <2>2
<1>4. SpeakerIsCurrent'
  BY <1>1, <1>3 DEF SpeakerIsCurrent
<1>5. Truthful(mainLane', peer')
  BY <1>3, LaterTruthful DEF Commit
<1> QED BY <1>1, <1>3, <1>4, <1>5

-----------------------------------------------------------------------------
(* The theorems.                                                           *)

LEMMA InitKeeps == RendererInit => SessionInv
<1> SUFFICES ASSUME RendererInit PROVE SessionInv
  OBVIOUS
<1>1. main \in MainRecords
  BY RendererControlAssumption DEF RendererInit, MainRecords, Revisions, None
<1>2. None \in 0 .. Refusal /\ None \notin Revisions
  BY RendererControlAssumption DEF None, Refusal, Revisions
<1>3. SessionTypeOK
  BY <1>1, <1>2 DEF RendererInit, SessionTypeOK, PeerRecords
<1>4. SpeakerIsCurrent
  BY <1>2 DEF RendererInit, SpeakerIsCurrent, Speaks
<1>5. Truthful(mainLane, peer)
  <2> DEFINE S == {<<"stop", None>>}
  <2>1. <<>> \in Seq(S)
    BY EmptySeq
  <2>2. mainLane \in Seq(S) /\ \A op \in S : Holds(op, peer)
    BY <2>1, SlotHolds DEF RendererInit
  <2> QED BY <2>2 DEF Truthful
<1> QED BY <1>3, <1>4, <1>5 DEF SessionInv

\* A step keeps the invariant, and takes the Renderer from Main only at the
\* end of the session or of that Renderer's own connection.
LEMMA StepKeeps ==
  ASSUME SessionInv, [RendererNext]_rendererControlVars
  PROVE  /\ SessionInv'
         /\ main.current # None /\ main'.current = None
              => main'.terminal \/ peer[main.current].terminal
<1> DEFINE Goal == /\ SessionInv'
                   /\ main.current # None /\ main'.current = None
                        => main'.terminal \/ peer[main.current].terminal
<1>1. CASE UNCHANGED rendererControlVars
  BY <1>1 DEF rendererControlVars, SessionInv, SessionTypeOK, SpeakerIsCurrent
<1>2. ASSUME NEW a \in Attempts,
             ReadHello(a) \/ AnswerHello(a) \/ SendDone(a) \/ MainSeesClose(a)
      PROVE  Goal
  <2>1. main' = main
    BY <1>2 DEF ReadHello, AnswerHello, SendDone, MainSeesClose
  <2> QED BY <1>2, <2>1, PeerStepsKeep
<1>3. CASE \/ BeginDocument \/ CloseBinding \/ Pair(TRUE) \/ Pair(FALSE)
           \/ \E d \in DOMAIN document : CancelDocument(d) \/ AnswerDocument(d) \/ PageConnects(d)
           \/ \E a \in Attempts : PageReads(a) \/ PageSeesClose(a) \/ PageGoes(a)
  <2>1. main' = main
    BY <1>3 DEF BeginDocument, CloseBinding, Pair, CancelDocument, AnswerDocument, PageConnects,
                PageReads, PageSeesClose, PageGoes
  <2> QED BY <1>3, <2>1, DocumentStepsKeep
<1>4. CASE RunLane
  <2> DEFINE a == Head(mainLane)[2]
  <2> HIDE DEF Goal
  <2>1. CASE Next1("bind") /\ Bind(a)
    <3>1. main' = main
      BY <2>1 DEF Bind
    <3> QED BY <2>1, <3>1, BindKeeps DEF Goal
  <2>2. CASE Next1("hello") /\ AcceptHello(a)
    <3>1. a \in Attempts /\ peer[a].helloState # "none" /\ Truthful(Tail(mainLane), peer)
      BY <2>2, LaneHead
    <3>2. main' = main \/ main'.current = a
      BY <2>2 DEF AcceptHello, SessionInv, SessionTypeOK, MainRecords
    <3>3. None \notin Attempts
      BY DEF None, Attempts
    <3> QED BY <2>2, <3>1, <3>2, <3>3, AcceptHelloKeeps DEF Goal
  <2>3. CASE Next1("lost") /\ ObserveLoss(a)
    <3>1. a \in Attempts /\ peer[a].terminal /\ Truthful(Tail(mainLane), peer)
      BY <2>3, LaneHead
    <3> QED BY <2>3, <3>1, ObserveLossKeeps DEF Goal
  <2>4. CASE Next1("fail") /\ SettleFailure(a)
    <3>1. Truthful(Tail(mainLane), peer)
      BY <2>4, LaneHead
    <3> QED BY <2>4, <3>1, SettleFailureKeeps DEF Goal
  <2>5. CASE Next1("stop") /\ BeginShutdown
    <3>1. Truthful(Tail(mainLane), peer)
      BY <2>5, LaneHead
    <3>2. CASE Terminate(Tail(mainLane))
      BY <3>1, <3>2, TerminateKeeps DEF Goal
    <3>3. CASE mainLane' = Tail(mainLane) /\ UNCHANGED <<main, peer>>
      BY <3>1, <3>3, LaneStep DEF Goal
    <3> QED BY <2>5, <3>2, <3>3 DEF BeginShutdown
  <2> QED BY <1>4, <2>1, <2>2, <2>3, <2>4, <2>5 DEF RunLane
<1>5. CASE RearmSlot
  <2> DEFINE m == [main EXCEPT !.armDue = FALSE]
  <2>1. m \in MainRecords /\ m.current = main.current
    BY DEF SessionInv, SessionTypeOK, MainRecords
  <2>2. ArmSlot(m, mainLane) /\ UNCHANGED peer
    BY <1>5 DEF RearmSlot
  <2> HIDE DEF m
  <2>3. SessionInv' /\ main'.current = main.current
    BY <2>1, <2>2, ArmSlotKeeps DEF SessionInv, SpeakerIsCurrent
  <2> QED BY <2>3
<1>6. CASE Commit
  BY <1>6, CommitKeeps
<1>7. CASE RequestShutdown
  <2>1. main' \in MainRecords /\ main'.current = main.current
    BY <1>7 DEF RequestShutdown, SessionInv, SessionTypeOK, MainRecords
  <2>2. peer' = peer /\ Truthful(mainLane', peer)
    BY <1>7, SlotHolds, AppendTruthful DEF RequestShutdown, SessionInv
  <2> QED BY <2>1, <2>2 DEF SessionInv, SessionTypeOK, SpeakerIsCurrent
<1>8. CASE Terminate(mainLane)
  BY <1>8, TerminateKeeps DEF SessionInv
<1> QED
  <2> HIDE DEF Goal
  <2>1. Goal
    BY <1>1, <1>2, <1>3, <1>4, <1>5, <1>6, <1>7, <1>8 DEF RendererNext, System, Goal
  <2> QED BY <2>1 DEF Goal

\* A peer that has been accepted and has not ended is the current one, and
\* the lane reports only ends that have happened (acceptRendererHello,
\* observeRendererPeerTerminal in main-session.ts).
THEOREM SessionInvariant == RendererSpec => []SessionInv
<1>1. SessionInv /\ [RendererNext]_rendererControlVars => SessionInv'
  BY StepKeeps
<1> QED BY <1>1, InitKeeps, PTL DEF RendererSpec

\* Whoever Main still answers or sends a snapshot to is the current
\* participant, at every step of a replacement.
THEOREM OneSpeaker == RendererSpec => []OnlyCurrentSpeaks
<1>1. SessionInv => OnlyCurrentSpeaks
  BY DEF SessionInv, SpeakerIsCurrent, OnlyCurrentSpeaks, Speaks
<1> QED BY <1>1, SessionInvariant, PTL

\* The late end of an earlier document does not take the place of the
\* current one from it.
THEOREM LossIsItsOwn == RendererSpec => OnlyItsOwnLoss
<1>1. SessionInv /\ [RendererNext]_rendererControlVars
      => [main.current # None /\ main'.current = None
           => main'.terminal \/ peer[main.current].terminal]_rendererControlVars
  BY StepKeeps
<1> QED BY <1>1, SessionInvariant, PTL DEF RendererSpec, OnlyItsOwnLoss

-----------------------------------------------------------------------------
(* Custom events: the inductive invariant.                                 *)

Progress == {"idle", "asked", "aborted", "given", "late", "refused", "settled"}
AttemptRecords == [at : Progress] \cup [id : Identities, at : Progress]
Snaps == [gen : Generations, lease : 0 .. MaxActivations]
Slots == [current : 0 .. MaxAcquires, pending : 0 .. MaxAcquires, failed : BOOLEAN]

HolderShape ==
  /\ conn \in 0 .. MaxConnects /\ connects \in 0 .. MaxConnects
  /\ snapshot \in Snaps /\ granted \in 0 .. MaxActivations
  /\ slot \in [Keys -> Slots]
  /\ attempt \in [Acquires -> AttemptRecords]
  /\ carrier \in [Acquires -> {"none", "open", "closed"}]

\* A slot that has a carrier waits for none, and its acquisition is over.
SlotsSettled ==
  \A k \in Keys : slot[k].current # 0 => /\ slot[k].pending = 0
                                         /\ attempt[slot[k].current].at = "settled"

ListenerRecords == [state : {"none", "open", "closed"}, channels : SUBSET Channels,
                    on : BOOLEAN]
GateRecords == [interest : SUBSET Channels, queue : Seq(Events), sending : BOOLEAN,
                retired : BOOLEAN]

EventShape ==
  /\ emits \in 0 .. MaxEmits
  /\ gate \in GateRecords
  /\ upward \in [Acquires -> Seq(SUBSET Channels)]
  /\ down \in [Acquires -> Seq(Events)]
  /\ listener \in [Listeners -> ListenerRecords]
  /\ dataPeer \in 0 .. MaxAcquires
  /\ \/ dispatch = NoDispatch
     \/ dispatch \in [event : Events, left : SUBSET Listeners]
  /\ handled \in [Listeners -> 0 .. MaxEmits]

Now == slot[Target].current

\* A carrier has taken events only after its acquisition was over; one that
\* takes more is the Target's.
OnlyCurrentTakes ==
  \A a \in Acquires : down[a] # <<>> =>
     attempt[a].at = "settled" /\ (carrier[a] = "open" => Now = a)

Ordered(q) == \A i, j \in 1 .. Len(q) : i < j => q[i].id < q[j].id
After(n, q) == \A i \in 1 .. Len(q) : n < q[i].id
Before(q, n) == \A i \in 1 .. Len(q) : q[i].id <= n

\* Events are queued, sent and handled in the order in which they are emitted.
EventsInOrder ==
  /\ Ordered(gate.queue) /\ Before(gate.queue, emits)
  /\ \A a \in Acquires :
       /\ Ordered(down[a]) /\ Before(down[a], emits)
       /\ \A i \in 1 .. Len(down[a]) : After(down[a][i].id, gate.queue)
  /\ dataPeer # 0 /\ Now # 0 /\ dataPeer # Now =>
       \A i \in 1 .. Len(down[dataPeer]) : After(down[dataPeer][i].id, down[Now])

\* What has been handled is older than what is still to come.
HandledInOrder(n) ==
  /\ n <= emits /\ After(n, gate.queue)
  /\ \A a \in Acquires \cap {dataPeer, Now} : After(n, down[a])

EventInv ==
  /\ HolderShape /\ SlotsSettled /\ EventShape /\ OnlyCurrentTakes /\ EventsInOrder
  /\ HandledInOrder(dispatch.event.id)
  /\ \A l \in Listeners : HandledInOrder(handled[l])
  /\ \A l \in dispatch.left : handled[l] < dispatch.event.id

-----------------------------------------------------------------------------
(* Queues that lose some of their events.                                  *)

\* A set of numbers that has 0, and with each number the next, has them all.
LEMMA Counting ==
  ASSUME NEW T, 0 \in T, \A n \in Nat : n \in T => n + 1 \in T
  PROVE  Nat \subseteq T
<1> SUFFICES ASSUME NEW x \in Nat, x \notin T PROVE FALSE
  OBVIOUS
<1> DEFINE Missing == {n \in Nat : n \notin T}
<1>1. PICK m \in Missing : \A n \in Missing : <<n, m>> \notin OpToRel(<, Nat)
  <2>1. Missing \subseteq Nat /\ Missing # {}
    OBVIOUS
  <2> QED
    BY <2>1, WFMin, NatLessThanWellFounded, Zenon
<1>2. \A n \in Missing : ~(n < m)
  BY <1>1, Zenon DEF OpToRel
<1>3. m # 0 /\ m - 1 \in Nat /\ m - 1 \in T
  BY <1>2
<1>4. (m - 1) + 1 = m
  OBVIOUS
<1> QED
  BY <1>3, <1>4

Increasing(f, n) == \A i, j \in 1 .. n : i < j => f[i] < f[j]

LEMMA FinitePositions ==
  ASSUME NEW n \in Nat, NEW K \in SUBSET (1 .. n)
  PROVE  IsFiniteSet(K) /\ Cardinality(K) \in Nat
<1>1. IsFiniteSet(1 .. n)
  BY FS_Interval
<1>2. IsFiniteSet(K)
  BY <1>1, FS_Subset
<1> QED
  BY <1>2, FS_CardinalityType

\* The positions of a queue can be counted in their order.
LEMMA Enumeration ==
  ASSUME NEW n \in Nat, NEW K \in SUBSET (1 .. n)
  PROVE  /\ Cardinality(K) \in Nat
         /\ \E f \in [1 .. Cardinality(K) -> K] : Increasing(f, Cardinality(K))
<1> DEFINE Counted(N) == {L \in SUBSET (1 .. N) :
                            \E f \in [1 .. Cardinality(L) -> L] : Increasing(f, Cardinality(L))}
           T == {N \in Nat : SUBSET (1 .. N) \subseteq Counted(N)}
<1>1. 0 \in T
  <2> SUFFICES ASSUME NEW L \in SUBSET (1 .. 0)
               PROVE  \E f \in [1 .. Cardinality(L) -> L] : Increasing(f, Cardinality(L))
    OBVIOUS
  <2>0. L = {}
    OBVIOUS
  <2>1. L = {} /\ Cardinality(L) = 0
    BY <2>0, FS_EmptySet
  <2>2. [i \in 1 .. 0 |-> 0] \in [1 .. 0 -> L]
    OBVIOUS
  <2> QED
    BY <2>1, <2>2 DEF Increasing
<1>2. ASSUME NEW N \in Nat, N \in T PROVE N + 1 \in T
  <2> SUFFICES ASSUME NEW L \in SUBSET (1 .. N + 1)
               PROVE  \E f \in [1 .. Cardinality(L) -> L] : Increasing(f, Cardinality(L))
    OBVIOUS
  <2>1. CASE N + 1 \notin L
    <3>1. L \in SUBSET (1 .. N)
      BY <2>1
    <3> QED
      BY <1>2, <3>1
  <2>2. CASE N + 1 \in L
    <3> DEFINE M == L \ {N + 1}
               c == Cardinality(M)
    <3>0. N + 1 \in Nat
      OBVIOUS
    <3>1. IsFiniteSet(L) /\ Cardinality(L) \in Nat
      BY <3>0, FinitePositions
    <3>2. M \in SUBSET (1 .. N)
      OBVIOUS
    <3>3. IsFiniteSet(M) /\ c \in Nat /\ Cardinality(L) = c + 1
      <4>1. IsFiniteSet(M) /\ c = Cardinality(L) - 1
        BY <2>2, <3>1, FS_RemoveElement
      <4>2. c \in Nat
        BY <3>2, FinitePositions
      <4> QED
        BY <3>1, <4>1, <4>2
    <3>4. PICK f \in [1 .. c -> M] : Increasing(f, c)
      BY <1>2, <3>2
    <3> DEFINE g == [i \in 1 .. c + 1 |-> IF i = c + 1 THEN N + 1 ELSE f[i]]
    <3>5. g \in [1 .. c + 1 -> L]
      <4> SUFFICES ASSUME NEW i \in 1 .. c + 1 PROVE g[i] \in L
        OBVIOUS
      <4>1. i # c + 1 => i \in 1 .. c
        BY <3>3
      <4>2. \A j \in 1 .. c : f[j] \in L
        BY <3>4
      <4> HIDE DEF c, M
      <4> QED
        BY <2>2, <4>1, <4>2
    <3>6. Increasing(g, c + 1)
      <4> SUFFICES ASSUME NEW i \in 1 .. c + 1, NEW j \in 1 .. c + 1, i < j
                   PROVE  g[i] < g[j]
        BY DEF Increasing
      <4> HIDE DEF c, M
      <4>0. i \in 1 .. c
        BY <3>3
      <4>1. i \in 1 .. c /\ f[i] \in 1 .. N
        BY <3>2, <3>4, <4>0
      <4>2. CASE j = c + 1
        BY <3>3, <4>1, <4>2
      <4>3. CASE j # c + 1
        BY <3>3, <3>4, <4>1, <4>3 DEF Increasing
      <4> QED
        BY <4>2, <4>3
    <3> HIDE DEF g
    <3> QED
      BY <3>3, <3>5, <3>6
  <2> QED
    BY <2>1, <2>2
<1> HIDE DEF T
<1>3. n \in T
  BY <1>1, <1>2, Counting
<1>4. Cardinality(K) \in Nat
  BY FinitePositions
<1> QED
  BY <1>3, <1>4 DEF T

\* r has events of q, in the same order.
Thins(r, q) ==
  \E f \in [1 .. Len(r) -> 1 .. Len(q)] :
     Increasing(f, Len(r)) /\ \A i \in 1 .. Len(r) : r[i] = q[f[i]]

LEMMA AtPositionsThins ==
  ASSUME NEW q \in Seq(Events), NEW K \in SUBSET (DOMAIN q)
  PROVE  AtPositions(q, K) \in Seq(Events) /\ Thins(AtPositions(q, K), q)
<1> DEFINE c == Cardinality(K)
           Places(f) == \A i, j \in DOMAIN f : i < j => f[i] < f[j]
           place == CHOOSE f \in [1 .. c -> K] : Places(f)
           r == [i \in 1 .. c |-> q[place[i]]]
<1>1. DOMAIN q = 1 .. Len(q) /\ Len(q) \in Nat
  OBVIOUS
<1>2. c \in Nat /\ \E f \in [1 .. c -> K] : Increasing(f, c)
  BY <1>1, Enumeration
<1>3. \E f \in [1 .. c -> K] : Places(f)
  BY <1>2 DEF Increasing
<1>4. place \in [1 .. c -> K] /\ Places(place)
  BY <1>3
<1> HIDE DEF place
<1>5. r \in Seq(Events) /\ Len(r) = c
  <2> HIDE DEF c
  <2>1. \A i \in 1 .. c : place[i] \in 1 .. Len(q) /\ q[place[i]] \in Events
    BY <1>1, <1>4
  <2>2. r \in [1 .. c -> Events]
    BY <2>1
  <2> QED
    BY <1>2, <2>2
<1>6. Increasing(place, c) /\ place \in [1 .. c -> 1 .. Len(q)]
  BY <1>1, <1>4 DEF Increasing
<1>7. Thins(r, q)
  BY <1>2, <1>5, <1>6 DEF Thins
<1>8. AtPositions(q, K) = r
  BY DEF AtPositions, place
<1> QED
  BY <1>5, <1>7, <1>8

LEMMA ThinsKeeps ==
  ASSUME NEW q \in Seq(Events), NEW r \in Seq(Events), Thins(r, q)
  PROVE  /\ Ordered(q) => Ordered(r)
         /\ \A n : Before(q, n) => Before(r, n)
         /\ \A n : After(n, q) => After(n, r)
<1>1. PICK f \in [1 .. Len(r) -> 1 .. Len(q)] :
              Increasing(f, Len(r)) /\ \A i \in 1 .. Len(r) : r[i] = q[f[i]]
  BY DEF Thins
<1>2. ASSUME Ordered(q) PROVE Ordered(r)
  <2> SUFFICES ASSUME NEW i \in 1 .. Len(r), NEW j \in 1 .. Len(r), i < j
               PROVE  r[i].id < r[j].id
    BY DEF Ordered
  <2>1. f[i] \in 1 .. Len(q) /\ f[j] \in 1 .. Len(q) /\ f[i] < f[j]
    BY <1>1 DEF Increasing
  <2> QED
    BY <1>1, <1>2, <2>1 DEF Ordered
<1>3. \A n : (Before(q, n) => Before(r, n)) /\ (After(n, q) => After(n, r))
  BY <1>1 DEF Before, After
<1> QED
  BY <1>2, <1>3

-----------------------------------------------------------------------------
(* The holder.                                                             *)

\* Each key gets an acquisition of its own, of those that are spare.
LEMMA NamedSpare ==
  ASSUME NEW s \in SUBSET Keys, Cardinality(s) <= Cardinality(Spare)
  PROVE  Named(s) \in [s -> Spare] /\ \A j, k \in s : Named(s)[j] = Named(s)[k] => k = j
<1> DEFINE c == Cardinality(s)
           d == Cardinality(Spare)
<1>1. IsFiniteSet(s)
  BY FS_Subset, HolderAssumption
<1>2. IsFiniteSet(Spare)
  <2>1. MaxAcquires \in Nat /\ Spare \in SUBSET (1 .. MaxAcquires)
    BY HolderAssumption DEF Spare, Acquires
  <2> QED
    BY <2>1, FinitePositions
<1>3. c \in Nat /\ d \in Nat /\ c <= d
  BY <1>1, <1>2, FS_CardinalityType
<1>4. PICK p \in Bijection(1 .. c, s) : TRUE
  BY <1>1, FS_CardinalityType DEF ExistsBijection
<1>5. PICK q \in Bijection(1 .. d, Spare) : TRUE
  BY <1>2, FS_CardinalityType DEF ExistsBijection
<1> HIDE DEF c, d
<1>6. /\ p \in [1 .. c -> s] /\ \A k \in s : \E i \in 1 .. c : p[i] = k
      /\ q \in [1 .. d -> Spare] /\ \A i, j \in 1 .. d : q[i] = q[j] => i = j
  BY <1>4, <1>5 DEF Bijection, Injection, Surjection, IsInjective
<1> DEFINE rank(k) == CHOOSE i \in 1 .. c : p[i] = k
           f == [k \in s |-> q[rank(k)]]
<1>7. \A k \in s : rank(k) \in 1 .. c /\ p[rank(k)] = k
  BY <1>6
<1> HIDE DEF rank
<1>8. \A k \in s : rank(k) \in 1 .. d
  BY <1>3, <1>7
<1>9. f \in [s -> Spare] /\ \A j, k \in s : f[j] = f[k] => k = j
  BY <1>6, <1>7, <1>8
<1> HIDE DEF f
<1> DEFINE Apart(g) == \A j, k \in s : g[j] = g[k] => k = j
<1>10. (CHOOSE g \in [s -> Spare] : Apart(g)) \in [s -> Spare]
       /\ Apart(CHOOSE g \in [s -> Spare] : Apart(g))
  BY <1>9
<1>11. Named(s) = CHOOSE g \in [s -> Spare] : Apart(g)
  BY DEF Named
<1> QED
  BY <1>10, <1>11

\* What happens to acquisitions and carriers, and to the Target's slot.
CarriersFollow ==
  /\ \A a \in Acquires :
       /\ attempt[a].at = "settled" => attempt'[a].at = "settled"
       /\ carrier'[a] = "open" => carrier[a] = "open" \/ attempt[a].at # "settled"
       /\ carrier'[a] = "open" /\ Now = a => Now' = a
  /\ Now' # 0 /\ Now' # Now => attempt[Now'].at # "settled"

HolderKept ==
  /\ conn \in 0 .. MaxConnects /\ connects \in 0 .. MaxConnects
  /\ slot \in [Keys -> Slots]
  /\ attempt \in [Acquires -> AttemptRecords]
  /\ carrier \in [Acquires -> {"none", "open", "closed"}]
  /\ SlotsSettled

LEMMA AcquireKeeps ==
  ASSUME HolderKept, NEW c \in 0 .. MaxConnects, NEW gen \in Generations,
         NEW starts \in SUBSET Keys, NEW aborts, NEW closes,
         Acquire(c, gen, starts, aborts, closes)
  PROVE  /\ attempt' \in [Acquires -> AttemptRecords]
         /\ carrier' = [a \in Acquires |-> IF a \in closes THEN "closed" ELSE carrier[a]]
         /\ \A a \in Acquires : attempt[a].at = "settled" => attempt'[a].at = "settled"
         /\ Named(starts) \in [starts -> Spare]
<1>1. /\ Named(starts) \in [starts -> Spare]
      /\ \A j, k \in starts : Named(starts)[j] = Named(starts)[k] => k = j
  BY NamedSpare DEF Acquire
<1> DEFINE fresh(a) == \E k \in starts : Named(starts)[k] = a
           key(a) == CHOOSE k \in starts : Named(starts)[k] = a
<1>2. attempt' = [a \in Acquires |->
           IF fresh(a) THEN [id |-> Identity(c, gen, key(a)), at |-> "asked"]
             ELSE IF a \in aborts THEN [attempt[a] EXCEPT !.at = Aborted(attempt[a].at)]
                                  ELSE attempt[a]]
  BY DEF Acquire
<1>3. ASSUME NEW a \in Acquires
      PROVE  /\ attempt'[a] \in AttemptRecords
             /\ attempt[a].at = "settled" => attempt'[a].at = "settled"
  <2>1. attempt[a] \in AttemptRecords /\ attempt[a].at \in Progress
    BY DEF HolderKept, AttemptRecords
  <2>2. CASE fresh(a)
    <3>1. key(a) \in Keys /\ a \in Spare
      BY <1>1, <2>2
    <3>2. Identity(c, gen, key(a)) \in Identities
      BY <3>1 DEF Identity, Identities, Generations
    <3>3. attempt'[a] = [id |-> Identity(c, gen, key(a)), at |-> "asked"]
      BY <1>2, <2>2
    <3> QED
      BY <3>1, <3>2, <3>3 DEF Spare, AttemptRecords, Progress
  <2>3. CASE ~fresh(a)
    <3>1. attempt'[a] \in {attempt[a], [attempt[a] EXCEPT !.at = Aborted(attempt[a].at)]}
      BY <1>2, <2>3
    <3>2. Aborted(attempt[a].at) \in Progress
      BY <2>1 DEF Aborted, Progress
    <3> QED
      BY <2>1, <3>1, <3>2 DEF AttemptRecords, Aborted
  <2> QED
    BY <2>2, <2>3
<1>4. carrier' = [a \in Acquires |-> IF a \in closes THEN "closed" ELSE carrier[a]]
  BY DEF Acquire
<1>5. attempt' \in [Acquires -> AttemptRecords]
  BY <1>2, <1>3
<1> QED
  BY <1>1, <1>3, <1>4, <1>5

LEMMA ReconcileKeeps ==
  ASSUME HolderKept, NEW c \in 0 .. MaxConnects, NEW gen \in Generations, Reconcile(c, gen)
  PROVE  /\ attempt' \in [Acquires -> AttemptRecords]
         /\ slot' \in [Keys -> Slots]
         /\ carrier' \in [Acquires -> {"none", "open", "closed"}]
         /\ SlotsSettled'
         /\ CarriersFollow
<1> DEFINE stays(k) == Kept(slot[k].current, c, gen, k)
           waits(k) == Kept(slot[k].pending, c, gen, k)
           failed(k) == slot[k].failed /\ gen[k] # 0 /\ c = conn /\ gen[k] = snapshot.gen[k]
           starts == {k \in Keys : gen[k] # 0 /\ ~stays(k) /\ ~waits(k) /\ ~failed(k)}
           aborts == {slot[k].pending : k \in {j \in Keys : ~waits(j)}}
           closes == {slot[k].current : k \in {j \in Keys : ~stays(j)}}
<1>1. /\ Acquire(c, gen, starts, aborts, closes)
      /\ slot' = [k \in Keys |->
           [current |-> IF stays(k) THEN slot[k].current ELSE 0,
            pending |-> IF k \in starts THEN Named(starts)[k]
                        ELSE IF waits(k) THEN slot[k].pending ELSE 0,
            failed  |-> failed(k)]]
  BY DEF Reconcile
<1>2. /\ \A k \in starts : k \in Keys /\ ~stays(k)
      /\ \A k \in Keys : ~stays(k) => slot[k].current \in closes
      /\ \A k \in Keys : failed(k) \in BOOLEAN
      /\ \A k \in Keys : stays(k) => slot[k].current # 0
      /\ \A k \in Keys : waits(k) => slot[k].pending # 0
      /\ starts \in SUBSET Keys
  BY DEF Kept
<1> HIDE DEF stays, waits, failed, starts, aborts, closes
<1>3. /\ attempt' \in [Acquires -> AttemptRecords]
      /\ carrier' = [a \in Acquires |-> IF a \in closes THEN "closed" ELSE carrier[a]]
      /\ \A a \in Acquires : attempt[a].at = "settled" => attempt'[a].at = "settled"
      /\ Named(starts) \in [starts -> Spare]
  BY <1>1, <1>2, AcquireKeeps
<1>4. Spare \subseteq Acquires /\ Acquires \subseteq 0 .. MaxAcquires /\ 0 \in 0 .. MaxAcquires
  BY HolderAssumption DEF Spare, Acquires
<1>5. slot \in [Keys -> Slots] /\ SlotsSettled
  BY DEF HolderKept
<1>6. ASSUME NEW k \in Keys
      PROVE  /\ slot'[k] \in Slots
             /\ slot'[k].current # 0 => /\ slot'[k].current = slot[k].current
                                        /\ slot'[k].pending = 0
             /\ slot'[k].current = 0 /\ slot[k].current # 0 => slot[k].current \in closes
  <2>1. slot'[k] = [current |-> IF stays(k) THEN slot[k].current ELSE 0,
                    pending |-> IF k \in starts THEN Named(starts)[k]
                                ELSE IF waits(k) THEN slot[k].pending ELSE 0,
                    failed  |-> failed(k)]
    BY <1>1
  <2>2. slot[k] \in Slots /\ slot[k].current \in 0 .. MaxAcquires /\ slot[k].pending \in 0 .. MaxAcquires
    BY <1>5 DEF Slots
  <2>3. k \in starts => Named(starts)[k] \in 0 .. MaxAcquires
    BY <1>3, <1>4
  <2>4. slot[k].current # 0 => slot[k].pending = 0
    BY <1>5 DEF SlotsSettled
  <2>5. slot'[k] \in Slots
    BY <1>2, <1>4, <2>1, <2>2, <2>3 DEF Slots
  <2>6. CASE stays(k)
    BY <1>2, <2>1, <2>4, <2>5, <2>6
  <2>7. CASE ~stays(k)
    BY <1>2, <2>1, <2>5, <2>7
  <2> QED
    BY <2>6, <2>7
<1>7. slot' \in [Keys -> Slots]
  BY <1>1, <1>6
<1>8. carrier' \in [Acquires -> {"none", "open", "closed"}]
  BY <1>3 DEF HolderKept
<1>9. SlotsSettled'
  <2> SUFFICES ASSUME NEW k \in Keys, slot'[k].current # 0
               PROVE  slot'[k].pending = 0 /\ attempt'[slot'[k].current].at = "settled"
    BY DEF SlotsSettled
  <2>1. slot'[k].current = slot[k].current /\ slot'[k].pending = 0
    BY <1>6
  <2>2. attempt[slot[k].current].at = "settled" /\ slot[k].current \in Acquires
    BY <1>5, <2>1, HolderAssumption DEF SlotsSettled, Slots, Acquires
  <2> QED
    BY <1>3, <2>1, <2>2
<1>10. CarriersFollow
  <2>1. Target \in Keys
    BY PresentationAssumption
  <2>2. ASSUME NEW a \in Acquires, carrier'[a] = "open"
        PROVE  carrier[a] = "open" /\ a \notin closes
    BY <1>3, <2>2
  <2>3. 0 \notin Acquires
    BY HolderAssumption DEF Acquires
  <2>4. Now' # 0 => Now' = Now
    BY <1>6, <2>1 DEF Now
  <2>5. ASSUME NEW a \in Acquires, carrier'[a] = "open", Now = a PROVE Now' = a
    BY <1>6, <2>1, <2>2, <2>3, <2>4, <2>5 DEF Now
  <2> QED
    BY <1>3, <2>2, <2>4, <2>5 DEF CarriersFollow
<1> QED
  BY <1>3, <1>7, <1>8, <1>9, <1>10

HolderStep ==
  \/ \E s \in Snapshots : Connect(s) \/ Consume(s)
  \/ ControlTerminal
  \/ \E a \in Acquires : InstallDataAcquire(a) \/ RejectDataAcquire(a)
                         \/ BindingAnswers(a) \/ CarrierBreaks(a)
  \/ \E k \in Keys : DataTerminal(k)

\* Every step of the holder but the forgetting of an acquisition.
LEMMA HolderStepKeeps ==
  ASSUME HolderShape, SlotsSettled, HolderStep, granted' = granted
  PROVE  HolderShape' /\ SlotsSettled' /\ CarriersFollow
<1>0. /\ HolderKept /\ snapshot \in Snaps /\ granted \in 0 .. MaxActivations
      /\ Target \in Keys /\ 0 \notin Acquires /\ 0 \in 0 .. MaxConnects
  BY HolderAssumption, PresentationAssumption DEF HolderShape, HolderKept, Acquires
<1>1. ASSUME NEW s \in Snapshots, Connect(s) \/ Consume(s)
      PROVE  HolderShape' /\ SlotsSettled' /\ CarriersFollow
  <2>1. s \in Snaps /\ s.gen \in Generations
    BY <1>0, PresentationAssumption DEF Snapshots, Snaps
  <2>2. conn' \in 0 .. MaxConnects /\ connects' \in 0 .. MaxConnects /\ snapshot' = s
    BY <1>0, <1>1, HolderAssumption DEF Connect, Consume, HolderKept
  <2>3. Reconcile(conn', s.gen)
    BY <1>1 DEF Connect, Consume
  <2> QED
    BY <1>0, <2>1, <2>2, <2>3, ReconcileKeeps DEF HolderShape
<1>2. CASE ControlTerminal
  <2>1. NoSnapshot \in Snaps /\ NoSnapshot.gen \in Generations
    BY <1>0, HolderAssumption, PresentationAssumption DEF NoSnapshot, Snaps, Generations
  <2>2. conn' = 0 /\ connects' = connects /\ snapshot' = NoSnapshot /\ Reconcile(0, NoSnapshot.gen)
    BY <1>2 DEF ControlTerminal
  <2> QED
    BY <1>0, <2>1, <2>2, ReconcileKeeps DEF HolderShape, HolderKept
<1>3. ASSUME NEW a \in Acquires, NEW at \in Progress, attempt' = [attempt EXCEPT ![a].at = at],
             attempt[a].at = "settled" => at = "settled"
      PROVE  /\ attempt' \in [Acquires -> AttemptRecords]
             /\ \A b \in Acquires : attempt[b].at = "settled" => attempt'[b].at = "settled"
             /\ attempt'[a].at = at
  BY <1>0, <1>3 DEF HolderKept, AttemptRecords
<1>4. ASSUME NEW a \in Acquires, InstallDataAcquire(a)
      PROVE  HolderShape' /\ SlotsSettled' /\ CarriersFollow
  <2> DEFINE k == attempt[a].id.key
  <2>1. /\ attempt[a].at \in {"given", "late"}
        /\ attempt' = [attempt EXCEPT ![a].at = "settled"]
        /\ UNCHANGED <<conn, connects, snapshot>>
    BY <1>4 DEF InstallDataAcquire
  <2>2. /\ attempt' \in [Acquires -> AttemptRecords]
        /\ \A b \in Acquires : attempt[b].at = "settled" => attempt'[b].at = "settled"
        /\ attempt'[a].at = "settled"
    BY <1>3, <2>1 DEF Progress
  <2>3. carrier' = carrier \/ carrier' = [carrier EXCEPT ![a] = "closed"]
    BY <1>4 DEF InstallDataAcquire
  <2>4. carrier' \in [Acquires -> {"none", "open", "closed"}]
        /\ \A b \in Acquires : carrier'[b] = "open" => carrier[b] = "open"
    BY <1>0, <2>3 DEF HolderKept
  <2>5. \/ slot' = slot
        \/ slot' = [slot EXCEPT ![k].failed = TRUE, ![k].pending = 0]
        \/ slot[k].pending = a /\ slot' = [slot EXCEPT ![k].current = a, ![k].pending = 0]
    BY <1>4 DEF InstallDataAcquire, IsCurrentAttempt
  <2>6. ASSUME NEW j \in Keys
        PROVE  /\ slot'[j] \in Slots
               /\ \/ slot'[j] = slot[j]
                  \/ slot'[j].current = slot[j].current /\ slot'[j].pending = 0
                  \/ slot[j].pending = a /\ slot'[j].current = a /\ slot'[j].pending = 0
    <3>1. slot[j] \in Slots /\ a \in 0 .. MaxAcquires /\ 0 \in 0 .. MaxAcquires
      BY <1>0, HolderAssumption DEF HolderKept, Acquires
    <3>2. CASE j = k
      <4>1. \/ slot'[j] = slot[j]
            \/ slot'[j] = [slot[j] EXCEPT !.failed = TRUE, !.pending = 0]
            \/ slot[j].pending = a /\ slot'[j] = [slot[j] EXCEPT !.current = a, !.pending = 0]
        BY <1>0, <2>5, <3>2 DEF HolderKept
      <4> QED
        BY <3>1, <4>1 DEF Slots
    <3>3. CASE j # k
      BY <1>0, <2>5, <3>1, <3>3 DEF HolderKept
    <3> QED
      BY <3>2, <3>3
  <2>7. slot' \in [Keys -> Slots]
    BY <1>0, <2>5, <2>6 DEF HolderKept
  <2> HIDE DEF k
  <2>8. SlotsSettled'
    <3> SUFFICES ASSUME NEW j \in Keys, slot'[j].current # 0
                 PROVE  slot'[j].pending = 0 /\ attempt'[slot'[j].current].at = "settled"
      BY DEF SlotsSettled
    <3>1. slot[j].current # 0 => /\ slot[j].pending = 0
                                 /\ slot[j].current \in Acquires
                                 /\ attempt[slot[j].current].at = "settled"
      BY <1>0, HolderAssumption DEF HolderKept, SlotsSettled, Slots, Acquires
    <3> QED
      BY <2>2, <2>6, <3>1
  <2>9. /\ Now' # 0 /\ Now' # Now => Now' = a
        /\ \A b \in Acquires : Now = b => Now' = b
    <3>1. slot[Target].current # 0 => slot[Target].pending = 0
      BY <1>0 DEF HolderKept, SlotsSettled
    <3> QED
      BY <1>0, <2>6, <3>1 DEF Now
  <2>10. CarriersFollow
    BY <2>1, <2>2, <2>4, <2>9 DEF CarriersFollow
  <2> QED
    BY <1>0, <2>1, <2>2, <2>4, <2>7, <2>8, <2>10 DEF HolderShape, HolderKept
<1>5. ASSUME NEW a \in Acquires, RejectDataAcquire(a)
      PROVE  HolderShape' /\ SlotsSettled' /\ CarriersFollow
  <2> DEFINE k == attempt[a].id.key
             desired == IsDesired(attempt[a].id)
  <2>1. /\ attempt' = [attempt EXCEPT ![a].at = "settled"]
        /\ UNCHANGED <<conn, connects, snapshot, carrier>>
        /\ slot' = slot \/ slot' = [slot EXCEPT ![k].pending = 0, ![k].failed = desired]
    BY <1>5 DEF RejectDataAcquire
  <2>2. /\ attempt' \in [Acquires -> AttemptRecords]
        /\ \A b \in Acquires : attempt[b].at = "settled" => attempt'[b].at = "settled"
    BY <1>3, <2>1 DEF Progress
  <2>3. desired \in BOOLEAN
    BY DEF IsDesired
  <2> HIDE DEF desired
  <2>4. ASSUME NEW j \in Keys
        PROVE  /\ slot'[j] \in Slots /\ slot'[j].current = slot[j].current
               /\ slot'[j].pending \in {slot[j].pending, 0}
    <3>1. slot[j] \in Slots /\ 0 \in 0 .. MaxAcquires
      BY <1>0, HolderAssumption DEF HolderKept
    <3>2. CASE j = k
      BY <1>0, <2>1, <2>3, <3>1, <3>2 DEF HolderKept, Slots
    <3>3. CASE j # k
      BY <1>0, <2>1, <3>1, <3>3 DEF HolderKept
    <3> QED
      BY <3>2, <3>3
  <2>5. slot' \in [Keys -> Slots]
    BY <1>0, <2>1, <2>4 DEF HolderKept
  <2>6. SlotsSettled'
    <3> SUFFICES ASSUME NEW j \in Keys, slot'[j].current # 0
                 PROVE  slot'[j].pending = 0 /\ attempt'[slot'[j].current].at = "settled"
      BY DEF SlotsSettled
    <3>1. /\ slot[j].current # 0 /\ slot[j].pending = 0
          /\ slot[j].current \in Acquires /\ attempt[slot[j].current].at = "settled"
      BY <1>0, <2>4, HolderAssumption DEF HolderKept, SlotsSettled, Slots, Acquires
    <3> QED
      BY <2>2, <2>4, <3>1
  <2>7. CarriersFollow
    BY <1>0, <2>1, <2>2, <2>4 DEF CarriersFollow, Now
  <2> QED
    BY <1>0, <2>1, <2>2, <2>5, <2>6, <2>7 DEF HolderShape, HolderKept
<1>6. ASSUME NEW a \in Acquires, BindingAnswers(a) \/ CarrierBreaks(a)
      PROVE  HolderShape' /\ SlotsSettled' /\ CarriersFollow
  <2>1. /\ UNCHANGED <<conn, connects, snapshot, slot>>
        /\ \/ attempt' = attempt
           \/ attempt[a].at \in {"asked", "aborted"} /\ \E at \in Progress :
                attempt' = [attempt EXCEPT ![a].at = at]
        /\ \/ carrier' = carrier
           \/ carrier' = [carrier EXCEPT ![a] = "closed"]
           \/ attempt[a].at \in {"asked", "aborted"} /\ carrier' = [carrier EXCEPT ![a] = "open"]
    BY <1>6 DEF BindingAnswers, CarrierBreaks, Progress
  <2>2. /\ attempt' \in [Acquires -> AttemptRecords]
        /\ \A b \in Acquires : attempt[b].at = "settled" => attempt'[b].at = "settled"
    BY <1>0, <1>3, <2>1 DEF HolderKept
  <2>3. /\ carrier' \in [Acquires -> {"none", "open", "closed"}]
        /\ \A b \in Acquires :
             carrier'[b] = "open" => carrier[b] = "open" \/ attempt[b].at # "settled"
    BY <1>0, <2>1 DEF HolderKept
  <2>4. \A j \in Keys : slot[j].current # 0 => slot[j].current \in Acquires
    BY <1>0, HolderAssumption DEF HolderKept, Slots, Acquires
  <2>5. SlotsSettled'
    BY <1>0, <2>1, <2>2, <2>4 DEF HolderKept, SlotsSettled
  <2>6. CarriersFollow
    BY <2>1, <2>2, <2>3 DEF CarriersFollow, Now
  <2> QED
    BY <1>0, <2>1, <2>2, <2>3, <2>5, <2>6 DEF HolderShape, HolderKept
<1>7. ASSUME NEW k \in Keys, DataTerminal(k)
      PROVE  HolderShape' /\ SlotsSettled' /\ CarriersFollow
  <2> DEFINE a == slot[k].current
             starts == IF IsDesired(attempt[a].id) /\ slot[k].pending = 0
                            /\ ~slot[k].failed THEN {k} ELSE {}
  <2>1. /\ a # 0 /\ carrier[a] = "closed"
        /\ Acquire(conn, snapshot.gen, starts, {}, {})
        /\ slot' = [slot EXCEPT ![k].current = 0,
                                ![k].pending = IF starts = {} THEN slot[k].pending
                                               ELSE Named(starts)[k]]
        /\ UNCHANGED <<conn, connects, snapshot>>
    BY <1>7 DEF DataTerminal
  <2>2. starts \in SUBSET Keys /\ (starts # {} => k \in starts)
    OBVIOUS
  <2> HIDE DEF starts
  <2>3. snapshot.gen \in Generations
    BY <1>0 DEF Snaps
  <2>4. /\ attempt' \in [Acquires -> AttemptRecords]
        /\ carrier' = [b \in Acquires |-> IF b \in {} THEN "closed" ELSE carrier[b]]
        /\ \A b \in Acquires : attempt[b].at = "settled" => attempt'[b].at = "settled"
        /\ Named(starts) \in [starts -> Spare]
    BY <1>0, <2>1, <2>2, <2>3, AcquireKeeps DEF HolderKept
  <2>5. carrier' = carrier
    BY <1>0, <2>4 DEF HolderKept
  <2>6. slot[k] \in Slots /\ 0 \in 0 .. MaxAcquires
        /\ (starts # {} => Named(starts)[k] \in 0 .. MaxAcquires)
    BY <1>0, <2>2, <2>4, HolderAssumption DEF HolderKept, Spare, Acquires
  <2>7. ASSUME NEW j \in Keys
        PROVE  slot'[j] \in Slots /\ (slot'[j].current # 0 => j # k /\ slot'[j] = slot[j])
    BY <1>0, <2>1, <2>6 DEF HolderKept, Slots
  <2>8. slot' \in [Keys -> Slots]
    BY <1>0, <2>1, <2>7 DEF HolderKept
  <2>9. \A j \in Keys : slot[j].current # 0 => slot[j].current \in Acquires
    BY <1>0, HolderAssumption DEF HolderKept, Slots, Acquires
  <2>10. SlotsSettled'
    BY <1>0, <2>4, <2>7, <2>9 DEF HolderKept, SlotsSettled
  <2>11. \A j \in Keys \ {k} : slot'[j] = slot[j]
    BY <1>0, <2>1 DEF HolderKept
  <2>12. CarriersFollow
    BY <1>0, <2>1, <2>4, <2>5, <2>7, <2>11 DEF CarriersFollow, Now
  <2> QED
    BY <1>0, <2>1, <2>4, <2>5, <2>8, <2>10, <2>12 DEF HolderShape, HolderKept
<1> QED
  BY <1>1, <1>2, <1>4, <1>5, <1>6, <1>7 DEF HolderStep

-----------------------------------------------------------------------------
(* Events.                                                                 *)

\* The gate drops events, while the holder moves.
LEMMA DroppedKeeps ==
  ASSUME EventInv, HolderShape', SlotsSettled', CarriersFollow, gate' \in GateRecords,
         Ordered(gate'.queue), Before(gate'.queue, emits),
         \A n : After(n, gate.queue) => After(n, gate'.queue),
         upward' \in [Acquires -> Seq(SUBSET Channels)],
         UNCHANGED <<emits, runtimeVars, down>>
  PROVE  EventInv'
<1>0. /\ EventShape /\ OnlyCurrentTakes /\ EventsInOrder
      /\ HandledInOrder(dispatch.event.id) /\ \A l \in Listeners : HandledInOrder(handled[l])
      /\ \A l \in dispatch.left : handled[l] < dispatch.event.id
  BY DEF EventInv
<1>1. /\ emits' = emits /\ down' = down /\ dataPeer' = dataPeer /\ listener' = listener
      /\ dispatch' = dispatch /\ handled' = handled
  BY DEF runtimeVars
<1>2. EventShape'
  BY <1>0, <1>1 DEF EventShape
<1>3. Now' # 0 => Now' \in Acquires
  BY PresentationAssumption DEF HolderShape, Slots, Acquires, Now
<1>4. OnlyCurrentTakes'
  BY <1>0, <1>1 DEF OnlyCurrentTakes, CarriersFollow
<1>5. Now' # 0 /\ Now' # Now => down[Now'] = <<>>
  BY <1>0, <1>3 DEF OnlyCurrentTakes, CarriersFollow
<1>6. \A n : Now' # 0 /\ Now' # Now => After(n, down[Now'])
  BY <1>5 DEF After
<1>7. EventsInOrder'
  <2>1. Ordered(gate.queue)' /\ Before(gate.queue, emits)'
    BY <1>1 DEF Ordered, Before
  <2>2. ASSUME NEW a \in Acquires
        PROVE  /\ Ordered(down[a])' /\ Before(down[a], emits)'
               /\ \A i \in 1 .. Len(down'[a]) : After(down'[a][i].id, gate'.queue)
    BY <1>0, <1>1 DEF EventsInOrder, Ordered, Before
  <2>3. dataPeer # 0 /\ Now' # 0 /\ dataPeer # Now' =>
          \A i \in 1 .. Len(down[dataPeer]) : After(down[dataPeer][i].id, down[Now'])
    BY <1>0, <1>6 DEF EventsInOrder
  <2> QED
    BY <1>1, <2>1, <2>2, <2>3 DEF EventsInOrder, After
<1>8. ASSUME NEW n, HandledInOrder(n)
      PROVE  /\ n <= emits /\ After(n, gate'.queue)
             /\ \A a \in Acquires \cap {dataPeer, Now'} : After(n, down[a])
  BY <1>6, <1>8, HolderAssumption DEF HandledInOrder, Acquires
<1>9. HandledInOrder(dispatch.event.id)' /\ \A l \in Listeners : HandledInOrder(handled[l])'
  BY <1>0, <1>1, <1>8 DEF HandledInOrder, After
<1> QED
  BY <1>0, <1>1, <1>2, <1>4, <1>7, <1>9 DEF EventInv

\* Those that the gate keeps are in order still.
LEMMA StillEffectiveKeeps ==
  ASSUME EventInv, NEW slots, NEW lease, NEW interest, NEW r,
         r = StillEffective(gate.queue, slots, lease, interest)
  PROVE  /\ r \in Seq(Events) /\ Ordered(r) /\ Before(r, emits)
         /\ \A n : After(n, gate.queue) => After(n, r)
<1>1. gate.queue \in Seq(Events) /\ Ordered(gate.queue) /\ Before(gate.queue, emits)
  BY DEF EventInv, EventShape, GateRecords, EventsInOrder
<1>2. r \in Seq(Events) /\ Thins(r, gate.queue)
  BY <1>1, AtPositionsThins DEF StillEffective
<1> QED
  BY <1>1, <1>2, ThinsKeeps

LEMMA EmptyKeeps == /\ NoGate \in GateRecords /\ Ordered(NoGate.queue)
                    /\ \A n : Before(NoGate.queue, n) /\ After(n, NoGate.queue)
  BY DEF NoGate, GateRecords, Ordered, Before, After

\* A step of the holder, with what the gate does about it.
LEMMA GateFollowsKeeps ==
  ASSUME EventInv, HolderStep, GateFollows, UNCHANGED <<emits, runtimeVars, granted, upward, down>>
  PROVE  EventInv'
<1>1. HolderShape' /\ SlotsSettled' /\ CarriersFollow
  BY HolderStepKeeps DEF EventInv
<1>2. gate \in GateRecords /\ upward \in [Acquires -> Seq(SUBSET Channels)] /\ Before(gate.queue, emits)
  BY DEF EventInv, EventShape, EventsInOrder
<1>3. CASE gate' = NoGate
  BY <1>1, <1>2, <1>3, EmptyKeeps, DroppedKeeps
<1>4. CASE gate' = [gate EXCEPT !.queue =
                     StillEffective(gate.queue, slot', snapshot'.lease, gate.interest)]
  <2> DEFINE r == StillEffective(gate.queue, slot', snapshot'.lease, gate.interest)
  <2>1. /\ r \in Seq(Events) /\ Ordered(r) /\ Before(r, emits)
        /\ \A n : After(n, gate.queue) => After(n, r)
    BY StillEffectiveKeeps
  <2> HIDE DEF r
  <2>2. gate' \in GateRecords /\ gate'.queue = r
    BY <1>2, <1>4, <2>1 DEF GateRecords, r
  <2> QED
    BY <1>1, <1>2, <2>1, <2>2, DroppedKeeps
<1> QED
  BY <1>3, <1>4 DEF GateFollows

\* A message of the Runtime with its interest.
LEMMA ReplaceInterestKeeps ==
  ASSUME EventInv, NEW a \in Acquires, ReplaceInterest(a)
  PROVE  EventInv'
<1> DEFINE r == StillEffective(gate.queue, slot, snapshot.lease, Head(upward[a]))
<1>1. /\ UNCHANGED <<holderVars, emits, runtimeVars, granted, down>>
      /\ upward[a] # <<>> /\ upward' = [upward EXCEPT ![a] = Tail(upward[a])]
      /\ gate' = [gate EXCEPT !.interest = Head(upward[a]), !.queue = r]
  BY DEF ReplaceInterest
<1>2. HolderShape' /\ SlotsSettled' /\ CarriersFollow
  BY <1>1 DEF EventInv, HolderShape, SlotsSettled, CarriersFollow, holderVars, Now
<1>3. gate \in GateRecords /\ upward[a] \in Seq(SUBSET Channels)
      /\ upward \in [Acquires -> Seq(SUBSET Channels)]
  BY DEF EventInv, EventShape
<1>4. /\ r \in Seq(Events) /\ Ordered(r) /\ Before(r, emits)
      /\ \A n : After(n, gate.queue) => After(n, r)
  BY StillEffectiveKeeps
<1> HIDE DEF r
<1>5. gate' \in GateRecords /\ gate'.queue = r
  <2>1. Head(upward[a]) \in SUBSET Channels
    BY <1>1, <1>3
  <2> QED
    BY <1>1, <1>3, <1>4, <2>1 DEF GateRecords
<1>6. upward' \in [Acquires -> Seq(SUBSET Channels)]
  BY <1>1, <1>3
<1> QED
  BY <1>1, <1>2, <1>4, <1>5, <1>6, DroppedKeeps

LEMMA EventIds == \A e \in Events : e.id \in Nat /\ e.id \in 1 .. MaxEmits
  BY PresentationAssumption DEF Events

\* What the gate sends is the first of the events that it has left.
LEMMA PumpFacts ==
  ASSUME NEW g \in GateRecords, down \in [Acquires -> Seq(Events)], NEW a, Pump(g, down, a)
  PROVE  \E n \in 0 .. Len(g.queue) :
           /\ gate' \in GateRecords /\ gate'.queue = SubSeq(g.queue, n + 1, Len(g.queue))
           /\ \/ down' = down
              \/ /\ n # 0 /\ a \in Acquires
                 /\ down' = [down EXCEPT ![a] = Append(down[a], g.queue[n])]
<1> DEFINE Sends(n) ==
             /\ gate' \in GateRecords /\ gate'.queue = SubSeq(g.queue, n + 1, Len(g.queue))
             /\ \/ down' = down
                \/ /\ n # 0 /\ a \in Acquires
                   /\ down' = [down EXCEPT ![a] = Append(down[a], g.queue[n])]
<1>0. g.queue \in Seq(Events) /\ Len(g.queue) \in Nat
  BY DEF GateRecords
<1>1. CASE g.retired \/ g.sending
  <2>1. gate' = g /\ down' = down
    BY <1>1 DEF Pump
  <2>2. g.queue = SubSeq(g.queue, 0 + 1, Len(g.queue))
    BY <1>0
  <2> QED
    BY <1>0, <2>1, <2>2
<1>2. CASE ~(g.retired \/ g.sending)
  <2>1. PICK n \in 1 .. Len(g.queue) + 1 :
          /\ gate' = [g EXCEPT !.queue = SubSeq(g.queue, n + 1, Len(g.queue)),
                               !.sending = n <= Len(g.queue)]
          /\ down' = IF n <= Len(g.queue) /\ carrier[a] = "open"
                       THEN [down EXCEPT ![a] = Append(down[a], g.queue[n])] ELSE down
    BY <1>2 DEF Pump
  <2>2. SubSeq(g.queue, n + 1, Len(g.queue)) \in Seq(Events) /\ (n <= Len(g.queue)) \in BOOLEAN
    BY <1>0
  <2>3. gate' \in GateRecords /\ gate'.queue = SubSeq(g.queue, n + 1, Len(g.queue))
    BY <2>1, <2>2 DEF GateRecords
  <2>4. CASE n <= Len(g.queue)
    <3>0. n \in 0 .. Len(g.queue) /\ n # 0
      BY <1>0, <2>4
    <3>1. a \notin Acquires => down' = down
      BY <2>1
    <3>2. \/ down' = down
          \/ a \in Acquires /\ down' = [down EXCEPT ![a] = Append(down[a], g.queue[n])]
      BY <2>1, <2>4, <3>1
    <3>3. n \in 0 .. Len(g.queue) /\ Sends(n)
      BY <2>3, <3>0, <3>2
    <3> HIDE DEF Sends
    <3>4. \E m \in 0 .. Len(g.queue) : Sends(m)
      BY <3>3
    <3> QED
      BY <3>4 DEF Sends
  <2>5. CASE n = Len(g.queue) + 1
    <3>1. down' = down
      BY <1>0, <2>1, <2>5
    <3>2. SubSeq(g.queue, n + 1, Len(g.queue)) = SubSeq(g.queue, Len(g.queue) + 1, Len(g.queue))
      BY <1>0, <2>5
    <3>3. Sends(Len(g.queue)) /\ Len(g.queue) \in 0 .. Len(g.queue)
      BY <1>0, <2>3, <3>1, <3>2
    <3> HIDE DEF Sends
    <3>4. \E m \in 0 .. Len(g.queue) : Sends(m)
      BY <3>3
    <3> QED
      BY <3>4 DEF Sends
  <2> QED
    BY <1>0, <2>4, <2>5
<1> QED
  BY <1>1, <1>2

\* The rest of a queue, and what was sent of it.
LEMMA SuffixFacts ==
  ASSUME NEW q \in Seq(Events), Ordered(q), NEW n \in 0 .. Len(q), NEW r,
         r = SubSeq(q, n + 1, Len(q))
  PROVE  /\ Ordered(r)
         /\ \A m : Before(q, m) => Before(r, m)
         /\ \A m : After(m, q) => After(m, r)
         /\ n # 0 => After(q[n].id, r)
<1>1. Len(q) \in Nat /\ n \in Nat
  OBVIOUS
<1>2. Len(r) = Len(q) - n /\ \A i \in 1 .. Len(r) : r[i] = q[n + i] /\ n + i \in 1 .. Len(q)
  BY <1>1
<1>3. \A i \in 1 .. Len(r) : n # 0 => n \in 1 .. Len(q) /\ n < n + i
  BY <1>1, <1>2
<1> HIDE DEF Ordered
<1>4. Ordered(r)
  <2> SUFFICES ASSUME NEW i \in 1 .. Len(r), NEW j \in 1 .. Len(r), i < j
               PROVE  r[i].id < r[j].id
    BY DEF Ordered
  <2>1. n + i < n + j
    BY <1>1, <1>2
  <2> QED
    BY <1>2, <2>1 DEF Ordered
<1>5. \A m : (Before(q, m) => Before(r, m)) /\ (After(m, q) => After(m, r))
  BY <1>2 DEF Before, After
<1>6. n # 0 => After(q[n].id, r)
  BY <1>2, <1>3 DEF After, Ordered
<1> QED
  BY <1>4, <1>5, <1>6

\* A step that leaves the events and their ways alone.
LEMMA QuietKeeps ==
  ASSUME EventInv, HolderShape', emits' \in emits .. MaxEmits,
         upward' \in [Acquires -> Seq(SUBSET Channels)],
         listener' \in [Listeners -> ListenerRecords],
         UNCHANGED <<slot, attempt, carrier, gate, down, dataPeer, dispatch, handled>>
  PROVE  EventInv'
<1>0. /\ SlotsSettled /\ EventShape /\ OnlyCurrentTakes /\ EventsInOrder
      /\ HandledInOrder(dispatch.event.id) /\ \A l \in Listeners : HandledInOrder(handled[l])
      /\ \A l \in dispatch.left : handled[l] < dispatch.event.id
      /\ emits \in 0 .. MaxEmits /\ MaxEmits \in Nat /\ Now' = Now
  BY PresentationAssumption DEF EventInv, EventShape, Now
<1>1. SlotsSettled' /\ EventShape' /\ OnlyCurrentTakes'
  BY <1>0 DEF SlotsSettled, EventShape, OnlyCurrentTakes
<1>2. \A q \in Seq(Events) : Before(q, emits) => Before(q, emits')
  BY <1>0, EventIds DEF Before
<1>3. EventsInOrder'
  <2>1. Before(gate.queue, emits') /\ \A a \in Acquires : Before(down[a], emits')
    BY <1>0, <1>2 DEF EventsInOrder, EventShape, GateRecords
  <2> QED
    BY <1>0, <2>1 DEF EventsInOrder, Ordered, Before, After
<1>4. ASSUME NEW n \in Int, HandledInOrder(n)
      PROVE  n <= emits' /\ After(n, gate.queue)
             /\ \A a \in Acquires \cap {dataPeer, Now} : After(n, down[a])
  BY <1>0, <1>4 DEF HandledInOrder
<1>5. dispatch.event.id \in Int /\ \A l \in Listeners : handled[l] \in Int
  BY <1>0 DEF EventShape, NoDispatch, Events
<1>6. HandledInOrder(dispatch.event.id)' /\ \A l \in Listeners : HandledInOrder(handled[l])'
  BY <1>0, <1>4, <1>5 DEF HandledInOrder, After
<1> QED
  BY <1>0, <1>1, <1>3, <1>6 DEF EventInv

\* The gate has taken an event, or not, and sends what it can.
LEMMA SentKeeps ==
  ASSUME EventInv, UNCHANGED <<holderVars, runtimeVars, granted, upward>>,
         emits' \in emits .. MaxEmits, NEW g \in GateRecords,
         Ordered(g.queue), Before(g.queue, emits'),
         \A n \in Int : n <= emits /\ After(n, gate.queue) => After(n, g.queue),
         Pump(g, down, Now)
  PROVE  EventInv'
<1>0. /\ HolderShape /\ SlotsSettled /\ EventShape /\ OnlyCurrentTakes /\ EventsInOrder
      /\ HandledInOrder(dispatch.event.id) /\ \A l \in Listeners : HandledInOrder(handled[l])
      /\ \A l \in dispatch.left : handled[l] < dispatch.event.id
  BY DEF EventInv
<1>1. /\ dataPeer' = dataPeer /\ listener' = listener /\ dispatch' = dispatch
      /\ handled' = handled /\ upward' = upward /\ slot' = slot /\ attempt' = attempt
      /\ carrier' = carrier /\ Now' = Now
  BY DEF runtimeVars, holderVars, Now
<1>2. HolderShape' /\ SlotsSettled'
  BY <1>0 DEF HolderShape, SlotsSettled, holderVars
<1>3. down \in [Acquires -> Seq(Events)] /\ emits \in 0 .. MaxEmits /\ MaxEmits \in Nat
  BY <1>0, PresentationAssumption DEF EventShape
<1>4. PICK n \in 0 .. Len(g.queue) :
        /\ gate' \in GateRecords /\ gate'.queue = SubSeq(g.queue, n + 1, Len(g.queue))
        /\ \/ down' = down
           \/ /\ n # 0 /\ Now \in Acquires
              /\ down' = [down EXCEPT ![Now] = Append(down[Now], g.queue[n])]
  BY <1>3, PumpFacts
<1>5. g.queue \in Seq(Events)
  BY DEF GateRecords
<1>6. /\ Ordered(gate'.queue) /\ Before(gate'.queue, emits')
      /\ \A m : After(m, g.queue) => After(m, gate'.queue)
      /\ n # 0 => After(g.queue[n].id, gate'.queue)
  BY <1>4, <1>5, SuffixFacts
<1>7. n # 0 => /\ g.queue[n] \in Events /\ g.queue[n].id \in Nat /\ g.queue[n].id <= emits'
               /\ \A m : After(m, g.queue) => m < g.queue[n].id
  <2>1. n # 0 => n \in 1 .. Len(g.queue) /\ g.queue[n] \in Events
    BY <1>5
  <2> QED
    BY <2>1, EventIds DEF Before, After
<1>8. ASSUME NEW a \in Acquires
      PROVE  \/ down'[a] = down[a]
             \/ n # 0 /\ a = Now /\ down'[a] = Append(down[a], g.queue[n])
  BY <1>3, <1>4
<1>9. down' \in [Acquires -> Seq(Events)]
  <2>1. CASE down' = down
    BY <1>3, <2>1
  <2>2. CASE n # 0 /\ Now \in Acquires /\ down' = [down EXCEPT ![Now] = Append(down[Now], g.queue[n])]
    <3>1. Append(down[Now], g.queue[n]) \in Seq(Events)
      BY <1>3, <1>7, <2>2
    <3> QED
      BY <1>3, <2>2, <3>1
  <2> QED
    BY <1>4, <2>1, <2>2
<1>10. EventShape'
  BY <1>0, <1>1, <1>3, <1>4, <1>9 DEF EventShape
<1>11. OnlyCurrentTakes'
  <2>1. Now \in Acquires => attempt[Now].at = "settled"
    BY <1>0, HolderAssumption, PresentationAssumption DEF SlotsSettled, Now, Acquires
  <2> QED
    BY <1>0, <1>1, <1>8, <2>1 DEF OnlyCurrentTakes
<1>12. ASSUME NEW m, m <= emits, m \in Int, After(m, gate.queue), NEW a \in Acquires, After(m, down[a])
       PROVE  After(m, down'[a])
  <2>1. n # 0 => m < g.queue[n].id
    BY <1>7, <1>12
  <2>2. down[a] \in Seq(Events)
    BY <1>3
  <2>3. CASE n # 0 /\ down'[a] = Append(down[a], g.queue[n])
    <3>1. /\ Len(down'[a]) = Len(down[a]) + 1 /\ Len(down[a]) \in Nat
          /\ down'[a][Len(down[a]) + 1] = g.queue[n]
          /\ \A i \in 1 .. Len(down[a]) : down'[a][i] = down[a][i]
      BY <1>7, <2>2, <2>3
    <3> QED
      BY <1>12, <2>1, <2>3, <3>1 DEF After
  <2> QED
    BY <1>8, <1>12, <2>3
<1>13. ASSUME NEW m, HandledInOrder(m), m \in Int
       PROVE  /\ m <= emits' /\ After(m, gate'.queue)
              /\ \A a \in Acquires \cap {dataPeer, Now} : After(m, down'[a])
  BY <1>3, <1>6, <1>12, <1>13 DEF HandledInOrder
<1>14. /\ HandledInOrder(dispatch.event.id)' /\ \A l \in Listeners : HandledInOrder(handled[l])'
  <2>1. dispatch.event.id \in Int /\ \A l \in Listeners : handled[l] \in Int
    BY <1>0, PresentationAssumption DEF EventShape, NoDispatch, Events
  <2> QED
    BY <1>0, <1>1, <1>13, <2>1 DEF HandledInOrder, After
<1>15. ASSUME NEW a \in Acquires
       PROVE  /\ Ordered(down'[a]) /\ Before(down'[a], emits')
              /\ \A i \in 1 .. Len(down'[a]) : After(down'[a][i].id, gate'.queue)
  <2>1. /\ Ordered(down[a]) /\ Before(down[a], emits)
        /\ \A i \in 1 .. Len(down[a]) : After(down[a][i].id, gate.queue)
    BY <1>0 DEF EventsInOrder
  <2>2. down[a] \in Seq(Events) /\ \A i \in 1 .. Len(down[a]) : down[a][i].id \in Nat
    BY <1>3, EventIds
  <2>3. \A i \in 1 .. Len(down[a]) : After(down[a][i].id, g.queue)
    BY <2>1, <2>2 DEF Before
  <2>4. CASE down'[a] = down[a]
    BY <1>3, <1>6, <2>1, <2>2, <2>3, <2>4 DEF Before
  <2>5. CASE n # 0 /\ a = Now /\ down'[a] = Append(down[a], g.queue[n])
    <3>1. \A i \in 1 .. Len(down[a]) : down[a][i].id < g.queue[n].id
      BY <1>7, <2>3, <2>5
    <3>2. /\ Len(down'[a]) = Len(down[a]) + 1 /\ Len(down[a]) \in Nat
          /\ down'[a][Len(down[a]) + 1] = g.queue[n]
          /\ \A i \in 1 .. Len(down[a]) : down'[a][i] = down[a][i]
      BY <1>7, <2>2, <2>5
    <3>3. Ordered(down'[a])
      <4> SUFFICES ASSUME NEW i \in 1 .. Len(down'[a]), NEW j \in 1 .. Len(down'[a]), i < j
                   PROVE  down'[a][i].id < down'[a][j].id
        BY DEF Ordered
      <4>1. i \in 1 .. Len(down[a]) /\ down'[a][i] = down[a][i]
        BY <3>2
      <4>2. CASE j = Len(down[a]) + 1
        BY <3>1, <3>2, <4>1, <4>2
      <4>3. CASE j # Len(down[a]) + 1
        <5>1. j \in 1 .. Len(down[a])
          BY <3>2, <4>3
        <5> QED
          BY <2>1, <3>2, <4>1, <5>1 DEF Ordered
      <4> QED
        BY <4>2, <4>3
    <3>4. Before(down'[a], emits')
      BY <1>3, <1>7, <2>1, <2>2, <2>5, <3>2 DEF Before
    <3>5. \A i \in 1 .. Len(down'[a]) : After(down'[a][i].id, gate'.queue)
      BY <1>6, <2>3, <2>5, <3>2
    <3> QED
      BY <3>3, <3>4, <3>5
  <2> QED
    BY <1>8, <2>4, <2>5
<1>16. ASSUME dataPeer # 0, Now # 0, dataPeer # Now, NEW i \in 1 .. Len(down[dataPeer])
       PROVE  After(down[dataPeer][i].id, down'[Now])
  <2>1. dataPeer \in Acquires /\ Now \in Acquires
    BY <1>0, <1>16, PresentationAssumption DEF EventShape, HolderShape, Slots, Acquires, Now
  <2>2. /\ down[dataPeer][i].id <= emits /\ After(down[dataPeer][i].id, gate.queue)
        /\ After(down[dataPeer][i].id, down[Now])
    BY <1>0, <1>16, <2>1 DEF EventsInOrder, Before
  <2>3. down[dataPeer][i].id \in Int
    <3>1. down[dataPeer] \in Seq(Events)
      BY <1>3, <2>1
    <3>2. down[dataPeer][i] \in Events
      BY <1>16, <3>1
    <3> QED
      BY <3>2, EventIds
  <2> QED
    BY <1>12, <2>1, <2>2, <2>3
<1>17. EventsInOrder'
  <2>1. dataPeer # Now /\ dataPeer # 0 => down'[dataPeer] = down[dataPeer]
    BY <1>0, <1>8 DEF EventShape, Acquires
  <2> QED
    BY <1>1, <1>6, <1>15, <1>16, <2>1 DEF EventsInOrder, After, Ordered, Before
<1> QED
  BY <1>0, <1>1, <1>2, <1>10, <1>11, <1>14, <1>17 DEF EventInv

LEMMA EventSentKeeps == EventInv /\ EventSent => EventInv'
<1> SUFFICES ASSUME EventInv, EventSent PROVE EventInv'
  OBVIOUS
<1>0. /\ UNCHANGED <<holderVars, runtimeVars, granted, upward, emits>>
      /\ \/ Pump([gate EXCEPT !.sending = FALSE], down, Now)
         \/ gate' = [NoGate EXCEPT !.retired = TRUE] /\ down' = down
  BY DEF EventSent, Now
<1>1. /\ gate \in GateRecords /\ Ordered(gate.queue) /\ Before(gate.queue, emits)
      /\ emits \in 0 .. MaxEmits /\ MaxEmits \in Nat /\ upward \in [Acquires -> Seq(SUBSET Channels)]
  BY PresentationAssumption DEF EventInv, EventShape, EventsInOrder
<1>2. CASE Pump([gate EXCEPT !.sending = FALSE], down, Now)
  <2> DEFINE g == [gate EXCEPT !.sending = FALSE]
  <2>1. g \in GateRecords /\ g.queue = gate.queue
    BY <1>1 DEF GateRecords
  <2> HIDE DEF g
  <2>2. emits' \in emits .. MaxEmits /\ emits' = emits
    BY <1>0, <1>1
  <2>3. Pump(g, down, Now)
    BY <1>2 DEF g
  <2> QED
    BY <1>0, <1>1, <2>1, <2>2, <2>3, SentKeeps
<1>3. CASE gate' = [NoGate EXCEPT !.retired = TRUE] /\ down' = down
  <2>1. gate' \in GateRecords /\ gate'.queue = NoGate.queue
    BY <1>3, EmptyKeeps DEF GateRecords
  <2>2. HolderShape' /\ SlotsSettled' /\ CarriersFollow
    BY <1>0 DEF EventInv, HolderShape, SlotsSettled, CarriersFollow, holderVars, Now
  <2> QED
    BY <1>0, <1>1, <1>3, <2>1, <2>2, EmptyKeeps, DroppedKeeps
<1> QED
  BY <1>0, <1>2, <1>3

LEMMA EmitTopFrameKeeps ==
  ASSUME EventInv, NEW k \in Keys, NEW c \in Channels, EmitTopFrame(k, c)
  PROVE  EventInv'
<1> DEFINE e == [id |-> emits', source |-> k, peer |-> slot[k].current,
                 target |-> slot[Target].current, lease |-> snapshot.lease,
                 channel |-> c]
<1>0. /\ emits < MaxEmits /\ emits' = emits + 1
      /\ slot[k].current # 0 /\ Now # 0 /\ snapshot.lease # 0
      /\ Offer(e) /\ e.target = Now
      /\ UNCHANGED <<holderVars, runtimeVars, granted, upward>>
  BY DEF EmitTopFrame, Now
<1>1. /\ gate \in GateRecords /\ gate.queue \in Seq(Events) /\ Ordered(gate.queue)
      /\ Before(gate.queue, emits)
      /\ emits \in 0 .. MaxEmits /\ MaxEmits \in Nat
  BY PresentationAssumption DEF EventInv, EventShape, EventsInOrder, GateRecords
<1>2. e \in Events
  <2>1. slot[k].current \in Acquires /\ slot[Target].current \in Acquires
    BY <1>0, PresentationAssumption, HolderAssumption
       DEF EventInv, HolderShape, Slots, Acquires, Now
  <2>2. snapshot.lease \in 1 .. MaxActivations /\ emits' \in 1 .. MaxEmits
    BY <1>0, <1>1, PresentationAssumption DEF EventInv, HolderShape, Snaps
  <2> QED
    BY <2>1, <2>2 DEF Events
<1>3. e.id = emits + 1 /\ emits' \in emits .. MaxEmits
  BY <1>0, <1>1
<1> HIDE DEF e
<1>4. CASE gate.retired \/ ~Effective(e, slot, snapshot.lease, gate.interest)
  <2>1. gate' = gate /\ down' = down
    BY <1>0, <1>4 DEF Offer
  <2>2. /\ HolderShape' /\ upward' \in [Acquires -> Seq(SUBSET Channels)]
        /\ listener' \in [Listeners -> ListenerRecords]
        /\ UNCHANGED <<slot, attempt, carrier, gate, down, dataPeer, dispatch, handled>>
    BY <1>0, <2>1 DEF EventInv, HolderShape, EventShape, holderVars, runtimeVars
  <2> QED
    BY <1>3, <2>2, QuietKeeps
<1>5. CASE ~(gate.retired \/ ~Effective(e, slot, snapshot.lease, gate.interest))
  <2> DEFINE q == Append(gate.queue, e)
             g == [gate EXCEPT !.queue = q]
  <2>1. Pump(g, down, Now)
    BY <1>0, <1>5 DEF Offer
  <2>2. /\ q \in Seq(Events) /\ Len(q) = Len(gate.queue) + 1 /\ Len(gate.queue) \in Nat
        /\ q[Len(gate.queue) + 1] = e
        /\ \A i \in 1 .. Len(gate.queue) : q[i] = gate.queue[i]
    BY <1>1, <1>2
  <2> HIDE DEF q
  <2>3. g \in GateRecords /\ g.queue = q
    BY <1>1, <2>2 DEF GateRecords
  <2>4. \A i \in 1 .. Len(gate.queue) : gate.queue[i].id < e.id
    BY <1>1, <1>3, EventIds DEF Before
  <2>5. Ordered(q)
    <3> SUFFICES ASSUME NEW i \in 1 .. Len(q), NEW j \in 1 .. Len(q), i < j
                 PROVE  q[i].id < q[j].id
      BY DEF Ordered
    <3>1. i \in 1 .. Len(gate.queue) /\ q[i] = gate.queue[i]
      BY <2>2
    <3>2. CASE j = Len(gate.queue) + 1
      BY <2>2, <2>4, <3>1, <3>2
    <3>3. CASE j # Len(gate.queue) + 1
      <4>1. j \in 1 .. Len(gate.queue) /\ q[j] = gate.queue[j]
        BY <2>2, <3>3
      <4> QED
        BY <1>1, <3>1, <4>1 DEF Ordered
    <3> QED
      BY <3>2, <3>3
  <2>6. Before(q, emits')
    <3>1. \A i \in 1 .. Len(gate.queue) : gate.queue[i].id <= emits' /\ e.id <= emits'
      BY <1>0, <1>1, <1>3, EventIds DEF Before
    <3>2. e.id <= emits'
      BY <1>0, <1>1, <1>3
    <3> QED
      BY <2>2, <3>1, <3>2 DEF Before
  <2>7. ASSUME NEW n \in Int, n <= emits, After(n, gate.queue) PROVE After(n, q)
    <3>1. n < e.id
      BY <1>1, <1>3, <2>7
    <3> QED
      BY <2>2, <2>7, <3>1 DEF After
  <2> HIDE DEF g
  <2> QED
    BY <1>0, <1>3, <2>1, <2>3, <2>5, <2>6, <2>7, SentKeeps
<1> QED
  BY <1>4, <1>5

\* The bookkeeping of a carrier that everyone has left is reset.
LEMMA RecycleKeeps == EventInv /\ Recycle => EventInv'
<1> SUFFICES ASSUME EventInv, Recycle PROVE EventInv'
  OBVIOUS
<1>1. PICK a \in Acquires :
        /\ a # dataPeer /\ Forget(a)
        /\ upward' = [upward EXCEPT ![a] = <<>>] /\ down' = [down EXCEPT ![a] = <<>>]
        /\ UNCHANGED <<emits, gate, runtimeVars, granted>>
  BY DEF Recycle
<1>2. /\ \A k \in Keys : a # slot[k].current
      /\ attempt' = [attempt EXCEPT ![a] = NoAttempt]
      /\ carrier' = [carrier EXCEPT ![a] = "none"]
      /\ UNCHANGED <<conn, connects, snapshot, slot>>
  BY <1>1 DEF Forget
<1>3. /\ HolderShape /\ SlotsSettled /\ EventShape /\ OnlyCurrentTakes /\ EventsInOrder
      /\ HandledInOrder(dispatch.event.id) /\ \A l \in Listeners : HandledInOrder(handled[l])
      /\ \A l \in dispatch.left : handled[l] < dispatch.event.id
  BY DEF EventInv
<1>4. /\ gate' = gate /\ emits' = emits /\ dataPeer' = dataPeer /\ listener' = listener
      /\ dispatch' = dispatch /\ handled' = handled /\ Now' = Now
  BY <1>1, <1>2 DEF runtimeVars, Now
<1>5. Now # a /\ Target \in Keys
  BY <1>2, PresentationAssumption DEF Now
<1>6. /\ attempt' \in [Acquires -> AttemptRecords]
      /\ carrier' \in [Acquires -> {"none", "open", "closed"}]
  <2>1. NoAttempt \in AttemptRecords
    BY DEF NoAttempt, AttemptRecords, Progress
  <2> QED
    BY <1>2, <1>3, <2>1 DEF HolderShape
<1>7. HolderShape'
  BY <1>1, <1>2, <1>3, <1>6 DEF HolderShape
<1>8. SlotsSettled'
  BY <1>2, <1>3 DEF SlotsSettled, HolderShape
<1>9. EventShape'
  <2>1. <<>> \in Seq(Events) /\ <<>> \in Seq(SUBSET Channels)
    OBVIOUS
  <2>2. upward' \in [Acquires -> Seq(SUBSET Channels)] /\ down' \in [Acquires -> Seq(Events)]
    BY <1>1, <1>3, <2>1 DEF EventShape
  <2> QED
    BY <1>3, <1>4, <2>2 DEF EventShape
<1>10. \A b \in Acquires : \/ b # a /\ down'[b] = down[b] /\ attempt'[b] = attempt[b]
                              /\ carrier'[b] = carrier[b]
                           \/ b = a /\ down'[b] = <<>>
  BY <1>1, <1>2, <1>3 DEF HolderShape, EventShape
<1>11. OnlyCurrentTakes'
  BY <1>3, <1>4, <1>10 DEF OnlyCurrentTakes
<1>12. dataPeer # 0 => dataPeer \in Acquires /\ down'[dataPeer] = down[dataPeer]
  BY <1>1, <1>3, <1>10, HolderAssumption DEF EventShape, Acquires
<1>13. Now # 0 => Now \in Acquires /\ down'[Now] = down[Now]
  BY <1>3, <1>5, <1>10, HolderAssumption DEF HolderShape, Slots, Acquires, Now
<1>14. EventsInOrder'
  <2>1. ASSUME NEW b \in Acquires
        PROVE  /\ Ordered(down'[b]) /\ Before(down'[b], emits)
               /\ \A i \in 1 .. Len(down'[b]) : After(down'[b][i].id, gate.queue)
    <3>1. CASE down'[b] = down[b]
      BY <1>3, <3>1 DEF EventsInOrder
    <3>2. CASE down'[b] = <<>>
      BY <3>2 DEF Ordered, Before
    <3> QED
      BY <1>10, <3>1, <3>2
  <2>2. dataPeer # 0 /\ Now # 0 /\ dataPeer # Now =>
          \A i \in 1 .. Len(down'[dataPeer]) : After(down'[dataPeer][i].id, down'[Now])
    BY <1>3, <1>12, <1>13 DEF EventsInOrder
  <2>3. Ordered(gate.queue) /\ Before(gate.queue, emits)
    BY <1>3 DEF EventsInOrder
  <2> QED
    BY <1>4, <2>1, <2>2, <2>3 DEF EventsInOrder, Ordered, Before, After
<1>15. ASSUME NEW n, HandledInOrder(n)
       PROVE  n <= emits /\ After(n, gate.queue)
              /\ \A b \in Acquires \cap {dataPeer, Now} : After(n, down'[b])
  BY <1>5, <1>10, <1>12, <1>13, <1>15, <1>1 DEF HandledInOrder
<1>16. HandledInOrder(dispatch.event.id)' /\ \A l \in Listeners : HandledInOrder(handled[l])'
  BY <1>3, <1>4, <1>15 DEF HandledInOrder, After
<1> QED
  BY <1>3, <1>4, <1>7, <1>8, <1>9, <1>11, <1>14, <1>16 DEF EventInv

-----------------------------------------------------------------------------
(* The manager.                                                            *)

LEMMA DesiredChannels ==
  ASSUME NEW ls \in [Listeners -> ListenerRecords]
  PROVE  DesiredOf(ls) \in SUBSET Channels
BY DEF DesiredOf, ListenerRecords

LEMMA SaysTyped ==
  ASSUME EventInv, dataPeer # 0, NEW cs \in SUBSET Channels
  PROVE  [upward EXCEPT ![dataPeer] = Append(upward[dataPeer], cs)] \in [Acquires -> Seq(SUBSET Channels)]
<1>1. upward \in [Acquires -> Seq(SUBSET Channels)]
  BY DEF EventInv, EventShape
<1>2. dataPeer \in Acquires
  BY HolderAssumption DEF EventInv, EventShape, Acquires
<1>3. Append(upward[dataPeer], cs) \in Seq(SUBSET Channels)
  BY <1>1, <1>2
<1> QED
  BY <1>1, <1>3

\* A change of the listeners, with the interest that it makes known.
LEMMA RegistryKeeps ==
  ASSUME EventInv, NEW ls \in [Listeners -> ListenerRecords], listener' = ls,
         PublishInterest(ls),
         UNCHANGED <<rendererVars, granted, down, dataPeer, dispatch, handled>>
  PROVE  EventInv'
<1>1. /\ HolderShape' /\ emits' = emits
      /\ UNCHANGED <<slot, attempt, carrier, gate, down, dataPeer, dispatch, handled>>
  BY DEF EventInv, HolderShape, rendererVars, holderVars
<1>2. upward' = upward \/ (dataPeer # 0 /\ upward' = [upward EXCEPT ![dataPeer] = Append(upward[dataPeer], DesiredOf(ls))])
  BY DEF PublishInterest
<1>3. upward' \in [Acquires -> Seq(SUBSET Channels)]
  BY <1>2, SaysTyped, DesiredChannels DEF EventInv, EventShape
<1>4. emits' \in emits .. MaxEmits
  BY <1>1, PresentationAssumption DEF EventInv, EventShape
<1> QED
  BY <1>1, <1>3, <1>4, QuietKeeps

AuthorStep ==
  \E l \in Listeners : CreateListener(l) \/ SetChannels(l) \/ Unregister(l) \/ CloseListener(l)

LEMMA AuthorKeeps == EventInv /\ AuthorStep => EventInv'
<1> SUFFICES ASSUME EventInv, NEW l \in Listeners,
                    CreateListener(l) \/ SetChannels(l) \/ Unregister(l) \/ CloseListener(l)
             PROVE  EventInv'
  BY DEF AuthorStep
<1>1. listener \in [Listeners -> ListenerRecords]
  BY DEF EventInv, EventShape
<1>2. \E ls \in [Listeners -> ListenerRecords] : Author(ls)
  <2>1. CASE CreateListener(l)
    <3>1. PICK cs \in SUBSET Channels :
            Author([listener EXCEPT ![l] = [state |-> "open", channels |-> cs, on |-> TRUE]])
      BY <2>1 DEF CreateListener
    <3>2. [state |-> "open", channels |-> cs, on |-> TRUE] \in ListenerRecords
      BY DEF ListenerRecords
    <3> QED
      BY <1>1, <3>1, <3>2
  <2>2. CASE SetChannels(l)
    <3>1. PICK cs \in SUBSET Channels : Author([listener EXCEPT ![l].channels = cs])
      BY <2>2 DEF SetChannels
    <3>2. [listener EXCEPT ![l].channels = cs] \in [Listeners -> ListenerRecords]
      BY <1>1 DEF ListenerRecords
    <3> QED
      BY <3>1, <3>2
  <2>3. CASE Unregister(l)
    <3>1. Author([listener EXCEPT ![l].on = FALSE])
      BY <2>3 DEF Unregister
    <3>2. [listener EXCEPT ![l].on = FALSE] \in [Listeners -> ListenerRecords]
      BY <1>1 DEF ListenerRecords
    <3> QED
      BY <3>1, <3>2
  <2>4. CASE CloseListener(l)
    <3>1. Author([listener EXCEPT ![l].state = "closed", ![l].on = FALSE])
      BY <2>4 DEF CloseListener
    <3>2. [listener EXCEPT ![l].state = "closed", ![l].on = FALSE] \in [Listeners -> ListenerRecords]
      BY <1>1 DEF ListenerRecords
    <3> QED
      BY <3>1, <3>2
  <2> QED
    BY <2>1, <2>2, <2>3, <2>4
<1> QED
  BY <1>2, RegistryKeeps DEF Author

LEMMA FrameMovesKeeps == EventInv /\ FrameMoves => EventInv'
<1> SUFFICES ASSUME EventInv, FrameMoves PROVE EventInv'
  OBVIOUS
<1>1. listener \in [Listeners -> ListenerRecords]
  BY DEF EventInv, EventShape
<1>2. UNCHANGED <<rendererVars, granted, down, dataPeer, dispatch, handled>>
  BY DEF FrameMoves
<1>3. CASE listener' = listener /\ upward' = upward
  <2>1. /\ HolderShape' /\ upward' \in [Acquires -> Seq(SUBSET Channels)] /\ emits' = emits
        /\ UNCHANGED <<slot, attempt, carrier, gate, down, dataPeer, dispatch, handled>>
    BY <1>2, <1>3 DEF EventInv, HolderShape, EventShape, rendererVars, holderVars
  <2>2. emits' \in emits .. MaxEmits
    BY <2>1, PresentationAssumption DEF EventInv, EventShape
  <2> QED
    BY <1>1, <1>3, <2>1, <2>2, QuietKeeps
<1>4. CASE /\ listener' = [l \in Listeners |->
                 IF listener[l].state = "open"
                   THEN [listener[l] EXCEPT !.state = "closed", !.on = FALSE] ELSE listener[l]]
           /\ PublishInterest(listener')
  <2>1. listener' \in [Listeners -> ListenerRecords]
    BY <1>1, <1>4 DEF ListenerRecords
  <2> QED
    BY <1>2, <1>4, <2>1, RegistryKeeps
<1> QED
  BY <1>3, <1>4 DEF FrameMoves

\* The Runtime takes a carrier that the Renderer sends on, or none has yet.
LEMMA RuntimeTakesKeeps == ASSUME EventInv, NEW a \in Acquires, RuntimeTakes(a) PROVE EventInv'
<1>1. /\ carrier[a] = "open" /\ dispatch = NoDispatch /\ dataPeer' = a
      /\ upward' = [upward EXCEPT ![a] = <<Desired>>]
      /\ UNCHANGED <<slot, attempt, carrier, gate, down, emits, listener, dispatch, handled>>
      /\ HolderShape'
  BY DEF RuntimeTakes, EventInv, HolderShape, rendererVars, holderVars
<1>2. /\ SlotsSettled /\ EventShape /\ OnlyCurrentTakes /\ EventsInOrder
      /\ HandledInOrder(dispatch.event.id) /\ \A l \in Listeners : HandledInOrder(handled[l])
      /\ \A l \in dispatch.left : handled[l] < dispatch.event.id
      /\ Now' = Now
  BY <1>1 DEF EventInv, Now
<1>3. down[a] = <<>> \/ Now = a
  BY <1>1, <1>2 DEF OnlyCurrentTakes
<1>4. upward' \in [Acquires -> Seq(SUBSET Channels)]
  <2>1. Desired \in SUBSET Channels
    BY <1>2, DesiredChannels DEF Desired, EventShape
  <2>2. <<Desired>> \in Seq(SUBSET Channels)
    BY <2>1
  <2> QED
    BY <1>1, <1>2, <2>2 DEF EventShape
<1>5. EventShape' /\ SlotsSettled' /\ OnlyCurrentTakes'
  BY <1>1, <1>2, <1>4, HolderAssumption DEF EventShape, SlotsSettled, OnlyCurrentTakes, Acquires
<1>6. EventsInOrder'
  <2>1. a # Now => \A i \in 1 .. Len(down[a]) : After(down[a][i].id, down[Now])
    BY <1>3
  <2> QED
    BY <1>1, <1>2, <2>1 DEF EventsInOrder, Ordered, Before, After
<1>7. ASSUME NEW n, HandledInOrder(n)
      PROVE  n <= emits /\ After(n, gate.queue) /\ \A b \in Acquires \cap {a, Now} : After(n, down[b])
  <2>1. down[a] = <<>> => After(n, down[a])
    BY DEF After
  <2> QED
    BY <1>3, <1>7, <2>1 DEF HandledInOrder
<1>8. HandledInOrder(dispatch.event.id)' /\ \A l \in Listeners : HandledInOrder(handled[l])'
  <2>1. \A n : HandledInOrder(n) => /\ n <= emits' /\ After(n, gate'.queue)
                                    /\ \A b \in Acquires \cap {dataPeer', Now'} : After(n, down'[b])
    BY <1>1, <1>2, <1>7
  <2>2. dispatch' = dispatch /\ handled' = handled
    BY <1>1
  <2> QED
    BY <1>2, <2>1, <2>2 DEF HandledInOrder, After
<1>9. \A l \in dispatch'.left : handled'[l] < dispatch'.event.id
  BY <1>1, <1>2
<1>10. HolderShape'
  BY <1>1
<1> QED
  BY <1>5, <1>6, <1>8, <1>9, <1>10 DEF EventInv

LEMMA RuntimeLosesKeeps == EventInv /\ RuntimeLoses => EventInv'
<1> SUFFICES ASSUME EventInv, RuntimeLoses PROVE EventInv'
  OBVIOUS
<1>1. /\ dataPeer' = 0
      /\ UNCHANGED <<slot, attempt, carrier, gate, upward, down, emits, listener, dispatch, handled>>
      /\ HolderShape'
  BY DEF RuntimeLoses, EventInv, HolderShape, rendererVars, holderVars
<1>2. 0 \notin Acquires /\ 0 \in 0 .. MaxAcquires
  BY HolderAssumption DEF Acquires
<1>3. /\ SlotsSettled /\ EventShape /\ OnlyCurrentTakes /\ EventsInOrder
      /\ HandledInOrder(dispatch.event.id) /\ \A l \in Listeners : HandledInOrder(handled[l])
      /\ \A l \in dispatch.left : handled[l] < dispatch.event.id
      /\ Now' = Now
  BY <1>1 DEF EventInv, Now
<1>4. EventShape' /\ SlotsSettled' /\ OnlyCurrentTakes'
  BY <1>1, <1>2, <1>3 DEF EventShape, SlotsSettled, OnlyCurrentTakes
<1>5. EventsInOrder'
  BY <1>1, <1>3 DEF EventsInOrder, Ordered, Before, After
<1>6. HandledInOrder(dispatch.event.id)' /\ \A l \in Listeners : HandledInOrder(handled[l])'
  BY <1>1, <1>2, <1>3 DEF HandledInOrder, After
<1> QED
  BY <1>1, <1>3, <1>4, <1>5, <1>6 DEF EventInv

LEMMA InterestSentKeeps == EventInv /\ InterestSent => EventInv'
<1> SUFFICES ASSUME EventInv, InterestSent PROVE EventInv'
  OBVIOUS
<1>1. /\ HolderShape' /\ emits' = emits /\ listener' = listener
      /\ UNCHANGED <<slot, attempt, carrier, gate, down, dataPeer, dispatch, handled>>
      /\ upward' = upward \/ upward' = [upward EXCEPT ![dataPeer] = Append(upward[dataPeer], Desired)]
  BY DEF InterestSent, EventInv, HolderShape, rendererVars, holderVars
<1>2. upward \in [Acquires -> Seq(SUBSET Channels)] /\ listener \in [Listeners -> ListenerRecords]
  BY DEF EventInv, EventShape
<1>3. upward' \in [Acquires -> Seq(SUBSET Channels)]
  <2>1. Desired \in SUBSET Channels
    BY <1>2, DesiredChannels DEF Desired
  <2>2. dataPeer = 0 => dataPeer \notin Acquires
    BY HolderAssumption DEF Acquires
  <2>3. dataPeer = 0 => [upward EXCEPT ![dataPeer] = Append(upward[dataPeer], Desired)] = upward
    BY <1>2, <2>2
  <2> QED
    BY <1>1, <1>2, <2>1, <2>3, SaysTyped
<1>4. emits' \in emits .. MaxEmits
  BY <1>1, PresentationAssumption DEF EventInv, EventShape
<1> QED
  BY <1>1, <1>2, <1>3, <1>4, QuietKeeps

\* The Runtime reads the next event: what follows it on its carrier, at the
\* gate and on the carrier that took this one's place was emitted later.
LEMMA OnEventKeeps == EventInv /\ OnEvent => EventInv'
<1> SUFFICES ASSUME EventInv, OnEvent PROVE EventInv'
  OBVIOUS
<1> DEFINE e == Head(down[dataPeer])
           rest == Tail(down[dataPeer])
<1>1. /\ dataPeer # 0 /\ down[dataPeer] # <<>>
      /\ dispatch' = NoDispatch \/ dispatch' = [event |-> e, left |-> Candidates(e)]
      /\ down' = [down EXCEPT ![dataPeer] = rest]
      /\ UNCHANGED <<slot, attempt, carrier, gate, upward, dataPeer, emits, listener, handled>>
      /\ HolderShape' /\ Now' = Now
  BY DEF OnEvent, EventInv, HolderShape, rendererVars, holderVars, Now
<1>2. /\ SlotsSettled /\ EventShape /\ OnlyCurrentTakes /\ EventsInOrder
      /\ HandledInOrder(dispatch.event.id) /\ \A l \in Listeners : HandledInOrder(handled[l])
  BY DEF EventInv
<1>3. dataPeer \in Acquires /\ down[dataPeer] \in Seq(Events) /\ down \in [Acquires -> Seq(Events)]
  BY <1>1, <1>2, HolderAssumption DEF EventShape, Acquires
<1>4. /\ e = down[dataPeer][1] /\ e \in Events /\ rest \in Seq(Events)
      /\ 1 \in 1 .. Len(down[dataPeer]) /\ Len(rest) \in Nat
      /\ \A i \in 1 .. Len(rest) : rest[i] = down[dataPeer][i + 1]
                                   /\ i + 1 \in 1 .. Len(down[dataPeer])
  BY <1>1, <1>3
<1> HIDE DEF e, rest
<1>5. down' \in [Acquires -> Seq(Events)] /\ down'[dataPeer] = rest
      /\ \A a \in Acquires : a # dataPeer => down'[a] = down[a]
  BY <1>1, <1>3, <1>4
<1>6. EventShape'
  <2>1. Candidates(e) \in SUBSET Listeners
    BY DEF Candidates
  <2>2. dispatch' = NoDispatch \/ dispatch' \in [event : Events, left : SUBSET Listeners]
    BY <1>1, <1>4, <2>1
  <2> QED
    BY <1>1, <1>2, <1>5, <2>2 DEF EventShape
<1>7. SlotsSettled' /\ OnlyCurrentTakes'
  BY <1>1, <1>2, <1>3, <1>5 DEF SlotsSettled, OnlyCurrentTakes
<1>8. /\ Ordered(rest) /\ Before(rest, emits) /\ After(e.id, rest)
      /\ \A n : After(n, down[dataPeer]) => n < e.id /\ After(n, rest)
  <2>1. Ordered(down[dataPeer]) /\ Before(down[dataPeer], emits)
    BY <1>2, <1>3 DEF EventsInOrder
  <2>2. \A i \in 1 .. Len(rest) : 1 < i + 1
    BY <1>4
  <2>3. After(e.id, rest)
    BY <1>4, <2>1, <2>2 DEF Ordered, After
  <2>4. Ordered(rest)
    <3> SUFFICES ASSUME NEW i \in 1 .. Len(rest), NEW j \in 1 .. Len(rest), i < j
                 PROVE  rest[i].id < rest[j].id
      BY DEF Ordered
    <3>1. i + 1 < j + 1
      BY <1>4
    <3> QED
      BY <1>4, <2>1, <3>1 DEF Ordered
  <2>5. Before(rest, emits)
    BY <1>4, <2>1 DEF Before
  <2>6. \A n : After(n, down[dataPeer]) => n < e.id /\ After(n, rest)
    BY <1>4 DEF After
  <2> QED
    BY <2>3, <2>4, <2>5, <2>6
<1>9. EventsInOrder'
  <2>1. Ordered(gate.queue) /\ Before(gate.queue, emits)
    BY <1>2 DEF EventsInOrder
  <2>2. ASSUME NEW a \in Acquires
        PROVE  /\ Ordered(down'[a]) /\ Before(down'[a], emits)
               /\ \A i \in 1 .. Len(down'[a]) : After(down'[a][i].id, gate.queue)
    <3>1. CASE a # dataPeer
      BY <1>2, <1>5, <3>1 DEF EventsInOrder
    <3>2. CASE a = dataPeer
      BY <1>2, <1>3, <1>4, <1>5, <1>8, <3>2 DEF EventsInOrder
    <3> QED
      BY <3>1, <3>2
  <2>3. dataPeer # 0 /\ Now # 0 /\ dataPeer # Now =>
          \A i \in 1 .. Len(rest) : After(rest[i].id, down[Now])
    BY <1>2, <1>4 DEF EventsInOrder
  <2>4. Now # 0 => Now \in Acquires
    BY <1>1, PresentationAssumption, HolderAssumption DEF EventInv, HolderShape, Slots, Acquires, Now
  <2>5. dataPeer # 0 /\ Now # 0 /\ dataPeer # Now =>
          \A i \in 1 .. Len(down'[dataPeer]) : After(down'[dataPeer][i].id, down'[Now])
    BY <1>5, <2>3, <2>4
  <2> QED
    BY <1>1, <2>1, <2>2, <2>5 DEF EventsInOrder, Ordered, Before, After
<1>10. ASSUME NEW n, HandledInOrder(n)
       PROVE  /\ n < e.id /\ n <= emits /\ After(n, gate.queue)
              /\ \A a \in Acquires \cap {dataPeer, Now} : After(n, down'[a])
  BY <1>3, <1>5, <1>8, <1>10 DEF HandledInOrder
<1>11. /\ e.id <= emits /\ After(e.id, gate.queue)
       /\ \A a \in Acquires \cap {dataPeer, Now} : After(e.id, down'[a])
  <2>1. e.id <= emits /\ After(e.id, gate.queue)
    BY <1>2, <1>3, <1>4 DEF EventsInOrder, Before
  <2>2. Now \in Acquires /\ Now # dataPeer => After(e.id, down[Now])
    BY <1>1, <1>2, <1>4, HolderAssumption DEF EventsInOrder, Acquires
  <2> QED
    BY <1>5, <1>8, <2>1, <2>2
<1>12. /\ 0 <= emits /\ After(0, gate.queue)
       /\ \A a \in Acquires \cap {dataPeer, Now} : After(0, down'[a])
  <2>1. \A q \in Seq(Events) : After(0, q)
    BY EventIds DEF After
  <2> QED
    BY <1>2, <1>5, <2>1 DEF EventShape, GateRecords
<1>13. \A l \in Listeners : HandledInOrder(handled[l])'
  BY <1>1, <1>2, <1>10 DEF HandledInOrder, After
<1>14. CASE dispatch' = NoDispatch
  <2>1. dispatch'.event.id = 0 /\ dispatch'.left = {}
    BY <1>14 DEF NoDispatch
  <2>2. HandledInOrder(dispatch.event.id)'
    BY <1>1, <1>12, <2>1 DEF HandledInOrder, After
  <2> QED
    BY <1>1, <1>6, <1>7, <1>9, <1>13, <2>1, <2>2 DEF EventInv
<1>15. CASE dispatch' = [event |-> e, left |-> Candidates(e)]
  <2>1. dispatch'.event.id = e.id /\ dispatch'.left \in SUBSET Listeners
    BY <1>15 DEF Candidates
  <2>2. HandledInOrder(dispatch.event.id)'
    BY <1>1, <1>11, <2>1 DEF HandledInOrder, After
  <2>3. \A l \in dispatch'.left : handled'[l] < dispatch'.event.id
    BY <1>1, <1>2, <1>10, <2>1
  <2> QED
    BY <1>1, <1>6, <1>7, <1>9, <1>13, <2>2, <2>3 DEF EventInv
<1> QED
  BY <1>1, <1>14, <1>15

LEMMA RunHandlerKeeps == ASSUME EventInv, NEW l \in Listeners, RunHandler(l) PROVE EventInv'
<1>1. /\ l \in dispatch.left
      /\ \/ dispatch' = NoDispatch
         \/ dispatch' = [dispatch EXCEPT !.left = dispatch.left \ {l}]
      /\ handled' = handled \/ handled' = [handled EXCEPT ![l] = dispatch.event.id]
      /\ UNCHANGED <<slot, attempt, carrier, gate, upward, down, dataPeer, emits, listener>>
      /\ HolderShape' /\ Now' = Now
  BY DEF RunHandler, EventInv, HolderShape, rendererVars, holderVars, Now
<1>2. /\ SlotsSettled /\ EventShape /\ OnlyCurrentTakes /\ EventsInOrder
      /\ HandledInOrder(dispatch.event.id) /\ \A m \in Listeners : HandledInOrder(handled[m])
      /\ \A m \in dispatch.left : handled[m] < dispatch.event.id
  BY DEF EventInv
<1>3. dispatch \in [event : Events, left : SUBSET Listeners] /\ dispatch.event.id \in 0 .. MaxEmits
  <2>1. dispatch \in [event : Events, left : SUBSET Listeners]
    BY <1>1, <1>2 DEF EventShape, NoDispatch
  <2> QED
    BY <2>1, EventIds, PresentationAssumption
<1>4. \A m \in Listeners : handled'[m] = handled[m] \/ (m = l /\ handled'[m] = dispatch.event.id)
  BY <1>1, <1>2 DEF EventShape
<1>5. EventShape'
  <2>1. handled' \in [Listeners -> 0 .. MaxEmits]
    BY <1>1, <1>2, <1>3 DEF EventShape
  <2>2. dispatch' = NoDispatch \/ dispatch' \in [event : Events, left : SUBSET Listeners]
    BY <1>1, <1>3
  <2> QED
    BY <1>1, <1>2, <2>1, <2>2 DEF EventShape
<1>6. SlotsSettled' /\ OnlyCurrentTakes'
  BY <1>1, <1>2 DEF SlotsSettled, OnlyCurrentTakes
<1>7. EventsInOrder'
  BY <1>1, <1>2 DEF EventsInOrder, Ordered, Before, After
<1>8. \A n : HandledInOrder(n) => /\ n <= emits' /\ After(n, gate'.queue)
                                  /\ \A a \in Acquires \cap {dataPeer', Now'} : After(n, down'[a])
  BY <1>1 DEF HandledInOrder
<1>9. \A m \in Listeners : HandledInOrder(handled[m])'
  BY <1>2, <1>4, <1>8 DEF HandledInOrder, After
<1>10. HandledInOrder(0)
  <2>1. \A q \in Seq(Events) : After(0, q)
    BY EventIds DEF After
  <2> QED
    BY <1>2, <2>1 DEF HandledInOrder, EventShape, GateRecords
<1>11. CASE dispatch' = NoDispatch
  <2>1. dispatch'.event.id = 0 /\ dispatch'.left = {}
    BY <1>11 DEF NoDispatch
  <2>2. HandledInOrder(dispatch.event.id)'
    BY <1>8, <1>10, <2>1 DEF HandledInOrder, After
  <2> QED
    BY <1>1, <1>5, <1>6, <1>7, <1>9, <2>1, <2>2 DEF EventInv
<1>12. CASE dispatch' = [dispatch EXCEPT !.left = dispatch.left \ {l}]
  <2>1. dispatch'.event.id = dispatch.event.id /\ dispatch'.left = dispatch.left \ {l}
        /\ dispatch.left \in SUBSET Listeners
    BY <1>3, <1>12
  <2>2. HandledInOrder(dispatch.event.id)'
    BY <1>2, <1>8, <2>1 DEF HandledInOrder, After
  <2>3. \A m \in dispatch'.left : handled'[m] < dispatch'.event.id
    BY <1>2, <1>4, <2>1
  <2> QED
    BY <1>1, <1>5, <1>6, <1>7, <1>9, <2>2, <2>3 DEF EventInv
<1> QED
  BY <1>1, <1>11, <1>12

\* A new activation is granted, or events that are published to everyone.
LEMMA OthersKeep ==
  ASSUME EventInv, Grant \/ Published \/ \E k \in Keys : EmitPublication(k) PROVE EventInv'
<1>1. /\ upward' = upward /\ listener' = listener
      /\ UNCHANGED <<slot, attempt, carrier, gate, down, dataPeer, dispatch, handled>>
      /\ UNCHANGED <<conn, connects, snapshot>>
  BY DEF Grant, Published, EmitPublication, rendererVars, runtimeVars, holderVars
<1>2. /\ emits \in 0 .. MaxEmits /\ granted \in 0 .. MaxActivations
      /\ MaxEmits \in Nat /\ MaxActivations \in Nat
  BY PresentationAssumption DEF EventInv, HolderShape, EventShape
<1>3. /\ emits' = emits \/ (emits < MaxEmits /\ emits' = emits + 1)
      /\ granted' = granted \/ (granted < MaxActivations /\ granted' = granted + 1)
  BY DEF Grant, Published, EmitPublication, rendererVars
<1>4. emits' \in emits .. MaxEmits /\ granted' \in 0 .. MaxActivations
  BY <1>2, <1>3
<1>5. HolderShape'
  BY <1>1, <1>4 DEF EventInv, HolderShape
<1>6. upward' \in [Acquires -> Seq(SUBSET Channels)] /\ listener' \in [Listeners -> ListenerRecords]
  BY <1>1 DEF EventInv, EventShape
<1> QED
  BY <1>1, <1>4, <1>5, <1>6, QuietKeeps

\* A carrier's acquisition is answered, or it breaks.
LEMMA CarriersKeep == EventInv /\ (Binding \/ Break) => EventInv'
<1> SUFFICES ASSUME EventInv, Binding \/ Break PROVE EventInv'
  OBVIOUS
<1>1. HolderStep /\ granted' = granted /\ UNCHANGED <<emits, gate, runtimeVars, upward, down>>
  BY DEF Binding, Break, HolderStep
<1>2. HolderShape' /\ SlotsSettled' /\ CarriersFollow
  BY <1>1, HolderStepKeeps DEF EventInv
<1>3. /\ gate' = gate /\ gate \in GateRecords /\ Ordered(gate.queue) /\ Before(gate.queue, emits)
      /\ upward' \in [Acquires -> Seq(SUBSET Channels)]
  BY <1>1 DEF EventInv, EventShape, EventsInOrder
<1> QED
  BY <1>1, <1>2, <1>3, DroppedKeeps

LEMMA HolderMovesKeeps == EventInv /\ (Control \/ DataStep) => EventInv'
<1> SUFFICES ASSUME EventInv, Control \/ DataStep PROVE EventInv'
  OBVIOUS
<1>1. HolderStep /\ GateFollows /\ UNCHANGED <<emits, runtimeVars, granted, upward, down>>
  BY DEF Control, DataStep, HolderStep
<1> QED
  BY <1>1, GateFollowsKeeps

LEMMA InitEventInv == InitPresentation => EventInv
<1> SUFFICES ASSUME InitPresentation PROVE EventInv
  OBVIOUS
<1>1. /\ MaxConnects \in Nat /\ MaxGeneration \in Nat /\ MaxAcquires \in Nat
      /\ MaxActivations \in Nat \ {0} /\ MaxEmits \in Nat /\ Target \in Keys
  BY HolderAssumption, PresentationAssumption
<1>2. HolderShape
  <2>1. snapshot \in Snaps
    BY <1>1 DEF InitPresentation, HolderInit, NoSnapshot, Snaps, Generations
  <2>2. slot \in [Keys -> Slots]
    BY <1>1 DEF InitPresentation, HolderInit, EmptySlot, Slots
  <2>3. attempt \in [Acquires -> AttemptRecords]
    BY DEF InitPresentation, HolderInit, NoAttempt, AttemptRecords, Progress
  <2> QED
    BY <1>1, <2>1, <2>2, <2>3 DEF InitPresentation, HolderInit, HolderShape
<1>3. SlotsSettled
  BY DEF InitPresentation, HolderInit, EmptySlot, SlotsSettled
<1>4. EventShape
  <2>1. gate \in GateRecords /\ dispatch = NoDispatch /\ emits = 0 /\ dataPeer = 0
    BY EmptyKeeps DEF InitPresentation
  <2>2. upward \in [Acquires -> Seq(SUBSET Channels)] /\ down \in [Acquires -> Seq(Events)]
    BY DEF InitPresentation
  <2>3. listener \in [Listeners -> ListenerRecords]
    <3>1. /\ [state |-> "none", channels |-> {}, on |-> FALSE] \in ListenerRecords
          /\ [state |-> "open", channels |-> Channels, on |-> TRUE] \in ListenerRecords
      BY DEF ListenerRecords
    <3> QED
      BY <3>1 DEF InitPresentation
  <2>4. handled \in [Listeners -> 0 .. MaxEmits]
    BY <1>1 DEF InitPresentation
  <2> QED
    BY <1>1, <2>1, <2>2, <2>3, <2>4 DEF EventShape
<1>5. /\ gate.queue = <<>> /\ \A a \in Acquires : down[a] = <<>>
      /\ emits = 0 /\ dataPeer = 0 /\ dispatch.event.id = 0 /\ dispatch.left = {}
      /\ \A l \in Listeners : handled[l] = 0
  BY DEF InitPresentation, NoGate, NoDispatch
<1>6. OnlyCurrentTakes
  BY <1>5 DEF OnlyCurrentTakes
<1>7. EventsInOrder
  BY <1>5 DEF EventsInOrder, Ordered, Before, After
<1>8. HandledInOrder(0)
  BY <1>5 DEF HandledInOrder, After
<1> QED
  BY <1>2, <1>3, <1>4, <1>5, <1>6, <1>7, <1>8 DEF EventInv

LEMMA EventStep == EventInv /\ [NextPresentation]_presentationVars => EventInv'
<1> SUFFICES ASSUME EventInv, [NextPresentation]_presentationVars PROVE EventInv'
  OBVIOUS
<1>1. CASE Control \/ DataStep
  BY <1>1, HolderMovesKeeps
<1>2. CASE Binding \/ Break
  BY <1>2, CarriersKeep
<1>3. CASE Grant \/ Published \/ \E k \in Keys : EmitPublication(k)
  BY <1>3, OthersKeep
<1>4. CASE Recycle
  BY <1>4, RecycleKeeps
<1>5. CASE EventSent
  BY <1>5, EventSentKeeps
<1>6. ASSUME NEW a \in Acquires, ReplaceInterest(a) \/ RuntimeTakes(a) PROVE EventInv'
  BY <1>6, ReplaceInterestKeeps, RuntimeTakesKeeps
<1>7. CASE RuntimeLoses \/ InterestSent \/ OnEvent \/ FrameMoves
  BY <1>7, RuntimeLosesKeeps, InterestSentKeeps, OnEventKeeps, FrameMovesKeeps
<1>8. ASSUME NEW l \in Listeners, RunHandler(l) PROVE EventInv'
  BY <1>8, RunHandlerKeeps
<1>9. ASSUME NEW k \in Keys, NEW c \in Channels, EmitTopFrame(k, c) PROVE EventInv'
  BY <1>9, EmitTopFrameKeeps
<1>10. CASE AuthorStep
  BY <1>10, AuthorKeeps
<1>11. CASE UNCHANGED presentationVars
  <2>1. /\ UNCHANGED <<slot, attempt, carrier, gate, down, dataPeer, dispatch, handled>>
        /\ UNCHANGED <<conn, connects, snapshot, granted, emits, upward, listener>>
    BY <1>11 DEF presentationVars, rendererVars, runtimeVars, holderVars
  <2>2. HolderShape' /\ upward' \in [Acquires -> Seq(SUBSET Channels)]
        /\ listener' \in [Listeners -> ListenerRecords]
    BY <2>1 DEF EventInv, HolderShape, EventShape
  <2>3. emits' \in emits .. MaxEmits
    BY <2>1, PresentationAssumption DEF EventInv, EventShape
  <2> QED
    BY <2>1, <2>2, <2>3, QuietKeeps
<1>12. CASE NextPresentation
  <2>1. CASE RendererStep
    BY <1>1, <1>3, <1>4, <1>5, <1>6, <2>1 DEF RendererStep
  <2>2. CASE ManagerStep
    BY <1>7, <1>8, <2>2 DEF ManagerStep
  <2>3. CASE Environment
    BY <1>1, <1>2, <1>3, <1>7, <1>9, <1>10, <2>3 DEF Environment, AuthorStep
  <2>4. CASE Binding \/ \E a \in Acquires : RuntimeTakes(a)
    BY <1>2, <1>6, <2>4
  <2> QED
    BY <1>12, <2>1, <2>2, <2>3, <2>4 DEF NextPresentation
<1> QED
  BY <1>11, <1>12

\* Whatever Main, the network and the author do, the events of the top Frame
\* are queued, sent and read in the order in which they were emitted, those
\* on a lost carrier before those on the one that took its place, and a
\* handler has run only for events older than all that are still to come.
THEOREM EventInvariant == SpecPresentation => []EventInv
<1>1. InitPresentation => EventInv
  BY InitEventInv
<1>2. EventInv /\ [NextPresentation]_presentationVars => EventInv'
  BY EventStep
<1> QED
  BY <1>1, <1>2, PTL DEF SpecPresentation

\* Every step that changes what was handled runs a handler.
LEMMA OthersLeaveHandled ==
  ASSUME [NextPresentation]_presentationVars, \A l \in Listeners : ~RunHandler(l)
  PROVE  handled' = handled
<1>1. CASE RendererStep
  BY <1>1 DEF RendererStep, DataStep, Recycle, EventSent, Published, ReplaceInterest, runtimeVars
<1>2. CASE ManagerStep
  BY <1>2 DEF ManagerStep, RuntimeLoses, InterestSent, OnEvent
<1>3. CASE Environment
  <2>1. CASE AuthorStep
    BY <2>1 DEF AuthorStep, CreateListener, SetChannels, Unregister, CloseListener, Author
  <2>2. CASE Control \/ Break \/ Grant \/ FrameMoves
    BY <2>2 DEF Control, Break, Grant, FrameMoves, runtimeVars
  <2>3. ASSUME NEW k \in Keys, EmitPublication(k) \/ \E c \in Channels : EmitTopFrame(k, c)
        PROVE  handled' = handled
    BY <2>3 DEF EmitPublication, EmitTopFrame, runtimeVars
  <2> QED
    BY <1>3, <2>1, <2>2, <2>3 DEF Environment, AuthorStep
<1>4. CASE Binding \/ \E a \in Acquires : RuntimeTakes(a)
  BY <1>4 DEF Binding, RuntimeTakes, runtimeVars
<1>5. CASE UNCHANGED presentationVars
  BY <1>5 DEF presentationVars, runtimeVars
<1> QED
  BY <1>1, <1>2, <1>3, <1>4, <1>5 DEF NextPresentation

\* A handler runs in the activation its event was leased to, while its
\* listener is open and contributes the channel, and for later and later
\* events: onEvent looks at each candidate again before it runs it.
THEOREM HandlersInLease == SpecPresentation => HandlersHonourLease
<1> DEFINE InLease ==
      \A l \in Listeners : handled'[l] # handled[l] =>
        /\ handled'[l] > handled[l]
        /\ dispatch.event.lease = frame.activation
        /\ frame.open /\ ~frame.closed
        /\ listener[l].state = "open" /\ listener[l].on
        /\ dispatch.event.channel \in listener[l].channels
<1>1. ASSUME EventInv, [NextPresentation]_presentationVars PROVE InLease
  <2> SUFFICES ASSUME NEW l \in Listeners, handled'[l] # handled[l]
               PROVE  /\ handled'[l] > handled[l]
                      /\ dispatch.event.lease = frame.activation
                      /\ frame.open /\ ~frame.closed
                      /\ listener[l].state = "open" /\ listener[l].on
                      /\ dispatch.event.channel \in listener[l].channels
    OBVIOUS
  <2>1. PICK m \in Listeners : RunHandler(m)
    BY <1>1, OthersLeaveHandled
  <2>2. /\ m \in dispatch.left /\ StillLive(dispatch.event) /\ m \in Candidates(dispatch.event)
        /\ handled' = [handled EXCEPT ![m] = dispatch.event.id]
    BY <2>1 DEF RunHandler
  <2>3. /\ handled \in [Listeners -> 0 .. MaxEmits] /\ \A i \in dispatch.left : handled[i] < dispatch.event.id
        /\ dispatch \in [event : Events, left : SUBSET Listeners]
    BY <1>1, <2>2 DEF EventInv, EventShape, NoDispatch
  <2>4. m = l /\ handled'[l] = dispatch.event.id
    BY <2>2, <2>3
  <2>5. handled[l] \in Int /\ dispatch.event.id \in Int /\ handled[l] < dispatch.event.id
    BY <2>2, <2>3, <2>4, EventIds
  <2>6. handled'[l] > handled[l]
    BY <2>4, <2>5
  <2> QED
    BY <2>2, <2>4, <2>6 DEF StillLive, Candidates
<1> HIDE DEF InLease
<1>2. SpecPresentation => [][InLease]_presentationVars
  BY <1>1, EventInvariant, PTL DEF SpecPresentation
<1> QED
  BY <1>2 DEF HandlersHonourLease, InLease
=============================================================================
