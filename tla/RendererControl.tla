--------------------------- MODULE RendererControl ---------------------------
(***************************************************************************)
(* How a Renderer document becomes the one Renderer participant of a Main  *)
(* session, and how the authority of Main reaches it: the candidate slot   *)
(* and the hello of the Main session, its mutation lane, the two           *)
(* renderer-control peers, and the Desktop rendezvous that pairs a slot    *)
(* with a navigated document.                                             *)
(*                                                                         *)
(* A slot is named by its token, 1, 2, ...; so are the connection, the     *)
(* peers and the page that come of it.  A snapshot is its revision.        *)
(***************************************************************************)
EXTENDS Naturals, Sequences, FiniteSets, SequencesExt

CONSTANTS MaxDocuments,   \* bound: top-level navigations
          MaxRevision     \* bound: revisions of the Renderer authority

ASSUME RendererControlAssumption == {MaxDocuments, MaxRevision} \subseteq Nat \ {0}

VARIABLES main,       \* the Renderer part of the Main session
          mainLane,   \* the queued operations of its mutation lane
          peer,       \* the Main peer of a connection
          wire,       \* the connection: what travels, and who closed it
          page,       \* the Renderer holder of the document behind a connection
          rendezvous, \* LoopbackRendererControlBinding
          document,   \* the documents, in the order of navigation
          broken      \* an endpoint could not listen

rendererControlVars == <<main, mainLane, peer, wire, page, rendezvous, document, broken>>

None == 0
Attempts == 1 .. MaxDocuments + 1   \* a document uses up at most one slot
Documents == 1 .. MaxDocuments
Revisions == 1 .. MaxRevision
Refusal == MaxRevision + 1          \* the answer to a hello that is not accepted

RendererInit ==
    /\ main = [revision |-> 1, candidate |-> None, current |-> None, issued |-> 0,
               armDue |-> TRUE, bindingTerminal |-> FALSE, stopRequested |-> FALSE,
               terminal |-> FALSE]
    /\ mainLane = <<>>
    /\ peer = [a \in Attempts |-> [helloState |-> "none", accepted |-> None, inFlight |-> FALSE,
                                   pending |-> None, terminal |-> FALSE]]
    /\ wire = [a \in Attempts |-> [hello |-> FALSE, down |-> <<>>, closed |-> {}]]
    /\ page = [a \in Attempts |-> [state |-> "none", revision |-> None]]
    /\ rendezvous = [acquire |-> None, document |-> None, pairing |-> None,
                     current |-> None, closed |-> FALSE]
    /\ document = <<>>
    /\ broken = FALSE

-----------------------------------------------------------------------------
(***************************************************************************)
(* The Main peer.  A step of a peer changes the peer and its connection;   *)
(* its terminal puts an operation on the lane of Main.                     *)
(***************************************************************************)
Send(w, m) == [w EXCEPT !.down = Append(@, m)]
Closing(w) == [w EXCEPT !.closed = @ \cup {"main"}]

\* commit(): terminal once, nothing pending, the carrier closed.
Ended(p) == [p EXCEPT !.terminal = TRUE, !.pending = None]

\* publish(): one send in flight, and the latest snapshot behind it.
Publish(a, r) ==
    IF peer[a].terminal THEN UNCHANGED <<peer, wire>>
    ELSE IF peer[a].helloState # "current" \/ peer[a].inFlight
    THEN peer' = [peer EXCEPT ![a].pending = r] /\ UNCHANGED wire
    ELSE /\ peer' = [peer EXCEPT ![a].inFlight = TRUE]
         /\ wire' = [wire EXCEPT ![a] = Send(@, r)]

\* retire(), of every live peer of S.
Live(S) == {a \in S \cap Attempts : peer[a].helloState # "none" /\ ~peer[a].terminal}
RetiredPeers(S) == [a \in Attempts |-> IF a \in Live(S) THEN Ended(peer[a]) ELSE peer[a]]
RetiredWires(S) == [a \in Attempts |-> IF a \in Live(S) THEN Closing(wire[a]) ELSE wire[a]]
Losses(S) == SetToSeq({<<"lost", a>> : a \in Live(S)})

\* readLoop(): the hello is handed to the lane of Main.
ReadHello(a) ==
    /\ peer[a].helloState = "pending" /\ ~peer[a].terminal /\ wire[a].hello
    /\ wire' = [wire EXCEPT ![a].hello = FALSE]
    /\ mainLane' = Append(mainLane, <<"hello", a>>)
    /\ UNCHANGED <<main, peer, page, rendezvous, document, broken>>

\* readLoop(), after acceptHello: the answer is sent, or the refusal is and
\* the peer ends.  A peer that ended meanwhile says nothing.
AnswerHello(a) ==
    /\ peer[a].accepted # None
    /\ IF peer[a].terminal
       THEN peer' = [peer EXCEPT ![a].accepted = None] /\ UNCHANGED <<wire, mainLane>>
       ELSE IF peer[a].accepted = Refusal
       THEN /\ peer' = [peer EXCEPT ![a] = Ended([@ EXCEPT !.accepted = None])]
            /\ wire' = [wire EXCEPT ![a] = Closing(Send(@, Refusal))]
            /\ mainLane' = Append(mainLane, <<"lost", a>>)
       ELSE /\ peer' = [peer EXCEPT ![a].helloState = "sending", ![a].accepted = None]
            /\ wire' = [wire EXCEPT ![a] = Send(@, peer[a].accepted)]
            /\ UNCHANGED mainLane
    /\ UNCHANGED <<main, page, rendezvous, document, broken>>

\* A send is done: what waited behind it goes out, and only the latest of it.
SendDone(a) ==
    /\ ~peer[a].terminal
    /\ peer[a].helloState = "sending" \/ peer[a].inFlight
    /\ LET go == peer[a].pending # None
       IN  /\ peer' = [peer EXCEPT ![a].inFlight = go, ![a].pending = None,
                                   ![a].helloState = "current"]
           /\ wire' = IF go THEN [wire EXCEPT ![a] = Send(@, peer[a].pending)] ELSE wire
    /\ UNCHANGED <<main, mainLane, page, rendezvous, document, broken>>

\* The page closed the connection, or it was lost.
MainSeesClose(a) ==
    /\ peer[a].helloState # "none" /\ ~peer[a].terminal /\ wire[a].closed # {}
    /\ peer' = [peer EXCEPT ![a] = Ended(@)]
    /\ mainLane' = Append(mainLane, <<"lost", a>>)
    /\ UNCHANGED <<main, wire, page, rendezvous, document, broken>>

-----------------------------------------------------------------------------
(***************************************************************************)
(* The rendezvous.  A slot waits as "acquire", a document as "document";    *)
(* tryPair() takes one of each, and the document is offered once its       *)
(* endpoint listens.                                                       *)
(***************************************************************************)
Fails(a) == <<"fail", a>>
SlotOf(d) == document[d].slot

\* tryPair(), on the state of the rendezvous and the documents.
TryPair(r, ds) ==
    IF r.closed \/ r.pairing # None \/ r.acquire = None \/ r.document = None
    THEN /\ rendezvous' = r
         /\ document' = ds
    ELSE /\ rendezvous' = [r EXCEPT !.acquire = None, !.document = None, !.pairing = r.document]
         /\ document' = [ds EXCEPT ![r.document].slot = r.acquire,
                                   ![r.document].state = "pairing"]

\* candidate.retire(): the endpoint closes; a slot nobody connected to is
\* rejected, a connection is closed from this side.
RetireDocument(d, tail) ==
    IF d = None \/ document[d].state \notin {"offered", "connected"}
    THEN mainLane' = tail /\ UNCHANGED wire
    ELSE IF document[d].state = "offered"
    THEN mainLane' = Append(tail, Fails(SlotOf(d))) /\ UNCHANGED wire
    ELSE mainLane' = tail /\ wire' = [wire EXCEPT ![SlotOf(d)] = Closing(@)]

Retired(d) == IF d = None THEN document ELSE [document EXCEPT ![d].state = "retired"]

\* The shell asks for a document: the one before it is retired, one still
\* waiting is superseded.
BeginDocument ==
    /\ Len(document) < MaxDocuments /\ ~rendezvous.closed
    /\ LET old == rendezvous.current
           waiting == rendezvous.document
           superseded == IF waiting = None THEN Retired(old)
                         ELSE [Retired(old) EXCEPT ![waiting].state = "retired"]
       IN  /\ RetireDocument(old, mainLane)
           /\ TryPair([rendezvous EXCEPT !.current = None, !.document = Len(document) + 1],
                      Append(superseded, [state |-> "waiting", slot |-> None, cancelled |-> FALSE,
                                          answered |-> FALSE]))
    /\ UNCHANGED <<main, peer, page, broken>>

\* The request of a document that has not been answered is aborted.
CancelDocument(d) ==
    /\ ~document[d].cancelled
    /\ \/ /\ document[d].state = "waiting"
          /\ rendezvous' = [rendezvous EXCEPT !.document = None]
          /\ document' = [document EXCEPT ![d].state = "retired", ![d].cancelled = TRUE]
          /\ UNCHANGED <<mainLane, wire>>
       \/ /\ document[d].state = "pairing"
          /\ document' = [document EXCEPT ![d].cancelled = TRUE]
          /\ UNCHANGED <<rendezvous, mainLane, wire>>
       \/ /\ document[d].state = "offered" /\ ~document[d].answered
          /\ RetireDocument(d, mainLane)
          /\ rendezvous' = [rendezvous EXCEPT !.current = IF @ = d THEN None ELSE @]
          /\ document' = [document EXCEPT ![d].state = "retired", ![d].cancelled = TRUE]
    /\ UNCHANGED <<main, peer, page, broken>>

\* The endpoint of a pair listens, or cannot.  A pair one of whose halves
\* was cancelled meanwhile is given up, and so are both halves.
Pair(listens) ==
    LET d == rendezvous.pairing
        idle == [rendezvous EXCEPT !.pairing = None]
        aborted == rendezvous.closed \/ document[d].cancelled \/ main.terminal
    IN  /\ d # None
        /\ broken' = (broken \/ ~listens)
        /\ IF listens /\ ~aborted
           THEN /\ TryPair([idle EXCEPT !.current = d], [document EXCEPT ![d].state = "offered"])
                /\ UNCHANGED mainLane
           ELSE /\ mainLane' = Append(mainLane, Fails(SlotOf(d)))
                /\ TryPair(idle, [document EXCEPT ![d].state = "retired"])
        /\ UNCHANGED <<main, peer, wire, page>>

\* The envelope of the document is sent: its request can no longer be aborted.
AnswerDocument(d) ==
    /\ document[d].state = "offered" /\ ~document[d].answered
    /\ document' = [document EXCEPT ![d].answered = TRUE]
    /\ UNCHANGED <<main, mainLane, peer, wire, page, rendezvous, broken>>

\* The page connects to its endpoint and sends its hello.
PageConnects(d) ==
    LET a == SlotOf(d)
    IN  /\ document[d].state = "offered" /\ document[d].answered
        /\ document' = [document EXCEPT ![d].state = "connected"]
        /\ IF main.terminal   \* the slot was aborted: the socket is closed at once
           THEN UNCHANGED <<mainLane, wire, page>>
           ELSE /\ mainLane' = Append(mainLane, <<"bind", a>>)
                /\ wire' = [wire EXCEPT ![a].hello = TRUE]
                /\ page' = [page EXCEPT ![a].state = "connecting"]
        /\ UNCHANGED <<main, peer, rendezvous, broken>>

\* The product is closed.
CloseBinding ==
    /\ main.terminal /\ ~rendezvous.closed
    /\ LET failed == IF rendezvous.acquire = None THEN mainLane
                     ELSE Append(mainLane, Fails(rendezvous.acquire))
           waiting == rendezvous.document
       IN  /\ RetireDocument(rendezvous.current, failed)
           /\ document' = IF waiting = None THEN Retired(rendezvous.current)
                          ELSE [Retired(rendezvous.current) EXCEPT ![waiting].state = "retired"]
    /\ rendezvous' = [rendezvous EXCEPT !.acquire = None, !.document = None, !.current = None,
                                        !.closed = TRUE]
    /\ UNCHANGED <<main, peer, page, broken>>

-----------------------------------------------------------------------------
(***************************************************************************)
(* The page.                                                               *)
(***************************************************************************)
Open(a) == page[a].state \in {"connecting", "current"}

\* connectRendererControlPeer() and the state stream: the first message is
\* the answer to the hello, and revisions only grow.
PageReads(a) ==
    LET m == Head(wire[a].down)
        fits == m # Refusal /\ m > page[a].revision
    IN  /\ Open(a) /\ wire[a].down # <<>>
        /\ page' = [page EXCEPT ![a] = IF fits THEN [state |-> "current", revision |-> m]
                                       ELSE [@ EXCEPT !.state = "failed"]]
        /\ wire' = [wire EXCEPT ![a].down = Tail(@), ![a].closed = IF fits THEN @ ELSE @ \cup {"page"}]
        /\ UNCHANGED <<main, mainLane, peer, rendezvous, document, broken>>

\* The connection ended; Control is unavailable to this document for good.
PageSeesClose(a) ==
    /\ Open(a) /\ wire[a].down = <<>> /\ wire[a].closed # {}
    /\ page' = [page EXCEPT ![a].state = "closed"]
    /\ UNCHANGED <<main, mainLane, peer, wire, rendezvous, document, broken>>

\* The page is left, or its socket is lost.
PageGoes(a) ==
    /\ Open(a)
    /\ page' = [page EXCEPT ![a].state = "closed"]
    /\ wire' = [wire EXCEPT ![a].closed = @ \cup {"page"}, ![a].down = <<>>]
    /\ UNCHANGED <<main, mainLane, peer, rendezvous, document, broken>>

-----------------------------------------------------------------------------
(***************************************************************************)
(* The Main session: the slot, and the operations of its lane.              *)
(***************************************************************************)
\* armRendererCandidateSlot(), after which Main is m: a fresh token waits in
\* the rendezvous, which refuses a second one.
ArmSlot(m, tail) ==
    LET a == m.issued + 1
    IN  IF m.bindingTerminal \/ m.candidate # None \/ m.terminal \/ m.stopRequested
        THEN /\ main' = m
             /\ mainLane' = tail
             /\ UNCHANGED <<rendezvous, document>>
        ELSE /\ main' = [m EXCEPT !.candidate = a, !.issued = a]
             /\ IF rendezvous.closed \/ rendezvous.acquire # None \/ rendezvous.pairing # None
                THEN mainLane' = Append(tail, Fails(a)) /\ UNCHANGED <<rendezvous, document>>
                ELSE mainLane' = tail /\ TryPair([rendezvous EXCEPT !.acquire = a], document)

\* The first slot, and the one after an accepted hello.
RearmSlot ==
    /\ main.armDue
    /\ ArmSlot([main EXCEPT !.armDue = FALSE], mainLane)
    /\ UNCHANGED <<peer, wire, page, broken>>

Next1(op) == mainLane # <<>> /\ Head(mainLane)[1] = op

\* bindRendererCandidate()
Bind(a) ==
    /\ IF main.candidate # a \/ main.terminal
       THEN wire' = [wire EXCEPT ![a] = Closing(@)] /\ UNCHANGED peer
       ELSE peer' = [peer EXCEPT ![a].helloState = "pending"] /\ UNCHANGED wire
    /\ mainLane' = Tail(mainLane)
    /\ UNCHANGED <<main, page, rendezvous, document, broken>>

\* Seeded bug: the participant before is left as it is.
AcceptBeside(a) ==
    /\ IF main.terminal \/ main.candidate # a
       THEN peer' = [peer EXCEPT ![a].accepted = Refusal] /\ UNCHANGED <<main, wire>>
       ELSE /\ main' = [main EXCEPT !.current = a, !.candidate = None, !.armDue = TRUE]
            /\ peer' = [peer EXCEPT ![a].accepted = main.revision]
            /\ UNCHANGED wire
    /\ mainLane' = Tail(mainLane)
    /\ UNCHANGED <<page, rendezvous, document, broken>>

\* acceptRendererHello(): in one step the snapshot is taken, the participant
\* replaced and the one before it retired.
AcceptHello(a) ==
    /\ IF main.terminal \/ main.candidate # a
       THEN /\ peer' = [peer EXCEPT ![a].accepted = Refusal]
            /\ mainLane' = Tail(mainLane)
            /\ UNCHANGED <<main, wire>>
       ELSE /\ main' = [main EXCEPT !.current = a, !.candidate = None, !.armDue = TRUE]
            /\ peer' = [RetiredPeers({main.current}) EXCEPT ![a].accepted = main.revision]
            /\ wire' = RetiredWires({main.current})
            /\ mainLane' = Tail(mainLane) \o Losses({main.current})
    /\ UNCHANGED <<page, rendezvous, document, broken>>

\* Seeded bug: any loss ends the current participant.
ObserveAnyLoss(a) ==
    /\ LET m == [main EXCEPT !.current = None]
       IN  IF main.candidate = a THEN ArmSlot([m EXCEPT !.candidate = None], Tail(mainLane))
           ELSE main' = m /\ mainLane' = Tail(mainLane) /\ UNCHANGED <<rendezvous, document>>
    /\ UNCHANGED <<peer, wire, page, broken>>

\* observeRendererPeerTerminal()
ObserveLoss(a) ==
    /\ LET m == [main EXCEPT !.current = IF @ = a THEN None ELSE @]
       IN  IF main.candidate = a THEN ArmSlot([m EXCEPT !.candidate = None], Tail(mainLane))
           ELSE main' = m /\ mainLane' = Tail(mainLane) /\ UNCHANGED <<rendezvous, document>>
    /\ UNCHANGED <<peer, wire, page, broken>>

\* settleRendererAcquireFailure(): no slot is armed again in this session.
SettleFailure(a) ==
    /\ main' = IF main.candidate # a THEN main
               ELSE [main EXCEPT !.candidate = None,
                                 !.bindingTerminal = @ \/ ~main.terminal]
    /\ mainLane' = Tail(mainLane)
    /\ UNCHANGED <<peer, wire, page, rendezvous, document, broken>>

\* The terminal of the session, with retireRendererControl(): the waiting
\* slot is aborted and so are the peers.
Terminate(queue) ==
    LET S == {main.candidate, main.current}
        a == rendezvous.acquire
    IN  /\ ~main.terminal
        /\ main' = [main EXCEPT !.terminal = TRUE, !.candidate = None, !.current = None]
        /\ peer' = RetiredPeers(S)
        /\ wire' = RetiredWires(S)
        /\ mainLane' = (IF a = None THEN queue ELSE Append(queue, Fails(a))) \o Losses(S)
        /\ rendezvous' = [rendezvous EXCEPT !.acquire = None]
        /\ UNCHANGED <<page, document, broken>>

RequestShutdown ==
    /\ ~main.stopRequested /\ ~main.terminal
    /\ main' = [main EXCEPT !.stopRequested = TRUE]
    /\ mainLane' = Append(mainLane, <<"stop", None>>)
    /\ UNCHANGED <<peer, wire, page, rendezvous, document, broken>>

BeginShutdown ==
    IF main.terminal THEN mainLane' = Tail(mainLane) /\ UNCHANGED <<main, peer, wire, page, rendezvous, document, broken>>
    ELSE Terminate(Tail(mainLane))

\* mutate() of something that changes the authority, with its
\* observeRendererAuthority().
Commit ==
    /\ ~main.terminal /\ main.revision < MaxRevision
    /\ main' = [main EXCEPT !.revision = @ + 1]
    /\ IF main.current = None THEN UNCHANGED <<peer, wire>>
       ELSE Publish(main.current, main.revision + 1)
    /\ UNCHANGED <<mainLane, page, rendezvous, document, broken>>

RunLane ==
    LET a == Head(mainLane)[2]
    IN  \/ Next1("bind") /\ Bind(a)
        \/ Next1("hello") /\ AcceptHello(a)
        \/ Next1("lost") /\ ObserveLoss(a)
        \/ Next1("fail") /\ SettleFailure(a)
        \/ Next1("stop") /\ BeginShutdown

System ==
    \/ RunLane \/ RearmSlot \/ Pair(TRUE)
    \/ \E a \in Attempts : \/ ReadHello(a) \/ AnswerHello(a) \/ SendDone(a) \/ MainSeesClose(a)
                           \/ PageReads(a) \/ PageSeesClose(a)

RendererNext ==
    \/ System
    \/ Pair(FALSE) \/ BeginDocument \/ CloseBinding
    \/ Commit \/ RequestShutdown \/ Terminate(mainLane)
    \/ \E d \in DOMAIN document : CancelDocument(d) \/ AnswerDocument(d) \/ PageConnects(d)
    \/ \E a \in Attempts : PageGoes(a)

\* The sockets deliver, listening settles, and the promises of Main run on.
Fairness == WF_rendererControlVars(System)

RendererSpec == RendererInit /\ [][RendererNext]_rendererControlVars /\ Fairness

-----------------------------------------------------------------------------
RendererTypeOK ==
    /\ main \in [revision : Revisions, candidate : Attempts \cup {None},
                 current : Attempts \cup {None}, issued : Attempts \cup {None},
                 armDue : BOOLEAN, bindingTerminal : BOOLEAN, stopRequested : BOOLEAN,
                 terminal : BOOLEAN]
    /\ \A i \in DOMAIN mainLane : mainLane[i] \in {"bind", "hello", "lost", "fail"} \X Attempts
                                          \cup {<<"stop", None>>}
    /\ peer \in [Attempts -> [helloState : {"none", "pending", "sending", "current"},
                              accepted : 0 .. Refusal, inFlight : BOOLEAN,
                              pending : Revisions \cup {None}, terminal : BOOLEAN]]
    /\ \A a \in Attempts : /\ wire[a].closed \subseteq {"main", "page"}
                           /\ ToSet(wire[a].down) \subseteq 1 .. Refusal
    /\ page \in [Attempts -> [state : {"none", "connecting", "current", "closed", "failed"},
                              revision : Revisions \cup {None}]]
    /\ {rendezvous.pairing, rendezvous.document, rendezvous.current} \subseteq Documents \cup {None}
    /\ \A d \in DOMAIN document :
         document[d].state \in {"waiting", "pairing", "offered", "connected", "retired"}

\* Authority is spoken to one Renderer: whoever Main still answers or sends a
\* snapshot to is the current participant, at every step of a replacement.
OnlyCurrentSpeaks ==
    \A a \in Attempts :
        peer[a].helloState \in {"sending", "current"} /\ ~peer[a].terminal => main.current = a

\* What a page has and what still travels to it is the answer to its hello
\* and then only newer revisions, whatever was published between the moment
\* Main took the answer's snapshot and the moment it was sent.
InOrder ==
    \A a \in Attempts :
        LET seen == <<page[a].revision>> \o SelectSeq(wire[a].down, LAMBDA m : m # Refusal)
        IN  \A i, j \in DOMAIN seen : i < j => seen[i] < seen[j]

\* A participant is given up because its own connection ended, or for the
\* session: the late end of an older one never takes its place from it.
OnlyItsOwnLoss ==
    [][main.current # None /\ main'.current = None
       => main'.terminal \/ peer[main.current].terminal]_rendererControlVars

\* Every page that stays ends up with the newest authority, or knows that it
\* is no longer the participant: publications may be skipped, never the last.
Converges ==
    []<>(\A a \in Attempts : Open(a) => page[a] = [state |-> "current", revision |-> main.revision])
=============================================================================
