----------------------------- MODULE PwaDataBroker -----------------------------
(***************************************************************************)
(* The Renderer Data broker of the PWA product (apps/pwa/src/              *)
(* data-broker.ts), for one subsystem: a transaction over two endpoints,   *)
(* the Runner's worker and the Window, each reached over a message port of *)
(* its own.  A connection is installed in the Runner, then in the Window;  *)
(* what was superseded, refused or timed out is revoked in both before     *)
(* another takes its place.  The authority Main hands over may be replaced *)
(* between any two of these messages, a request may time out while it is   *)
(* on its way, the Runtime may end and the window may go to another        *)
(* session.                                                                *)
(*                                                                         *)
(* A port is a FIFO queue.  The requests of a drain are made one at a      *)
(* time, so that an answer belongs to the last message of its queue; the   *)
(* ones before it timed out or were aborted.                               *)
(***************************************************************************)
EXTENDS Naturals, Sequences, SequencesExt

CONSTANTS
  MaxRevisions,    \* bounds the views the authority sink is given
  MaxConnections,  \* bounds the connections the broker makes
  MaxTimeouts      \* bounds the requests that time out

ASSUME BrokerAssumption == MaxRevisions \in Nat /\ MaxConnections \in Nat /\ MaxTimeouts \in Nat

VARIABLES
  authority,   \* the revision of the view, and the subsystem's generation in it (0: no entry)
  runtime,     \* "launching", "ready" (its provisioner is registered), "terminated"
  connection,  \* the entry of `cleanup` or `current`
  made,        \* how many connections were made
  drain,       \* what the drain awaits; "idle", "reconcile" (runs on), "shut" (close() is over)
  failed,      \* the rollback or revocation under way fails at its end
  dirty, retry, closed, shutting,
  answer,      \* to the request awaited: "none", "ok", "refused" by the endpoint, "failed"
  port,        \* the messages on their way to each endpoint
  slot,        \* the connection each endpoint holds, 0 for none
  windowCurrent,  \* the window runs this session
  timeouts

brokerState == <<authority, runtime, connection, made, drain, failed, dirty, retry, closed, shutting, answer>>
brokerVars == <<brokerState, port, slot, windowCurrent, timeouts>>

Endpoints == {"runner", "window"}
NoConnection == [id |-> 0, rev |-> 0, gen |-> 0, stage |-> "none", revoked |-> {}]
AwaitedEnd == CASE drain \in {"install runner", "revoke runner"} -> "runner"
             [] drain \in {"install window", "revoke window"} -> "window"
             [] OTHER -> "nobody"
AwaitsInstall == drain \in {"install runner", "install window"}
Revoking == drain \in {"revoke runner", "revoke window"}
Desired == ~closed /\ authority.gen # 0 /\ runtime # "terminated"

InitBroker ==
  /\ authority = [rev |-> 0, gen |-> 0] /\ runtime = "launching"
  /\ connection = NoConnection /\ made = 0
  /\ drain = "idle" /\ failed = FALSE /\ dirty = FALSE /\ retry = FALSE
  /\ closed = FALSE /\ shutting = FALSE /\ answer = "none"
  /\ port = [e \in Endpoints |-> <<>>] /\ slot = [e \in Endpoints |-> 0]
  /\ windowCurrent = TRUE /\ timeouts = 0

----------------------------------------------------------------------------
(* What the broker is told.                                                *)

\* schedule() with the retry timer cancelled.
Schedule == dirty' = TRUE /\ retry' = FALSE

\* The operation under way is aborted: the installation awaited fails at once.
AbortRequest == answer' = IF AwaitsInstall /\ answer = "none" THEN "failed" ELSE answer

\* sink.replace: the same generation again, a new one, or none.
Replace(gen) ==
  /\ ~closed /\ authority.rev < MaxRevisions
  /\ gen \in {0, authority.gen, authority.rev + 1}
  /\ authority' = [rev |-> authority.rev + 1, gen |-> gen]
  /\ AbortRequest /\ Schedule
  /\ UNCHANGED <<runtime, connection, made, drain, failed, closed, shutting, port, slot, windowCurrent, timeouts>>

RegisterProvisioner ==
  /\ runtime = "launching" /\ ~closed
  /\ runtime' = "ready" /\ Schedule
  /\ UNCHANGED <<authority, connection, made, drain, failed, closed, shutting, answer, port, slot,
                 windowCurrent, timeouts>>

\* The worker is terminated and its provisioner closed; the broker hears of both.
ProvisionerTerminal ==
  /\ runtime = "ready"
  /\ runtime' = "terminated"
  /\ answer' = IF (AwaitsInstall \/ AwaitedEnd = "runner") /\ answer = "none" THEN "failed" ELSE answer
  /\ port' = [port EXCEPT !["runner"] = <<>>] /\ slot' = [slot EXCEPT !["runner"] = 0]
  /\ dirty' = (dirty \/ ~closed)
  /\ UNCHANGED <<authority, connection, made, drain, failed, retry, closed, shutting, windowCurrent, timeouts>>

Close ==
  /\ ~closed
  /\ closed' = TRUE /\ authority' = [rev |-> authority.rev + 1, gen |-> 0]
  /\ AbortRequest /\ retry' = FALSE
  /\ UNCHANGED <<runtime, connection, made, drain, failed, dirty, shutting, port, slot, windowCurrent, timeouts>>

----------------------------------------------------------------------------
(* The drain.                                                              *)

Send(end, kind) ==
  /\ port' = [port EXCEPT ![end] = Append(@, [kind |-> kind, id |-> connection'.id])]
  /\ answer' = "none"

\* The drain begins, by itself or with the retry timer.
Begin ==
  /\ drain = "idle" /\ ~closed /\ (dirty \/ retry)
  /\ dirty' = FALSE /\ retry' = (retry /\ dirty)
  /\ drain' = "reconcile" /\ failed' = FALSE
  /\ UNCHANGED <<authority, runtime, connection, made, closed, shutting, answer, port, slot, windowCurrent,
                 timeouts>>

\* The connection is the one the authority asks for.
Kept == connection.stage = "committed" /\ Desired /\ authority.gen = connection.gen

\* rollback and revokeCurrent ask each endpoint that has not acknowledged yet, the Window
\* first; the provisioner of a terminated Runtime agrees to everything.
AskToRevoke(c, fails) ==
  LET owing == Endpoints \ c.revoked
      both == owing \ (IF runtime = "terminated" THEN {"runner"} ELSE {})
  IN /\ failed' = fails
     /\ connection' = IF "window" \in owing \/ both # {} THEN c ELSE [c EXCEPT !.revoked = Endpoints]
     /\ IF "window" \in owing THEN drain' = "revoke window" /\ Send("window", "revoke")
        ELSE IF both # {} THEN drain' = "revoke runner" /\ Send("runner", "revoke")
        ELSE drain' = "revoked" /\ answer' = "none" /\ UNCHANGED port

\* An entry is forgotten once both endpoints acknowledged.
Forget == connection.revoked = Endpoints

\* Who has acknowledged the revocation of a new connection, which neither endpoint has.
AcknowledgedAtFirst == {}

Reconcile ==
  /\ drain = "reconcile"
  /\ \/ /\ connection # NoConnection /\ ~Kept
        /\ AskToRevoke([connection EXCEPT !.stage = "revoking"], FALSE)
        /\ UNCHANGED made
     \/ /\ connection = NoConnection /\ Desired /\ runtime = "ready" /\ made < MaxConnections
        /\ made' = made + 1
        /\ connection' = [id |-> made + 1, rev |-> authority.rev, gen |-> authority.gen,
                          stage |-> "preparing", revoked |-> AcknowledgedAtFirst]
        /\ drain' = "install runner" /\ Send("runner", "install")
        /\ UNCHANGED failed
     \/ /\ Kept \/ (connection = NoConnection /\ ~(Desired /\ runtime = "ready" /\ made < MaxConnections))
        /\ drain' = "idle"
        /\ UNCHANGED <<connection, made, failed, answer, port>>
  /\ UNCHANGED <<authority, runtime, dirty, retry, closed, shutting, slot, windowCurrent, timeouts>>

\* operationStillDesired.
StillDesired == Desired /\ connection.rev = authority.rev /\ runtime = "ready"

\* An installation was answered: the next endpoint, the commit, or the rollback.
Installed ==
  /\ AwaitsInstall /\ answer # "none"
  /\ IF answer = "ok" /\ StillDesired
     THEN IF drain = "install runner"
          THEN connection' = connection /\ drain' = "install window" /\ Send("window", "install")
          ELSE connection' = [connection EXCEPT !.stage = "committed", !.revoked = {}]
               /\ drain' = "idle" /\ answer' = "none" /\ UNCHANGED port
     ELSE AskToRevoke([connection EXCEPT !.stage = "revoking"], TRUE)
  /\ (answer = "ok" /\ StillDesired => UNCHANGED failed)
  /\ UNCHANGED <<authority, runtime, made, dirty, retry, closed, shutting, slot, windowCurrent, timeouts>>

\* A revocation was answered: after the Window the Runner, whatever the Window said.
Revoked ==
  /\ Revoking /\ answer # "none"
  /\ LET acked == connection.revoked \union (IF answer = "ok" THEN {AwaitedEnd} ELSE {})
         bad == failed \/ answer # "ok"
         last == AwaitedEnd = "runner" \/ "runner" \in acked
     IN /\ failed' = bad
        /\ IF last \/ runtime = "terminated"
           THEN /\ connection' = [connection EXCEPT
                     !.revoked = acked \union (IF last THEN {} ELSE {"runner"})]
                /\ drain' = "revoked" /\ answer' = "none" /\ UNCHANGED port
           ELSE /\ connection' = [connection EXCEPT !.revoked = acked]
                /\ drain' = "revoke runner" /\ Send("runner", "revoke")
  /\ UNCHANGED <<authority, runtime, made, dirty, retry, closed, shutting, slot, windowCurrent, timeouts>>

\* Seeded bug: a drain that threw waits for the next change.
RearmNever == retry
\* A throw arms the retry timer unless there is something new to do.
Rearm == retry \/ (failed /\ ~dirty /\ ~closed)

\* The rollback or revocation is over: reconcile runs on or throws.
RevocationEnds ==
  /\ drain = "revoked"
  /\ connection' = IF Forget \/ shutting THEN NoConnection ELSE connection
  /\ drain' = IF shutting THEN "shut" ELSE IF failed THEN "idle" ELSE "reconcile"
  /\ retry' = Rearm
  /\ UNCHANGED <<authority, runtime, made, failed, dirty, closed, shutting, answer, port, slot, windowCurrent,
                 timeouts>>

\* close() waits for the drain, then revokes what is left.
MayShut == closed /\ drain = "idle"

Shutdown ==
  /\ MayShut /\ ~shutting
  /\ shutting' = TRUE
  /\ IF connection = NoConnection
     THEN drain' = "shut" /\ UNCHANGED <<connection, failed, answer, port>>
     ELSE AskToRevoke([connection EXCEPT !.stage = "revoking"], FALSE)
  /\ UNCHANGED <<authority, runtime, made, dirty, retry, closed, slot, windowCurrent, timeouts>>

\* Ten seconds passed; the message itself is still on its way.
Timeout ==
  /\ timeouts < MaxTimeouts /\ AwaitedEnd \in Endpoints
  /\ port[AwaitedEnd] # <<>> /\ answer = "none"
  /\ timeouts' = timeouts + 1 /\ answer' = "failed"
  /\ UNCHANGED <<authority, runtime, connection, made, drain, failed, dirty, retry, closed, shutting,
                 port, slot, windowCurrent>>

----------------------------------------------------------------------------
(* The endpoints: RunnerDataBinding and the window's bridge with           *)
(* PwaRendererDataBinding.                                                 *)

\* An endpoint takes an installation only into a free slot.
Accepts(e) == slot[e] = 0 /\ (e = "window" => windowCurrent)

\* An answer is told by its request: that of the message sent last.
AnswersAwaited(e) == Tail(port[e]) = <<>>

Handle(e) ==
  /\ port[e] # <<>>
  /\ LET m == Head(port[e])
         accepted == m.kind = "revoke" \/ Accepts(e)
     IN /\ slot' = [slot EXCEPT ![e] = IF m.kind = "install" THEN (IF accepted THEN m.id ELSE @)
                                       ELSE IF @ = m.id THEN 0 ELSE @]
        /\ port' = [port EXCEPT ![e] = Tail(@)]
        /\ answer' = IF e = AwaitedEnd /\ answer = "none" /\ AnswersAwaited(e)
                     THEN (IF accepted THEN "ok" ELSE "refused") ELSE answer
  /\ UNCHANGED <<authority, runtime, connection, made, drain, failed, dirty, retry, closed, shutting,
                 windowCurrent, timeouts>>

\* The window stops this session; until the worker is gone it still answers.
WindowLeaves ==
  /\ windowCurrent /\ windowCurrent' = FALSE
  /\ UNCHANGED <<brokerState, port, slot, timeouts>>

NextBroker ==
  \/ \E gen \in 0 .. MaxRevisions : Replace(gen)
  \/ RegisterProvisioner \/ ProvisionerTerminal \/ Close
  \/ Begin \/ Reconcile \/ Installed \/ Revoked \/ RevocationEnds \/ Shutdown \/ Timeout
  \/ \E e \in Endpoints : Handle(e)
  \/ WindowLeaves

SpecBroker == InitBroker /\ [][NextBroker]_brokerVars

----------------------------------------------------------------------------

(* When nothing is under way and no retry is pending, the subsystem has    *)
(* the connection the authority asks for, or none if it asks for none:     *)
(* no view that arrived during a drain was overlooked.                     *)
QuietMeansSettled ==
  drain = "idle" /\ ~dirty /\ ~retry /\ ~closed =>
    IF Desired /\ runtime = "ready" /\ made < MaxConnections
    THEN Kept ELSE connection = NoConnection \/ Kept
============================================================================
