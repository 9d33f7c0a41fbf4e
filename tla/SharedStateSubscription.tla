----------------------- MODULE SharedStateSubscription -----------------------
(***************************************************************************)
(* One Shared State subscription, from the Authority to the listener of a  *)
(* Subsystem (packages/shared-state/src): the Authority's commits and its  *)
(* delivery lane (authority.ts), the carrier server and the carrier        *)
(* binding that correlate it over one connection (carrier.ts), the         *)
(* binding's own delivery lane, and the wrapper of the replaceable client  *)
(* (client.ts).  The two lanes are those of module SharedStateDelivery.    *)
(*                                                                         *)
(* The server's outbound lane (framing.ts) sends one message at a time;    *)
(* an event counts as delivered once the carrier has accepted it.  The     *)
(* carrier is external: it keeps order, may be lost with any suffix of     *)
(* what it had accepted, and what the receiver had buffered by then is     *)
(* still read.  A send is accepted before an answer to it is handled.      *)
(* The limits of the carrier (1024 requests, 256 messages) are not met.    *)
(*                                                                         *)
(* Timers, messages and settled promises are steps of their own; a chain   *)
(* of promise continuations that waits for nothing is one step, except     *)
(* that other microtasks may run before the one bindingLost queues.        *)
(***************************************************************************)
EXTENDS SharedStateDelivery

CONSTANT MaxRevision    \* bound on the commits of one behaviour

ASSUME MaxRevisionAssumption == MaxRevision \in Nat

VARIABLES
    revision,           \* SharedStateAuthority.revisionValue
    relevant,           \* history: the revisions that wrote a subscribed key
    authorityTerminal,  \* SharedStateAuthority.terminalValue
    observer,           \* the AuthoritySubscription, in the Authority's set while active
    serverHolds,        \* the carrier server's subscriptions map has it
    serverClosed,       \* the carrier server is closed
    serving,            \* its request loop runs
    out,                \* messages its outbound lane has yet to hand to the carrier
    link,               \* the connection is up
    down, up,           \* messages accepted by the carrier, not read yet
    bindingClosed,      \* the carrier binding is closed (and fenced by the client)
    correlation,        \* SubscriptionCorrelation.state, "none" before the response
    baselineSeen,       \* SubscriptionCorrelation.baselineSeen
    lastRevision,       \* SubscriptionCorrelation.lastRevision, 0 for -1
    corrupt,            \* history: the binding found its peer in breach of the protocol
    delivery,           \* SubscriptionCorrelation.delivery
    wrapper,            \* the ClientSubscription: "none", subscribe() "awaiting",
                        \* "active", "inactive", or subscribe() "failed"
    lossQueued,         \* the microtask of bindingLost has yet to run
    closeReturned,      \* history: the caller's close() has returned
    seen                \* history: the events the caller's listener was given

authorityVars == <<revision, relevant, authorityTerminal>>
serverVars == <<serverHolds, serverClosed, serving>>
wireVars == <<out, link, down, up>>
correlationVars == <<correlation, baselineSeen, lastRevision>>
bindingVars == <<bindingClosed, correlationVars, corrupt>>
clientVars == <<delivery, wrapper, lossQueued, closeReturned, seen>>
vars == <<authorityVars, observer, serverVars, wireVars, bindingVars, clientVars>>

\* Responses are "subscribed", "failure", "unsubscribed"; the rest are events.
Responses == {"subscribed", "failure", "unsubscribed"}
Messages == [type : Responses, revision : {0}] \cup Events
Response(type) == [type |-> type, revision |-> 0]
IsResponse(m) == m.type \in Responses

----------------------------------------------------------------------------
Inactive == Close(Fresh)

Init ==
    /\ revision = 0 /\ relevant = {} /\ authorityTerminal = FALSE
    /\ observer = Inactive
    /\ serverHolds = FALSE /\ serverClosed = FALSE /\ serving = TRUE
    /\ out = <<>> /\ link = TRUE /\ down = <<>> /\ up = <<>>
    /\ bindingClosed = FALSE
    /\ correlation = "none" /\ baselineSeen = FALSE /\ lastRevision = 0 /\ corrupt = FALSE
    /\ delivery = Inactive
    /\ wrapper = "none" /\ lossQueued = FALSE /\ closeReturned = FALSE /\ seen = <<>>

----------------------------------------------------------------------------
\* Authority

\* A commit that passed its conditions, by any client of the Authority.
Commit(relevantToUs) ==
    /\ ~authorityTerminal /\ revision < MaxRevision
    /\ revision' = revision + 1
    /\ IF relevantToUs
       THEN /\ relevant' = relevant \cup {revision'}
            /\ observer' = Enqueue(observer, Event("change", revision'))
       ELSE UNCHANGED <<relevant, observer>>
    /\ UNCHANGED <<authorityTerminal, serverVars, wireVars, bindingVars, clientVars>>

\* terminate(), and reportFatal()
AuthorityTerminates ==
    /\ ~authorityTerminal
    /\ authorityTerminal' = TRUE
    /\ observer' = Enqueue(observer, Terminal("authority-terminal"))
    /\ UNCHANGED <<revision, relevant, serverVars, wireVars, bindingVars, clientVars>>

----------------------------------------------------------------------------
\* Carrier server

\* The server's listener is given the event that lane l is about to deliver:
\* it queues the message, and its promise stays pending until that is sent.
Observe(l, o) ==
    /\ observer' = l
    /\ out' = IF Delivering(l) /\ link /\ ~serverClosed THEN Append(o, l.busy) ELSE o

ObserverTimer ==
    /\ observer.scheduled
    /\ Observe(Fire(observer), out)
    /\ UNCHANGED <<authorityVars, serverVars, link, down, up, bindingVars, clientVars>>

\* The listener of a closed server returns at once; on a dead carrier the send
\* is rejected, which the drain takes for the end of the callback as well.
EventDropped ==
    /\ Delivering(observer)
    /\ \A i \in 1..Len(out) : IsResponse(out[i])
    /\ Observe(Settled(observer), out)
    /\ UNCHANGED <<authorityVars, serverVars, link, down, up, bindingVars, clientVars>>

\* The carrier accepts the message at the head of the outbound lane.
CarrierAccepts ==
    /\ link /\ out # <<>>
    /\ down' = Append(down, Head(out))
    /\ IF IsResponse(Head(out))
       THEN out' = Tail(out) /\ UNCHANGED <<observer, serverHolds>>
       ELSE /\ Observe(Settled(observer), Tail(out))
            /\ serverHolds' = (serverHolds /\ ~IsTerminal(Head(out)))
    /\ UNCHANGED <<authorityVars, serverClosed, serving, link, up, bindingVars, clientVars>>

\* sendResponse; on a dead carrier it ends the request loop.
Respond(type) ==
    /\ out' = IF link THEN Append(out, Response(type)) ELSE out
    /\ serving' = link

Requested(method) ==
    /\ serving /\ up # <<>> /\ Head(up) = method
    /\ \A i \in 1..Len(out) : ~IsResponse(out[i])   \* awaits sendResponse
    /\ up' = Tail(up)

\* Seeded bug: the observer is registered, and its baseline captured later.
ServeSubscribeLateBaseline ==
    /\ Requested("subscribe")
    /\ IF authorityTerminal
       THEN Respond("failure") /\ UNCHANGED <<observer, serverHolds>>
       ELSE /\ observer' = Enqueue(Fresh, Event("baseline", IF relevant = {} THEN 0 ELSE revision - 1))
            /\ serverHolds' = TRUE
            /\ Respond("subscribed")
    /\ UNCHANGED <<authorityVars, serverClosed, link, down, bindingVars, clientVars>>

\* The request loop does not look at `closed`: a request that was buffered
\* when the server closed is served all the same.
ServeSubscribe ==
    /\ Requested("subscribe")
    /\ IF authorityTerminal
       THEN Respond("failure") /\ UNCHANGED <<observer, serverHolds>>
       ELSE /\ observer' = Enqueue(Fresh, Event("baseline", revision))
            /\ serverHolds' = TRUE
            /\ Respond("subscribed")
    /\ UNCHANGED <<authorityVars, serverClosed, link, down, bindingVars, clientVars>>

ServeUnsubscribe ==
    /\ Requested("unsubscribe")
    /\ observer' = IF serverHolds THEN Close(observer) ELSE observer
    /\ serverHolds' = FALSE
    /\ Respond("unsubscribed")
    /\ UNCHANGED <<authorityVars, serverClosed, link, down, bindingVars, clientVars>>

\* shutdown(), once the carrier is closed, by whoever closed it.
ServerShutdown ==
    /\ ~link /\ ~serverClosed
    /\ serverClosed' = TRUE
    /\ observer' = IF serverHolds THEN Close(observer) ELSE observer
    /\ serverHolds' = FALSE
    /\ UNCHANGED <<authorityVars, serving, wireVars, bindingVars, clientVars>>

\* The connection ends, on its own or because a side closes its carrier: of
\* what was accepted, each side still reads what it had received.
Disconnect ==
    /\ link' = FALSE
    /\ out' = <<>>
    /\ \E n \in 0..Len(down) : down' = SubSeq(down, 1, n)

LinkBreaks ==
    /\ link
    /\ Disconnect
    /\ \E n \in 0..Len(up) : up' = SubSeq(up, 1, n)
    /\ UNCHANGED <<authorityVars, observer, serverVars, bindingVars, clientVars>>

----------------------------------------------------------------------------
\* Carrier binding and replaceable client

\* request(); on a dead carrier the send is rejected, and the binding closes.
Request(method) == IF link THEN Append(up, method) ELSE up

\* subscribe(); without a usable binding it is refused at once.
Subscribe ==
    /\ wrapper = "none" /\ ~bindingClosed
    /\ wrapper' = "awaiting"
    /\ up' = Request("subscribe")
    /\ UNCHANGED <<authorityVars, observer, serverVars, out, link, down, bindingVars,
                   delivery, lossQueued, closeReturned, seen>>

\* Seeded bug: a subscription that is closed is forgotten at once.
BeginCloseForgets ==
    IF correlation = "active"
    THEN correlation' = "retired" /\ up' = Request("unsubscribe")
    ELSE UNCHANGED <<correlation, up>>

\* beginSubscriptionClose, for the reasons that leave the correlation active:
\* its own close and its own overflow.
BeginClose ==
    IF correlation = "active"
    THEN correlation' = "closing" /\ up' = Request("unsubscribe")
    ELSE UNCHANGED <<correlation, up>>

\* failClosed, and what the client does when its binding is terminal: the
\* binding-terminal that failClosed enqueues is overtaken by bindingLost, which
\* closes the lane and queues a binding-terminal of its own.
BindingLost(notify) ==
    /\ bindingClosed' = TRUE
    /\ correlation' = IF correlation = "none" THEN "none" ELSE "retired"
    /\ wrapper' = CASE wrapper = "awaiting" -> "failed"
                    [] wrapper = "active" -> "inactive"
                    [] OTHER -> wrapper
    /\ delivery' = Close(delivery)
    /\ lossQueued' = (notify /\ wrapper = "active")

\* The carrier is closed, and the binding notices.
BindingFails ==
    /\ ~link /\ ~bindingClosed
    /\ BindingLost(TRUE)
    /\ UNCHANGED <<authorityVars, observer, serverVars, wireVars, baselineSeen, lastRevision,
                   corrupt, closeReturned, seen>>

\* The owner of the client replaces the binding (detach) or ends the client
\* (terminate), which closes its subscriptions first, without a terminal.  The
\* unsubscribe that the close of the lane sends comes after carrier.close().
OwnerDetaches(terminate) ==
    /\ ~bindingClosed
    /\ BindingLost(~terminate)
    /\ Disconnect
    /\ \E n \in 0..Len(up) : up' = SubSeq(up, 1, n)
    /\ UNCHANGED <<authorityVars, observer, serverVars, baselineSeen, lastRevision, corrupt,
                   closeReturned, seen>>

\* The response to subscribe(): the correlation is set up in the decoder, and
\* the wrapper gets its handle in the continuations of that same message.
ReadSubscribed ==
    /\ correlation' = "active"
    /\ delivery' = Fresh
    /\ wrapper' = "active"
    /\ UNCHANGED <<baselineSeen, lastRevision, corrupt, bindingClosed, lossQueued>>

ReadFailure ==
    /\ wrapper' = "failed"
    /\ UNCHANGED <<bindingClosed, correlationVars, corrupt, delivery, lossQueued>>

\* The acknowledgement retires the tombstone.
ReadUnsubscribed ==
    /\ correlation' = "retired"
    /\ UNCHANGED <<bindingClosed, baselineSeen, lastRevision, corrupt, delivery, wrapper,
                   lossQueued>>

\* An event that no correlation awaits, or that is out of order, is corruption
\* of the protocol and ends the binding.
Impossible(e) ==
    \/ correlation \in {"none", "retired"}
    \/ e.type = "baseline" /\ baselineSeen
    \/ e.type = "change" /\ (~baselineSeen \/ e.revision <= lastRevision)

\* handleSubscriptionEvent: a tombstone keeps following the order of events.
HandleEvent(e) ==
    /\ baselineSeen' = (baselineSeen \/ e.type = "baseline")
    /\ lastRevision' = IF IsTerminal(e) THEN lastRevision ELSE e.revision
    /\ correlation' = IF IsTerminal(e) THEN "retired" ELSE correlation
    /\ delivery' = IF correlation = "active" THEN Enqueue(delivery, e) ELSE delivery

ReadEvent(e) ==
    IF Impossible(e)
    THEN /\ corrupt' = TRUE
         /\ BindingLost(TRUE)
         /\ UNCHANGED <<baselineSeen, lastRevision>>
    ELSE /\ HandleEvent(e)
         /\ UNCHANGED <<bindingClosed, corrupt, wrapper, lossQueued>>

\* The read loop of the binding.
BindingReads ==
    /\ ~bindingClosed /\ down # <<>>
    /\ down' = Tail(down)
    /\ LET m == Head(down) IN
        CASE m.type = "subscribed" -> ReadSubscribed
          [] m.type = "failure" -> ReadFailure
          [] m.type = "unsubscribed" -> ReadUnsubscribed
          [] OTHER -> ReadEvent(m)
    /\ UNCHANGED <<authorityVars, observer, serverVars, out, link, up, closeReturned, seen>>

\* The wrapper's listener is given the event that lane l is about to deliver.
\* After a terminal the wrapper closes itself, unless the caller's listener
\* has thrown: then the lane ends alone, and the wrapper stays active.
Deliver(l) ==
    IF ~Delivering(l)
    THEN delivery' = l /\ UNCHANGED <<correlation, up, wrapper, seen>>
    ELSE /\ seen' = IF wrapper = "active" THEN Append(seen, l.busy) ELSE seen
         /\ IF IsTerminal(l.busy)
            THEN /\ \/ delivery' = Settled(l) /\ UNCHANGED wrapper
                    \/ delivery' = Close(l) /\ wrapper' = "inactive"
                 /\ BeginClose
            ELSE delivery' = l /\ UNCHANGED <<correlation, up, wrapper>>

DeliveryTimer ==
    /\ delivery.scheduled
    /\ Deliver(Fire(delivery))
    /\ UNCHANGED <<authorityVars, observer, serverVars, out, link, down, bindingClosed,
                   baselineSeen, lastRevision, corrupt, lossQueued, closeReturned>>

\* The promise that the caller's listener returned settles.
ListenerSettles ==
    /\ Delivering(delivery)
    /\ Deliver(Settled(delivery))
    /\ UNCHANGED <<authorityVars, observer, serverVars, out, link, down, bindingClosed,
                   baselineSeen, lastRevision, corrupt, lossQueued, closeReturned>>

\* The caller closes the subscription whose handle it got, in its listener or
\* elsewhere; once the wrapper is inactive that does nothing.
CallerCloses ==
    /\ wrapper \in {"active", "inactive"}
    /\ closeReturned' = TRUE
    /\ wrapper' = "inactive"
    /\ IF wrapper = "active"
       THEN delivery' = Close(delivery) /\ BeginClose
       ELSE UNCHANGED <<delivery, correlation, up>>
    /\ UNCHANGED <<authorityVars, observer, serverVars, out, link, down, bindingClosed,
                   baselineSeen, lastRevision, corrupt, lossQueued, seen>>

\* The microtask of bindingLost, which looks at nothing.
ListenerLosesBinding ==
    /\ lossQueued
    /\ lossQueued' = FALSE
    /\ seen' = Append(seen, Terminal("binding-terminal"))
    /\ UNCHANGED <<authorityVars, observer, serverVars, wireVars, bindingVars, delivery, wrapper,
                   closeReturned>>

----------------------------------------------------------------------------
Server == ObserverTimer \/ EventDropped \/ CarrierAccepts \/ ServerShutdown
Serve == ServeSubscribe \/ ServeUnsubscribe
Binding == BindingFails \/ BindingReads \/ DeliveryTimer \/ ListenerLosesBinding

Next ==
    \/ \E relevantToUs \in BOOLEAN : Commit(relevantToUs)
    \/ AuthorityTerminates
    \/ Server
    \/ Serve
    \/ LinkBreaks
    \/ Subscribe
    \/ \E terminate \in BOOLEAN : OwnerDetaches(terminate)
    \/ Binding
    \/ ListenerSettles
    \/ CallerCloses

Spec == Init /\ [][Next]_vars

\* Timers fire, messages are read, the carrier accepts what it is given or
\* breaks, and the promises that the caller's listener returns settle.
Fairness ==
    /\ WF_vars(ObserverTimer)
    /\ WF_vars(EventDropped)
    /\ WF_vars(CarrierAccepts)
    /\ WF_vars(Serve)
    /\ WF_vars(BindingFails)
    /\ WF_vars(BindingReads)
    /\ WF_vars(DeliveryTimer)
    /\ WF_vars(ListenerSettles)

FairSpec == Spec /\ Fairness

----------------------------------------------------------------------------
TypeOK ==
    /\ revision \in 0..MaxRevision
    /\ relevant \subseteq 1..MaxRevision
    /\ authorityTerminal \in BOOLEAN
    /\ observer \in Lanes /\ delivery \in Lanes
    /\ serverHolds \in BOOLEAN /\ serverClosed \in BOOLEAN /\ serving \in BOOLEAN
    /\ out \in Seq(Messages) /\ down \in Seq(Messages)
    /\ up \in Seq({"subscribe", "unsubscribe"})
    /\ link \in BOOLEAN /\ bindingClosed \in BOOLEAN
    /\ correlation \in {"none", "active", "closing", "retired"}
    /\ baselineSeen \in BOOLEAN /\ lastRevision \in 0..MaxRevision /\ corrupt \in BOOLEAN
    /\ wrapper \in {"none", "awaiting", "active", "inactive", "failed"}
    /\ lossQueued \in BOOLEAN /\ closeReturned \in BOOLEAN
    /\ seen \in Seq(Events)

\* Both lanes count exactly what they have yet to deliver, never exceed the
\* limit, and are never stuck with events that nothing will deliver.
LanesSound == LaneSound(observer) /\ LaneSound(delivery)

\* The carrier server and the binding never accuse each other wrongly: however
\* close(), overflow, terminals and acknowledgements cross on the wire, no
\* event reaches a correlation that is gone, and none is out of order.
NeverCorrupt == ~corrupt

\* The listener's events are those of a subscription feed: the baseline, then
\* every relevant commit after it, in order and without a gap, then terminals.
Feed == INSTANCE SubscriptionFeed WITH feed <- seen
ImplementsFeed == Feed!Spec

\* A relevant commit reaches the listener, unless the subscription ends: by
\* its close, by the loss of its binding, or by a terminal the listener sees.
Given(r) == \E i \in 1..Len(seen) : seen[i].revision = r \/ IsTerminal(seen[i])
Owed(r) == wrapper = "active" /\ seen # <<>> /\ seen[1].revision < r /\ r \in relevant
ChangesArrive == \A r \in 1..MaxRevision : Owed(r) ~> (Given(r) \/ wrapper # "active")
=============================================================================
