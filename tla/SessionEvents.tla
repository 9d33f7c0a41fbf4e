---------------------------- MODULE SessionEvents ----------------------------
(***************************************************************************)
(* Session Events: the Hub of a session, and a Runtime's client that       *)
(* publishes and subscribes through a carrier it may lose, close and        *)
(* replace.  Between the author and the Hub stand the client's handle, the *)
(* carrier binding and its delivery queue, the carrier, the server of the   *)
(* carrier and the Hub's delivery queue.                                    *)
(*                                                                         *)
(* One channel: every subscription is a recipient of every event.           *)
(***************************************************************************)
EXTENDS Naturals, Sequences, FiniteSets, SequencesExt

CONSTANTS MaxBindings,       \* bound: carriers attached one after another
          MaxSubscriptions,  \* bound: subscribe() calls
          MaxPublishes,      \* bound: publish() calls of the client
          MaxEvents,         \* bound: events routed before the Host publishes no more
          QueueLimit,        \* events waiting in one delivery (64 in the code)
          SubscriptionLimit, \* live subscriptions of a client (64)
          PendingLimit       \* requests without an answer (256)

ASSUME SessionEventsAssumption ==
    /\ {MaxBindings, MaxSubscriptions, MaxPublishes, MaxEvents} \subseteq Nat
    /\ {QueueLimit, SubscriptionLimit, PendingLimit} \subseteq Nat \ {0}

VARIABLES client,  \* ReplaceableSessionEventClient: its binding, whether it ended
          hub,     \* SessionEventHub: whether it ended, and the events it routed
          conn,    \* a carrier, and the server that reads it
          bind,    \* the carrier binding at the client's end
          sub,     \* a subscription, at each of its four places
          pub      \* a publish() of the client and its outcome

eventsVars == <<client, hub, conn, bind, sub, pub>>

None == 0
Host == 0                    \* the publisher of a delegated or lifecycle event
CarrierBindings == 1 .. MaxBindings
Subscriptions == 1 .. MaxSubscriptions
Publishes == 1 .. MaxPublishes

InitEvents ==
    /\ client = [current |-> None, attached |-> 0, terminal |-> FALSE]
    /\ hub = [terminal |-> FALSE, log |-> <<>>]
    /\ conn = [g \in CarrierBindings |-> [up |-> <<>>, down |-> <<>>, cut |-> FALSE,
                                   serving |-> FALSE, installing |-> None]]
    /\ bind = [g \in CarrierBindings |-> [live |-> FALSE, pending |-> {}]]
    /\ sub = [s \in Subscriptions |->
                [gen |-> None, handle |-> "none", remote |-> "none", remoteQueue |-> <<>>,
                 hub |-> "none", hubQueue |-> <<>>, start |-> 0, got |-> <<>>]]
    /\ pub = [p \in Publishes |-> [gen |-> None, outcome |-> "none"]]

Of(g) == {s \in Subscriptions : sub[s].gen = g}

-----------------------------------------------------------------------------
(***************************************************************************)
(* The Hub's deliveries.  All of these give a new sub function; what is     *)
(* "hidden" is installed and not yet revealed.                              *)
(***************************************************************************)
Installed == {s \in Subscriptions : sub[s].hub \in {"hidden", "live"}}

HubClosed(x) == [x EXCEPT !.hub = "closed", !.hubQueue = <<>>]

\* Seeded bug: an event that does not fit is dropped.
EnqueueOrDrop(x, e) == IF Len(x.hubQueue) >= QueueLimit THEN x
                       ELSE [x EXCEPT !.hubQueue = Append(@, e)]

\* enqueue(): an event that does not fit ends the subscription.
Enqueue(x, e) == IF Len(x.hubQueue) >= QueueLimit THEN HubClosed(x)
                 ELSE [x EXCEPT !.hubQueue = Append(@, e)]

\* The server of a carrier tells the other end of a subscription that ended,
\* once it holds it.
TerminalsOf(S, g) == SetToSeq({<<"terminal", s>> : s \in {t \in S : sub[t].gen = g}})
Told(S) == [g \in CarrierBindings |->
              IF conn[g].serving THEN [conn[g] EXCEPT !.down = @ \o TerminalsOf(S, g)] ELSE conn[g]]

\* route(): to every recipient installed now.
Routed(e) == [s \in Subscriptions |-> IF s \in Installed THEN Enqueue(sub[s], e) ELSE sub[s]]
Overflown(e) == {s \in Installed : sub[s].hub = "live" /\ Routed(e)[s].hub = "closed"}
NextEvent == Len(hub.log) + 1

\* A delegated publisher, or the Host lifecycle.
HostPublishes ==
    /\ ~hub.terminal /\ Len(hub.log) < MaxEvents
    /\ hub' = [hub EXCEPT !.log = Append(@, Host)]
    /\ sub' = Routed(NextEvent)
    /\ conn' = Told(Overflown(NextEvent))
    /\ UNCHANGED <<client, bind, pub>>

\* selfTerminal(): every binding, and so every subscription.
HubEnds ==
    /\ ~hub.terminal
    /\ hub' = [hub EXCEPT !.terminal = TRUE]
    /\ sub' = [s \in Subscriptions |-> IF s \in Installed THEN HubClosed(sub[s]) ELSE sub[s]]
    /\ conn' = Told({s \in Installed : sub[s].hub = "live"})
    /\ UNCHANGED <<client, bind, pub>>

\* drain() of the Hub, whose listener sends to the carrier.
HubDelivers(s) ==
    /\ sub[s].hub = "live" /\ sub[s].hubQueue # <<>>
    /\ sub' = [sub EXCEPT ![s].hubQueue = Tail(@)]
    /\ conn' = [conn EXCEPT ![sub[s].gen].down = Append(@, <<"event", s, Head(sub[s].hubQueue)>>)]
    /\ UNCHANGED <<client, hub, bind, pub>>

-----------------------------------------------------------------------------
(***************************************************************************)
(* The server: one request at a time.                                      *)
(***************************************************************************)
Answer(c, kind, x, ok) == [c EXCEPT !.down = Append(@, <<kind, x, ok>>)]
Request(g, kind) ==
    conn[g].serving /\ conn[g].installing = None /\ conn[g].up # <<>> /\ Head(conn[g].up)[1] = kind
Taken(c) == [c EXCEPT !.up = Tail(@)]

ServePublish(g) ==
    LET p == Head(conn[g].up)[2]
    IN  /\ Request(g, "publish")
        /\ IF hub.terminal
           THEN /\ conn' = [conn EXCEPT ![g] = Answer(Taken(@), "published", p, FALSE)]
                /\ UNCHANGED <<hub, sub>>
           ELSE /\ conn' = [Told(Overflown(NextEvent)) EXCEPT
                              ![g] = Answer(Taken(@), "published", p, TRUE)]
                /\ hub' = [hub EXCEPT !.log = Append(@, p)]
                /\ sub' = Routed(NextEvent)
        /\ UNCHANGED <<client, bind, pub>>

\* Hub.subscribe(), up to its checkpoint: installed, not revealed.
ServeSubscribe(g) ==
    LET s == Head(conn[g].up)[2]
    IN  /\ Request(g, "subscribe")
        /\ IF hub.terminal \/ Cardinality(Of(g) \cap Installed) >= SubscriptionLimit
           THEN /\ conn' = [conn EXCEPT ![g] = Answer(Taken(@), "subscribed", s, FALSE)]
                /\ sub' = [sub EXCEPT ![s].hub = IF hub.terminal THEN "closed" ELSE "limit"]
           ELSE /\ conn' = [conn EXCEPT ![g] = [Taken(conn[g]) EXCEPT !.installing = s]]
                /\ sub' = [sub EXCEPT ![s].hub = "hidden", ![s].start = Len(hub.log)]
        /\ UNCHANGED <<client, hub, bind, pub>>

\* The checkpoint: a candidate that ended is refused, another is revealed.
Reveal(g) ==
    LET s == conn[g].installing
        live == sub[s].hub = "hidden"
    IN  /\ conn[g].serving /\ s # None
        /\ conn' = [conn EXCEPT ![g] = Answer([@ EXCEPT !.installing = None], "subscribed", s, live)]
        /\ sub' = [sub EXCEPT ![s].hub = IF live THEN "live" ELSE @]
        /\ UNCHANGED <<client, hub, bind, pub>>

ServeUnsubscribe(g) ==
    LET s == Head(conn[g].up)[2]
    IN  /\ Request(g, "unsubscribe")
        /\ conn' = [conn EXCEPT ![g] = Answer(Taken(@), "unsubscribed", s, TRUE)]
        /\ sub' = [sub EXCEPT ![s] = HubClosed(@)]
        /\ UNCHANGED <<client, hub, bind, pub>>

\* shutdown(), when the carrier is closed: the Hub's binding ends.
ServerStops(g) ==
    /\ conn[g].serving /\ conn[g].cut
    /\ conn' = [conn EXCEPT ![g].serving = FALSE, ![g].installing = None, ![g].up = <<>>]
    /\ sub' = [s \in Subscriptions |-> IF s \in Of(g) \cap Installed THEN HubClosed(sub[s]) ELSE sub[s]]
    /\ UNCHANGED <<client, hub, bind, pub>>

-----------------------------------------------------------------------------
(***************************************************************************)
(* The carrier binding and the client.                                     *)
(***************************************************************************)
Asking == {"asking", "answered", "exposed"}
Slots == Cardinality({s \in Subscriptions : sub[s].handle \in Asking})   \* subscriptionSlots
Usable == client.current # None /\ ~client.terminal
Full(g) == Cardinality(bind[g].pending) >= PendingLimit

RemoteGone(x) == [x EXCEPT !.remote = "gone", !.remoteQueue = <<>>]

\* failClosed() of the current binding, with the client's bindingTerminated():
\* what it does to one subscription and to one publish.
Lost(x) == [(IF x.remote \in {"live", "retiring"} THEN RemoteGone(x) ELSE x) EXCEPT
              !.handle = IF @ = "exposed" THEN "closed" ELSE IF @ \in Asking THEN "failed" ELSE @]
\* Seeded bug: what was dispatched and not answered is reported as not accepted.
UnknownRefused(y, g) ==
    IF y.gen = g /\ y.outcome = "dispatched" THEN [y EXCEPT !.outcome = "refused"] ELSE y
Unknown(y, g) == IF y.gen = g /\ y.outcome = "dispatched" THEN [y EXCEPT !.outcome = "unknown"] ELSE y

Ended(g) == [bind EXCEPT ![g] = [live |-> FALSE, pending |-> {}]]
LostSubs(g) == [s \in Subscriptions |-> IF s \in Of(g) THEN Lost(sub[s]) ELSE sub[s]]
LostPubs(g) == [p \in Publishes |-> Unknown(pub[p], g)]
Unbound(g) == [client EXCEPT !.current = IF @ = g THEN None ELSE @]

LoseBinding(g) ==
    /\ bind' = Ended(g)
    /\ sub' = LostSubs(g)
    /\ pub' = LostPubs(g)
    /\ client' = Unbound(g)

AttachEvents ==
    /\ client.current = None /\ ~client.terminal /\ ~hub.terminal /\ client.attached < MaxBindings
    /\ LET g == client.attached + 1
       IN  /\ client' = [client EXCEPT !.current = g, !.attached = g]
           /\ bind' = [bind EXCEPT ![g].live = TRUE]
           /\ conn' = [conn EXCEPT ![g].serving = TRUE]
    /\ UNCHANGED <<hub, sub, pub>>

\* detach(), with which attach() begins, and terminate(): the binding is
\* closed, and its carrier.
DetachEvents(ends) ==
    /\ Usable
    /\ bind' = Ended(client.current)
    /\ sub' = LostSubs(client.current)
    /\ pub' = LostPubs(client.current)
    /\ client' = [client EXCEPT !.current = None, !.terminal = ends]
    /\ conn' = [conn EXCEPT ![client.current].cut = TRUE]
    /\ UNCHANGED hub

\* publish(): refused here when the table is full or the carrier fails.
Publish(p) ==
    LET g == client.current
        refused == [gen |-> g, outcome |-> "refused"]
    IN  /\ Usable /\ pub[p].outcome = "none"
        /\ \/ /\ Full(g)
              /\ pub' = [pub EXCEPT ![p] = refused]
              /\ UNCHANGED <<client, bind, sub, conn>>
           \/ /\ ~Full(g)
              /\ pub' = [pub EXCEPT ![p] = [gen |-> g, outcome |-> "dispatched"]]
              /\ bind' = [bind EXCEPT ![g].pending = @ \cup {<<"publish", p>>}]
              /\ conn' = [conn EXCEPT ![g].up = Append(@, <<"publish", p>>)]
              /\ UNCHANGED <<client, sub>>
           \/ /\ ~Full(g) /\ conn[g].cut
              /\ bind' = Ended(g)
              /\ sub' = LostSubs(g)
              /\ pub' = [LostPubs(g) EXCEPT ![p] = refused]
              /\ client' = Unbound(g)
              /\ UNCHANGED conn
        /\ UNCHANGED hub

\* subscribe()
Subscribe(s) ==
    LET g == client.current
    IN  /\ Usable /\ sub[s].gen = None /\ Slots < SubscriptionLimit
        /\ \A t \in 1 .. s - 1 : sub[t].gen # None   \* named in the order of the calls
        /\ sub' = [sub EXCEPT ![s].gen = g, ![s].handle = IF Full(g) THEN "failed" ELSE "asking"]
        /\ IF Full(g) THEN UNCHANGED <<bind, conn>>
           ELSE /\ bind' = [bind EXCEPT ![g].pending = @ \cup {<<"subscribe", s>>}]
                /\ conn' = [conn EXCEPT ![g].up = Append(@, <<"subscribe", s>>)]
        /\ UNCHANGED <<client, hub, pub>>

\* localClose(): the server is told, and the correlation waits for its answer.
\* A table that is full ends the whole binding.
Unsubscribe(s, x) ==
    LET g == sub[s].gen
        req == <<"unsubscribe", s>>
    IN  IF x.remote # "live" \/ ~bind[g].live
        THEN /\ sub' = [sub EXCEPT ![s] = x]
             /\ UNCHANGED <<client, bind, conn, pub>>
        ELSE IF Full(g)
        THEN /\ bind' = Ended(g)
             /\ sub' = [LostSubs(g) EXCEPT ![s] = RemoteGone(x)]
             /\ pub' = LostPubs(g)
             /\ client' = Unbound(g)
             /\ UNCHANGED conn
        ELSE /\ sub' = [sub EXCEPT ![s] = [x EXCEPT !.remote = "retiring", !.remoteQueue = <<>>]]
             /\ bind' = [bind EXCEPT ![g].pending = @ \cup {req}]
             /\ conn' = [conn EXCEPT ![g].up = Append(@, req)]
             /\ UNCHANGED <<client, pub>>

\* The author closes the handle.
Close(s) ==
    /\ sub[s].handle = "exposed"
    /\ Unsubscribe(s, [sub[s] EXCEPT !.handle = "closed"])
    /\ UNCHANGED hub

\* The carrier is lost.
CarrierLost(g) ==
    /\ conn[g].serving /\ ~conn[g].cut
    /\ conn' = [conn EXCEPT ![g].cut = TRUE]
    /\ UNCHANGED <<client, hub, bind, sub, pub>>

ClientSeesLoss(g) ==
    /\ bind[g].live /\ conn[g].cut
    /\ LoseBinding(g)
    /\ UNCHANGED <<hub, conn>>

-----------------------------------------------------------------------------
(***************************************************************************)
(* What the client reads.                                                  *)
(***************************************************************************)
Answered(g, kind, x) == [bind EXCEPT ![g].pending = @ \ {<<kind, x>>}]
Arrived(g, kind) == bind[g].live /\ conn[g].down # <<>> /\ Head(conn[g].down)[1] = kind
Drop(g) == conn' = [conn EXCEPT ![g].down = Tail(@)]

ReadPublished(g) ==
    LET m == Head(conn[g].down)
    IN  /\ Arrived(g, "published")
        /\ bind' = Answered(g, "publish", m[2])
        /\ pub' = [pub EXCEPT ![m[2]].outcome = IF m[3] THEN "fulfilled" ELSE "refused"]
        /\ Drop(g)
        /\ UNCHANGED <<client, hub, sub>>

\* The binding has its delivery; the author does not have the handle yet.
ReadSubscribed(g) ==
    LET m == Head(conn[g].down)
    IN  /\ Arrived(g, "subscribed")
        /\ bind' = Answered(g, "subscribe", m[2])
        /\ sub' = [sub EXCEPT ![m[2]].handle = IF m[3] THEN "answered" ELSE "failed",
                              ![m[2]].remote = IF m[3] THEN "live" ELSE @]
        /\ Drop(g)
        /\ UNCHANGED <<client, hub, pub>>

ReadUnsubscribed(g) ==
    LET s == Head(conn[g].down)[2]
    IN  /\ Arrived(g, "unsubscribed")
        /\ bind' = Answered(g, "unsubscribe", s)
        /\ sub' = [sub EXCEPT ![s] = RemoteGone(@)]
        /\ Drop(g)
        /\ UNCHANGED <<client, hub, pub>>

\* What the wrapper sees of the end of its delivery.
HandleEnds(x) == [x EXCEPT !.handle = IF @ = "exposed" THEN "closed" ELSE @]

\* An event is queued; one that does not fit closes the delivery here and
\* unsubscribes it there.  One for a delivery that is gone is ignored.
ReadEvent(g) ==
    LET m == Head(conn[g].down)
        s == m[2]
        read == [conn EXCEPT ![g].down = Tail(@)]
        overflows == sub[s].remote = "live" /\ Len(sub[s].remoteQueue) >= QueueLimit
    IN  /\ Arrived(g, "event")
        /\ \/ /\ overflows /\ Full(g)
              /\ bind' = Ended(g)
              /\ sub' = [LostSubs(g) EXCEPT ![s] = RemoteGone(Lost(sub[s]))]
              /\ pub' = LostPubs(g)
              /\ client' = Unbound(g)
              /\ conn' = read
           \/ /\ overflows /\ ~Full(g)
              /\ bind' = [bind EXCEPT ![g].pending = @ \cup {<<"unsubscribe", s>>}]
              /\ sub' = [sub EXCEPT ![s] = [HandleEnds(@) EXCEPT !.remote = "retiring", !.remoteQueue = <<>>]]
              /\ conn' = [read EXCEPT ![g].up = Append(@, <<"unsubscribe", s>>)]
              /\ UNCHANGED <<client, pub>>
           \/ /\ ~overflows
              /\ sub' = [sub EXCEPT ![s].remoteQueue = IF sub[s].remote = "live" THEN Append(@, m[3]) ELSE @]
              /\ conn' = read
              /\ UNCHANGED <<client, bind, pub>>
        /\ UNCHANGED hub

ReadTerminal(g) ==
    LET s == Head(conn[g].down)[2]
    IN  /\ Arrived(g, "terminal")
        /\ sub' = [sub EXCEPT ![s] = IF @.remote = "live" THEN HandleEnds(RemoteGone(@)) ELSE RemoteGone(@)]
        /\ Drop(g)
        /\ UNCHANGED <<client, hub, bind, pub>>

\* A binding that ended while its carrier is open still reads it: an answer
\* to a request it has forgotten closes the carrier.
ReadOnDead(g) ==
    /\ ~bind[g].live /\ ~conn[g].cut /\ conn[g].down # <<>>
    /\ conn' = [conn EXCEPT ![g].down = Tail(@),
                            ![g].cut = Head(conn[g].down)[1] \notin {"event", "terminal"}]
    /\ UNCHANGED <<client, hub, bind, sub, pub>>

\* subscribe() goes on: the handle is returned.  Its race for an early end
\* always answers that there was none, so a delivery that has ended is
\* returned as a handle that is closed: "dead".
Establish(s) ==
    /\ sub[s].handle = "answered"
    /\ sub' = [sub EXCEPT ![s].handle = IF sub[s].remote = "live" THEN "exposed" ELSE "dead"]
    /\ UNCHANGED <<client, hub, conn, bind, pub>>

\* The listener runs.
Deliver(s) ==
    /\ sub[s].handle = "exposed" /\ sub[s].remoteQueue # <<>>
    /\ sub' = [sub EXCEPT ![s].got = Append(@, Head(sub[s].remoteQueue)), ![s].remoteQueue = Tail(@)]
    /\ UNCHANGED <<client, hub, conn, bind, pub>>

-----------------------------------------------------------------------------
System ==
    \/ \E g \in CarrierBindings :
         \/ ServePublish(g) \/ ServeSubscribe(g) \/ Reveal(g) \/ ServeUnsubscribe(g) \/ ServerStops(g)
         \/ ClientSeesLoss(g) \/ ReadPublished(g) \/ ReadSubscribed(g) \/ ReadUnsubscribed(g)
         \/ ReadEvent(g) \/ ReadTerminal(g) \/ ReadOnDead(g)
    \/ \E s \in Subscriptions : HubDelivers(s) \/ Establish(s) \/ Deliver(s)

NextEvents ==
    \/ System
    \/ HostPublishes \/ HubEnds \/ AttachEvents \/ DetachEvents(FALSE) \/ DetachEvents(TRUE)
    \/ \E p \in Publishes : Publish(p)
    \/ \E s \in Subscriptions : Subscribe(s) \/ Close(s)
    \/ \E g \in CarrierBindings : CarrierLost(g)

\* Timers run, promises go on, and a carrier delivers or is seen to be closed.
EventsFairness == WF_eventsVars(System)

SpecEvents == InitEvents /\ [][NextEvents]_eventsVars /\ EventsFairness

-----------------------------------------------------------------------------
Events == 1 .. MaxEvents + MaxPublishes

EventsTypeOK ==
    /\ client \in [current : CarrierBindings \cup {None}, attached : 0 .. MaxBindings, terminal : BOOLEAN]
    /\ hub.terminal \in BOOLEAN /\ ToSet(hub.log) \subseteq Publishes \cup {Host}
    /\ \A g \in CarrierBindings : /\ Cardinality(bind[g].pending) <= PendingLimit
                           /\ bind[g].live => client.current = g
    /\ \A s \in Subscriptions :
         /\ sub[s].handle \in Asking \cup {"none", "closed", "failed", "dead"}
         /\ sub[s].remote \in {"none", "live", "retiring", "gone"}
         /\ sub[s].hub \in {"none", "hidden", "live", "closed", "limit"}
         /\ Len(sub[s].hubQueue) <= QueueLimit /\ Len(sub[s].remoteQueue) <= QueueLimit
    /\ \A p \in Publishes : pub[p].outcome \in {"none", "dispatched", "fulfilled", "refused", "unknown"}

Routings(p) == Cardinality({i \in DOMAIN hub.log : hub.log[i] = p})

\* What publish() answers is true whatever was lost: fulfilled was routed,
\* a refusal was not and will not be, and nothing is ever routed twice.  Only
\* an unknown outcome may be either.
HonestOutcome ==
    \A p \in Publishes :
        /\ pub[p].outcome = "fulfilled" => Routings(p) = 1
        /\ pub[p].outcome \in {"none", "refused"} => Routings(p) = 0
        /\ Routings(p) <= 1

\* A subscription that stays open gets every event there is.
Arrives ==
    []<>(\A s \in Subscriptions :
            sub[s].handle = "exposed" => Len(sub[s].got) = Len(hub.log) - sub[s].start)
=============================================================================
