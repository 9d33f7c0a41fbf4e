-------------------------- MODULE RenderPublication --------------------------
(***************************************************************************)
(* How a Subsystem's Render Domains reach the Renderer: the RenderManager   *)
(* of the Subsystem (its ordered publication queue, its carrier cursors and *)
(* the one send it waits for), the Data connection, which is lost and       *)
(* replaced, and the RendererRenderStore that outlives it.                  *)
(*                                                                         *)
(* A Domain's state is [z, nodes]: its zIndex and, for every live key, the  *)
(* value of its node; tags, attributes, data and tree position are the      *)
(* value.  Every author operation writes the number of the operation, so    *)
(* two states are never equal by accident and later is greater.            *)
(***************************************************************************)
EXTENDS Naturals, Sequences, FiniteSets, SequencesExt

CONSTANTS Keys,          \* the RenderNode keys
          MaxDomains,    \* bound: Domains ever created
          MaxOps,        \* bound: author operations
          MaxConnections,\* bound: Data connections ever made
          MaxGeneration, \* bound: Data generations
          MaxRevision    \* Number.MAX_SAFE_INTEGER

ASSUME RenderPublicationAssumption ==
    /\ {MaxDomains, MaxConnections, MaxGeneration, MaxRevision} \subseteq Nat \ {0}
    /\ MaxOps \in Nat

VARIABLES manager,      \* the RenderManager
          connection,   \* the Data connections, oldest first
          store,        \* generation -> the RendererRenderStore
          ops           \* author operations so far

vars == <<manager, connection, store, ops>>

Domains == 1 .. MaxDomains
None == [kind |-> "none"]

(***************************************************************************)
(* The values.                                                             *)
(***************************************************************************)
Contents == UNION {[S -> 0 .. MaxOps] : S \in SUBSET Keys}
Live(state) == DOMAIN state.nodes

\* A delta names what it sets: the zIndex or one key.
ApplyDelta(state, delta) ==
    IF delta.on = "z" THEN [state EXCEPT !.z = delta.value]
    ELSE [state EXCEPT !.nodes[delta.key] = delta.value]

(***************************************************************************)
(* The RenderManager.  Its operations are functions from a manager to a     *)
(* manager, because pump() and enqueueRegistry() call each other.  A queued *)
(* snapshot has coalescible = TRUE while coalescibleSnapshots holds it; the *)
(* queue's one registry item is pendingRegistry.  "sent" collects what one  *)
(* operation gives to the peer, "overlapped" counts the sends that a later  *)
(* one replaced as inFlight before they had settled.                        *)
(***************************************************************************)
Registry(m) == [kind |-> "registry",
                ids |-> [i \in DOMAIN m.domains |-> m.wire[m.domains[i]]]]
Snapshot(d, state) ==
    [kind |-> "snapshot", domain |-> d, state |-> state, coalescible |-> TRUE]

IsOpen(m, d) == \E i \in DOMAIN m.domains : m.domains[i] = d
Baselined(m, d) == m.cursor[d] # 0
Queued(m, P(_)) == \E i \in DOMAIN m.queue : P(m.queue[i])
Rewrite(m, P(_), new) ==
    [m EXCEPT !.queue = [i \in DOMAIN @ |-> IF P(@[i]) THEN new ELSE @[i]]]

\* materialize(): the message of a work item, against the cursor of now.
Materialize(m, w) ==
    CASE w.kind = "registry" -> [type |-> "domains", ids |-> w.ids]
      [] w.kind = "event" ->
            IF Baselined(m, w.domain)
            THEN [type |-> "event", id |-> m.wire[w.domain], key |-> w.key, at |-> w.at]
            ELSE None
      [] w.kind = "update" /\ Baselined(m, w.domain) ->
            [type |-> "patch", id |-> m.wire[w.domain], base |-> m.cursor[w.domain],
             revision |-> m.cursor[w.domain] + 1, delta |-> w.delta]
      [] OTHER ->
            [type |-> "snapshot", id |-> m.wire[w.domain],
             revision |-> m.cursor[w.domain] + 1, state |-> w.state]

StartSend(m, w, message) ==
    [m EXCEPT !.inFlight = [kind |-> w.kind, work |-> w, message |-> message],
              !.overlapped = IF m.inFlight = None THEN @ ELSE @ + 1,
              !.sent = Append(@, message)]

RECURSIVE Pump(_), Drain(_), EnqueueRegistry(_), EnqueueState(_, _, _)

\* pump(): one send at a time.
Pump(m) == IF m.peer = 0 \/ m.inFlight # None THEN m ELSE Drain(m)

\* At the last revision a Domain starts again under a fresh wire id.
RollOver(m, d) ==
    LET fresh == [m EXCEPT !.wire[d] = m.serial, !.serial = @ + 1,
                           !.consumed[d] = {}, !.cursor[d] = 0,
                           !.queue = SelectSeq(@, LAMBDA w :
                                        w.kind = "registry" \/ w.domain # d)]
    IN  EnqueueState(EnqueueRegistry(fresh), d, Snapshot(d, m.state[d]))

\* The loop of pump(): it does not look at inFlight again.
Drain(m) ==
    IF m.queue = <<>> THEN m
    ELSE LET w == Head(m.queue)
             n == [m EXCEPT !.queue = Tail(@)]
         IN  CASE w.kind # "registry" /\ ~IsOpen(m, w.domain) -> Drain(n)
               [] w.kind \in {"snapshot", "update"} /\ m.cursor[w.domain] = MaxRevision ->
                      Drain(RollOver(n, w.domain))
               [] Materialize(n, w) = None -> Drain(n)
               [] OTHER -> StartSend(n, w, Materialize(n, w))

EnqueueRegistry(m) ==
    IF m.peer = 0 THEN m
    ELSE IF Queued(m, LAMBDA w : w.kind = "registry")
         THEN Pump(Rewrite(m, LAMBDA w : w.kind = "registry", Registry(m)))
         ELSE Pump([m EXCEPT !.queue = Append(@, Registry(m))])

\* enqueueState(): a waiting snapshot absorbs the newer state.
EnqueueState(m, d, work) ==
    LET mine(w) == w.kind = "snapshot" /\ w.domain = d /\ w.coalescible
    IN  IF m.peer = 0 \/ ~IsOpen(m, d) THEN m
        ELSE IF Queued(m, mine)
             THEN Pump(Rewrite(m, mine, Snapshot(d, work.state)))
             ELSE Pump([m EXCEPT !.queue = Append(@,
                    IF Baselined(m, d) THEN work ELSE Snapshot(d, work.state))])

\* Seeded bug: an event is no barrier for the waiting snapshot.
StillCoalescible(m, d) == m

NoLongerCoalescible(m, d) ==
    [m EXCEPT !.queue = [i \in DOMAIN @ |->
        IF @[i].kind = "snapshot" /\ @[i].domain = d
        THEN [@[i] EXCEPT !.coalescible = FALSE] ELSE @[i]]]

\* Seeded bug: a new carrier also forgets which keys were consumed.
ForgetConsumed(m, p) ==
    [m EXCEPT !.peer = p, !.inFlight = None, !.overlapped = 0, !.queue = <<>>,
              !.cursor = [d \in Domains |-> 0], !.consumed = [d \in Domains |-> {}]]

\* resetQueue() with the cursors: what every change of peer forgets.
Forget(m, p) ==
    [m EXCEPT !.peer = p, !.inFlight = None, !.overlapped = 0,
              !.queue = <<>>, !.cursor = [d \in Domains |-> 0]]

\* setDataPeer(): a new generation renumbers the Domains from d1.
RECURSIVE EnqueueAll(_, _)
EnqueueAll(m, i) ==
    IF i > Len(m.domains) THEN m
    ELSE LET d == m.domains[i]
         IN  EnqueueAll(EnqueueState(m, d, Snapshot(d, m.state[d])), i + 1)

SetDataPeer(m, p) ==
    LET renumbered ==
            IF p = 0 \/ m.generation = connection[p].generation THEN m
            ELSE [m EXCEPT !.generation = connection[p].generation,
                           !.serial = Len(m.domains) + 1,
                           !.consumed = [d \in Domains |-> {}],
                           !.wire = [d \in Domains |->
                                IF IsOpen(m, d)
                                THEN CHOOSE i \in DOMAIN m.domains : m.domains[i] = d
                                ELSE @[d]]]
        forgotten == Forget(renumbered, IF m.closed THEN 0 ELSE p)
    IN  IF p = 0 \/ m.closed THEN Forget(m, 0)
        ELSE EnqueueAll(EnqueueRegistry(forgotten), 1)

(***************************************************************************)
(* The RendererRenderStore of one generation: it is kept when the carrier   *)
(* is lost, and remembers every retired Domain id and consumed key.  Each   *)
(* handler is a test that answers protocol-fatal, and its effect.           *)
(***************************************************************************)
EmptyReplica == [baselined |-> FALSE, revision |-> 0, state |-> [z |-> 0, nodes |-> <<>>]]
EmptyStore == [current |-> FALSE, registrySeen |-> FALSE, replicas |-> <<>>,
               retired |-> {}, live |-> <<>>, consumed |-> <<>>]
EmptyFunction == <<>>

LiveIds(s) == DOMAIN s.replicas

BeginCarrier(s) ==
    [s EXCEPT !.current = TRUE, !.registrySeen = FALSE,
              !.replicas = [id \in LiveIds(s) |->
                    [EmptyReplica EXCEPT !.state = s.replicas[id].state]]]

RetireCarrier(s) == [s EXCEPT !.current = FALSE, !.registrySeen = FALSE]

RefusesDomains(s, ids) == \E id \in ids : id \notin LiveIds(s) /\ id \in s.retired

OnDomains(s, ids) ==
    LET known(f, new) == [id \in DOMAIN f \cup ids |-> IF id \in DOMAIN f THEN f[id] ELSE new]
        carried(id) == IF id \notin LiveIds(s) THEN EmptyReplica
                       ELSE IF s.registrySeen THEN s.replicas[id]
                       ELSE [EmptyReplica EXCEPT !.state = s.replicas[id].state]
    IN  [s EXCEPT !.registrySeen = TRUE,
                  !.replicas = [id \in ids |-> carried(id)],
                  !.retired = @ \cup (LiveIds(s) \ ids),
                  !.live = known(@, {}), !.consumed = known(@, {})]

RefusesSnapshot(s, m) ==
    \/ ~s.registrySeen \/ m.id \notin LiveIds(s)
    \/ s.replicas[m.id].baselined /\ m.revision # s.replicas[m.id].revision + 1
    \/ Live(m.state) \cap s.consumed[m.id] # {}

OnSnapshot(s, m) ==
    [s EXCEPT !.replicas[m.id] = [baselined |-> TRUE, revision |-> m.revision, state |-> m.state],
              !.live[m.id] = Live(m.state),
              !.consumed[m.id] = @ \cup (s.live[m.id] \ Live(m.state))]

RefusesPatch(s, m) ==
    \/ ~s.registrySeen \/ m.id \notin LiveIds(s)
    \/ ~s.replicas[m.id].baselined
    \/ m.base # s.replicas[m.id].revision
    \/ m.delta.on = "key" /\ m.delta.key \notin Live(s.replicas[m.id].state)

OnPatch(s, m) ==
    [s EXCEPT !.replicas[m.id].revision = m.revision,
              !.replicas[m.id].state = ApplyDelta(@, m.delta)]

\* onEvent() never refuses: an event with no live target is dropped.
Applicable(s, m) ==
    /\ s.registrySeen /\ m.id \in LiveIds(s)
    /\ s.replicas[m.id].baselined /\ m.key \in s.live[m.id]

Refuses(s, m) ==
    /\ s.current
    /\ CASE m.type = "domains"  -> RefusesDomains(s, Range(m.ids))
         [] m.type = "snapshot" -> RefusesSnapshot(s, m)
         [] m.type = "patch"    -> RefusesPatch(s, m)
         [] OTHER               -> FALSE

Receive(s, m) ==
    IF ~s.current THEN s
    ELSE CASE m.type = "domains"  -> OnDomains(s, Range(m.ids))
           [] m.type = "snapshot" -> OnSnapshot(s, m)
           [] m.type = "patch"    -> OnPatch(s, m)
           [] OTHER               -> s

-----------------------------------------------------------------------------
\* One Domain was created before any connection.
Init ==
    /\ manager = [domains |-> <<1>>, created |-> 1, serial |-> 2, generation |-> 0,
                  wire |-> [d \in Domains |-> IF d = 1 THEN 1 ELSE 0],
                  state |-> [d \in Domains |->
                    [z |-> 0, nodes |-> IF d = 1 THEN [k \in Keys |-> 0] ELSE EmptyFunction]],
                  consumed |-> [d \in Domains |-> {}],
                  cursor |-> [d \in Domains |-> 0],
                  peer |-> 0, queue |-> <<>>, inFlight |-> None, overlapped |-> 0,
                  sent |-> <<>>, closed |-> FALSE]
    /\ connection = <<>>
    /\ store = [g \in 1 .. MaxGeneration |-> EmptyStore]
    /\ ops = 0

\* What an operation of the manager sends is on the carrier when it returns,
\* unless the carrier is gone, and then the send will fail.
Commit(result) ==
    \E m \in {result} :
        /\ manager' = [m EXCEPT !.sent = <<>>]
        /\ connection' = IF m.sent # <<>> /\ connection[m.peer].open
                         THEN [connection EXCEPT ![m.peer].text = @ \o m.sent]
                         ELSE connection

\* createDomain(): the Domain starts with some keys live.
CreateDomain ==
    /\ ~manager.closed /\ manager.created < MaxDomains /\ ops < MaxOps
    /\ \E keys \in SUBSET Keys :
        LET d == manager.created + 1
            state == [z |-> ops + 1, nodes |-> [k \in keys |-> ops + 1]]
            m == [manager EXCEPT !.domains = Append(@, d), !.created = d,
                                 !.wire[d] = manager.serial, !.serial = @ + 1,
                                 !.state[d] = state]
        IN  Commit(EnqueueState(EnqueueRegistry(m), d, Snapshot(d, state)))
    /\ ops' = ops + 1
    /\ UNCHANGED store

\* replace(): a removed key is consumed, and a consumed key is refused.
Replace(d) ==
    /\ IsOpen(manager, d) /\ ops < MaxOps
    /\ \E keys \in SUBSET Keys :
        LET state == [z |-> ops + 1, nodes |-> [k \in keys |-> ops + 1]]
            m == [manager EXCEPT !.state[d] = state,
                                 !.consumed[d] = @ \cup (Live(manager.state[d]) \ keys)]
        IN  /\ (keys \ Live(manager.state[d])) \cap manager.consumed[d] = {}
            /\ Commit(EnqueueState(m, d, Snapshot(d, state)))
    /\ ops' = ops + 1
    /\ UNCHANGED store

\* update(): a delta of one live node, or of the zIndex.
Update(d) ==
    /\ IsOpen(manager, d) /\ ops < MaxOps
    /\ \E delta \in {[on |-> "z", value |-> ops + 1]} \cup
                    {[on |-> "key", key |-> k, value |-> ops + 1] : k \in Live(manager.state[d])} :
        LET state == ApplyDelta(manager.state[d], delta)
        IN  Commit(EnqueueState([manager EXCEPT !.state[d] = state], d,
                [kind |-> "update", domain |-> d, state |-> state, delta |-> delta]))
    /\ ops' = ops + 1
    /\ UNCHANGED store

\* emit(): dropped without a peer, and a barrier for the waiting snapshot.
\* "at" remembers the state the author saw; the message does not carry it.
Emit(d) ==
    /\ IsOpen(manager, d) /\ ops < MaxOps
    /\ \E k \in Live(manager.state[d]) :
        LET work == [kind |-> "event", domain |-> d, key |-> k, at |-> manager.state[d]]
            m == NoLongerCoalescible(manager, d)
        IN  Commit(IF manager.peer = 0 THEN manager
                   ELSE Pump([m EXCEPT !.queue = Append(@, work)]))
    /\ ops' = ops + 1
    /\ UNCHANGED store

\* closeDomain().
CloseDomain(d) ==
    /\ IsOpen(manager, d) /\ ops < MaxOps
    /\ LET m == NoLongerCoalescible(manager, d)
       IN  Commit(EnqueueRegistry([m EXCEPT !.domains = Remove(@, d), !.cursor[d] = 0]))
    /\ ops' = ops + 1
    /\ UNCHANGED store

\* closeAll(): the Runtime ends.
CloseAll ==
    /\ ~manager.closed /\ ops < MaxOps
    /\ Commit(Forget([manager EXCEPT !.closed = TRUE, !.domains = <<>>], 0))
    /\ ops' = ops + 1
    /\ UNCHANGED store

\* Seeded bug: the queue is not pumped when a send has settled.
FinishSendOnly ==
    /\ manager.inFlight # None /\ connection[manager.peer].open
    /\ LET f == manager.inFlight
           m == [manager EXCEPT !.inFlight = None]
       IN  Commit(IF f.message.type \in {"snapshot", "patch"} /\ IsOpen(manager, f.work.domain)
                  THEN [m EXCEPT !.cursor[f.work.domain] = f.message.revision] ELSE m)
    /\ UNCHANGED <<store, ops>>

\* finishSend(sent = TRUE): the carrier took the message; the cursor advances.
FinishSend ==
    /\ manager.inFlight # None /\ connection[manager.peer].open
    /\ LET f == manager.inFlight
           m == [manager EXCEPT !.inFlight = None]
       IN  Commit(Pump(IF f.message.type \in {"snapshot", "patch"} /\ IsOpen(manager, f.work.domain)
                       THEN [m EXCEPT !.cursor[f.work.domain] = f.message.revision]
                       ELSE m))
    /\ UNCHANGED <<store, ops>>

\* finishSend(sent = FALSE): invalidateOldPeer().
FailSend ==
    /\ manager.inFlight # None /\ ~connection[manager.peer].open
    /\ manager' = Forget(manager, 0)
    /\ UNCHANGED <<connection, store, ops>>

(***************************************************************************)
(* The connections.  Each end takes a connection when it holds none and     *)
(* gives it up when it observes the loss; the two are not simultaneous.     *)
(***************************************************************************)
Newest == Len(connection)
Holding(end) == {c \in DOMAIN connection : connection[c][end] = "holds"}
StoreOf(c) == store[connection[c].generation]

\* What nobody will read any more.
Unread(c) == IF c.renderer = "waiting" THEN [c EXCEPT !.text = <<>>] ELSE c

Connect ==
    /\ Newest < MaxConnections
    /\ Newest > 0 => ~connection[Newest].open
    /\ \E g \in 1 .. MaxGeneration :
        /\ Newest > 0 => g >= connection[Newest].generation
        /\ connection' = Append([c \in DOMAIN connection |-> Unread(connection[c])],
                               [generation |-> g, open |-> TRUE, text |-> <<>>,
                                subsystem |-> "waiting", renderer |-> "waiting"])
    /\ UNCHANGED <<manager, store, ops>>

\* The carrier is lost; the last connection of the bound is not.
Lose(c) ==
    /\ connection[c].open /\ c < MaxConnections
    /\ connection' = [connection EXCEPT ![c].open = FALSE]
    /\ UNCHANGED <<manager, store, ops>>

\* SubsystemHost.installDataAcquire().
AttachSubsystem ==
    /\ Newest > 0 /\ Holding("subsystem") = {} /\ connection[Newest].subsystem = "waiting"
    /\ \E m \in {SetDataPeer(manager, Newest)},
          held \in {[connection EXCEPT ![Newest].subsystem = "holds"]} :
           /\ manager' = [m EXCEPT !.sent = <<>>]
           /\ connection' = IF held[Newest].open
                            THEN [held EXCEPT ![Newest].text = m.sent] ELSE held
    /\ UNCHANGED <<store, ops>>

\* The Subsystem host observes the end of its Data peer.
ReleaseSubsystem(c) ==
    /\ c \in Holding("subsystem") /\ ~connection[c].open
    /\ manager' = SetDataPeer(manager, 0)
    /\ connection' = [connection EXCEPT ![c].subsystem = "released"]
    /\ UNCHANGED <<store, ops>>

\* ControlHolder.installDataAcquire().
AttachRenderer ==
    /\ Newest > 0 /\ Holding("renderer") = {} /\ connection[Newest].renderer = "waiting"
    /\ connection' = [connection EXCEPT ![Newest].renderer = "holds"]
    /\ store' = [store EXCEPT ![connection[Newest].generation] = BeginCarrier(@)]
    /\ UNCHANGED <<manager, ops>>

\* The Renderer observes the end of its Data peer.
ReleaseRenderer(c) ==
    /\ c \in Holding("renderer") /\ ~connection[c].open
    /\ connection' = [connection EXCEPT ![c].renderer = "released", ![c].text = <<>>]
    /\ store' = [store EXCEPT ![connection[c].generation] = RetireCarrier(@)]
    /\ UNCHANGED <<manager, ops>>

\* One turn of the Renderer's read loop: a refused message ends the peer.
Deliver(c) ==
    /\ c \in Holding("renderer") /\ connection[c].text # <<>>
    /\ LET m == Head(connection[c].text)
       IN  IF Refuses(StoreOf(c), m)
           THEN /\ connection' = [connection EXCEPT ![c].open = FALSE, ![c].text = <<>>]
                /\ UNCHANGED store
           ELSE /\ connection' = [connection EXCEPT ![c].text = Tail(@)]
                /\ store' = [store EXCEPT ![connection[c].generation] = Receive(@, m)]
    /\ UNCHANGED <<manager, ops>>

Author == \/ CreateDomain \/ CloseAll
          \/ \E d \in Domains : Replace(d) \/ Update(d) \/ Emit(d) \/ CloseDomain(d)

Progress ==
    \/ FinishSend \/ FailSend \/ Connect \/ AttachSubsystem \/ AttachRenderer
    \/ \E c \in DOMAIN connection : ReleaseSubsystem(c) \/ ReleaseRenderer(c) \/ Deliver(c)

Next == Author \/ Progress \/ \E c \in DOMAIN connection : Lose(c)

\* When one of these steps is possible.
CanProgress ==
    \/ manager.inFlight # None
    \/ Newest < MaxConnections /\ (Newest > 0 => ~connection[Newest].open)
    \/ \E end \in {"subsystem", "renderer"} :
        \/ \E c \in Holding(end) : ~connection[c].open
        \/ Newest > 0 /\ Holding(end) = {} /\ connection[Newest][end] = "waiting"
    \/ \E c \in Holding("renderer") : connection[c].text # <<>>

\* Sends settle, terminals are observed, carriers are acquired again and the
\* read loop runs; an author need not act.  This is WF_vars(Progress), its
\* ENABLED written out.
Fairness == []<>~CanProgress \/ []<><<Progress>>_vars

Spec == Init /\ [][Next]_vars /\ Fairness

(***************************************************************************)
(* Properties.                                                             *)
(***************************************************************************)
Current == manager.peer

Wires == {manager.wire[d] : d \in Range(manager.domains)}

\* The shape of the state: an end holds at most one connection, and the cursor
\* of a Domain is kept only while it is open and under a peer.
TypeOK ==
    /\ manager.generation \in 0 .. MaxGeneration /\ ops \in 0 .. MaxOps
    /\ Range(manager.domains) \subseteq Domains /\ manager.created \in 0 .. MaxDomains
    /\ \A d \in Domains : /\ manager.state[d].nodes \in Contents
                          /\ manager.cursor[d] \in 0 .. MaxRevision
                          /\ manager.cursor[d] # 0 => Current # 0 /\ IsOpen(manager, d)
    /\ \A end \in {"subsystem", "renderer"} : Cardinality(Holding(end)) <= 1

\* The Renderer never ends the connection over what this manager sends it: no
\* revision gap, no retired Domain or consumed key comes back, on whatever
\* carrier and after whatever was lost on the one before.
NeverRefused ==
    \A c \in Holding("renderer") :
        connection[c].text # <<>> => ~Refuses(StoreOf(c), Head(connection[c].text))

\* A Render Event is an event about the state it was emitted in: where the
\* Renderer can apply it, it holds exactly the state the author saw, neither an
\* older one nor one a waiting snapshot had absorbed since.
EventSeesItsState ==
    \A c \in Holding("renderer") :
        connection[c].text # <<>> /\ Head(connection[c].text).type = "event" =>
            LET m == Head(connection[c].text) IN
            Applicable(StoreOf(c), m) => StoreOf(c).replicas[m.id].state = m.at

\* When the author and the carrier are at rest, the Renderer shows exactly the
\* open Domains, each in its current state.
Agreed ==
    \/ manager.closed
    \/ \E c \in Holding("subsystem") \cap Holding("renderer") :
        /\ LiveIds(StoreOf(c)) = Wires
        /\ \A d \in Range(manager.domains) :
            LET r == StoreOf(c).replicas[manager.wire[d]]
            IN  r.baselined /\ r.state = manager.state[d]

Converges == <>[]Agreed
=============================================================================
