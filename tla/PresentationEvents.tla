------------------------- MODULE PresentationEvents ------------------------
(***************************************************************************)
(* A custom event of a Web Presentation, from the node that emits it to    *)
(* the handlers of the Frame on top of the stack, and the publications     *)
(* beside it.                                                              *)
(*                                                                         *)
(*   ControlHolder          leases the event to the top Frame of the       *)
(*                          snapshot and to the two Data peers it needs    *)
(*   PresentationFrameGate  queues it while the peer sends, and drops it   *)
(*                          when the lease, the interest or a peer goes    *)
(*   Data carrier           takes events down and interest up              *)
(*   PresentationEventManager  announces the channels its listeners        *)
(*                          contribute and runs their handlers             *)
(*                                                                         *)
(* Main grants activations to one Frame of subsystem Target; the Runtime   *)
(* and the Renderer hear of a grant, or of its end, independently.  The     *)
(* model begins when the first has reached the Runtime.                    *)
(***************************************************************************)
EXTENDS RendererHolder

CONSTANTS
  Target,          \* the subsystem whose Frame is on top
  Channels,
  Listeners,       \* the listeners its author creates (a bound)
  MaxActivations,  \* activations Main grants (a bound)
  MaxEmits,        \* events emitted (a bound)
  MaxMoves         \* moves of Main, the network and the author (a bound)

ASSUME PresentationAssumption ==
  /\ Target \in Keys /\ IsFiniteSet(Channels) /\ IsFiniteSet(Listeners)
  /\ {MaxEmits, MaxMoves} \subseteq Nat /\ MaxActivations \in Nat \ {0}

VARIABLES
  granted,    \* activations Main has granted
  emits,      \* events emitted, and the number of the last one
  gate,       \* the gate's slot of the Target
  upward, down, \* interest and events on each carrier
  epoch, publications, publishing,  \* each with its control peer (history)
  frame,      \* the Runtime's Frame: its activation, is it open, closed
  dataPeer,   \* the Runtime's Data peer: a carrier, or 0
  interestInFlight, again,  \* interestInFlight, interestPending
  listener,   \* the author's listeners
  moves,
  dispatch,   \* the event onEvent runs handlers for, and who is left
  handled     \* the last event each listener's handler ran for (history)

rendererVars == <<holderVars, emits, gate, epoch, publications, publishing>>
runtimeVars == <<frame, dataPeer, interestInFlight, again, listener, dispatch, handled>>
presentationVars == <<rendererVars, runtimeVars, granted, upward, down, moves>>

Events == [id : 1 .. MaxEmits, source : Keys, peer : Acquires,
           target : Acquires, lease : 1 .. MaxActivations, channel : Channels]
NoGate == [interest |-> {}, queue |-> <<>>, sending |-> FALSE,
           retired |-> FALSE]
NoDispatch == [event |-> [id |-> 0], left |-> {}]

PresentationTypeOK ==
  /\ HolderTypeOK /\ snapshot.lease \in 0 .. granted
  /\ granted \in 0 .. MaxActivations /\ emits \in 0 .. MaxEmits
  /\ gate.interest \subseteq Channels
  /\ \A i \in DOMAIN gate.queue : gate.queue[i] \in Events
  /\ gate.sending \in BOOLEAN /\ gate.retired \in BOOLEAN
  /\ \A a \in Acquires :
       /\ upward[a] \in Seq(SUBSET Channels)
       /\ \A i \in DOMAIN down[a] : down[a][i] \in Events
  /\ epoch \in Nat /\ publishing \in 0 .. MaxEmits
  /\ \A i \in DOMAIN publications :
       publications[i].id \in 1 .. MaxEmits /\ publications[i].epoch \in Nat
  /\ frame.activation \in 0 .. granted
  /\ frame.open \in BOOLEAN /\ frame.closed \in BOOLEAN
  /\ dataPeer \in 0 .. MaxAcquires
  /\ interestInFlight \in BOOLEAN /\ again \in BOOLEAN
  /\ listener \in [Listeners -> [state : {"none", "open", "closed"},
                                 channels : SUBSET Channels, on : BOOLEAN]]
  /\ moves \in 0 .. MaxMoves
  /\ dispatch = NoDispatch \/ dispatch.event \in Events
  /\ dispatch.left \subseteq Listeners
  /\ handled \in [Listeners -> 0 .. MaxEmits]

InitPresentation ==
  /\ HolderInit
  /\ granted = 1 /\ emits = 0 /\ gate = NoGate
  /\ upward = [a \in Acquires |-> <<>>] /\ down = [a \in Acquires |-> <<>>]
  /\ epoch = 1 /\ publications = <<>> /\ publishing = 0
  /\ frame = [activation |-> 1, open |-> TRUE, closed |-> FALSE]
  /\ dataPeer = 0 /\ interestInFlight = FALSE /\ again = FALSE
  /\ listener \in [Listeners ->
       {[state |-> "none", channels |-> {}, on |-> FALSE],
        [state |-> "open", channels |-> Channels, on |-> TRUE]}]
  /\ moves = 0 /\ dispatch = NoDispatch
  /\ handled = [l \in Listeners |-> 0]

-----------------------------------------------------------------------------
(* PresentationFrameGate *)

\* effective, with isTopFrameSourceCurrent, but for the emitting node, which
\* may leave its Render tree at any time.
Effective(e, slots, lease, interest) ==
  /\ lease # 0 /\ e.lease = lease
  /\ slots[e.source].current = e.peer
  /\ slots[Target].current = e.target
  /\ e.channel \in interest

\* The queue without the events that are no longer effective: those at the
\* positions in K, in their order.
AtPositions(q, K) ==
  LET place == CHOOSE f \in [1 .. Cardinality(K) -> K] :
                 \A i, j \in DOMAIN f : i < j => f[i] < f[j]
  IN  [i \in 1 .. Cardinality(K) |-> q[place[i]]]
StillEffective(q, slots, lease, interest) ==
  AtPositions(q, {i \in DOMAIN q : Effective(q[i], slots, lease, interest)})

\* pump, on a gate and the events its peer has sent: the events before the
\* first one whose node still stands are dropped.
Pump(g, sent, a) ==
  IF g.retired \/ g.sending THEN gate' = g /\ down' = sent
  ELSE \E n \in 1 .. Len(g.queue) + 1 :
         /\ gate' = [g EXCEPT !.queue = SubSeq(@, n + 1, Len(@)),
                              !.sending = n <= Len(g.queue)]
         /\ down' = IF n <= Len(g.queue) /\ carrier[a] = "open"
                      THEN [sent EXCEPT ![a] = Append(@, g.queue[n])]
                      ELSE sent

\* setControl, installData and retireData, for the holder's next state: the
\* gate of another carrier starts empty, and events that have lost their
\* lease or a peer are dropped.
GateFollows ==
  gate' = IF slot'[Target].current # slot[Target].current THEN NoGate
          ELSE [gate EXCEPT !.queue =
                  StillEffective(@, slot', snapshot'.lease, gate.interest)]

\* offer
Offer(e) ==
  IF gate.retired \/ ~Effective(e, slot, snapshot.lease, gate.interest)
    THEN UNCHANGED <<gate, down>>
    ELSE Pump([gate EXCEPT !.queue = Append(@, e)], down, e.target)

\* sent: the peer took the event, or it has ended.
EventSent ==
  /\ gate.sending
  /\ \/ Pump([gate EXCEPT !.sending = FALSE], down, slot[Target].current)
     \/ /\ carrier[slot[Target].current] = "closed"
        /\ gate' = [NoGate EXCEPT !.retired = TRUE] /\ UNCHANGED down
  /\ UNCHANGED <<holderVars, emits, epoch, publications, publishing,
                 runtimeVars, granted, upward>>

\* replaceInterest, for a message of the current peer
ReplaceInterest(a) ==
  /\ a = slot[Target].current /\ upward[a] # <<>>
  /\ upward' = [upward EXCEPT ![a] = Tail(@)]
  /\ gate' = [gate EXCEPT !.interest = Head(upward[a]),
                          !.queue = StillEffective(@, slot, snapshot.lease,
                                                   Head(upward[a]))]
  /\ UNCHANGED <<holderVars, emits, epoch, publications, publishing,
                 runtimeVars, granted, down>>

-----------------------------------------------------------------------------
(* The holder *)

\* retirePresentationPublications
RetirePublications == epoch' = epoch + 1 /\ publications' = <<>>

Snapshots == [gen : Generations, lease : {0, granted}]

Control ==
  /\ \/ /\ \E s \in Snapshots : Connect(s)
        /\ IF conn # 0 THEN RetirePublications
                       ELSE UNCHANGED <<epoch, publications>>
     \/ /\ \E s \in Snapshots : Consume(s)
        /\ UNCHANGED <<epoch, publications>>
     \/ ControlTerminal /\ RetirePublications
  /\ GateFollows
  /\ UNCHANGED <<emits, publishing, runtimeVars, granted, upward, down>>

DataStep ==
  /\ \/ \E a \in Acquires : InstallDataAcquire(a) \/ RejectDataAcquire(a)
     \/ \E k \in Keys : DataTerminal(k)
  /\ GateFollows
  /\ UNCHANGED <<emits, epoch, publications, publishing, runtimeVars,
                 granted, upward, down>>

Binding ==
  /\ \E a \in Acquires : BindingAnswers(a)
  /\ UNCHANGED <<emits, gate, epoch, publications, publishing, runtimeVars,
                 granted, upward, down>>

Break ==
  /\ \E a \in Acquires : CarrierBreaks(a)
  /\ UNCHANGED <<emits, gate, epoch, publications, publishing, runtimeVars,
                 granted, upward, down>>

\* Nothing remembers a carrier both ends have left.
Recycle ==
  /\ \E a \in Acquires :
       /\ a # dataPeer /\ Forget(a)
       /\ upward' = [upward EXCEPT ![a] = <<>>] /\ down' = [down EXCEPT ![a] = <<>>]
  /\ UNCHANGED <<emits, gate, epoch, publications, publishing, runtimeVars,
                 granted>>

\* emitPresentationNodeEvent, to the top Frame: leased to its activation and
\* to the peers of the moment, or dropped if there are none.
EmitTopFrame(k, c) ==
  LET e == [id |-> emits', source |-> k, peer |-> slot[k].current,
            target |-> slot[Target].current, lease |-> snapshot.lease,
            channel |-> c]
  IN  /\ emits < MaxEmits /\ emits' = emits + 1
      /\ slot[k].current # 0 /\ slot[Target].current # 0
      /\ snapshot.lease # 0
      /\ Offer(e)
      /\ UNCHANGED <<holderVars, epoch, publications, publishing,
                     runtimeVars, granted, upward>>

\* pumpPresentationEvents: one publication at a time.
PumpPublications(queue, busy) ==
  IF busy \/ queue = <<>>
    THEN publications' = queue /\ publishing' = IF busy THEN publishing ELSE 0
    ELSE publications' = Tail(queue)
         /\ publishing' = IF Head(queue).epoch = epoch THEN Head(queue).id
                                                       ELSE 0

EmitPublication(k) ==
  /\ emits < MaxEmits /\ emits' = emits + 1
  /\ slot[k].current # 0
  /\ PumpPublications(Append(publications, [id |-> emits', epoch |-> epoch,
                                under |-> conn]),
             publishing # 0)
  /\ UNCHANGED <<holderVars, gate, epoch, runtimeVars, granted, upward, down>>

\* The publication settles, or fails, which is ignored.
Published ==
  /\ publishing # 0
  /\ PumpPublications(publications, FALSE)
  /\ UNCHANGED <<holderVars, emits, gate, epoch, runtimeVars, granted, upward,
                 down>>

-----------------------------------------------------------------------------
(* PresentationEventManager *)

\* rebuildDesired: the union of what the open listeners contribute.
DesiredOf(ls) ==
  UNION {ls[l].channels : l \in {m \in Listeners : ls[m].state = "open"}}
Desired == DesiredOf(listener)

\* publishInterest for the registry of the listeners "ls", if it changed.
PublishInterest(ls) ==
  IF dataPeer = 0 \/ DesiredOf(ls) = Desired THEN UNCHANGED <<upward, interestInFlight, again>>
  ELSE IF interestInFlight THEN again' = TRUE /\ UNCHANGED <<upward, interestInFlight>>
  ELSE /\ upward' = [upward EXCEPT ![dataPeer] = Append(@, DesiredOf(ls))]
       /\ interestInFlight' = TRUE /\ UNCHANGED again

\* The author's calls, some of them from a handler that is running.
Author(ls) ==
  /\ listener' = ls
  /\ PublishInterest(ls)
  /\ UNCHANGED <<rendererVars, granted, down, frame, dataPeer, dispatch, handled>>

CreateListener(l) ==
  /\ listener[l].state = "none" /\ ~frame.closed
  /\ \E cs \in SUBSET Channels :
       Author([listener EXCEPT ![l] = [state |-> "open", channels |-> cs,
                                       on |-> TRUE]])

SetChannels(l) ==
  /\ listener[l].state = "open"
  /\ \E cs \in SUBSET Channels :
       /\ cs # listener[l].channels
       /\ Author([listener EXCEPT ![l].channels = cs])

Unregister(l) ==
  /\ listener[l].state = "open" /\ listener[l].on
  /\ Author([listener EXCEPT ![l].on = FALSE])

CloseListener(l) ==
  /\ listener[l].state = "open"
  /\ Author([listener EXCEPT ![l].state = "closed", ![l].on = FALSE])

\* The Runtime's Data peer comes and goes: setDataPeer.
RuntimeTakes(a) ==
  /\ dataPeer = 0 /\ carrier[a] = "open" /\ ~frame.closed
  /\ attempt[a].id.key = Target /\ dispatch = NoDispatch
  /\ dataPeer' = a /\ interestInFlight' = TRUE /\ again' = FALSE
  /\ upward' = [upward EXCEPT ![a] = <<Desired>>]
  /\ UNCHANGED <<rendererVars, granted, down, frame, listener,
                 dispatch, handled>>

RuntimeLoses ==
  /\ dataPeer # 0 /\ carrier[dataPeer] = "closed" /\ dispatch = NoDispatch
  /\ dataPeer' = 0 /\ interestInFlight' = FALSE /\ again' = FALSE
  /\ UNCHANGED <<rendererVars, granted, upward, down, frame, listener,
                 dispatch, handled>>

\* finishInterest
InterestSent ==
  /\ interestInFlight /\ dispatch = NoDispatch /\ again' = FALSE
  /\ IF again
       THEN upward' = [upward EXCEPT ![dataPeer] = Append(@, Desired)]
            /\ UNCHANGED interestInFlight
       ELSE interestInFlight' = FALSE /\ UNCHANGED upward
  /\ UNCHANGED <<rendererVars, granted, down, frame, dataPeer, listener,
                 dispatch, handled>>

\* The Frame delivers to the lease and channel of the event.
StillLive(e) ==
  /\ ~frame.closed /\ frame.open /\ frame.activation = e.lease
  /\ e.channel \in Desired

Candidates(e) ==
  {l \in Listeners : /\ listener[l].state = "open" /\ listener[l].on
                     /\ e.channel \in listener[l].channels}

\* onEvent, for the next event of the current peer
OnEvent ==
  /\ dataPeer # 0 /\ dispatch = NoDispatch /\ down[dataPeer] # <<>>
  /\ LET e == Head(down[dataPeer])
     IN  dispatch' = IF StillLive(e) /\ Candidates(e) # {}
                       THEN [event |-> e, left |-> Candidates(e)]
                       ELSE NoDispatch
  /\ down' = [down EXCEPT ![dataPeer] = Tail(@)]
  /\ UNCHANGED <<rendererVars, granted, upward, frame, dataPeer, interestInFlight, again,
                 listener, handled>>

\* Seeded bug: the candidates are not looked at again.
RunAnyHandler(l) ==
  /\ l \in dispatch.left
  /\ dispatch' = IF dispatch.left = {l} THEN NoDispatch
                 ELSE [dispatch EXCEPT !.left = @ \ {l}]
  /\ handled' = [handled EXCEPT ![l] = dispatch.event.id]
  /\ UNCHANGED <<rendererVars, granted, upward, down, frame, dataPeer, interestInFlight,
                 again, listener>>

\* Its loop, in any order: a candidate is looked at again, since the handlers
\* before it may have changed everything.
RunHandler(l) ==
  /\ l \in dispatch.left
  /\ dispatch' = IF dispatch.left = {l} THEN NoDispatch
                 ELSE [dispatch EXCEPT !.left = @ \ {l}]
  /\ handled' = IF StillLive(dispatch.event) /\ l \in Candidates(dispatch.event)
                  THEN [handled EXCEPT ![l] = dispatch.event.id]
                  ELSE handled
  /\ UNCHANGED <<rendererVars, granted, upward, down, frame, dataPeer, interestInFlight,
                 again, listener>>

\* The Frame (FrameRuntime) as the manager sees it.  A handler may suspend or
\* close it; closing it closes its listeners.
FrameMoves ==
  /\ ~frame.closed
  /\ \/ /\ frame.activation < granted /\ dispatch = NoDispatch
        /\ frame' = [frame EXCEPT !.activation = granted, !.open = TRUE]
        /\ UNCHANGED listener /\ UNCHANGED <<upward, interestInFlight, again>>
     \/ /\ frame.open /\ frame' = [frame EXCEPT !.open = FALSE]
        /\ UNCHANGED listener /\ UNCHANGED <<upward, interestInFlight, again>>
     \/ /\ frame' = [frame EXCEPT !.open = FALSE, !.closed = TRUE]
        /\ listener' = [l \in Listeners |->
             IF listener[l].state = "open"
               THEN [listener[l] EXCEPT !.state = "closed", !.on = FALSE]
               ELSE listener[l]]
        /\ PublishInterest(listener')
  /\ UNCHANGED <<rendererVars, granted, down, dataPeer, dispatch,
                 handled>>

Grant ==
  /\ granted < MaxActivations /\ granted' = granted + 1
  /\ UNCHANGED <<rendererVars, runtimeVars, upward, down>>

-----------------------------------------------------------------------------
(* The specification *)

RendererStep ==
  \/ DataStep \/ Recycle \/ EventSent \/ Published
  \/ \E a \in Acquires : ReplaceInterest(a)

ManagerStep ==
  \/ RuntimeLoses \/ InterestSent \/ OnEvent
  \/ \E l \in Listeners : RunHandler(l)

Environment ==
  \/ Control \/ Break \/ Grant \/ FrameMoves
  \/ \E k \in Keys : EmitPublication(k)
                       \/ \E c \in Channels : EmitTopFrame(k, c)
  \/ \E l \in Listeners : \/ CreateListener(l) \/ SetChannels(l)
                          \/ Unregister(l) \/ CloseListener(l)

NextPresentation ==
  \/ /\ RendererStep \/ ManagerStep \/ Binding
        \/ \E a \in Acquires : RuntimeTakes(a)
     /\ UNCHANGED moves
  \/ /\ moves < MaxMoves /\ moves' = moves + 1
     /\ Environment

SpecPresentation == InitPresentation /\ [][NextPresentation]_presentationVars

-----------------------------------------------------------------------------
(* Properties *)

\* A handler only runs in the activation its event was leased to, while its
\* listener is open and contributes the channel, whatever handlers of the
\* same event did before it; and it runs for later and later events.
HandlersHonourLease ==
  [][\A l \in Listeners : handled'[l] # handled[l] =>
       /\ handled'[l] > handled[l]
       /\ dispatch.event.lease = frame.activation
       /\ frame.open /\ ~frame.closed
       /\ listener[l].state = "open" /\ listener[l].on
       /\ dispatch.event.channel \in listener[l].channels]_presentationVars
=============================================================================
