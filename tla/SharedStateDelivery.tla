------------------------ MODULE SharedStateDelivery ------------------------
(***************************************************************************)
(* The ordered callback lane of one Shared State subscription              *)
(* (packages/shared-state/src/subscription-delivery.ts).  The Authority    *)
(* has one per observer and a carrier binding one per subscription; here a *)
(* lane is a record, and each method of SharedStateSubscriptionDelivery a  *)
(* function from the lane before to the lane after.                        *)
(*                                                                         *)
(* The limit on pending payload bytes is abstracted into the limit on      *)
(* pending events: both are checked, charged and returned together.        *)
(***************************************************************************)
EXTENDS Integers, Sequences, FiniteSets

CONSTANT Limit          \* SHARED_STATE_LIMITS.subscriptionPendingEvents

ASSUME LimitAssumption == Limit \in Nat \ {0}

\* The type of a terminal event is its reason.
TerminalTypes == {"overflow", "authority-terminal", "binding-terminal"}
Events == [type : {"baseline", "change"} \cup TerminalTypes, revision : Nat]
Event(type, r) == [type |-> type, revision |-> r]
Terminal(reason) == Event(reason, 0)
IsChange(e) == e.type = "change"
IsTerminal(e) == e.type \in TerminalTypes
NoEvent == [type |-> "none", revision |-> 0]

\* changes: pendingChanges, the one being delivered included; busy: the event
\* whose callback drain() awaits; scheduled: deliveryScheduled.
Lanes == [active : BOOLEAN, queue : Seq(Events), changes : Nat, terminalQueued : BOOLEAN,
          scheduled : BOOLEAN, busy : Events \cup {NoEvent}]
Fresh == [active |-> TRUE, queue |-> <<>>, changes |-> 0, terminalQueued |-> FALSE,
          scheduled |-> FALSE, busy |-> NoEvent]
Delivering(l) == l.busy # NoEvent

Start(l) == [l EXCEPT !.scheduled = @ \/ (l.active /\ ~Delivering(l))]

\* The events of the queue that are no changes, in their order.
Kept(l) ==
    LET places == {i \in DOMAIN l.queue : ~IsChange(l.queue[i])}
        place == CHOOSE f \in [1..Cardinality(places) -> places] :
                     \A i, j \in DOMAIN f : i < j => f[i] < f[j]
    IN  [i \in 1..Cardinality(places) |-> l.queue[place[i]]]

\* discardQueuedChanges and the terminal that takes their place.
Overflow(l) ==
    Start([l EXCEPT !.queue = Append(Kept(l), Terminal("overflow")),
                    !.changes = @ - (Len(l.queue) - Len(Kept(l))),
                    !.terminalQueued = TRUE])

\* enqueue()
Enqueue(l, e) ==
    IF ~l.active \/ l.terminalQueued THEN l
    ELSE IF IsChange(e) /\ l.changes + 1 > Limit THEN Overflow(l)
    ELSE Start([l EXCEPT !.queue = Append(@, e),
                         !.changes = IF IsChange(e) THEN @ + 1 ELSE @,
                         !.terminalQueued = IsTerminal(e)])

\* close() and deactivate(): what the callback in progress does is its own.
Close(l) == [l EXCEPT !.active = FALSE, !.queue = <<>>, !.changes = 0]

\* The head of drain()'s loop.
Take(l) ==
    IF ~l.active \/ l.queue = <<>> THEN [l EXCEPT !.busy = NoEvent]
    ELSE [l EXCEPT !.busy = Head(l.queue), !.queue = Tail(l.queue)]

\* The timer of start() fires.
Fire(l) ==
    LET fired == [l EXCEPT !.scheduled = FALSE] IN
    IF Delivering(l) \/ ~l.active THEN fired ELSE Take(fired)

\* Seeded bug: drain() returns after one event instead of going on.
SettledStopsDraining(l) ==
    LET done == [l EXCEPT !.busy = NoEvent] IN
    IF ~l.active THEN done
    ELSE IF IsTerminal(l.busy) THEN Close(done)
    ELSE [done EXCEPT !.changes = IF IsChange(l.busy) THEN @ - 1 ELSE @]

\* The callback has returned, and the promise it returned has settled.
Settled(l) ==
    LET done == [l EXCEPT !.busy = NoEvent] IN
    IF ~l.active THEN done
    ELSE IF IsTerminal(l.busy) THEN Close(done)
    ELSE Take([done EXCEPT !.changes = IF IsChange(l.busy) THEN @ - 1 ELSE @])

----------------------------------------------------------------------------
\* The accounting of a lane is exact and bounded, a lane that has something to
\* deliver is on its way to deliver it, and what is queued is in the order in
\* which it is due: the baseline, changes, one terminal.
PendingChanges(l) ==
    Cardinality({i \in DOMAIN l.queue : IsChange(l.queue[i])}) + (IF IsChange(l.busy) THEN 1 ELSE 0)
LaneSound(l) ==
    /\ l.changes <= Limit
    /\ l.active =>
        /\ l.changes = PendingChanges(l)
        /\ l.queue # <<>> => Delivering(l) \/ l.scheduled
    /\ \A i, j \in 1..Len(l.queue) : i < j =>
        /\ l.queue[j].type # "baseline"
        /\ ~IsTerminal(l.queue[i])
        /\ l.queue[i].revision < l.queue[j].revision \/ IsTerminal(l.queue[j])
=============================================================================
