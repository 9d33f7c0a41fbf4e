---------------------------- MODULE ControlsInput ----------------------------
(***************************************************************************)
(* The controls of game-common-controls: the browser element that folds     *)
(* keyboard, gamepads and custom controls into one set of buttons that are  *)
(* down, publishes every change of it as a "top-frame" broadcast and        *)
(* repeats it while anything is down; and the consumer of a Frame, which    *)
(* takes a state for over when no other one comes in time.                  *)
(*                                                                         *)
(* A window has one owner among its elements.  An element that sees Select  *)
(* held for a while opens the overlay of the fullscreen controls, of which  *)
(* the module keeps whether it is open.                                     *)
(*                                                                         *)
(* A broadcast reaches the top Frame of the moment or nobody: it may be     *)
(* lost.  Time is left out: the repetition may come, and a timer expire,    *)
(* at any moment after they were armed.                                     *)
(***************************************************************************)
EXTENDS Naturals, Sequences, FiniteSets

CONSTANTS Buttons, Pads,
          SelectButton,  \* the button that opens the overlay when it is held
          MaxInAir       \* bound: broadcasts on their way

ASSUME ControlsAssumption == MaxInAir \in Nat \ {0} /\ SelectButton \in Buttons

VARIABLES browser,       \* whether the window has the focus, whether a field takes the keys, its pads
          machine,       \* createControlsMachine(): what holds which button down
          element,       \* GameControlsInputElement: its place in the document, what it repeats
          owner,         \* of the window's controls: "nobody", this "element" or "another"
          hold,          \* how long Select is held, and the overlay that follows
          edges,         \* the input.event broadcasts of the last handler
          inAir,         \* the input.state broadcasts on their way
          consumer       \* createControlsConsumer()

controlsVars == <<browser, machine, element, owner, hold, edges, inAir, consumer>>

NoPads == [x \in {} |-> {}]
Samples == UNION {[P -> SUBSET Buttons] : P \in SUBSET Pads}
Union(pads) == UNION {pads[p] : p \in DOMAIN pads}
Pressed(p, pads) == IF p \in DOMAIN pads THEN pads[p] ELSE {}

OtherSourceDown(m) == Union(m.pads) \cup m.custom
EffectiveDown(m) == m.keyboard \cup OtherSourceDown(m)
Edge(action, button, repeat) == [action |-> action, button |-> button, repeat |-> repeat]
Pressings(set) == {Edge("down", b, FALSE) : b \in set}
Releases(set) == {Edge("up", b, FALSE) : b \in set}

(***************************************************************************)
(* The element: emit().                                                    *)
(***************************************************************************)
\* A broadcast is lost, or is on its way.
Broadcast(state) ==
    \/ UNCHANGED inAir
    \/ Len(inAir) < MaxInAir /\ inAir' = Append(inAir, state)

\* updateSelectHold(): a press arms the timer, a release disarms it.
Held(pressed) ==
    IF pressed = hold.pressed THEN hold
    ELSE [hold EXCEPT !.pressed = pressed, !.timer = pressed]

\* The machine is now `next`; a state is published when it changed, or must be.
Publication(next, must, sent) ==
    /\ machine' = next /\ edges' = sent
    /\ IF must \/ EffectiveDown(next) # EffectiveDown(machine)
       THEN /\ element' = [element EXCEPT !.refresh = EffectiveDown(next)]
            /\ hold' = Held(SelectButton \in EffectiveDown(next))
            /\ Broadcast(EffectiveDown(next))
       ELSE UNCHANGED <<element, hold, inAir>>
    /\ UNCHANGED <<browser, owner, consumer>>

Refresh ==
    /\ element.refresh # {} /\ Broadcast(element.refresh)
    /\ UNCHANGED <<browser, machine, element, owner, hold, edges, consumer>>

\* Select was held long enough: openOverlay(), which may fail.
SelectHeld ==
    /\ hold.timer
    /\ \E shown \in {hold.overlay, TRUE} : hold' = [hold EXCEPT !.timer = FALSE, !.overlay = shown]
    /\ UNCHANGED <<browser, machine, element, owner, edges, inAir, consumer>>

\* Cancelled, clicked beside or closed; or a change of fullscreen took it from
\* its layer and it could not be shown again.
OverlayCloses ==
    /\ hold.overlay /\ hold' = [hold EXCEPT !.overlay = FALSE]
    /\ UNCHANGED <<browser, machine, element, owner, edges, inAir, consumer>>

(***************************************************************************)
(* The sources.                                                            *)
(***************************************************************************)
Keydown(button, repeat) ==
    /\ element.started /\ machine.capture
    /\ LET others == OtherSourceDown(machine)
           sent == IF button \notin machine.keyboard THEN Pressings({button} \ others)
                   ELSE IF repeat /\ button \notin others THEN {Edge("down", button, TRUE)} ELSE {}
       IN  Publication([machine EXCEPT !.keyboard = @ \cup {button}], FALSE, sent)

Keyup(button) ==
    /\ element.started /\ machine.capture /\ button \in machine.keyboard
    /\ Publication([machine EXCEPT !.keyboard = @ \ {button}], FALSE,
               Releases({button} \ OtherSourceDown(machine)))

\* A pad that was not there before brings its buttons without an edge.
PhysicalPress(before, now) ==
    UNION {now[p] \ before[p] : p \in DOMAIN now \cap DOMAIN before}
PhysicalRelease(before, now) ==
    UNION {before[p] \ Pressed(p, now) : p \in DOMAIN before}

\* poll(): one animation frame.
Poll ==
    /\ element.started /\ machine.usable
    /\ LET next == [machine EXCEPT !.pads = browser.pads]
           was == EffectiveDown(machine)
           now == EffectiveDown(next)
       IN  Publication(next, FALSE,
                   Pressings((now \ was) \cap PhysicalPress(machine.pads, browser.pads))
                   \cup Releases((was \ now) \cap PhysicalRelease(machine.pads, browser.pads)))

CustomState(down) ==
    /\ element.started /\ machine.usable
    /\ LET next == [machine EXCEPT !.custom = down]
           was == EffectiveDown(machine)
           now == EffectiveDown(next)
       IN  Publication(next, FALSE, Pressings(now \ was) \cup Releases(was \ now))

Fresh(usable, pads) ==
    [usable |-> usable, capture |-> FALSE, keyboard |-> {}, pads |-> pads, custom |-> {}]

\* setWindowUsable(): every source is forgotten, and the state is published.
Reset(m, usable) == Fresh(usable, IF usable THEN browser.pads ELSE NoPads)

\* setKeyboardCapture(): the keys are let go when it ends.
Recapture(m, capture) ==
    [m EXCEPT !.capture = capture, !.keyboard = IF capture THEN @ ELSE {}]

\* reconcile(): the window first, then the keyboard.  Its two publications
\* are one broadcast: the second never changes what the first has said.
Reconciled ==
    LET usable == browser.focused
        windowed == IF usable # machine.usable THEN Reset(machine, usable) ELSE machine
        capture == usable /\ ~browser.typing
    IN  IF capture # windowed.capture THEN Recapture(windowed, capture) ELSE windowed

ReconcileWindow ==
    /\ element.started
    /\ Publication(Reconciled, browser.focused # machine.usable, {})

(***************************************************************************)
(* The browser, and the life of the element.                               *)
(***************************************************************************)
BrowserChanges ==
    /\ \/ browser' = [browser EXCEPT !.focused = ~@]
       \/ browser' = [browser EXCEPT !.typing = ~@]
       \/ \E pads \in Samples : browser' = [browser EXCEPT !.pads = pads]
    /\ UNCHANGED <<machine, element, owner, hold, edges, inAir, consumer>>

\* Another element takes the window's controls, or leaves the document.
OtherElement ==
    /\ \/ owner = "nobody" /\ owner' = "another"
       \/ owner = "another" /\ owner' = "nobody"
    /\ UNCHANGED <<browser, machine, element, hold, edges, inAir, consumer>>

\* startIfReady(): the window is claimed, and a new machine reconciled at
\* once.  A duplicate of the owner is disabled, and stays so when the owner
\* leaves, until it is asked again.
StartIfReady(connected, context) ==
    IF ~(connected /\ context) \/ element.started \/ owner = "another"
    THEN /\ element' = [element EXCEPT !.connected = connected, !.context = context]
         /\ UNCHANGED <<machine, owner, hold, edges, inAir>>
    ELSE LET next == IF browser.focused THEN Recapture(Reset(machine, TRUE), ~browser.typing) ELSE machine
         IN  /\ machine' = next /\ edges' = {} /\ owner' = "element"
             /\ element' = [connected |-> TRUE, context |-> TRUE, started |-> TRUE,
                            refresh |-> EffectiveDown(next)]
             /\ IF browser.focused
                THEN Broadcast(EffectiveDown(next)) /\ hold' = Held(SelectButton \in EffectiveDown(next))
                ELSE UNCHANGED <<inAir, hold>>

\* connectedCallback() and receiveRenderContext(), in either order.
Connect ==
    /\ ~element.connected /\ StartIfReady(TRUE, element.context)
    /\ UNCHANGED <<browser, consumer>>

ReceiveRenderContext ==
    /\ StartIfReady(element.connected, TRUE)
    /\ UNCHANGED <<browser, consumer>>

\* Nothing is published any more: the consumer has to notice.
Disconnect ==
    /\ element.connected
    /\ machine' = Fresh(FALSE, NoPads) /\ edges' = {}
    /\ element' = [element EXCEPT !.connected = FALSE, !.started = FALSE, !.refresh = {}]
    /\ owner' = IF owner = "element" THEN "nobody" ELSE owner
    /\ hold' = [pressed |-> FALSE, timer |-> FALSE, overlay |-> FALSE]
    /\ UNCHANGED <<browser, inAir, consumer>>

(***************************************************************************)
(* The consumer and its freshness tracker.                                 *)
(***************************************************************************)
\* Seeded bug: a state that repeats the last one does not arm the timer
\* again after it was cleared.
AcceptRepeated(state) ==
    [consumer EXCEPT !.down = state, !.timer = state # consumer.down]

Accept(state) == [consumer EXCEPT !.down = state, !.timer = TRUE]

\* The handler of the state may close the consumer, before the timer is armed.
Arrive ==
    /\ inAir # <<>> /\ inAir' = Tail(inAir)
    /\ \/ consumer.closed /\ UNCHANGED consumer
       \/ ~consumer.closed /\ consumer' = Accept(Head(inAir))
       \/ ~consumer.closed /\ consumer' = [Accept(Head(inAir)) EXCEPT !.closed = TRUE]
    /\ UNCHANGED <<browser, machine, element, owner, hold, edges>>

Expire ==
    /\ consumer.timer
    /\ consumer' = [consumer EXCEPT !.timer = FALSE,
                                    !.down = IF consumer.closed THEN consumer.down ELSE {}]
    /\ UNCHANGED <<browser, machine, element, owner, hold, edges, inAir>>

\* close(), or the abort of the Frame.
CloseConsumer ==
    /\ ~consumer.closed
    /\ consumer' = [consumer EXCEPT !.closed = TRUE, !.timer = FALSE]
    /\ UNCHANGED <<browser, machine, element, owner, hold, edges, inAir>>

-----------------------------------------------------------------------------
InitControls ==
    /\ browser \in [focused : BOOLEAN, typing : {FALSE}, pads : {NoPads}]
    /\ machine = Fresh(FALSE, NoPads)
    /\ element = [connected |-> FALSE, context |-> FALSE, started |-> FALSE, refresh |-> {}]
    /\ owner = "nobody" /\ hold = [pressed |-> FALSE, timer |-> FALSE, overlay |-> FALSE]
    /\ edges = {} /\ inAir = <<>>
    /\ consumer \in [down : {{}}, timer : {FALSE}, closed : BOOLEAN]   \* the Frame may be aborted

Source ==
    \/ \E button \in Buttons : Keyup(button) \/ \E repeat \in BOOLEAN : Keydown(button, repeat)
    \/ Poll \/ ReconcileWindow \/ \E down \in SUBSET Buttons : CustomState(down)

NextControls ==
    \/ Source \/ Refresh \/ SelectHeld \/ OverlayCloses \/ BrowserChanges \/ OtherElement
    \/ Connect \/ ReceiveRenderContext \/ Disconnect
    \/ Arrive \/ Expire \/ CloseConsumer

\* Messages arrive and timers expire.
SpecControls ==
    /\ InitControls /\ [][NextControls]_controlsVars
    /\ WF_controlsVars(Arrive) /\ WF_controlsVars(Expire)

(***************************************************************************)
(* Properties.                                                             *)
(***************************************************************************)
\* The element repeats what its sources hold down at this moment, and they
\* hold nothing that they would not be told the release of: through every loss
\* of the window, of the keyboard and of a pad; only the owner of the window
\* publishes, and the overlay opens only while Select is down
\* (controls-machine.ts:104, device-input.browser.ts:151, 223).
HeldCanBeReleased ==
    /\ element.refresh = EffectiveDown(machine)
    /\ element.started => owner = "element"
    /\ hold.pressed <=> SelectButton \in EffectiveDown(machine)
    /\ hold.timer => hold.pressed
    /\ machine.keyboard # {} => machine.capture
    /\ OtherSourceDown(machine) # {} => machine.usable

\* What an edge tells has happened: the button went down or up as a whole.
EdgesHappened ==
    machine' # machine =>
        \A e \in edges' : IF e.action = "down"
                          THEN e.button \in EffectiveDown(machine') \ EffectiveDown(machine)
                          ELSE e.button \in EffectiveDown(machine) \ EffectiveDown(machine')

\* While the element keeps the window and the keys, every button that goes down
\* or up as a whole is told, but one that a pad brings with it.
SameWindow == machine'.usable = machine.usable /\ machine'.capture = machine.capture
BroughtAlong == UNION {machine'.pads[p] : p \in DOMAIN machine'.pads \ DOMAIN machine.pads}
NothingGoesUntold ==
    SameWindow =>
        /\ Pressings((EffectiveDown(machine') \ EffectiveDown(machine)) \ BroughtAlong) \subseteq edges'
        /\ Releases(EffectiveDown(machine) \ EffectiveDown(machine')) \subseteq edges'

\* Edges and states agree: the release of one source tells nothing while another
\* holds the button, and the last release is told, whichever source it is
\* (controls-machine.ts:124, 159).  The loss of the window or of the keys, and
\* a pad that arrives pressed, change the state without an edge
\* (controls-machine.ts:145, 183).
EdgesAreTransitions == [][EdgesHappened /\ NothingGoesUntold]_controlsVars

\* When nothing is held any more, or the element is gone, the consumer comes
\* to see nothing held, whatever broadcasts were lost (fresh-state.ts:44).
Stuck == element.refresh = {} /\ consumer.down # {} /\ ~consumer.closed
NoStuckButton == []<>~Stuck
=============================================================================
