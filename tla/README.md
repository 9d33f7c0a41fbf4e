# LoomRealm: a verification project

LoomRealm runs a game as a *session* of one Main process, several Subsystem
Runtimes (child processes or Workers that Main supervises) and a Renderer. Main
owns who may act: the stack of Frames (calls from one Subsystem into another),
the state of every Runtime, and the authority that the Renderer mirrors.
Subsystems share state through a versioned store, and reach the Renderer over
data connections that Main authorises.

This directory holds TLA+ modules translated from the source, the TLC
configurations that check them on small instances, and TLAPS proofs of what they
promise for every instance. Paths below are relative to the repository.

## 1. Inventory

`packages/` holds the system, `apps/` the desktop and PWA products,
`game-libs/` libraries that games use. `doc/10-architecture` and
`doc/15-contracts` are the specification in prose.

| Component (source) | State | Operations | Hard behaviour | Correct when |
|---|---|---|---|---|
| **Main: Frame authority** (`packages/main/src/internal/main-session.ts` 721-1306) | Frame stack, `frames` (lifecycle, owner, activation), what the current lane turn awaits, what was promised "after the response" | `frame.call`, `frame.return` from Subsystems; `frame.initialize`, `activate`, `close`, `resume` to them; the unwind of a failure; shutdown | a lane of mutations whose turns await remote replies, while failures, timeouts and shutdown arrive at any await; a response that is accepted but never delivered | one active Frame, always the top; Main and Subsystem never disagree about a healthy Frame; a committed outcome survives; nothing changes after a stop |
| **Main: Runtime supervision** (same file 308-720, 1557-1693; `primitives.ts`) | per Runtime: phase, record, launch, Control peer, process fact, termination request, failure; the session's terminal | launch, hello, `status`, watches of connection and process, bounded cleanup, termination with one retry | two observations of one death in either order; a session that ends in the middle of a launch; every wait needs a bound | no orphan process, graceful stop is not killed, a failed bootstrap ends the session, `run()` settles |
| **Main: Renderer authority** (same file 1308-1537; `renderer-control/`) | candidate slot, current Renderer, revision, snapshot, Data authority view | arm a slot, hello, publish, retire | publications coalesce while a send is under way; a slot is replaced while a carrier is delivered | the Renderer's last snapshot is Main's; one candidate at a time |
| **Runtime Control connection** (`runtime-control/src/runtime.ts` and peers) | request table, write and dispatch lanes, terminal | `call`, `notify`, `receive*`, `commit` of a terminal | first terminal wins; timeouts race answers; the work a handler defers to "after the response" is skipped when the connection ends first | every call settles once |
| **Subsystem host and Frame runtime** (`subsystem/src/host/run-subsystem.ts`, `internal/frame-runtime.ts`) | the Subsystem's contexts and their phases | handlers of Main's Frame RPCs, `call`, `return` | the mirror image of the Frame authority | composed with Main, neither rejects the other's legal message |
| **Shared State** (`shared-state/src`) | store of versioned Records, revision; per subscription two delivery lanes, a correlation with tombstones, a wrapper; per commit two promises | `commit`, `read*`, `subscribe`, `close`; attach, detach, terminate | closes, overflows, terminals and acknowledgements cross on the wire; the binding is replaced with commits in flight | a gapless ordered feed; evidence that is true; no lost update |
| **Session Events** (`session-events/src`) | hub, slots, exposure gate, per-client lanes | publish, subscribe, expose | exposure changes while an event is queued | no event outside its exposure |
| **Subsystem rendering** (`subsystem/src/internal/render-manager.ts` etc.) | render revisions, presentation events, viewport | publish, acknowledge, rebind | rebinding in the middle of a publication | the Renderer converges to the last published state |
| **Renderer** (`renderer/src/control.ts`, `internal/render-store.ts`, ...) | mirror of Main's authority, Data connections, store, frame gate | apply snapshot, connect, commit | Data of a replaced generation arrives late | nothing of a retired Frame is shown or routed |
| **Renderer Data** (`data/src`) | hello state, pending viewport | send, receive | coalescing | last viewport wins |
| **Hosting** (`game-launcher-hostra`, `apps/pwa/src/runtime-hosting.ts`) | a child or Worker and its handshake | launch, abort, terminate | abort races connect | no orphan child or listener |
| **Data brokers** (`apps/desktop/src/data-broker.ts`, `apps/pwa/src/data-broker.ts`) | pairs waiting to be joined | offer, match, retire | halves arrive in either order or for retired authority | a pair joins the right two ends once |
| **PWA installation** (`apps/pwa/src/installer.ts`, `installation-store.ts`, `service-worker-gate.ts`) | installation records and caches | install, activate, clean | a crash between two writes | a half installation is never served |
| **Wire, foundation, codecs, validation** | none | | pure data | |
| **Game package, FSDB, content** | read-only snapshot | | I/O | |
| **Game libraries** (`game-libs/*`) | form session, dialogue, controls machine | | long legal sequences | |
| **Tools, scripts, fixtures** | | | development only | |

The components meet as follows. Main launches Runtimes through the Platform
ports (hosting); each connects back over a *carrier*, and the Control connection
runs on it. Handlers of Main enter the session's mutation lane
(`MainSessionRuntime.mutate`), a promise chain: one turn runs at a time, and a
turn may await a Frame RPC. Watchers of a connection or a process, and
`requestShutdown`, do *not* enter the lane for what they change at once, which
is why every await of a turn is followed by a check. Shared State, Session
Events and Data have carriers of their own and learn of a Runtime's end only
through them.

The hazards that follow from this are in `PROJECT.json`, each at its line and
with the properties that would catch it going wrong.

## 2. What is modelled

| Module | Models |
|---|---|
| `FrameAuthority` | Main's Frame half: the handlers, the lane, the Frame RPCs, failures, the unwind, shutdown, with the Subsystems' contexts as the environment |
| `CallStack` | what the Frame authority promises a game: calls nest, and a return resumes the caller with the outcome. `FrameAuthority` implements it |
| `FrameRuntime` | the Frame contexts inside the Runtimes, `Frame.call`, the settling of a handler, and the ends of the Control connections |
| `FrameControl` | `FrameAuthority` (as `Main`) and `FrameRuntime` composed: what the first leaves to its environment is here what the second does |
| `RuntimeSupervision` | bootstrap, watches, end of session, cleanup, for `NumRuntimes` Runtimes |
| `SharedStateDelivery`, `SharedStateSubscription` | one subscription through Authority, server, wire, binding and client; the first is its callback lane as functions on a record, of which it composes two |
| `SubscriptionFeed` | what a subscription promises its listener. `SharedStateSubscription` implements it |
| `SharedStateCommits` | conditional commits of one author through a client that is rebound, next to rivals |
| `SessionEvents` | the Hub, a replaceable client, its binding, the carrier and the carrier's server |
| `RendererControl` | how a document becomes the Renderer of a session: candidate slot, rendezvous, hello, publication of authority, loss and replacement |
| `RendererHolder`, `PresentationEvents` | what the Renderer does with the snapshots: Data slots by identity; and, on top of it, the leasing of a custom event to the top Frame and its way to the handlers |
| `RenderPublication` | Render Domains from the RenderManager over Data connections that are replaced to the store, with node events on the way back |
| `RenderTree` | one Domain's forest in the store and the incremental index its Patches work through |
| `WebProjector` | reconciliation of the document with the committed forests, by moving elements |
| `DataProvisioning` | the desktop Data broker, its settlements, and the two bindings in other processes |
| `SubsystemHost`, `RuntimeHosting` | `runSubsystem` from the factory to its end; and around it one launch by either platform, with its process and planes |
| `PwaInstallation` | records and objects of the installations shared by an origin's windows, that are closed or killed between any two steps |
| `PwaWindow` | one window starting one session worker after another |
| `PwaDataBroker` | the two-endpoint transaction of the PWA's Data broker |
| `RpgDialogue`, `SchemaForm` | the state machines of two game libraries |
| `ControlsInput` | the controls of a third: the element of a window that folds keyboard, gamepads and custom controls into one state, from its connection and render context (in either order) and the claim of the window over the held Select that opens the overlay to its removal; and the consumer in a Frame |
| `FrameAuthorityProofs`, `FrameControlProofs`, `RuntimeSupervisionProofs`, `ServiceClientsProofs`, `RendererSessionProofs`, `SharedStateSubscriptionProofs`, `DataProvisioningProofs`, `ProductAndGamesProofs` | the theorems (section 4) |
| `MC...` | instances for TLC. `MCMainSession`, `MCServiceClients`, `MCRendering`, `MCSessionControl` and `MCProductAndGames` put components side by side that share no state: a variable `part`, chosen at the beginning and never changed, says which of them a behaviour is about; the others stand still. The state space is the sum, not the product, of those of the parts |

How state and steps correspond to the code is in the comments on the variables
and actions, and line by line in the `map` of `PROJECT.json`. The conventions:

* **A step is a stretch of code that awaits nothing.** Continuations of promises
  that are already settled belong to the step that settled them. JavaScript runs
  them in the same drain of the microtask queue, so no message, timer or process
  event comes between. Where the order *within* a drain matters, it is a step of
  its own.
* **A promise chain** (Main's mutation lane, a broker's operation tail, a
  window's queue of starts) is a sequence of operations, or the record of the
  operation whose turn it is and what it awaits. A handler that needs the lane
  runs when the lane is free. What a turn does after an await is a *reply* action
  that starts with the checks the code makes there.
* **Carriers and the Platform are external.** A carrier keeps order, may end at
  any time and with it lose any suffix of what it had accepted, and what the
  receiver had buffered is still read. A send that is *rejected* has not
  delivered its message; one that is accepted may not have either. Of the
  Platform `RuntimeSupervision` assumes what its port documents; `RuntimeHosting`
  is about whether the platforms keep it.
* **A composed step** of `FrameControl` is a turn of Main's lane with the
  message it reads and the one it writes, or a step of one Runtime. The response
  to a request is written in the turn that handled it. Main's dispatch lane does
  not take the next request of a connection while what it promised "after the
  response" to the one before is still owed (`DispatchFree`). On the other side a
  Runtime reads a response at once but handles requests in a lane (`behind`
  remembers which was sent first).
* **The beginning of `FrameAuthority`** is the session after its bootstrap, with
  every Runtime ready. That is proved of `RuntimeSupervision` (`StartsReady`).
* **A crash** of a PWA window is a step that may come between any two others and
  takes away everything but the store (IndexedDB records, OPFS objects, local
  storage): `PwaInstallation` has one step per transaction or file operation.
* **Data** is reduced to what properties distinguish: a Frame is the number of
  its allocation, an activation the number of its turn, an outcome its kind, a
  snapshot its revision, an event its number, a transaction the versions it asks
  for and the keys it writes.

Definitions whose comment begins with *Seeded bug* are not part of a model: they
are the mutations listed in `PROJECT.json`, each showing that a property
distinguishes the code from a plausible mistake in it.

## 3. What the runs show

| Run (configuration) | Bounds | Shows |
|---|---|---|
| `frame_authority` (`MCMainSession`) | 2 Runtimes, 3 Frames; supervision of 1 Runtime | With every interleaving of calls, returns, replies, timeouts, failures and a stop: Main never meets a state it calls divergence (`NoAuthorityDivergence`); no healthy Runtime keeps the context of a dropped Frame (`NoOrphanContext`); a session at rest has nothing half done (`SettledAtRest`); after a stop no late reply changes anything (`FrozenAfterStop`); the whole implements `CallStack`; an accepted return is carried through (`ReturnSettles`). As a part of its own: bootstrap, and `run()` after a stop, come to an end (`SupervisionSettles`) |
| `runtime_supervision` (`MCRuntimeSupervision`) | 2 Runtimes | No process is left without a termination request (`NoOrphanRuntime`), a graceful stop is not killed before its time (`GracefulRuntimeIsSpared`), a Runtime that fails in bootstrap ends the session (`BootstrapFailureEnds`), and no exited process is asked to terminate (`NoRequestAfterExit`) |
| `subscription` (`MCSharedStateSubscription`) | lane limit 2, 3 commits | The peers never accuse each other wrongly (`NeverCorrupt`), the listener sees a baseline and every relevant commit after it in order (`ImplementsFeed`), and they arrive or the subscription ends (`ChangesArrive`) |
| `service_clients` (`MCServiceClients`) | commits: 1 Record, 2 commits, 2 bindings, revisions to 2; events: 2 bindings, 2 subscriptions, limits of 1 | What an author is told of a commit or a publication is true (`EvidenceSound`, `HonestOutcome`), rivals do not both succeed (`NoLostUpdate`), a commit settles (`CommitSettles`), a subscriber gets its events or loses its subscription (`Arrives`) |
| `rendering` (`MCRendering`) | publication: 1 node, 2 Domains, 2 operations, 2 connections; index: 4 nodes, Patches of 2 operations; projection: 2 Subsystems of 3 and 2 nodes | The store never refuses what the manager sends (`NeverRefused`), an event is handled in the state it was emitted in or later (`EventSeesItsState`), the incremental index is what a walk of the forest gives (`LocationsExact`), the document is the projection of the forests as long as no insertion has thrown (`ProjectedUnlessThrown`), and the store ends up equal to the Domain (`ConvergesHere`) |
| `data_provisioning` (`MCDataProvisioning`) | 2 Renderers, 2 candidates, 1 fault | A role never has its end before the relay between the two is open (`NeverTooEarly`), and a wanted connection comes about once faults stop (`Recovers`) |
| `session_control` (`MCSessionControl`) | Frames: 2 Runtimes, 3 Frames; Renderer: 2 documents, 2 revisions; events: 2 listeners, 2 acquisitions, 2 activations, 2 events, 5 moves of the environment | With requests, responses, failures and unwinds crossing on the wire: no Runtime refuses what Main asks of it (`NoDivergence`), and a sound Runtime keeps no context Main has forgotten (`NoStrayContext`). Main speaks only to the current document (`OnlyCurrentSpeaks`), which is given up only for its own loss (`OnlyItsOwnLoss`); a handler only runs in the activation its event was leased to and with its listener open, whatever the handlers before it did (`HandlersHonourLease`) |
| `runtime_hosting` (`MCRuntimeHosting`) | both platforms, 1 plane, 1 acquisition, 2 breaks | A late Data carrier has an owner or is closed (`DataOwned`), and no failed launch leaves a process running (`NoOrphanProcess`) |
| `product_and_games` (`MCProductAndGames`) | 2 windows, 2 installations, 3 boots, 1 fault, 1 damaged object, 1 removal; 3 starts; 3 revisions, 3 connections, 2 timeouts; 2 Conversations, 1 change of the History; 2 forms of 2 attempts; 1 button, 1 gamepad | An installation that is marked complete has all its objects, unless a collector listed it while it was being made (`CompleteIsWhole`), and one that was removed or given up does not come back (`NoResurrection`); a window has one session worker at a time (`OneWorker`); a broker at rest has overlooked no request (`QuietMeansSettled`); an answer is credited to its own Conversation, or to one that was being opened at the same time (`AnswersItsOwn`), only a form's newest attempt speaks (`OnlyTheNewestAttempt`), and a button that is up does not stay down (`NoStuckButton`) |
| `projector_moves` (`MCWebProjectorMoves`) | as the projection above | *Violated*: finding 1 |
| `dialogue_end` (`MCRpgDialogueEnd`) | 2 Conversations | *Violated*: finding 2 |
| `dialogue_overlap` (`MCRpgDialogueOverlap`) | 2 Conversations | *Violated*: finding 3 |

Deadlock is not checked: a session, a window or a form may end, and games and
players need not do anything.

### Why the bounds are enough

* Two Runtimes and three Frames: one Runtime can own the caller and the Frame
  above the callee, so an unwind meets healthy and failed owners in one stack,
  in each order; a third Frame gives the unwind a middle. The proofs hold for
  any numbers. The same bounds for `FrameControl`.
* One Runtime for the liveness of the supervision: cleanups run in parallel and
  meet only in the session's terminal, whose handling two Runtimes exercise in
  the safety run.
* A lane limit of 2 with 3 commits: one change in delivery, one queued and one
  too many, and commits before the baseline and after the overflow. Limits of 1
  in `SessionEvents` make every second event overflow.
* Two of what replaces each other (bindings, connections, documents, Renderers,
  candidates, carriers), so that what is late for the first meets the second;
  three where the order of two replacements matters (starts of a window,
  revisions and connections of the PWA broker, boots of windows: one that made,
  one that died, one that collects).
* Four nodes and two operations per Patch: an operation can invalidate a location
  that the next one trusts, with a sibling before, after and below. Three nodes
  in the projector are the fewest that can be turned upside down below the root.
* One button that is also Select, held by three kinds of sources (keys, a pad, a
  custom control): the sources meet in one state, and a second pad is to the first
  what a custom control is.
* Counters that never fall (Frame ids, revisions, keys) are bounded by guards
  that name their constant (`MaxFrames`, `MaxRevision`, ...).
* Symmetry is declared for sets of model values that only liveness-free parts use
  (windows, installations, listeners, nodes). `NoStuckButton` and `ConvergesHere`
  are temporal and belong to parts in which no permuted value occurs: all of
  their states are the same under every permutation.

### Fairness

Weak fairness is assumed only of what the code itself schedules or bounds:

* `FrameAuthority`: a Frame RPC is answered or times out, because
  `Connection.request` sets a deadline; a turn of the lane that is ready runs; a
  watcher reports a connection that has ended. Nothing is assumed of Subsystems.
* `RuntimeSupervision`: `runWithDeadline` and `resolvesWithin` bound the waits
  on launch, hello, status, peer and termination. A Runtime that never exits is
  allowed.
* `SharedStateSubscription`, `SharedStateCommits`, `SessionEvents`: timers fire,
  buffered messages are read, a carrier accepts what it is given or ends, and the
  promise that a caller's listener returns settles. Nobody has to call, close,
  commit or break anything.
* `RenderPublication`, `DataProvisioning`: sends settle, terminals are observed,
  carriers are acquired again, tasks and messages run. Authors need not act, and
  faults, of which there are finitely many, need not happen. `ENABLED` is written
  out in these two (`CanProgress`), which TLC evaluates faster.
* `ControlsInput`: a broadcast on its way arrives or is lost, and timers expire.
* `RuntimeHosting`: the launch and the Runtime take the steps they are
  ready for, and a socket that broke is noticed on both sides. Nobody has to abort,
  crash, connect or ask for termination.
* `RendererControl` and `PwaWindow` state the fairness of their scheduling, which
  no property of a run needs.

### Findings

1. **A move upside down** (`projector_moves`): `reconcile` places the children of
   each node in the post-order of the new tree. When a `replace()` turns an
   ancestor and its descendant below the root upside down (A>B>C becomes A>C>B),
   the first placement inserts B's element into C's while C's is still inside
   B's: `insertBefore` throws, the document is left half moved, and the exception
   stops the projection of every Subsystem.
2. **A dialogue that opens after its end** (`dialogue_end`): after awaiting
   `createSessionResources()`, `beginConversation()` does not look at the
   lifecycle again. A dialogue closed during that await becomes active again, with
   a subscription and a Render Domain that nothing closes.
3. **Two Conversations of one number** (`dialogue_overlap`): the number of a
   Conversation is drawn before the same `await` and used up after it. A second
   `openConversation()` that is made meanwhile is not rejected, draws the same
   number and takes the place of the first; an answer that the player gave to the
   first then settles the second. `AnswersItsOwn` is what remains true: apart from
   calls that were being opened at the same time, an answer settles the
   Conversation it was given to.

Seen while modelling, and kept in the models as the code has it:

* the code takes a Frame from `starting` to `closed`, which the transition table
  of `doc/15-contracts/frame-call-protocol-v1.md` does not list;
* `bindingLost` in `shared-state/src/client.ts` queues a microtask that invokes
  the listener without looking at the subscription again, so that a listener may
  be invoked after `close()`;
* the request loop of `serveSharedStateCarrier` does not look at `closed`: a
  subscribe that was buffered at the shutdown is served, and its observer stays;
* a Runtime fails while a Frame of another, healthy Runtime is above its own, and
  that Frame has just sent a request: Main answers it after the unwind with
  `FRAME_NOT_FOUND`, which is fatal, and the failure spreads;
* `setHistory` during the first opening of a dialogue gives node keys that the
  opening gives again.

## 4. What is proved

The theorems hold for every value of the constants, under the named assumptions
of the modules: bounds are natural numbers (or positive), the initial Subsystem
is one of the Subsystems, form options are records of the right shape. TLC
evaluates them in the passing runs. Each argument is an inductive invariant; TLC had
checked it on the instances of section 3, or smaller ones, before it was proved.

**`FrameAuthorityProofs`.** The checked invariants are not inductive one by one.
Whether `NoAuthorityDivergence` survives an unwind depends on which Frames it has
still to pop; whether the caller may be resumed depends on who committed what.
`IndInv` is the conjunction of

* `TypeOK`, and `StackDiscipline`: suspended callers below, at most one active
  Frame, the top;
* `IdsInOrder`: ids grow along the stack and are below the next to be allocated;
* `LaneOnTop`: the operation that holds the lane is about the top of the stack,
  in the lifecycle its RPC implies; `UnwindRoot`: an unwind is about Frames that
  are still there;
* `OwedInOrder`, `CloseOnce`: what is owed after a response is owed once, and no
  Frame is asked twice to close;
* `ContextFollows`, `NoOrphanContext`: the Subsystem's context of a Frame is what
  Main has told it, as long as its Runtime is healthy;
* `OutcomeSurvives`, `NoAuthorityDivergence`.

There is one lemma per action, split by the parts the action disturbs.
`StopFreezes` (`FrozenAfterStop`) uses `NoStopInTurn` besides: between two steps
the lane never sits in a state that a stop would leave to be finished.

Two results rest on `IndInv`. `CallStackImplemented`: every step of the Frame
authority is a step of `CallStack` or leaves its variables alone. Above `IndInv`
it needs that only a Frame that leaves has committed an outcome (`OutcomesLate`).
`AtRestTheSessionGoesOn` (`SettledAtRest`) adds `Settling`: what an operation in
the lane keeps of the way back to rest. An unwind finds a Frame of a failed
Runtime or leaves a top that is served, that is, active or waiting for something
that is still owed.

**`FrameControlProofs`.** The Frame authority joined with the Runtimes. What Main
knows of itself is `IndInv`, which every step of the composition keeps because
Main's part of it is a step of `FrameAuthority` (`NextGrows`). `ControlInv` adds,
for each Runtime:

* what it and its channel agree on, whatever Main does (`Local`): the work it owes
  after a response is the one its context waits for (`AfterAgrees`); one
  `frame.call` or `frame.return` is under way (`FlightAgrees`); it would accept
  the request it has not handled yet (`Acceptable`); it speaks of Frames that Main
  has given it (`Known`);
* as long as Main counts on it: its contexts are of live Frames (`ContextsLive`),
  and what it is asked is what the lane waits for (`AsksAgree`);
* as long as the connection is there and the session goes on: the RPC in the lane
  is on its way or answered (`LaneServed`), the caller of a child whose outcome is
  not handed over waits for it with an older activation (`CallersWait`), and
  Frames Main holds have a context, the active one in control (`FramesHeld`).

`NoRequestRefused` (`NoDivergence`) and `NoContextStrays` (`NoStrayContext`)
follow. The steps of a Runtime leave Main alone, and those of Main leave all
contexts alone; what a step of Main does to the records of the Runtimes it is not
about is one lemma (`RecordsStay`), so each handler is proved for its own Frame
only. The conditions shrink as a session goes down: after a stop, a lost link or a
failure nothing is claimed that only a running session keeps.

**`RuntimeSupervisionProofs`.** `TypeOK`, `SessionInv` on the session, and for
each Runtime `RuntimeInv`, `CleanupInv` and `BootstrapInv`. A failure touches one
Runtime and the session; `FailureStepKeeps` is that fact, used by every action
that ends in a failure. The properties of the run follow, and `StartsReady`: the
state in which `FrameAuthority` begins is one in which the bootstrap ends.

**`SharedStateSubscriptionProofs`.** An event passes the Authority's lane, the
server's outbound lane, the wire and the binding's lane before the listener is
given it, and each of them can be cut, overflow or be closed on its own. `FeedInv`
says, with one relation `MayFollow` between neighbours (the baseline after the
response, the next relevant revision after news, one terminal after news):

* what is on the wire continues what the binding has read, what the server has yet
  to send continues that (`StreamOrdered`), and the observer's queue continues
  that in turn, up to the last relevant commit (`ObserverPending`);
* until the request to subscribe is served nothing is on its way (`Requests`), and
  the server sends one event at a time, the one its observer delivers (`Sending`);
* the binding's queue continues what the listener was given, up to what the
  binding has read (`FeedOrdered`);
* a lane that is closed is empty, and a timer is set only while nothing is
  delivered (`LaneInOrder`).

A step moves the boundary between two of these sequences; `Grows`, `Shrinks` and
`Replaced` say what it keeps. A broken link keeps a prefix of what was on the wire;
the observer of a dead server goes on, of which only the order of its own queue is
claimed. `NeverCorruptHolds` (`NeverCorrupt`) follows, for an event that may follow
what was read last is none that `Impossible` describes, and `FeedImplemented`
(`ImplementsFeed`): what the lane gives the listener next is `Baseline`, `Change`
or `End` of `SubscriptionFeed`. TLC has checked `FeedInv` on the instance of the
run `subscription`, with the unnamed predecessor of the observer's queue taken from
a finite set.

**`ServiceClientsProofs`.** `EvidenceSound` speaks of what an author was
told, and becomes inductive with what is under way: a request that has not been
served has no effect (`PlaceTells`), an answer or a settled promise tells what
became of it (`PromisesTell`). `NoLostUpdate` rests on `UsedUp`: a commit that
has taken effect leaves each Record it writes past the version it asked for, and
versions never shrink, so no rival can still succeed. `OutcomesAreHonest`
(`HonestOutcome`) is the same question for a publish: it is in one place at most,
its request going up or its answer coming down on the carrier it was sent
through (`RequestHonest`, `AnswerHonest`). All but three actions are *quiet*, they
leave such messages alone (`QuietStep`); what a binding loses becomes unknown.

**`RendererSessionProofs`.** Two parts.

* *Renderer Control*: `OneSpeaker` and `LossIsItsOwn` rest on two facts that every
  replacement of a document keeps: a peer that has sent a snapshot or is about to
  is the current one as long as it lives (`SpeakerIsCurrent`), and the operations
  queued in Main's lane tell only hellos and losses that have happened
  (`Truthful`).
* *Custom events*: `HandlersInLease` (`HandlersHonourLease`). That a handler runs
  inside the lease is the second look `onEvent` takes at each candidate; that it
  runs for later and later events is `EventInvariant`: the queue of the gate and
  each carrier keep the order of emission, a carrier the Runtime still reads holds
  only events older than those on the one that took its place, and what was
  handled is older than all of them (`EventsInOrder`, `HandledInOrder`). A carrier
  that was replaced takes no more events (`OnlyCurrentTakes`), because a slot gets
  a new one only when its acquisition is new (`SlotsSettled`). The gate drops
  events out of the middle of its queue; that the rest stays in order is a lemma
  about `AtPositions` (`AtPositionsThins`), by counting the positions that stay
  (`Counting`: induction over the numbers, stated about a set).

**`DataProvisioningProofs`.** `OneConnectionHolds`: at most one Data connection
relays, the one that Main authorizes now. `NeverTooEarlyHolds` (`NeverTooEarly`):
no role has its end before the relay was open. A role has an end because it was
told to commit, it was told because the broker installed the candidate, and that
was queued when both roles had confirmed; each of these may have been overtaken
by a loss, a replacement or a disposal. `BrokerInv` says it of the host:

* what is current is in its place and authorized, only what is current relays, and
  what was prepared has been settled and confirmed on both sides (`Placed`);
* the outcome of a preparation is queued once, and finds its candidate as it was
  left or retired (`Queued`);
* a commit on its way, and an end a role holds, are of a candidate whose relay was
  opened (`CommitsOpened`, `EndsOpened`). *Opened* includes *retired*: a
  connection may be taken away again while the word of it travels.

The operations of the broker are functions on its record that call each other.
Most of them only withdraw: a candidate leaves, messages and queued operations
disappear. `Thins(h, g, D)` says that of two records, `WithdrawalKeeps` that it
keeps the invariant; left are a new candidate (`CandidateKeeps`), a settlement
(`SettleKeeps`) and the installation itself (`InstalledKeeps`).

**`ProductAndGamesProofs`.** Six parts. Of the PWA:

* *Installations*: whatever windows crash in between, a record that is complete
  has all its objects. A window is the only maker of what it makes; what a
  collector listed while its maker lived is *raced* and excepted, and the rest of
  what it listed cannot become complete any more (`MakerHolds`, `SweeperHolds`,
  `RemovalHolds`). `NothingResurrects` is the action property: what was removed
  or given up is never complete again.
* *Window*: a start waits for the session that was stopped last, and sessions are
  closed in the order in which they were stopped (`StartsBehindStops`); hence one
  worker at a time.
* *Broker*: the connection that is installed, or on its way, carries the revision
  it was made for, and if that is the authority's revision its generation is
  too (`EntryAgrees`); so nothing is overlooked when the operation tail is empty.

Of the game libraries:

* *Forms*: a form is pending exactly while it is its Frame's active form, and
  listens to the abort exactly while its subscription is held; an attempt that is
  current is the newest. `NewestAttemptWins`, and `SettledFormsHoldNothing`.
* *Dialogue*: an answer names its Conversation by number, so the proof is that the
  numbers tell apart every call somebody can still refer to (`Drawn`): the active
  one, the ones that Domains show, those that answers on their way were given to,
  and the ones being opened. Nothing is assumed of the caller. Calls that were
  being opened at the same time are the exception, for they draw the same number
  (finding 3); a number that is drawn later is a new one (`DialogueInvariant`,
  `AnswersAreItsOwn`).
* *Controls*: what the element repeats is what its sources hold, they hold
  nothing whose release they would not be told, only the owner of the window
  publishes, and the overlay is only waited for while Select is down
  (`ControlsInvariant`);
  `EdgesTellTransitions`: an edge that is told is a transition of its button as a
  whole (`EdgesHappened`); and while the element keeps the window and the
  keyboard, every transition is told, but for the press of a button that an
  arriving gamepad brings (`NothingGoesUntold`). What the loss or the regaining of
  the window or of the keyboard changes is published as a state, without an edge.

Of both products:

* *Hosting* (`RuntimeHosting`): what a launch and its Runtime hold of Data carriers
  in every state, together with where each acquisition stands (`HostInvariant`).
  `CarriersAreOwned` (`DataOwned`) and `OneAcquisitionAtATime` follow: a carrier
  that arrives late belongs to the acquisition that asked for it, and after a
  terminal cause that acquisition closes it.

**Only model-checked.** Liveness (`ReturnSettles`, `SupervisionSettles`,
`ChangesArrive`, `CommitSettles`, `Arrives`, `ConvergesHere`, `Recovers`,
`NoStuckButton`, `NoOrphanProcess`) is out of the prover's reach. So is the rendering: its
definitions walk trees by recursion over data (`NeverRefused`,
`EventSeesItsState`, `LocationsExact`, `ProjectedUnlessThrown`). Of the dialogue, what keys a projection uses is not proved: which key `Allocate`
gives to which member goes through a choice of an order of a set.

## 5. What is not modelled

* Of the Frame authority: the exhaustion of the Renderer's revision
  (`observeRendererAuthority`, `main-session.ts` 1356-1369), which ends the
  session in the middle of an operation after 2^53 publications.
* Of the Runtimes' Frames: `frame.suspend`, which Main never sends, and
  `FRAME_INITIALIZE_REJECTED`, which this Subsystem never answers (Main's handling
  of it is in `FrameAuthority`); the moment between the writing of the status
  `ready` and its promise, in which a Runtime would refuse a Frame. `FrameControl`
  follows the session until its terminal.
* Of Shared State: `read`, `readInitial`, `list` and `scan`, which change nothing
  on the Authority; their abort signals; the initial definition; chunked framing
  (a message whose chunks are not all delivered is not delivered); the limits of
  the carrier (1024 requests in flight, 256 messages outbound), whose overrun ends
  the binding like any other failure. Exhausted subscription ids.
* Of the Renderer: the viewport and history publishers, and attributes and data of
  elements. Of the Data protocol, hello and frames.
* Of the products: download and verification of single objects, HTTP serving and
  packaging, the wiring of the parts.
* Of the game libraries: the controls inside the overlay, a form's field elements, and the libraries
  that keep no state between calls.
* Codecs and validation, FSDB, content serving: pure data or I/O. Tools, scripts,
  fixtures, devices: not part of the running system.

## 6. Plan

1. The viewport publishers on both sides of the Data protocol (last value wins),
   as a part of `MCRendering`.
