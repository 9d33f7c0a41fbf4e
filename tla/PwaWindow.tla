------------------------------- MODULE PwaWindow -------------------------------
(***************************************************************************)
(* The window of the PWA product (apps/pwa/src/window-product.ts with the  *)
(* service worker gate): it starts one session worker after another.       *)
(* Starts are queued behind each other; each first stops the session that  *)
(* runs, then passes the gate, selects an installation, builds a renderer  *)
(* host, and launches a worker.  A pagehide, a restart or a restored page  *)
(* may come between any two of these steps, and the worker being stopped   *)
(* goes on posting until it is terminated.                                 *)
(*                                                                         *)
(* Sessions are numbered in the order of their launch; 0 is none.  Of the  *)
(* session worker (session-worker-entry.ts) this module has what it posts  *)
(* to the window and the Host lifecycle it was told.                       *)
(***************************************************************************)
EXTENDS Naturals, Sequences, FiniteSets, SequencesExt

CONSTANTS
  MaxStarts,   \* bounds the revisions, and so the starts and the sessions
  MaxFlips,    \* bounds the changes of the document's visibility
  MaxReloads,  \* bounds the reloads of the document by the gate
  MaxThrows    \* bounds the cleanups of a session that throw

ASSUME WindowAssumption ==
  MaxStarts \in Nat \ {0} /\ {MaxFlips, MaxReloads, MaxThrows} \subseteq Nat

VARIABLES
  page,        \* "shown", or "away" after pagehide
  revision,    \* lifecycleRevision
  queue,       \* the revisions of the starts waiting in the transitioning chain
  start,       \* the start under way: its revision, its stage and the stop it waits for
  current,     \* the session that runs
  closing,     \* the stopping chain: the sessions being closed, in order
  lastStop,    \* the session that was stopped last
  broken,      \* the sessions whose cleanup threw
  worker,      \* the worker of each session
  posted,      \* what it posted and the window has not handled yet
  marked,      \* the sessions whose closed promise is resolved
  shut,        \* the sessions whose worker was sent the shutdown message
  readyShown,       \* state.ready
  poisoned,    \* the presentation bootstrap failed in this document
  visible, told, lane, heard,   \* document visibility, what each session was last told,
                                \* the messages under way and what its worker heard
  controlled,  \* a service worker controls this document
  marker,      \* the reload marker in sessionStorage
  reloads,     \* history: reloads since the last handshake
  flips, throws

starting == <<revision, queue, start>>
sessions == <<current, closing, lastStop, broken, worker, posted, marked, shut, readyShown>>
lifecycle == <<visible, told, lane, heard, flips>>
gate == <<controlled, marker, reloads>>
windowVars == <<page, starting, sessions, poisoned, lifecycle, gate, throws>>

Sessions == 1 .. MaxStarts
NoStart == [rev |-> 0, stage |-> "none", waits |-> 0]
Gone == {"none", "ended", "terminated"}
Launched == {e \in Sessions : worker[e] # "none"}

InitWindow ==
  /\ page = "shown" /\ revision = 1 /\ queue = <<1>> /\ start = NoStart
  /\ current = 0 /\ closing = <<>> /\ lastStop = 0 /\ broken = {}
  /\ worker = [e \in Sessions |-> "none"]
  /\ posted = [e \in Sessions |-> <<>>]
  /\ marked = {} /\ shut = {} /\ readyShown = FALSE /\ poisoned = FALSE
  /\ visible = TRUE
  /\ told = [e \in Sessions |-> TRUE] /\ heard = [e \in Sessions |-> TRUE]
  /\ lane = [e \in Sessions |-> <<>>]
  /\ controlled \in BOOLEAN /\ marker = FALSE /\ reloads = 0
  /\ flips = 0 /\ throws = 0

----------------------------------------------------------------------------
(* Stopping.                                                               *)

\* stopCurrent: the session is current no more at once, and is closed behind the others.
StopCurrent ==
  /\ current' = 0 /\ readyShown' = FALSE
  /\ IF current = 0 THEN UNCHANGED <<closing, lastStop>>
     ELSE closing' = Append(closing, current) /\ lastStop' = current

\* close() of the session at the head of the chain posts the shutdown message ...
PostShutdown ==
  /\ closing # <<>> /\ Head(closing) \notin shut
  /\ shut' = shut \union {Head(closing)}
  /\ UNCHANGED <<page, starting, current, closing, lastStop, broken, worker, posted, marked, readyShown,
                 poisoned, lifecycle, gate, throws>>

\* ... and waits for the worker to close or for 1.5 seconds.
MayDispose(e) == e \in shut

\* Then everything the session holds is released, and its worker terminated last.
Dispose ==
  /\ closing # <<>> /\ MayDispose(Head(closing))
  /\ LET e == Head(closing) IN
       /\ worker' = [worker EXCEPT ![e] = "terminated"]
       /\ posted' = [posted EXCEPT ![e] = <<>>]
       /\ lane' = [lane EXCEPT ![e] = <<>>]
       /\ \/ UNCHANGED <<broken, throws>>
          \/ throws < MaxThrows /\ throws' = throws + 1 /\ broken' = broken \union {e}
  /\ closing' = Tail(closing)
  /\ UNCHANGED <<page, starting, current, lastStop, marked, shut, readyShown, poisoned,
                 visible, told, heard, flips, gate>>

----------------------------------------------------------------------------
(* Starting.                                                               *)

\* queueFreshSession.
Queue == revision' = revision + 1 /\ queue' = Append(queue, revision + 1)
Restart ==
  /\ page = "shown" /\ revision < MaxStarts
  /\ Queue
  /\ UNCHANGED <<page, start, sessions, poisoned, lifecycle, gate, throws>>

PageHide ==
  /\ page = "shown" /\ revision < MaxStarts
  /\ page' = "away" /\ revision' = revision + 1
  /\ StopCurrent
  /\ UNCHANGED <<queue, start, broken, worker, posted, marked, shut, poisoned, lifecycle, gate, throws>>

\* pageshow of a page restored from the back/forward cache.
PageShow ==
  /\ page = "away" /\ revision < MaxStarts
  /\ page' = "shown" /\ Queue
  /\ UNCHANGED <<start, sessions, poisoned, lifecycle, gate, throws>>

\* assertCurrentRevision: a start that was superseded goes no further.
Superseded == start.rev # revision

Enter(stage) == start' = [start EXCEPT !.stage = stage]
Abandon == start' = NoStart
Proceed(stage) == IF Superseded THEN Abandon ELSE Enter(stage)

\* Seeded bug: a start awaits only the stop it begins itself.
AwaitedOwn == current
\* The stop whose end a start awaits: `stopping` as stopCurrent returns it.
Awaited == IF current # 0 THEN current ELSE lastStop

BeginStart ==
  /\ start = NoStart /\ queue # <<>>
  /\ queue' = Tail(queue)
  /\ start' = [rev |-> Head(queue), stage |-> "stopping", waits |-> Awaited]
  /\ StopCurrent
  /\ UNCHANGED <<page, revision, broken, worker, posted, marked, shut, poisoned, lifecycle, gate, throws>>

Stopped ==
  /\ start.stage = "stopping" /\ start.waits \notin Range(closing)
  /\ IF start.waits \in broken THEN Abandon ELSE Proceed("gate")
  /\ UNCHANGED <<page, revision, queue, sessions, poisoned, lifecycle, gate, throws>>

\* serviceWorkerGate with a controller: the handshake, which removes the marker.
Handshake ==
  /\ start.stage = "gate" /\ controlled
  /\ \/ Proceed("selecting") /\ marker' = FALSE /\ reloads' = 0
     \/ Abandon /\ UNCHANGED <<marker, reloads>>
  /\ UNCHANGED <<page, revision, queue, sessions, poisoned, lifecycle, controlled, throws>>

MarkReload == marker' = TRUE

\* Without one: wait for the first worker to be activated, mark, and reload the document once.
FirstInstall ==
  /\ start.stage = "gate" /\ ~controlled
  /\ \/ /\ ~marker /\ page = "shown" /\ reloads < MaxReloads
        /\ MarkReload
        /\ reloads' = reloads + 1
        /\ controlled' \in BOOLEAN
        /\ queue' = <<revision>> /\ start' = NoStart /\ poisoned' = FALSE
     \/ /\ Abandon
        /\ UNCHANGED <<marker, reloads, controlled, queue, poisoned>>
  /\ UNCHANGED <<page, revision, sessions, lifecycle, throws>>

\* selectInstallation (PwaInstallation.tla), which may fail.
Select ==
  /\ start.stage = "selecting"
  /\ Proceed("hosting") \/ Abandon
  /\ UNCHANGED <<page, revision, queue, sessions, poisoned, lifecycle, gate, throws>>

\* createPwaRendererHost fails; once scripts began to load, for every later start too.
HostFails ==
  /\ start.stage = "hosting"
  /\ Abandon
  /\ poisoned' \in {poisoned, TRUE}
  /\ UNCHANGED <<page, revision, queue, sessions, lifecycle, gate, throws>>

\* The host is there and the revision still stands: worker, bridge and lifecycle channel are
\* made in one go, and the worker's bootstrap has the visibility of that moment.
TellAtLaunch(e) == heard' = [heard EXCEPT ![e] = visible]

LaunchSession(e) ==
  /\ start.stage = "hosting" /\ ~poisoned
  /\ e = Cardinality(Launched) + 1
  /\ Abandon
  /\ IF Superseded
     THEN UNCHANGED <<current, worker, told, heard>>
     ELSE /\ current' = e
          /\ worker' = [worker EXCEPT ![e] = "preparing"]
          /\ told' = [told EXCEPT ![e] = visible]
          /\ TellAtLaunch(e)
  /\ UNCHANGED <<page, revision, queue, closing, lastStop, broken, posted, marked, shut, readyShown, poisoned,
                 visible, lane, flips, gate, throws>>

----------------------------------------------------------------------------
(* The session worker, and what the window does with what it posts.        *)

Post(e, msgs, state) ==
  /\ worker' = [worker EXCEPT ![e] = state]
  /\ posted' = [posted EXCEPT ![e] = @ \o msgs]
  /\ UNCHANGED <<page, starting, current, closing, lastStop, broken, marked, shut, readyShown, poisoned,
                 lifecycle, gate, throws>>

\* The installation is opened and Main started, or the bootstrap fails and the worker ends.
Prepared(e) == worker[e] = "preparing" /\ Post(e, <<"main-started">>, "running")
BootstrapFails(e) == worker[e] = "preparing" /\ Post(e, <<"failed">>, "ended")
\* runMain returns: the result first, then everything is closed.
Settles(e) == worker[e] = "running" /\ Post(e, <<"settled">>, "settled")
Closes(e) == worker[e] = "settled" /\ Post(e, <<"closed">>, "closed")
\* runMain, or a close, rejects.
RunFails(e) == worker[e] \in {"running", "settled"} /\ Post(e, <<"closed", "failed">>, "ended")
WorkerCrashes(e) == worker[e] \in {"preparing", "running"} /\ Post(e, <<"error">>, "ended")

\* Only what the current session posts is taken for the product's own status.
IsCurrent(e) == e = current

Receive(e) ==
  /\ posted[e] # <<>>
  /\ posted' = [posted EXCEPT ![e] = Tail(@)]
  /\ LET m == Head(posted[e]) IN
       /\ marked' = IF m \in {"closed", "error"} \/ (m = "failed" /\ IsCurrent(e))
                    THEN marked \union {e} ELSE marked
       /\ IF IsCurrent(e) /\ m \in {"failed", "closed", "error"} THEN StopCurrent
          ELSE /\ readyShown' = (readyShown \/ (IsCurrent(e) /\ m = "main-started"))
               /\ UNCHANGED <<current, closing, lastStop>>
  /\ UNCHANGED <<page, starting, broken, worker, shut, poisoned, lifecycle, gate, throws>>

\* publishPhysicalLifecycle.
FlipVisibility ==
  /\ flips < MaxFlips
  /\ flips' = flips + 1 /\ visible' = ~visible
  /\ IF current # 0 /\ told[current] # ~visible
     THEN /\ told' = [told EXCEPT ![current] = ~visible]
          /\ lane' = [lane EXCEPT ![current] = Append(@, ~visible)]
     ELSE UNCHANGED <<told, lane>>
  /\ UNCHANGED <<page, starting, sessions, poisoned, heard, gate, throws>>

\* The worker starts the port once it is prepared; what was posted earlier waits for it.
HearLifecycle(e) ==
  /\ worker[e] = "running" /\ lane[e] # <<>>
  /\ heard' = [heard EXCEPT ![e] = Head(lane[e])]
  /\ lane' = [lane EXCEPT ![e] = Tail(@)]
  /\ UNCHANGED <<page, starting, sessions, poisoned, visible, told, flips, gate, throws>>

StartStep == BeginStart \/ Stopped \/ Handshake \/ FirstInstall \/ Select \/ HostFails
             \/ (\E e \in Sessions : LaunchSession(e))
WorkerStep(e) == Prepared(e) \/ BootstrapFails(e) \/ Settles(e) \/ Closes(e) \/ RunFails(e) \/ WorkerCrashes(e)

NextWindow ==
  \/ Restart \/ PageHide \/ PageShow \/ FlipVisibility
  \/ StartStep \/ PostShutdown \/ Dispose
  \/ \E e \in Sessions : WorkerStep(e) \/ Receive(e) \/ HearLifecycle(e)

\* The window's own tasks and timers run; of a worker nothing is assumed.
SpecWindow ==
  /\ InitWindow /\ [][NextWindow]_windowVars
  /\ WF_windowVars(StartStep) /\ WF_windowVars(PostShutdown) /\ WF_windowVars(Dispose)

----------------------------------------------------------------------------

WindowTypeOK ==
  /\ page \in {"shown", "away"} /\ revision \in 1 .. MaxStarts
  /\ start.stage \in {"none", "stopping", "gate", "selecting", "hosting"}
  /\ current \in Sessions \union {0} /\ lastStop \in Sessions \union {0}
  /\ Range(closing) \subseteq Sessions /\ current \notin Range(closing)
  /\ worker \in [Sessions -> Gone \union {"preparing", "running", "settled", "closed"}]
  /\ marked \subseteq Sessions /\ shut \subseteq Sessions /\ broken \subseteq Sessions
  /\ told \in [Sessions -> BOOLEAN] /\ heard \in [Sessions -> BOOLEAN]

(* No two session workers live at the same time, however restarts, page    *)
(* events and failures overlap: the next is made only when the one before  *)
(* was terminated or ended itself.                                         *)
OneWorker == Cardinality({e \in Sessions : worker[e] \notin Gone}) <= 1
============================================================================
