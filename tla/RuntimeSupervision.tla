------------------------- MODULE RuntimeSupervision -------------------------
(***************************************************************************)
(* The Runtime half of the Main session (packages/main/src/internal/       *)
(* main-session.ts): bootstrapping the declared Runtimes one after the     *)
(* other, watching their Runtime Control and their process, ending the     *)
(* session and cleaning up, with bounded termination requests.             *)
(*                                                                         *)
(* What a Frame operation does is module FrameAuthority; here it is        *)
(* somebody who holds the mutation lane for a while, and may find a        *)
(* Runtime failed or end the session.                                      *)
(*                                                                         *)
(* Between two macrotasks the microtask queue drains: a chain of promise   *)
(* continuations that waits for nothing is one step.  The Platform         *)
(* (RuntimeHosting) is external: an aborted launch kills the child it may  *)
(* have spawned and rejects, and hosted.terminated resolves only after the *)
(* process has ended.                                                      *)
(***************************************************************************)
EXTENDS Integers

CONSTANT NumRuntimes    \* the length of LogicalGameBootstrap.subsystemKeys

ASSUME NumRuntimesAssumption == NumRuntimes \in Nat \ {0}

VARIABLES
    step,               \* how far bootstrapRuntime's task is
    phase,              \* RuntimeRecord.phase; "failed" iff RuntimeRecord.failure
                        \* is set, "none" while there is no record
    identified,         \* RuntimeRecord.identified
    shutdownRequested,  \* RuntimeRecord.shutdownRequested
    link,               \* RuntimeRecord.peer: "none", or whether it is terminal
    reported,           \* the Control peer's phase: what the Runtime said last
    statusTurn,         \* the status whose onStatus waits for the lane
    fate,               \* the process: "none" until hosted; "lost": the Platform
                        \* cannot tell any more
    physicallyTerminated,
    attempt,            \* RuntimeRecord.terminationAttempt: 0 none, 1, 2 the retry
    asked,              \* history: HostedRuntime.requestTermination was called
    cleanup,            \* how far cleanupRuntime is, "none" when not called
    frameAuthorityStarted,
    lane,               \* "free", or held by a Frame operation
    stopRequested,
    shutdownQueued,     \* requestShutdown's turn waits for the lane
    terminal,           \* SessionTerminal
    settled             \* the promise that run() returned is settled

recordVars == <<phase, identified, shutdownRequested>>
peerVars == <<link, reported, statusTurn>>
processVars == <<fate, physicallyTerminated>>
terminationVars == <<attempt, asked>>
sessionVars == <<frameAuthorityStarted, stopRequested, shutdownQueued, settled>>
vars == <<step, recordVars, peerVars, processVars, terminationVars, cleanup, lane,
          terminal, sessionVars>>

Runtimes == 1..NumRuntimes
Steps == {"idle", "registering", "launching", "refused", "acquiring", "unlinked",
          "identifying", "rejected", "readying", "done"}
PeerPhases == {"awaiting", "identified", "initializing", "ready", "stopping", "failed"}
Statuses == {"initializing", "ready", "stopping", "failed"}
Phases == {"none", "starting", "connected", "identified"} \cup Statuses
Cleanups == {"none", "shutdown", "closing", "natural", "terminate", "linger", "done"}
Terminals == {"none", "root", "shutdown", "fatal"}

LaneFree == lane = "free"
Stopped == stopRequested \/ terminal # "none"
Failed(k) == phase[k] = "failed"
Hosted(k) == fate[k] # "none"

\* requestRuntimeTermination, for every Runtime of S: an attempt under way is
\* joined, a Runtime seen to have ended is left alone.
Ask(S) ==
    LET starting == {k \in S : Hosted(k) /\ ~physicallyTerminated'[k] /\ attempt[k] = 0} IN
    /\ attempt' = [k \in Runtimes |-> IF k \in starting THEN 1 ELSE attempt[k]]
    /\ asked' = [k \in Runtimes |-> asked[k] \/ k \in starting]

\* cleanupRuntime up to its first await, for a record whose phase is ph[k].
CleanupStart(k, ph) ==
    IF ph[k] = "none" THEN "none"
    ELSE IF link[k] # "none" /\ identified[k] /\ ph[k] # "failed" THEN "shutdown"
    ELSE IF link[k] # "none" /\ ~identified[k] THEN "closing"
    ELSE IF ~Hosted(k) \/ physicallyTerminated'[k] THEN "done"
    ELSE "terminate"

\* markRuntimeFailed for the Runtimes of F, then beginRootOutcome, beginShutdown
\* or beginFatal with t ("none": the session goes on).  The first terminal
\* stays.  A shutdown request to a peer that has reported "failed" is refused
\* by the peer itself, which ends the connection.
FailAndEnd(F, t) ==
    LET ph == [k \in Runtimes |-> IF k \in F THEN "failed" ELSE phase[k]]
        ends == t # "none" /\ terminal = "none"
        begins(k, c) == ends /\ CleanupStart(k, ph) = c
    IN
    /\ terminal' = IF ends THEN t ELSE terminal
    /\ cleanup' = IF ends THEN [k \in Runtimes |-> CleanupStart(k, ph)] ELSE cleanup
    /\ phase' = [k \in Runtimes |-> IF begins(k, "shutdown") THEN "stopping" ELSE ph[k]]
    /\ shutdownRequested' =
        [k \in Runtimes |-> shutdownRequested[k] \/ begins(k, "shutdown")]
    /\ link' = [k \in Runtimes |->
                    IF begins(k, "shutdown") /\ reported[k] = "failed" THEN "down" ELSE link[k]]
    /\ Ask(F \cup {k \in Runtimes : begins(k, "terminate")})

EndSession(t) == FailAndEnd({}, t)

----------------------------------------------------------------------------
Init ==
    /\ step = [k \in Runtimes |-> "idle"]
    /\ phase = [k \in Runtimes |-> "none"]
    /\ identified = [k \in Runtimes |-> FALSE]
    /\ shutdownRequested = [k \in Runtimes |-> FALSE]
    /\ link = [k \in Runtimes |-> "none"]
    /\ reported = [k \in Runtimes |-> "awaiting"]
    /\ statusTurn = [k \in Runtimes |-> "none"]
    /\ fate = [k \in Runtimes |-> "none"]
    /\ physicallyTerminated = [k \in Runtimes |-> FALSE]
    /\ attempt = [k \in Runtimes |-> 0]
    /\ asked = [k \in Runtimes |-> FALSE]
    /\ cleanup = [k \in Runtimes |-> "none"]
    /\ frameAuthorityStarted = FALSE
    /\ lane = "free"
    /\ stopRequested = FALSE
    /\ shutdownQueued = FALSE
    /\ terminal = "none"
    /\ settled = FALSE

----------------------------------------------------------------------------
(* bootstrapSession and bootstrapRuntime.                                  *)

Goto(k, s) == step' = [step EXCEPT ![k] = s]

\* The head of bootstrapSession's loop, when it is k's turn.
BootstrapTurn(k) ==
    /\ ~Stopped
    /\ step[k] = "idle"
    /\ \A j \in 1..(k - 1) : step[j] = "done"

BootstrapRuntime(k) ==
    /\ BootstrapTurn(k)
    /\ Goto(k, "registering")
    /\ UNCHANGED <<recordVars, peerVars, processVars, terminationVars, cleanup, lane,
                   terminal, sessionVars>>

\* No token, or one that is in use.
TokenRefused(k) ==
    /\ BootstrapTurn(k)
    /\ UNCHANGED <<identified, reported, statusTurn, processVars, lane, sessionVars>>
    /\ Goto(k, "refused")
    /\ EndSession("fatal")

\* The record enters the map in a lane turn; cleanupAll may have read the map
\* before.
Register(k) ==
    /\ LaneFree
    /\ step[k] = "registering"
    /\ Goto(k, "launching")
    /\ phase' = [phase EXCEPT ![k] = "starting"]
    /\ UNCHANGED <<identified, shutdownRequested, peerVars, processVars, terminationVars,
                   cleanup, lane, terminal, sessionVars>>

\* Seeded bug: the Platform does not observe the abort of the launch.
LaunchSucceedsAborted(k) ==
    /\ step[k] = "launching"
    /\ Goto(k, "acquiring")
    /\ fate' = [fate EXCEPT ![k] = "running"]
    /\ UNCHANGED <<recordVars, peerVars, physicallyTerminated, terminationVars, cleanup, lane,
                   terminal, sessionVars>>

\* Stopping the session aborts the launch; so does its deadline, which stops it.
LaunchSucceeds(k) ==
    /\ step[k] = "launching"
    /\ ~Stopped
    /\ Goto(k, "acquiring")
    /\ fate' = [fate EXCEPT ![k] = "running"]
    /\ UNCHANGED <<recordVars, peerVars, physicallyTerminated, terminationVars, cleanup, lane,
                   terminal, sessionVars>>

\* A launch or an acquire that fails ends the session, unless it was aborted.
LaunchFails(k) ==
    /\ step[k] = "launching"
    /\ UNCHANGED <<identified, reported, statusTurn, processVars, lane, sessionVars>>
    /\ Goto(k, "refused")
    /\ EndSession(IF Stopped THEN "none" ELSE "fatal")

AcquireSucceeds(k) ==
    /\ LaneFree
    /\ step[k] = "acquiring"
    /\ ~Stopped
    /\ Goto(k, "identifying")
    /\ link' = [link EXCEPT ![k] = "up"]
    /\ phase' = [phase EXCEPT ![k] = "connected"]
    /\ UNCHANGED <<identified, shutdownRequested, reported, statusTurn, processVars,
                   terminationVars, cleanup, lane, terminal, sessionVars>>

AcquireFails(k) ==
    /\ step[k] = "acquiring"
    /\ UNCHANGED <<identified, reported, statusTurn, processVars, lane, sessionVars>>
    /\ Goto(k, "unlinked")
    /\ EndSession(IF Stopped THEN "none" ELSE "fatal")

\* authenticateHello and the continuation of `await peer.identified`.  Neither
\* looks at the terminal.
HelloAccepted(k) ==
    /\ LaneFree
    /\ step[k] = "identifying"
    /\ link[k] = "up"
    /\ ~Failed(k)
    /\ Goto(k, "readying")
    /\ reported' = [reported EXCEPT ![k] = "identified"]
    /\ identified' = [identified EXCEPT ![k] = TRUE]
    /\ phase' = [phase EXCEPT ![k] = IF phase[k] = "connected" THEN "identified" ELSE phase[k]]
    /\ UNCHANGED <<shutdownRequested, link, statusTurn, processVars, terminationVars, cleanup,
                   lane, terminal, sessionVars>>

\* A wrong key, token or protocol version: BootstrapError.
HelloRejected(k) ==
    /\ step[k] = "identifying"
    /\ link[k] = "up"
    /\ reported' = [reported EXCEPT ![k] = "failed"]
    /\ UNCHANGED <<identified, statusTurn, processVars, lane, sessionVars>>
    /\ Goto(k, "rejected")
    /\ EndSession(IF Stopped THEN "none" ELSE "fatal")

\* The continuation of `await record.ready.promise`.  When the promise resolved
\* with "failed", or the Runtime failed since, the session has ended already.
ReadyContinues(k) ==
    /\ step[k] = "readying"
    /\ phase[k] = "ready"
    /\ Goto(k, "done")
    /\ UNCHANGED <<recordVars, peerVars, processVars, terminationVars, cleanup, lane,
                   terminal, sessionVars>>

\* The end of bootstrapSession's loop: the start of the initial Frame takes the
\* lane.
FrameAuthorityStarts ==
    /\ \A k \in Runtimes : step[k] = "done"
    /\ ~frameAuthorityStarted
    /\ ~Stopped
    /\ LaneFree
    /\ frameAuthorityStarted' = TRUE
    /\ lane' = "frame"
    /\ UNCHANGED <<step, recordVars, peerVars, processVars, terminationVars, cleanup, terminal,
                   stopRequested, shutdownQueued, settled>>

\* Seeded bug: the deadline ends with the acquisition of the carrier.
BootstrapDeadlineOfLaunch(k) ==
    /\ step[k] \in {"launching", "acquiring"}
    /\ ~Stopped
    /\ UNCHANGED <<step, identified, reported, statusTurn, processVars, lane, sessionVars>>
    /\ EndSession("fatal")

\* runtimeBootstrapDeadlineMs passes.  The task is abandoned where it is, its
\* signal aborted.
BootstrapDeadline(k) ==
    /\ step[k] \in {"launching", "acquiring", "identifying", "readying"}
    /\ ~Stopped
    /\ UNCHANGED <<step, identified, reported, statusTurn, processVars, lane, sessionVars>>
    /\ EndSession("fatal")

----------------------------------------------------------------------------
(* What the Runtimes and the outside do.                                   *)

\* The Control peer's order of statuses; any other status ends the connection.
StatusAllowed(k, s) ==
    \/ s = "failed" /\ reported[k] \notin {"awaiting", "failed"}
    \/ s = "initializing" /\ reported[k] = "identified"
    \/ s = "ready" /\ reported[k] \in {"identified", "initializing"}
    \/ /\ s = "stopping"
       /\ reported[k] \in {"identified", "initializing", "ready"}
       /\ shutdownRequested[k]

LinkEnds(k) ==
    /\ link[k] = "up"
    /\ link' = [link EXCEPT ![k] = "down"]
    /\ UNCHANGED <<step, recordVars, reported, statusTurn, processVars, terminationVars,
                   cleanup, lane, terminal, sessionVars>>

\* hosted.terminated resolves or rejects.
ProcessEnds(k) ==
    /\ fate[k] = "running"
    /\ \E end \in {"exited", "lost"} : fate' = [fate EXCEPT ![k] = end]
    /\ UNCHANGED <<step, recordVars, peerVars, physicallyTerminated, terminationVars, cleanup,
                   lane, terminal, sessionVars>>

----------------------------------------------------------------------------
(* Lane turns of the supervision.                                          *)

\* markRuntimeFailed, then the end of the session during bootstrap and the
\* unwind of the Runtime's Frames, which keeps the lane, after it.
FailRuntime(k) ==
    /\ FailAndEnd({k}, IF frameAuthorityStarted THEN "none" ELSE "fatal")
    /\ lane' = IF frameAuthorityStarted /\ ~Stopped THEN "frame" ELSE lane

\* What onStatus does in its lane turn.
HandleStatus(k, s) ==
    /\ UNCHANGED <<step, identified, processVars, sessionVars>>
    /\ IF Failed(k)
       THEN UNCHANGED <<phase, shutdownRequested, link, terminationVars, cleanup, lane, terminal>>
       ELSE IF s = "failed"
       THEN FailRuntime(k)
       ELSE /\ phase' = [phase EXCEPT ![k] = s]
            /\ UNCHANGED <<shutdownRequested, link, terminationVars, cleanup, lane, terminal>>

\* The peer takes the status at once; its onStatus runs now or waits for the
\* lane, and the next message of k waits for it.
StatusArrives(k, s) ==
    /\ link[k] = "up"
    /\ statusTurn[k] = "none"
    /\ StatusAllowed(k, s)
    /\ reported' = [reported EXCEPT ![k] = s]
    /\ IF LaneFree
       THEN UNCHANGED statusTurn /\ HandleStatus(k, s)
       ELSE /\ statusTurn' = [statusTurn EXCEPT ![k] = s]
            /\ UNCHANGED <<step, recordVars, link, processVars, terminationVars, cleanup, lane,
                           terminal, sessionVars>>

OnStatus(k) ==
    /\ LaneFree
    /\ statusTurn[k] # "none"
    /\ statusTurn' = [statusTurn EXCEPT ![k] = "none"]
    /\ UNCHANGED reported
    /\ HandleStatus(k, statusTurn[k])

\* Seeded bug: a connection that the shutdown itself closes counts as a failure.
WatchControlUnexpecting(k) ==
    /\ LaneFree
    /\ link[k] = "down"
    /\ ~Failed(k)
    /\ UNCHANGED <<step, identified, reported, statusTurn, processVars, sessionVars>>
    /\ FailRuntime(k)

\* Seeded bug: the Runtime is marked failed and the bootstrap goes on.
WatchControlWithoutFatal(k) ==
    /\ LaneFree
    /\ link[k] = "down"
    /\ ~Failed(k)
    /\ terminal = "none"
    /\ UNCHANGED <<step, identified, reported, statusTurn, processVars, sessionVars>>
    /\ FailAndEnd({k}, "none")
    /\ lane' = IF frameAuthorityStarted /\ ~Stopped THEN "frame" ELSE lane

\* Unless Main expects the termination: RuntimeRecord.expectedTermination is
\* set when the Runtime is marked failed and when the session ends.
WatchControl(k) ==
    /\ LaneFree
    /\ link[k] = "down"
    /\ ~Failed(k)
    /\ terminal = "none"
    /\ UNCHANGED <<step, identified, reported, statusTurn, processVars, sessionVars>>
    /\ FailRuntime(k)

WatchPhysicalRuntime(k) ==
    /\ LaneFree
    /\ \/ /\ fate[k] = "exited"
          /\ ~physicallyTerminated[k]
          /\ physicallyTerminated' = [physicallyTerminated EXCEPT ![k] = TRUE]
       \/ /\ fate[k] = "lost"
          /\ ~Failed(k)
          /\ terminal = "none"
          /\ UNCHANGED physicallyTerminated
    /\ UNCHANGED <<step, identified, reported, statusTurn, fate, sessionVars>>
    /\ IF Failed(k) \/ terminal # "none"
       THEN UNCHANGED <<phase, shutdownRequested, link, terminationVars, cleanup, lane, terminal>>
       ELSE FailRuntime(k)

RequestShutdown ==
    /\ ~Stopped
    /\ stopRequested' = TRUE
    /\ shutdownQueued' = TRUE
    /\ UNCHANGED <<step, recordVars, peerVars, processVars, terminationVars, cleanup, lane,
                   terminal, frameAuthorityStarted, settled>>

BeginShutdown ==
    /\ LaneFree
    /\ shutdownQueued
    /\ shutdownQueued' = FALSE
    /\ UNCHANGED <<step, identified, reported, statusTurn, processVars, lane, stopRequested,
                   frameAuthorityStarted, settled>>
    /\ EndSession("shutdown")

\* The Shared State authority or the Session Event hub became terminal.
AuthorityFatal ==
    /\ LaneFree
    /\ terminal = "none"
    /\ UNCHANGED <<step, identified, reported, statusTurn, processVars, lane, sessionVars>>
    /\ EndSession("fatal")

----------------------------------------------------------------------------
(* The Frame operation that holds the lane, as far as it concerns the      *)
(* Runtimes.                                                               *)

\* frame.call, frame.return or a step they owe.
FrameOperation ==
    /\ frameAuthorityStarted
    /\ LaneFree
    /\ ~Stopped
    /\ lane' = "frame"
    /\ UNCHANGED <<step, recordVars, peerVars, processVars, terminationVars, cleanup, terminal,
                   sessionVars>>

FrameOperationEnds ==
    /\ lane = "frame"
    /\ lane' = "free"
    /\ UNCHANGED <<step, recordVars, peerVars, processVars, terminationVars, cleanup, terminal,
                   sessionVars>>

\* invokeFrame and markUnsafeFrameOutcome: every outcome that fails a Runtime
\* has ended its connection.
FrameOperationFails(k) ==
    /\ lane = "frame"
    /\ ~Stopped
    /\ link[k] = "down"
    /\ ~Failed(k)
    /\ UNCHANGED <<step, identified, reported, statusTurn, processVars, lane, sessionVars>>
    /\ FailAndEnd({k}, "none")

\* The root Frame's outcome, MAIN_AUTHORITY_DIVERGENCE.
FrameOperationEndsSession ==
    /\ lane = "frame"
    /\ ~Stopped
    /\ lane' = "free"
    /\ UNCHANGED <<step, identified, reported, statusTurn, processVars, sessionVars>>
    /\ \E t \in {"root", "fatal"} : EndSession(t)

----------------------------------------------------------------------------
(* cleanupRuntime and requestRuntimeTermination, from their awaits on.     *)

\* What follows the graceful part.
Escalate(k) ==
    IF physicallyTerminated[k]
    THEN cleanup' = [cleanup EXCEPT ![k] = "done"] /\ UNCHANGED terminationVars
    ELSE cleanup' = [cleanup EXCEPT ![k] = "terminate"] /\ Ask({k})

ShutdownAccepted(k) ==
    /\ cleanup[k] = "shutdown"
    /\ link[k] = "up"
    /\ cleanup' = [cleanup EXCEPT ![k] = IF physicallyTerminated[k] THEN "done" ELSE "natural"]
    /\ UNCHANGED <<step, recordVars, peerVars, processVars, terminationVars, lane, terminal,
                   sessionVars>>

\* The deadline of subsystem.shutdown, an error or the end of the connection.
ShutdownFails(k) ==
    /\ cleanup[k] = "shutdown"
    /\ link' = [link EXCEPT ![k] = "down"]
    /\ UNCHANGED <<step, recordVars, reported, statusTurn, processVars, lane, terminal,
                   sessionVars>>
    /\ Escalate(k)

\* peer.close() resolves, or terminationDeadlineMs passes first.
PeerCloses(k) ==
    /\ cleanup[k] = "closing"
    /\ link' \in {link, [link EXCEPT ![k] = "down"]}
    /\ UNCHANGED <<step, recordVars, reported, statusTurn, processVars, lane, terminal,
                   sessionVars>>
    /\ Escalate(k)

\* hosted.terminated resolves, or rejects, or terminationDeadlineMs passes.
NaturalWaitEnds(k) ==
    /\ cleanup[k] = "natural"
    /\ UNCHANGED <<step, recordVars, peerVars, processVars, lane, terminal, sessionVars>>
    /\ IF fate[k] = "exited"
       THEN cleanup' = [cleanup EXCEPT ![k] = "done"] /\ UNCHANGED terminationVars
       ELSE Escalate(k)

\* HostedRuntime.requestTermination resolved, or the attempt is given up: its
\* retry failed, or the Runtime was seen to have ended in the meantime.
AttemptEnds(k) ==
    /\ attempt[k] # 0
    /\ attempt' = [attempt EXCEPT ![k] = 0]
    /\ cleanup' = [cleanup EXCEPT ![k] = IF cleanup[k] = "terminate" THEN "linger" ELSE cleanup[k]]
    /\ UNCHANGED <<step, recordVars, peerVars, processVars, asked, lane, terminal, sessionVars>>

\* Seeded bug: the retry does not look at what happened since the first request.
RetryUnchecked(k) ==
    /\ attempt[k] = 1
    /\ attempt' = [attempt EXCEPT ![k] = 2]
    /\ UNCHANGED <<step, recordVars, peerVars, processVars, asked, cleanup, lane, terminal,
                   sessionVars>>

\* The first request was refused or timed out.
Retry(k) ==
    /\ attempt[k] = 1
    /\ ~physicallyTerminated[k]
    /\ attempt' = [attempt EXCEPT ![k] = 2]
    /\ UNCHANGED <<step, recordVars, peerVars, processVars, asked, cleanup, lane, terminal,
                   sessionVars>>

\* The last bounded wait for hosted.terminated.
LingerEnds(k) ==
    /\ cleanup[k] = "linger"
    /\ cleanup' = [cleanup EXCEPT ![k] = "done"]
    /\ UNCHANGED <<step, recordVars, peerVars, processVars, terminationVars, lane, terminal,
                   sessionVars>>

\* finishTerminal, after cleanupAll.
SessionSettles ==
    /\ terminal # "none"
    /\ ~settled
    /\ \A k \in Runtimes : cleanup[k] \in {"none", "done"}
    /\ settled' = TRUE
    /\ UNCHANGED <<step, recordVars, peerVars, processVars, terminationVars, cleanup, lane,
                   terminal, frameAuthorityStarted, stopRequested, shutdownQueued>>

----------------------------------------------------------------------------
Bootstrap(k) ==
    \/ BootstrapRuntime(k)
    \/ Register(k)
    \/ LaunchFails(k)
    \/ AcquireFails(k)
    \/ ReadyContinues(k)
    \/ BootstrapDeadline(k)

Environment(k) ==
    \/ TokenRefused(k)
    \/ LaunchSucceeds(k)
    \/ AcquireSucceeds(k)
    \/ HelloAccepted(k)
    \/ HelloRejected(k)
    \/ \E s \in Statuses : StatusArrives(k, s)
    \/ LinkEnds(k)
    \/ ProcessEnds(k)
    \/ FrameOperationFails(k)

Supervision(k) == OnStatus(k) \/ WatchControl(k) \/ WatchPhysicalRuntime(k)

CleanupStep(k) ==
    \/ ShutdownAccepted(k)
    \/ ShutdownFails(k)
    \/ PeerCloses(k)
    \/ NaturalWaitEnds(k)
    \/ LingerEnds(k)

TerminationStep(k) == AttemptEnds(k) \/ Retry(k)

Session == FrameAuthorityStarts \/ BeginShutdown \/ SessionSettles

\* Once run() has settled nothing here concerns anybody.
Next ==
    /\ ~settled
    /\ \/ \E k \in Runtimes :
            \/ Bootstrap(k)
            \/ Environment(k)
            \/ Supervision(k)
            \/ CleanupStep(k)
            \/ TerminationStep(k)
       \/ Session
       \/ RequestShutdown
       \/ AuthorityFatal
       \/ FrameOperation
       \/ FrameOperationEnds
       \/ FrameOperationEndsSession

Spec == Init /\ [][Next]_vars

\* The launch and the acquire of a Runtime are abandoned at a deadline, every
\* wait of cleanupRuntime and of requestRuntimeTermination has one, every Frame
\* RPC has one (the lane is released), and the promise chains of Main run.
\* Nothing is assumed of the Runtimes, of the Platform and of the caller.
Fairness ==
    /\ \A k \in Runtimes :
        /\ WF_vars(Bootstrap(k))
        /\ WF_vars(Supervision(k))
        /\ WF_vars(CleanupStep(k))
        /\ WF_vars(TerminationStep(k))
    /\ WF_vars(Session)
    /\ WF_vars(FrameOperationEnds)

FairSpec == Spec /\ Fairness

----------------------------------------------------------------------------
TypeOK ==
    /\ step \in [Runtimes -> Steps]
    /\ phase \in [Runtimes -> Phases]
    /\ identified \in [Runtimes -> BOOLEAN]
    /\ shutdownRequested \in [Runtimes -> BOOLEAN]
    /\ link \in [Runtimes -> {"none", "up", "down"}]
    /\ reported \in [Runtimes -> PeerPhases]
    /\ statusTurn \in [Runtimes -> Statuses \cup {"none"}]
    /\ fate \in [Runtimes -> {"none", "running", "exited", "lost"}]
    /\ physicallyTerminated \in [Runtimes -> BOOLEAN]
    /\ attempt \in [Runtimes -> 0..2]
    /\ asked \in [Runtimes -> BOOLEAN]
    /\ cleanup \in [Runtimes -> Cleanups]
    /\ frameAuthorityStarted \in BOOLEAN
    /\ lane \in {"free", "frame"}
    /\ stopRequested \in BOOLEAN
    /\ shutdownQueued \in BOOLEAN
    /\ terminal \in Terminals
    /\ settled \in BOOLEAN

\* A Runtime that fails while the Runtimes are still being established ends the
\* session: Main never goes on with a part of the declared Runtimes.
BootstrapFailureEnds ==
    ~frameAuthorityStarted /\ (\E k \in Runtimes : Failed(k)) => terminal # "none"

\* No process outlives Main's interest in it without having been told: one that
\* may still run has been asked to terminate as soon as its Runtime has failed,
\* and in any case before run() settles.
NoOrphanRuntime ==
    \A k \in Runtimes :
        fate[k] \in {"running", "lost"} /\ (Failed(k) \/ settled) => asked[k]

\* A Runtime that is being shut down gracefully is not terminated physically
\* before its time is over, whatever its connection and its process do
\* meanwhile, unless it reports a failure itself.
GracefulRuntimeIsSpared ==
    \A k \in Runtimes :
        cleanup[k] \in {"shutdown", "natural"} /\ asked[k] => reported[k] = "failed"

\* The Frames start when, and only when, all the Runtimes are ready together:
\* the state in which module FrameAuthority begins.
StartsOnlyWhenAllReady ==
    [][frameAuthorityStarted' # frameAuthorityStarted =>
            terminal = "none" /\ \A k \in Runtimes : phase[k] = "ready"]_vars

\* A Runtime whose exit Main has observed is not asked to terminate any more:
\* neither first, nor as the retry of a request that failed meanwhile.
NoRequestAfterExit ==
    [][\A k \in Runtimes : physicallyTerminated[k] => attempt'[k] \in {0, attempt[k]}]_vars

\* The bootstrap does not hang on a Runtime that stays silent.
BootstrapSettles == <>(frameAuthorityStarted \/ Stopped)

\* Once a stop is requested or the session has ended, run() settles, whatever
\* the Runtimes, the Platform and the Frame operation in flight do.
StopSettles == Stopped ~> settled
=============================================================================
