-------------------------- MODULE RuntimeHosting ---------------------------
(***************************************************************************)
(* One launch of a Runtime by a platform: what the platform's              *)
(* RuntimeHosting promises Main (HostedRuntime), the process it starts,    *)
(* and the Runtime inside it (SubsystemHost).                              *)
(*                                                                         *)
(* "hostra" spawns a Node process that dials back to three WebSocket       *)
(* servers of the host: Runtime Control once, and the Shared State and     *)
(* Session Events planes, which are re-dialled whenever they break.        *)
(* "pwa" starts a Worker over MessagePorts, and returns once the Worker    *)
(* has accepted its Session Events port.                                   *)
(*                                                                         *)
(* Main is the environment: it aborts a launch, acquires the control       *)
(* carrier once, and asks for termination, in any order.                   *)
(***************************************************************************)
EXTENDS SubsystemHost

CONSTANTS
  Planes,      \* the planes that are re-dialled: Shared State, Session Events
  MaxBreaks    \* how often the network breaks a plane (a bound)

ASSUME RuntimeHostingAssumption == IsFiniteSet(Planes) /\ MaxBreaks \in Nat

VARIABLES
  platform,    \* "hostra" or "pwa"
  launch,      \* where launchAttempt stands
  child,       \* the process or Worker
  forced,      \* it was killed
  servers,     \* the control server accepts a connection
  serverLost,  \* a server failed: serverFailure
  hostControl, \* the host's end of Runtime Control
  taken,       \* the acquire() of Main
  stop,        \* requestTermination
  stage,       \* where the Runner's own program stands
  plane,       \* the Runner's end of each plane
  served,      \* the host's end
  linked,      \* the Runner's end and the host's are one live connection
  breaks,
  handshake    \* the PWA's Session Events installation

hostingVars == <<platform, launch, child, forced, servers,
                 serverLost, hostControl, taken, stop, stage, plane, served,
                 linked, breaks, handshake>>

vars == <<hostingVars, hostVars>>

Alive == child \in {"starting", "running"}

TypeOK ==
  /\ HostTypeOK
  /\ platform \in {"hostra", "pwa"}
  /\ launch \in {"listening", "establishing", "handing over", "throwing",
                 "returned", "rejected"}
  /\ child \in {"none", "starting", "running", "dead", "gone"}
  /\ forced \in BOOLEAN
  /\ servers \in BOOLEAN /\ serverLost \in BOOLEAN
  /\ hostControl \in {"none", "open", "closed"}
  /\ taken \in {"no", "waiting", "given", "refused"}
  /\ stop \in {"no", "asked", "grace", "done"}
  /\ stage \in {"none", "planes", "import", "subsystem", "cleanup", "failed"}
  /\ plane \in [Planes -> {"off", "first", "timer", "dialing", "bound"}]
  /\ served \in [Planes -> BOOLEAN]
  /\ linked \in [Planes -> BOOLEAN]
  /\ breaks \in 0 .. MaxBreaks
  /\ handshake \in {"none", "posted", "accepted", "refused", "settled"}

Init ==
  /\ HostInit
  /\ platform \in {"hostra", "pwa"}
  /\ launch = "listening"
  /\ child = "none" /\ forced = FALSE
  /\ servers = FALSE /\ serverLost = FALSE
  /\ hostControl = "none" /\ taken = "no" /\ stop = "no"
  /\ stage = "none"
  /\ plane = [p \in Planes |-> "off"]
  /\ served = [p \in Planes |-> FALSE]
  /\ linked = [p \in Planes |-> FALSE]
  /\ breaks = 0 /\ handshake = "none"

\* The variables most actions leave alone.
runnerVars == <<stage, plane, linked, breaks>>
Abandoned == launch = "rejected"

\* Of a Runner that has ended nothing is left but the connections still on
\* their way to the host.
RunnerGone ==
  /\ stage' = "none"
  /\ plane' = [p \in Planes |-> IF plane[p] \in {"first", "dialing"}
                                  THEN "dialing" ELSE "off"]
  /\ linked' = [p \in Planes |-> FALSE]
  /\ HostEnds
  /\ UNCHANGED breaks
RunnerKept == UNCHANGED <<runnerVars, hostVars>>

-----------------------------------------------------------------------------
(* The host: launchAttempt *)

\* The servers listen and the process is spawned, or the launch fails with
\* nothing started.  Worker and ports exist at once.
Launch ==
  /\ launch = "listening"
  /\ \/ /\ launch' = "establishing"
        /\ child' = IF platform = "hostra" THEN "starting" ELSE "running"
        /\ servers' = (platform = "hostra")
        /\ stage' = IF platform = "hostra" THEN stage ELSE "planes"
        /\ handshake' = IF platform = "pwa" THEN "posted" ELSE handshake
     \/ /\ launch' = "rejected"
        /\ UNCHANGED <<child, servers, stage, handshake>>
  /\ UNCHANGED <<platform, forced, serverLost, hostControl,
                 taken, stop, plane, served, linked, breaks, hostVars>>

\* forceTerminate: a SIGKILL, if the exit has not been observed.
Forced == forced \/ Alive

\* abandon: the launch signal aborts while the process starts.  (Before that
\* the launch just fails; on the PWA only the handshake listens to it.)  The
\* rejection, which waits for the process to start or end, counts at once.
Abort ==
  /\ launch = "establishing" /\ platform = "hostra"
  /\ launch' = "rejected" /\ servers' = FALSE /\ forced' = Forced
  /\ UNCHANGED <<platform, child, serverLost, hostControl, taken, stop,
                 served, handshake, runnerVars, hostVars>>

\* convergeServerFailure: a server fails before the Runner has connected.
ServerFails ==
  /\ platform = "hostra" /\ ~serverLost
  /\ launch \in {"establishing", "throwing", "returned"}
  /\ hostControl = "none" /\ child # "gone"
  /\ serverLost' = TRUE /\ servers' = FALSE
  /\ taken' = IF taken = "waiting" THEN "refused" ELSE taken
  /\ IF launch = "establishing"
       THEN launch' = "rejected" /\ forced' = Forced
       ELSE UNCHANGED <<launch, forced>>
  /\ UNCHANGED <<platform, child, hostControl, served, handshake,
                 stop, runnerVars, hostVars>>

\* child "spawn", or the error that replaces it.
Spawned ==
  /\ platform = "hostra" /\ child = "starting"
  /\ \/ /\ child' = "running" /\ stage' = "planes"
        /\ launch' = IF launch = "establishing" THEN "handing over"
                                                ELSE launch
        /\ forced' = (forced \/ Abandoned)
        /\ UNCHANGED <<servers, served>>
     \/ /\ child' = "none" /\ launch' = "rejected" /\ servers' = FALSE
        /\ UNCHANGED <<stage, forced, served>>
  /\ UNCHANGED <<platform, serverLost, hostControl, taken, plane, linked,
                 breaks, handshake, stop, hostVars>>

\* Seeded bug: a hand-over that throws fails the launch and kills nothing.
HandOverForgetsChild ==
  /\ launch = "handing over"
  /\ launch' \in {"returned", "rejected"} /\ UNCHANGED <<forced, child>>
  /\ RunnerKept
  /\ UNCHANGED <<platform, servers, serverLost, hostControl, taken, served,
                 handshake, stop>>

\* The Data provisioner is handed to the composition.  If that throws, the
\* Worker is terminated, or the process killed and its exit awaited, before
\* the launch fails.
HandOver ==
  /\ launch = "handing over"
  /\ \/ launch' = "returned" /\ UNCHANGED <<forced, child>> /\ RunnerKept
     \/ /\ platform = "pwa" /\ launch' = "rejected"
        /\ child' = "gone" /\ RunnerGone /\ UNCHANGED forced
     \/ /\ platform = "hostra" /\ launch' = "throwing"
        /\ forced' = Forced /\ UNCHANGED child /\ RunnerKept
  /\ UNCHANGED <<platform, servers, serverLost, hostControl, taken, served,
                 handshake, stop>>

\* The PWA launch waits for the Worker's answer to the Session Events port:
\* accepted, refused, timed out or aborted.
HandshakeSettles ==
  /\ platform = "pwa" /\ launch = "establishing"
  /\ \/ /\ handshake = "accepted" /\ launch' = "handing over"
        /\ UNCHANGED child /\ RunnerKept
     \/ launch' = "rejected" /\ child' = "gone" /\ RunnerGone
  /\ handshake' = "settled"
  /\ UNCHANGED <<platform, forced, servers, serverLost, hostControl,
                 taken, served, stop>>

\* child "exit": everything the host still serves is closed.
ExitObserved ==
  /\ child = "dead" /\ child' = "gone"
  /\ servers' = FALSE
  /\ served' = [p \in Planes |-> FALSE]
  /\ hostControl' = IF hostControl = "open" THEN "closed" ELSE hostControl
  /\ taken' = IF taken = "waiting" THEN "refused" ELSE taken
  /\ launch' = IF launch \in {"handing over", "throwing"}
                 THEN "rejected" ELSE launch
  /\ UNCHANGED <<platform, forced, serverLost, handshake, stop,
                 runnerVars, hostVars>>

-----------------------------------------------------------------------------
(* HostedRuntime, as Main uses it *)

\* runtimeControl.acquire, once: the carrier, a waiter for it, or a refusal.
Acquire ==
  /\ launch = "returned" /\ taken = "no"
  /\ taken' = IF platform = "pwa" THEN IF child = "gone" THEN "refused"
                                                         ELSE "given"
              ELSE CASE hostControl # "none" -> "given"
                     [] serverLost \/ child = "gone" -> "refused"
                     [] OTHER -> "waiting"
  /\ hostControl' = IF platform = "pwa" /\ child # "gone" THEN "open"
                                                          ELSE hostControl
  /\ UNCHANGED <<platform, launch, child, forced, servers, serverLost,
                 served, handshake, stop, runnerVars, hostVars>>

\* Its signal aborts, before or while it waits: the control server closes.
AcquireAborted ==
  /\ launch = "returned" /\ taken \in {"no", "waiting"}
  /\ taken' = "refused" /\ servers' = FALSE
  /\ hostControl' = IF platform = "pwa" \/ (taken = "no" /\ hostControl = "open")
                      THEN "closed" ELSE hostControl
  /\ UNCHANGED <<platform, launch, child, forced, serverLost, served,
                 handshake, stop, runnerVars, hostVars>>

RequestTermination ==
  /\ launch = "returned" /\ stop = "no" /\ stop' = "asked"
  /\ UNCHANGED <<platform, launch, child, forced, servers,
                 serverLost, hostControl, taken, served, handshake,
                 runnerVars, hostVars>>

\* The kill is sent, which may fail and which the process may ignore, and
\* the force timer is armed in any case; the PWA posts a shutdown message
\* and starts its deadline.
Terminate ==
  /\ stop = "asked"
  /\ stop' = IF child = "gone" THEN "done" ELSE "grace"
  /\ UNCHANGED <<platform, launch, child, forced, servers, serverLost,
                 hostControl, taken, served, handshake, runnerVars, hostVars>>

\* The grace period ends.
Escalate ==
  /\ stop = "grace" /\ stop' = "done"
  /\ IF platform = "hostra"
       THEN forced' = Forced /\ UNCHANGED child /\ RunnerKept
       ELSE child' = "gone" /\ RunnerGone /\ UNCHANGED forced
  /\ UNCHANGED <<platform, launch, servers, serverLost, hostControl,
                 taken, served, handshake>>

-----------------------------------------------------------------------------
(* The connections between host and Runner *)

\* The servers of the planes take connections until the launch is abandoned,
\* a server is lost before the control connection, or the exit is observed.
PlanesOpen == child # "gone" /\ ~Abandoned /\ ~serverLost

\* The Runner's dial reaches the host.  The host serves one connection per
\* plane and terminates a second one; a connection the kernel accepted may
\* outlive the process that dialled it.
PlaneDialled(p) ==
  /\ child \in {"running", "dead"} /\ plane[p] \in {"first", "dialing"}
  /\ PlanesOpen
  /\ IF ~served[p]
       THEN /\ served' = [served EXCEPT ![p] = TRUE]
            /\ linked' = [linked EXCEPT ![p] = child = "running"]
       ELSE UNCHANGED <<served, linked>>
  /\ plane' = [plane EXCEPT ![p] = "bound"]
  /\ UNCHANGED <<platform, launch, child, forced, servers, serverLost,
                 hostControl, taken, stage, breaks, handshake, stop,
                 hostVars>>

\* The Runner closes its carriers and its timers: a carrier that is bound is
\* done once its closing is noticed.
EndPlanes ==
  /\ plane' = [p \in Planes |-> IF plane[p] = "bound" THEN "bound" ELSE "off"]
  /\ linked' = [p \in Planes |-> FALSE]

\* The connection of a plane breaks; each end notices in its own time.
PlaneBreaks(p) ==
  /\ linked[p] /\ breaks < MaxBreaks
  /\ linked' = [linked EXCEPT ![p] = FALSE] /\ breaks' = breaks + 1
  /\ UNCHANGED <<platform, launch, child, forced, servers, serverLost,
                 hostControl, taken, stage, plane, served, handshake,
                 stop, hostVars>>

HostNotices(p) ==
  /\ served[p] /\ ~linked[p]
  /\ served' = [served EXCEPT ![p] = FALSE]
  /\ UNCHANGED <<platform, launch, child, forced, servers, serverLost,
                 hostControl, taken, handshake, stop, runnerVars,
                 hostVars>>

\* The finally block of the Runner, or the catch of its first dials, has
\* ended the lifetime of the planes.
Ending == stage \in {"cleanup", "failed"}

\* binding.terminal: the Runner re-dials after a delay, while it lives.
RunnerNotices(p) ==
  /\ child = "running" /\ plane[p] = "bound" /\ ~linked[p]
  /\ plane' = [plane EXCEPT ![p] = IF Ending THEN "off" ELSE "timer"]
  /\ UNCHANGED <<platform, launch, child, forced, servers, serverLost,
                 hostControl, taken, stage, served, linked, breaks, handshake,
                 stop, hostVars>>

\* The timer fires: installStateBinding, installEventBinding.
Redial(p) ==
  /\ child = "running" /\ plane[p] = "timer"
  /\ plane' = [plane EXCEPT ![p] = "dialing"]
  /\ UNCHANGED <<platform, launch, child, forced, servers, serverLost,
                 hostControl, taken, stage, served, linked, breaks, handshake,
                 stop, hostVars>>

\* A dial fails: the first one, which is required, ends the Runner, and a
\* later one is tried again.
DialFails(p) ==
  /\ child = "running" /\ plane[p] \in {"first", "dialing"}
  /\ IF PlanesOpen THEN breaks < MaxBreaks /\ breaks' = breaks + 1
                   ELSE UNCHANGED breaks
  /\ IF plane[p] = "first"
       THEN stage' = "failed" /\ EndPlanes
       ELSE /\ plane' = [plane EXCEPT ![p] = "timer"]
            /\ UNCHANGED <<stage, linked>>
  /\ UNCHANGED <<platform, launch, child, forced, servers, serverLost,
                 hostControl, taken, served, handshake, stop, hostVars>>

\* The Runner's control carrier: the one connection the control server
\* accepts, or the port the Worker was given.
Connected ==
  /\ child \in {"running", "dead"} /\ control = "dialing"
  /\ IF child = "running" THEN ControlAcquired ELSE UNCHANGED hostVars
  /\ IF platform = "pwa" THEN UNCHANGED <<servers, hostControl, taken>>
     ELSE /\ servers /\ hostControl = "none" /\ ~Abandoned
          /\ servers' = FALSE /\ hostControl' = "open"
          /\ taken' = IF taken = "waiting" THEN "given" ELSE taken
  /\ UNCHANGED <<platform, launch, child, forced, serverLost, served,
                 handshake, stop, runnerVars>>

\* Either end of the control connection closes, and the other notices; a
\* dial to a closed server fails.
ControlEnds ==
  /\ platform = "hostra" /\ hostControl = "open" /\ control = "lost"
  /\ hostControl' = "closed"
  /\ UNCHANGED <<platform, launch, child, forced, servers, serverLost,
                 taken, served, handshake, stop, runnerVars, hostVars>>

HungUp ==
  /\ platform = "hostra" /\ child = "running" /\ stage = "subsystem"
  /\ \/ hostControl = "closed" /\ ControlLost
     \/ hostControl = "none" /\ ~servers /\ ControlRefused
  /\ UNCHANGED hostingVars

-----------------------------------------------------------------------------
(* The Runner: runBootstrap, or the Worker's run *)

\* The first dial of a plane: one after the other.
FirstDial(p) ==
  /\ child = "running" /\ platform = "hostra" /\ stage = "planes"
  /\ plane[p] = "off" /\ plane' = [plane EXCEPT ![p] = "first"]
  /\ \A q \in Planes : plane[q] # "first"
  /\ UNCHANGED <<platform, launch, child, forced, servers, serverLost,
                 hostControl, taken, stage, served, linked, breaks, handshake,
                 stop, hostVars>>

PlanesReady ==
  IF platform = "hostra"
    THEN \A p \in Planes : plane[p] \notin {"off", "first"}
    ELSE handshake \in {"accepted", "settled"}

\* The Worker takes, or refuses, the Session Events port.
WorkerAnswers ==
  /\ child = "running" /\ stage = "planes" /\ handshake = "posted"
  /\ handshake' \in {"accepted", "refused"}
  /\ UNCHANGED <<platform, launch, child, forced, servers, serverLost,
                 hostControl, taken, served, stop, runnerVars, hostVars>>

\* The definition module is imported, or the import fails.
Import ==
  /\ child = "running"
  /\ \/ /\ stage = "planes" /\ PlanesReady /\ stage' = "import"
        /\ UNCHANGED <<plane, linked>>
     \/ /\ stage = "import" /\ stage' = "subsystem"
        /\ UNCHANGED <<plane, linked>>
     \/ stage = "import" /\ stage' = "cleanup" /\ EndPlanes
  /\ UNCHANGED <<platform, launch, child, forced, servers, serverLost,
                 hostControl, taken, served, breaks, handshake, stop,
                 hostVars>>

\* runSubsystem settles: the finally block ends the planes.
Settled ==
  /\ child = "running" /\ stage = "subsystem" /\ finish = "done"
  /\ stage' = "cleanup" /\ EndPlanes
  /\ UNCHANGED <<platform, launch, child, forced, servers, serverLost,
                 hostControl, taken, served, breaks, handshake, stop,
                 hostVars>>

\* The process ends: nothing keeps it alive, or it crashes, or it is killed.
\* A Worker that ends says so, and the host terminates it.
ProcessEnds ==
  /\ child' = IF platform = "hostra" THEN "dead" ELSE "gone"
  /\ launch' = IF platform = "pwa" /\ launch = "establishing"
                 THEN "rejected" ELSE launch
  /\ RunnerGone
  /\ UNCHANGED <<platform, forced, servers, serverLost, hostControl,
                 taken, served, handshake, stop>>

\* What keeps a Node process alive: its connections, and the IPC channel
\* whose message listener only the finally block removes.
Referenced == (\E p \in Planes : plane[p] # "off") \/ stage = "failed"

Finishes ==
  /\ child = "running" /\ Ending /\ ~Referenced
  /\ ProcessEnds

Killed == Alive /\ forced /\ ProcessEnds

Crashes == child = "running" /\ ProcessEnds

Inside(A) ==
  /\ child = "running" /\ stage = "subsystem"
  /\ A
  /\ UNCHANGED hostingVars

-----------------------------------------------------------------------------
(* The specification *)

\* What the host owes: each of its promises and timers settles.
Supervise ==
  \/ Launch \/ Spawned \/ HandOver \/ HandshakeSettles
  \/ Killed \/ ExitObserved \/ Terminate \/ Escalate

\* What the Runner owes once its program is under way.
RunnerStep ==
  \/ ControlEnds \/ HungUp \/ Settled \/ Finishes
  \/ Inside(Start) \/ Inside(HostStep)

PlaneStep ==
  \E p \in Planes :
    \/ FirstDial(p) \/ PlaneDialled(p) \/ RunnerNotices(p) \/ Redial(p)
    \/ ~PlanesOpen /\ DialFails(p)

HostSeesBreak == \E p \in Planes : HostNotices(p)

Environment ==
  \/ Abort \/ ServerFails \/ Acquire \/ AcquireAborted
  \/ RequestTermination \/ Crashes \/ WorkerAnswers \/ Import \/ Connected
  \/ \E p \in Planes : PlaneBreaks(p) \/ DialFails(p)
  \/ Inside(HostEnvironment)

Next ==
  Supervise \/ RunnerStep \/ PlaneStep \/ HostSeesBreak \/ Environment

\* A plane is re-dialled while its old carrier is still served, so the dial
\* loop alone must not count as progress of the host.
Fairness ==
  /\ WF_vars(Supervise) /\ WF_vars(RunnerStep)
  /\ WF_vars(PlaneStep) /\ WF_vars(HostSeesBreak)

Spec == Init /\ [][Next]_vars /\ Fairness

-----------------------------------------------------------------------------
(* Properties *)

\* A launch settles, and a launch that fails leaves no process behind,
\* however its abort, its server failure, its throwing hand-over or its
\* handshake time-out interleave with the start of the process.
NoOrphanProcess ==
  launch # "listening" ~>
    launch = "returned" \/ (launch = "rejected" /\ ~Alive)
=============================================================================
