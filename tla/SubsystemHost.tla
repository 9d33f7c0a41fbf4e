--------------------------- MODULE SubsystemHost ---------------------------
(***************************************************************************)
(* runSubsystem: the life of one Runtime inside its process, from the      *)
(* definition factory to the settlement of the promise it returns.         *)
(*                                                                         *)
(* The bootstrap is one async function; "at" is the await it stands on.    *)
(* Meanwhile the Runtime Control connection may be lost, Main may ask for  *)
(* a shutdown, and Data carriers come and go.  A terminal cause is latched *)
(* once ("graceful" by a shutdown request, "fatal" by everything else) and *)
(* its clean-up runs in two stages, each bounded by a deadline, whatever   *)
(* the definition's hooks do.                                              *)
(*                                                                         *)
(* The Runtime Control peer is FrameControl's; here it is the connection,  *)
(* the status it sends and the reply to a shutdown request.                *)
(***************************************************************************)
EXTENDS Naturals, FiniteSets

CONSTANT MaxAcquires      \* Data acquisitions a Runtime makes (a bound)

ASSUME MaxAcquiresIsNat == MaxAcquires \in Nat

VARIABLES
  at,         \* the await the bootstrap stands on
  cause,      \* the terminal cause
  ready,      \* the Runtime accepts Frames
  control,    \* its Runtime Control carrier
  reply,      \* the response to the shutdown request
  torn,       \* the author's capabilities are revoked
  finish,     \* the stage of the clean-up
  hook,       \* the definition's shutdown or failed hook
  acquire,    \* what became of each Data acquisition
  dataPeer,   \* the acquisition whose carrier is current, or 0
  carrier,    \* the carrier each acquisition was given
  dataStopped \* Data acquisition was refused for good

hostVars == <<at, cause, ready, control, reply, torn, finish, hook,
              acquire, dataPeer, carrier, dataStopped>>

dataVars == <<acquire, dataPeer, carrier, dataStopped>>

Acquires == 1 .. MaxAcquires

HostTypeOK ==
  /\ at \in {"idle", "acquire", "hello", "initializing", "initialize",
             "readying", "ended"}
  /\ cause \in {"none", "graceful", "fatal"}
  /\ ready \in BOOLEAN
  /\ control \in {"none", "dialing", "open", "lost"}
  /\ reply \in {"none", "writing", "sent", "dropped"}
  /\ torn \in BOOLEAN
  /\ finish \in {"no", "status", "hooks", "done"}
  /\ hook \in {"idle", "running", "returned"}
  /\ acquire \in [Acquires -> {"idle", "pending", "abandoned", "given",
                               "late", "refused", "settled"}]
  /\ dataPeer \in 0 .. MaxAcquires
  /\ carrier \in [Acquires -> {"none", "open", "closing", "closed"}]
  /\ dataStopped \in BOOLEAN

HostInit ==
  /\ at = "idle" /\ cause = "none" /\ ready = FALSE
  /\ control = "none" /\ reply = "none"
  /\ torn = FALSE /\ finish = "no" /\ hook = "idle"
  /\ acquire = [a \in Acquires |-> "idle"]
  /\ carrier = [a \in Acquires |-> "none"]
  /\ dataPeer = 0 /\ dataStopped = FALSE

-----------------------------------------------------------------------------
(* Data acquisition *)

Pending == {a \in Acquires : acquire[a] \in {"pending", "given", "refused"}}

\* startDataAcquire, evaluated in a state whose peer is "peer" and whose
\* acquisitions are "acq": the acquisitions afterwards.
StartDataAcquire(acq, peer, stopped) ==
  LET free == {a \in Acquires : acq[a] = "idle"}
      busy == {a \in Acquires : acq[a] \in {"pending", "given", "refused"}}
  IN  IF peer = 0 /\ ~stopped /\ busy = {} /\ free # {}
      THEN [acq EXCEPT ![CHOOSE a \in free : \A b \in free : a <= b] =
                         "pending"]
      ELSE acq

\* leaveDataReady: the pending acquisition is aborted (the binding may still
\* answer it) and the current carrier is closed.
LeaveDataReady ==
  /\ acquire' = [a \in Acquires |->
                   CASE acquire[a] = "pending" -> "abandoned"
                     [] acquire[a] = "given"   -> "late"
                     [] acquire[a] = "refused" -> "settled"
                     [] OTHER                  -> acquire[a]]
  /\ carrier' = [a \in Acquires |->
                   IF a = dataPeer /\ carrier[a] = "open"
                     THEN "closing" ELSE carrier[a]]
  /\ dataPeer' = 0
  /\ UNCHANGED dataStopped

\* The platform's Data binding answers an acquisition, perhaps after it was
\* aborted: with a carrier, or with a failure.
BindingGives(a) ==
  /\ acquire[a] \in {"pending", "abandoned"}
  /\ acquire' = [acquire EXCEPT ![a] =
                   IF @ = "pending" THEN "given" ELSE "late"]
  /\ carrier' = [carrier EXCEPT ![a] = "open"]
  /\ UNCHANGED <<dataPeer, dataStopped>>

BindingRefuses(a) ==
  /\ acquire[a] \in {"pending", "abandoned"}
  /\ acquire' = [acquire EXCEPT ![a] =
                   IF @ = "pending" THEN "refused" ELSE "settled"]
  /\ UNCHANGED <<carrier, dataPeer, dataStopped>>

\* Seeded bug: a late carrier is dropped, not closed.
InstallKeepsLateCarrier(a) ==
  /\ acquire[a] \in {"given", "late"}
  /\ acquire' = [acquire EXCEPT ![a] = "settled"]
  /\ dataPeer' = IF acquire[a] = "given" THEN a ELSE dataPeer
  /\ UNCHANGED <<carrier, dataStopped>>

\* installDataAcquire.  A carrier of an unsupported profile is closed and
\* ends acquisition; a late one is only closed.
InstallDataAcquire(a) ==
  /\ acquire[a] \in {"given", "late"}
  /\ acquire' = [acquire EXCEPT ![a] = "settled"]
  /\ \/ /\ acquire[a] = "late"
        /\ carrier' = [carrier EXCEPT ![a] = IF @ = "open" THEN "closing"
                                                           ELSE @]
        /\ UNCHANGED <<dataPeer, dataStopped>>
     \/ /\ acquire[a] = "given"
        /\ dataPeer' = a
        /\ UNCHANGED <<carrier, dataStopped>>
     \/ /\ acquire[a] = "given"
        /\ carrier' = [carrier EXCEPT ![a] = IF @ = "open" THEN "closing"
                                                           ELSE @]
        /\ dataStopped' = TRUE
        /\ UNCHANGED dataPeer

\* rejectDataAcquire
RejectDataAcquire(a) ==
  /\ acquire[a] = "refused"
  /\ acquire' = [acquire EXCEPT ![a] = "settled"]
  /\ dataStopped' = TRUE
  /\ UNCHANGED <<carrier, dataPeer>>

\* The terminal of the current Data peer: another acquisition starts.
DataPeerTerminal ==
  /\ dataPeer # 0 /\ carrier[dataPeer] = "closed"
  /\ dataPeer' = 0
  /\ acquire' = StartDataAcquire(acquire, 0, dataStopped)
  /\ UNCHANGED <<carrier, dataStopped>>

\* The other side, or the network, closes a carrier.
CarrierCloses(a) ==
  /\ carrier[a] \in {"open", "closing"}
  /\ carrier' = [carrier EXCEPT ![a] = "closed"]
  /\ UNCHANGED <<acquire, dataPeer, dataStopped>>

DataStep ==
  /\ \/ \E a \in Acquires : \/ InstallDataAcquire(a) \/ RejectDataAcquire(a)
     \/ DataPeerTerminal
  /\ UNCHANGED <<at, cause, ready, control, reply, torn, finish, hook>>

DataEnvironment ==
  /\ \E a \in Acquires : BindingGives(a) \/ BindingRefuses(a)
                           \/ CarrierCloses(a)
  /\ UNCHANGED <<at, cause, ready, control, reply, torn, finish, hook>>

-----------------------------------------------------------------------------
(* The terminal cause and its clean-up *)

\* failRuntime: nothing if a cause is latched already.
FailRuntime ==
  IF cause # "none"
    THEN UNCHANGED <<cause, ready, torn, finish, dataVars>>
    ELSE /\ cause' = "fatal" /\ ready' = FALSE
         /\ torn' = TRUE /\ finish' = "status"
         /\ LeaveDataReady

\* Main's shutdown request is dispatched: the cause is latched, the success
\* response is handed to the connection's writer, and the clean-up waits for
\* that response to be accepted.
OnShutdown ==
  /\ control = "open" /\ reply = "none"
  /\ at \in {"initializing", "initialize", "readying", "ended"}
  /\ reply' = "writing"
  /\ IF cause = "none"
       THEN cause' = "graceful" /\ ready' = FALSE /\ LeaveDataReady
       ELSE UNCHANGED <<cause, ready, dataVars>>
  /\ UNCHANGED <<at, control, torn, finish, hook>>

\* The carrier accepts the response; if the connection has not ended, its
\* afterResponse runs finishGraceful.
ReplyAccepted ==
  /\ reply = "writing" /\ control = "open"
  /\ reply' = "sent"
  /\ IF cause = "graceful" THEN torn' = TRUE /\ finish' = "status"
                           ELSE UNCHANGED <<torn, finish>>
  /\ UNCHANGED <<at, cause, ready, control, hook, dataVars>>

\* The connection ends before the response is accepted.
ReplyDropped ==
  /\ reply = "writing" /\ control = "lost"
  /\ reply' = "dropped"
  /\ UNCHANGED <<at, cause, ready, control, torn, finish, hook, dataVars>>

\* The last status is written, or its deadline passes; then the hook runs
\* while the control connection and the Data carriers close.
StatusSettled ==
  /\ finish = "status"
  /\ finish' = "hooks" /\ hook' = "running"
  /\ control' = IF control = "open" THEN "lost" ELSE control
  /\ UNCHANGED <<at, cause, ready, reply, torn, dataVars>>

HookReturns ==
  /\ hook = "running" /\ hook' = "returned"
  /\ UNCHANGED <<at, cause, ready, control, reply, torn, finish, dataVars>>

\* bounded: everything the clean-up waits for has settled, or its deadline
\* has passed.
Bounded(settled) == \E expired \in BOOLEAN : settled \/ expired

CleanupSettled ==
  /\ finish = "hooks"
  /\ Bounded(hook = "returned" /\ \A a \in Acquires : carrier[a] # "closing")
  /\ finish' = "done"
  /\ UNCHANGED <<at, cause, ready, control, reply, torn, hook, dataVars>>

-----------------------------------------------------------------------------
(* The bootstrap *)

\* The factory returns a definition, or throws.
Start ==
  /\ at = "idle"
  /\ \/ /\ at' = "acquire" /\ control' = "dialing"
        /\ UNCHANGED <<cause, ready, torn, finish, dataVars>>
     \/ at' = "ended" /\ FailRuntime /\ UNCHANGED control
  /\ UNCHANGED <<reply, hook>>

\* The control carrier is acquired (the platform's side is "Connected" of
\* RuntimeHosting), or its acquisition fails.
ControlAcquired ==
  /\ at = "acquire" /\ control = "dialing"
  /\ at' = "hello" /\ control' = "open"
  /\ UNCHANGED <<cause, ready, reply, torn, finish, hook, dataVars>>

ControlRefused ==
  /\ at = "acquire" /\ control = "dialing"
  /\ at' = "ended" /\ control' = "none" /\ FailRuntime
  /\ UNCHANGED <<reply, hook>>

\* connectSubsystemRuntimeControl: accepted, or rejected, timed out, ended.
HelloSettled ==
  /\ at = "hello"
  /\ \/ /\ control = "open" /\ at' = "initializing"
        /\ UNCHANGED <<cause, ready, torn, finish, dataVars>>
     \/ at' = "ended" /\ FailRuntime
  /\ UNCHANGED <<control, reply, hook>>

\* sendStartupStatus, twice: the status is written, or the connection ends.
StatusWritten(here, there) ==
  /\ at = here
  /\ \/ /\ control = "open"
        /\ at' = IF cause = "none" THEN there ELSE "ended"
        /\ UNCHANGED <<cause, torn, finish, ready, dataVars>>
     \/ control = "lost" /\ at' = "ended" /\ FailRuntime
  /\ UNCHANGED <<control, reply, hook>>

\* definition.initialize, which may throw or never return.
InitializeReturns ==
  /\ at = "initialize"
  /\ \/ /\ at' = IF cause = "none" THEN "readying" ELSE "ended"
        /\ UNCHANGED <<cause, torn, finish, ready, dataVars>>
     \/ at' = "ended" /\ FailRuntime
  /\ UNCHANGED <<control, reply, hook>>

\* The "ready" status is written: Frames are accepted and Data is acquired.
BecomesReady ==
  /\ at = "readying"
  /\ at' = "ended"
  /\ \/ /\ control = "open" /\ cause = "none"
        /\ ready' = TRUE
        /\ acquire' = StartDataAcquire(acquire, dataPeer, dataStopped)
        /\ UNCHANGED <<cause, torn, finish, carrier, dataPeer, dataStopped>>
     \/ /\ control = "open" /\ cause # "none"
        /\ UNCHANGED <<cause, torn, finish, ready, dataVars>>
     \/ control = "lost" /\ FailRuntime
  /\ UNCHANGED <<control, reply, hook>>

\* peer.terminal: a lost connection is fatal unless a cause is latched.
PeerTerminal ==
  /\ control = "lost" /\ cause = "none"
  /\ at \in {"initializing", "initialize", "readying", "ended"}
  /\ FailRuntime
  /\ UNCHANGED <<at, control, reply, hook>>

\* A protocol or local failure of the Runtime (a Frame handler's violation).
RuntimeFails ==
  /\ ready /\ cause = "none"
  /\ FailRuntime
  /\ UNCHANGED <<at, control, reply, hook>>

\* The Runtime Control connection is lost.
ControlLost ==
  /\ control = "open" /\ control' = "lost"
  /\ UNCHANGED <<at, cause, ready, reply, torn, finish, hook, dataVars>>

\* The process of the Runtime ends.
HostEnds ==
  /\ control' = IF control = "dialing" THEN "dialing" ELSE "none"
  /\ at' = "idle" /\ cause' = "none" /\ ready' = FALSE /\ reply' = "none"
  /\ torn' = FALSE /\ finish' = "no" /\ hook' = "idle"
  /\ acquire' = [a \in Acquires |-> "idle"]
  /\ carrier' = [a \in Acquires |-> "none"]
  /\ dataPeer' = 0 /\ dataStopped' = FALSE

\* The steps the Runtime owes, and those of its surroundings.
HostStep ==
  \/ DataStep
  \/ ReplyAccepted \/ ReplyDropped \/ StatusSettled \/ CleanupSettled
  \/ HelloSettled
  \/ StatusWritten("initializing", "initialize") \/ BecomesReady
  \/ PeerTerminal

HostEnvironment ==
  \/ DataEnvironment \/ OnShutdown \/ HookReturns \/ InitializeReturns
  \/ RuntimeFails \/ ControlLost \/ ControlRefused

-----------------------------------------------------------------------------
(* Properties *)

\* Every open Data carrier is the current one, or still on its way to the
\* continuation that installs or closes it: none is left behind by an
\* acquisition that outlived its Runtime's readiness, and none is current
\* once a cause is latched.
DataOwned ==
  /\ \A a \in Acquires : carrier[a] = "open" =>
       a = dataPeer \/ acquire[a] \in {"given", "late"}
  /\ cause # "none" => dataPeer = 0 /\ Pending = {}
=============================================================================
