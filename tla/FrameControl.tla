---------------------------- MODULE FrameControl ----------------------------
(***************************************************************************)
(* Main's Frame authority (module FrameAuthority) and the Runtimes it      *)
(* controls (module FrameRuntime), joined by their Runtime Control         *)
(* connections.  What FrameAuthority leaves to its environment is here     *)
(* what the Runtimes do: a frame.call is one that a handler made, a reply  *)
(* is the answer of the context, and a Runtime fails because it was hit by *)
(* a fault or because of what the two sides said to each other.            *)
(*                                                                         *)
(* The model follows the session until its terminal.                       *)
(***************************************************************************)
EXTENDS FrameRuntime, Sequences

CONSTANT Initial    \* LogicalGameBootstrap.initial.subsystemKey

ASSUME InitialAssumption == Initial \in Subsystems
ASSUME MaxFramesAssumption == MaxFrames \in Nat \ {0}

VARIABLES
    phase, link, lifecycle, owner, caller, activation, outcome, contextKnown,
    closeAttempted, stack, nextFrame, nextActivation, lane, owed, terminal,
    stopRequested,  \* as in FrameAuthority
    hit             \* history: the Runtimes that a fault has hit

Main == INSTANCE FrameAuthority

mainVars == <<phase, link, lifecycle, owner, caller, activation, outcome, contextKnown,
              closeAttempted, stack, nextFrame, nextActivation, lane, owed, terminal,
              stopRequested>>
vars == <<mainVars, runtimeSideVars, hit>>

Running == terminal = "none"

Init ==
    /\ Main!Init
    /\ RuntimeInit
    /\ hit = {}

----------------------------------------------------------------------------
(* Connection.request and Connection.write at Main.                        *)

\* The request of Main that the operation which takes the lane waits for.
FrameRequest(l) ==
    CASE l.op = "initialize" -> Request("initialize", l.frame, 0, 0)
      [] l.op = "activate" -> Request("activate", l.frame, l.minted, 0)
      [] l.op = "resume" -> Request("resume", l.frame, l.minted, l.returned)
      [] l.op \in {"close", "unwind-close"} -> Request("close", l.frame, 0, 0)

\* A step of Main that begins a Frame RPC writes its request, if anybody is
\* there to read it.
Sends ==
    LET k == owner'[lane'.frame] IN
    IF lane'.op \in Main!RpcOps /\ lane' # lane /\ link'[k] /\ up[k]
    THEN /\ asked' = [asked EXCEPT ![k] = FrameRequest(lane')]
         /\ behind' = [behind EXCEPT ![k] = answer[k] # Nothing]
    ELSE UNCHANGED <<asked, behind>>

Writes(k, response) ==
    answer' = IF up[k] THEN [answer EXCEPT ![k] = response] ELSE answer

\* A turn of the lane that reads nothing from a connection.
Alone(MainStep) ==
    /\ Running
    /\ MainStep
    /\ Sends
    /\ UNCHANGED <<contextVars, answer, request, reply, reported, hit>>

----------------------------------------------------------------------------
(* Main reads.                                                             *)

\* The dispatch lane of a connection awaits the afterResponse of the request
\* before: the operation that frame.call or frame.return has promised.
DispatchFree(k) ==
    \A o \in owed :
        /\ o.op = "start" => owner[caller[o.frame]] # k
        /\ o.op = "finalize" => owner[o.frame] # k

\* The head of k's dispatch lane gets its turn of the mutation lane.
Takes(k, op) ==
    /\ Running
    /\ Main!LaneFree
    /\ link[k]
    /\ DispatchFree(k)
    /\ request[k].op = op
    /\ request' = [request EXCEPT ![k] = Nothing]
    /\ UNCHANGED <<contextVars, asked, behind, reply, reported, hit>>

\* onFrameCall.
TakeCall(k) ==
    LET f == request[k].frame
        a == request[k].activation
    IN
    /\ Takes(k, "call")
    /\ IF Main!Stopped \/ ~Main!ValidSource(k, f, a)
       THEN Writes(k, Response("refused", 0)) /\ UNCHANGED mainVars
       ELSE \/ /\ \E target \in Subsystems : Main!FrameCall(k, f, a, target)
               /\ Writes(k, Response("accepted", nextFrame))
            \/ \* the target is not declared, or is not ready
               /\ Writes(k, Response("unavailable", 0))
               /\ UNCHANGED mainVars

\* onFrameReturn.
TakeReturn(k) ==
    LET f == request[k].frame
        a == request[k].activation
    IN
    /\ Takes(k, "return")
    /\ IF Main!Stopped \/ ~Main!ValidSource(k, f, a)
       THEN Writes(k, Response("refused", 0)) /\ UNCHANGED mainVars
       ELSE Main!FrameReturn(k, f, a) /\ Writes(k, Response("accepted", 0))

\* The status "failed", behind the request that was sent before it.
TakeStatus(k) ==
    /\ Running
    /\ link[k]
    /\ DispatchFree(k)
    /\ reported[k]
    /\ request[k] = Nothing
    /\ reported' = [reported EXCEPT ![k] = FALSE]
    /\ Main!StatusFailed(k)
    /\ UNCHANGED <<contextVars, asked, answer, behind, request, reply, hit>>

\* The reply to the RPC that holds the lane.
TakeReply ==
    LET k == owner[lane.frame] IN
    /\ Running
    /\ lane.op \in Main!RpcOps
    /\ link[k]
    /\ reply[k] # "none"
    /\ reply' = [reply EXCEPT ![k] = "none"]
    /\ IF stopRequested
       THEN Main!ReplyAfterStop
       ELSE IF reply[k] = "refused"
       THEN Main!RpcFails
       ELSE \/ Main!InitializeSucceeds
            \/ Main!ActivateSucceeds
            \/ Main!CloseSucceeds
            \/ Main!ResumeSucceeds
            \/ Main!UnwindCloseSucceeds
    /\ Sends
    /\ UNCHANGED <<contextVars, answer, request, reported, hit>>

\* The connection has ended, and settles the RPC that was in flight.
RpcLost ==
    /\ Main!ReplyAfterStop \/ Main!RpcFails
    /\ ~link[owner[lane.frame]]

----------------------------------------------------------------------------
(* Ends of connections and Runtimes.                                       *)

\* Main reads nothing more from a connection that is terminal.
LinkEnds(k) ==
    /\ Running
    /\ Main!LinkEnds(k)
    /\ request' = [request EXCEPT ![k] = Nothing]
    /\ reply' = [reply EXCEPT ![k] = "none"]
    /\ reported' = [reported EXCEPT ![k] = FALSE]
    /\ UNCHANGED <<contextVars, asked, answer, behind>>

\* Main sees the end of a Runtime's connection, or of its process.
LinkFollows(k) == ~up[k] /\ LinkEnds(k) /\ UNCHANGED hit
ProcessFollows(k) == ~up[k] /\ Main!PhysicalTerminated(k)

\* The connection is lost, or a deadline of Main's passes.
LinkFault(k) == up[k] /\ LinkEnds(k) /\ hit' = hit \cup {k}

\* The Runtime sees the end of the connection; a failed one is terminated.
RuntimeFollows(k) ==
    /\ Running
    /\ up[k]
    /\ ~link[k] \/ Main!Failed(k)
    /\ ConnectionEnds(k)
    /\ UNCHANGED <<mainVars, hit>>

\* The process dies, its side of the connection is lost, or the deadline of
\* its frame.call or frame.return passes.
RuntimeFault(k) ==
    /\ Running
    /\ up[k]
    /\ ConnectionEnds(k)
    /\ hit' = hit \cup {k}
    /\ UNCHANGED mainVars

\* A handler that does not await its call.
HandlerFault(k) ==
    /\ Running
    /\ \E f \in FrameIds : ReturnDuringCall(k, f)
    /\ hit' = hit \cup {k}
    /\ UNCHANGED mainVars

----------------------------------------------------------------------------
HandlerStep(k) ==
    /\ Running
    /\ \/ OnInitialize(k)
       \/ OnActivate(k)
       \/ OnResume(k)
       \/ OnClose(k)
       \/ AfterResponse(k)
       \/ ReadAnswer(k)
    /\ UNCHANGED <<mainVars, hit>>

\* MaxFrames bounds what is called, not what is accepted.
GameStep(k) ==
    /\ Running
    /\ \E f \in FrameIds : Return(k, f) \/ (nextFrame <= MaxFrames /\ Call(k, f))
    /\ UNCHANGED <<mainVars, hit>>

MainTurn ==
    \/ Alone(Main!OwedStep)
    \/ Alone(Main!UnwindStep)
    \/ Alone(Main!WatchControl)
    \/ Alone(RpcLost)
    \/ TakeReply
    \/ \E k \in Subsystems : TakeCall(k) \/ TakeReturn(k) \/ TakeStatus(k)

Follows(k) == LinkFollows(k) \/ Alone(ProcessFollows(k)) \/ RuntimeFollows(k)
Fault(k) == LinkFault(k) \/ RuntimeFault(k) \/ HandlerFault(k)

Next ==
    \/ MainTurn
    \/ Alone(Main!RequestShutdown)
    \/ \E k \in Subsystems : Follows(k) \/ Fault(k) \/ HandlerStep(k) \/ GameStep(k)

Spec == Init /\ [][Next]_vars

\* Turns of the lane, deadlines and read loops run; the game's code need not
\* call or return, and nothing has to fail.
FairSpec ==
    /\ Spec
    /\ WF_vars(MainTurn)
    /\ \A k \in Subsystems : WF_vars(HandlerStep(k)) /\ WF_vars(Follows(k))

----------------------------------------------------------------------------
Contexts == [state : ContextStates, activation : Nat, child : FrameIds \cup {0}, revoked : Nat]
Messages(ops) == [op : ops, frame : FrameIds \cup {0}, activation : Nat,
                  child : FrameIds \cup {0}]

TypeOK ==
    /\ Main!TypeOK
    /\ up \in [Subsystems -> BOOLEAN]
    /\ context \in [Subsystems -> [FrameIds -> Contexts]]
    /\ inFlight \in [Subsystems -> Messages({"none", "call", "return"})]
    /\ request \in [Subsystems -> Messages({"none", "call", "return"})]
    /\ after \in [Subsystems -> Messages({"none"} \cup FrameRequests)]
    /\ asked \in [Subsystems -> Messages({"none"} \cup FrameRequests)]
    /\ answer \in [Subsystems -> Messages({"none"} \cup Answers)]
    /\ behind \in [Subsystems -> BOOLEAN]
    /\ reply \in [Subsystems -> {"none", "done", "refused"}]
    /\ reported \in [Subsystems -> BOOLEAN]
    /\ hit \subseteq Subsystems

\* The Runtimes that Main counts on, and that are there.
Sound(k) == up[k] /\ ~Main!Failed(k)

\* Main's Frame requests and the Runtimes' contexts never diverge: no request
\* of Main is refused (FRAME_NOT_FOUND, FRAME_STATE_MISMATCH,
\* FRAME_STACK_MISMATCH, ACTIVATION_MISMATCH), whatever crosses on the wire.
NoDivergence == \A k \in Subsystems : reply[k] # "refused"

\* A channel never holds more than it has room for: nothing is written over a
\* message that has not been handled.
ChannelsSuffice ==
    \A k \in Subsystems :
        /\ up[k] /\ link[k] /\ (asked[k] # Nothing \/ reply[k] # "none") =>
            lane.op \in Main!RpcOps /\ owner[lane.frame] = k
        /\ answer[k] # Nothing => inFlight[k] # Nothing /\ request[k] = Nothing

\* Over all sound Runtimes at most one Frame is open for ordinary input
\* (frame-call-protocol: never two ordinary InputTargets).
OneInControl ==
    \A j, k \in Subsystems : \A f, g \in FrameIds :
        /\ Sound(j) /\ State(j, f) = "active"
        /\ Sound(k) /\ State(k, g) = "active"
        => f = g /\ j = k

\* The Frame that Main holds active has the activation Main gave it, until it
\* gives it up itself in a frame.call or frame.return.
ControlAgrees ==
    \A f \in FrameIds : LET k == owner[f] IN
        lifecycle[f] = "active" /\ Sound(k) =>
            \/ State(k, f) \in {"active", "calling"} /\ context[k][f].activation = activation[f]
            \/ State(k, f) = "returning" /\ inFlight[k].activation = activation[f]
            \/ State(k, f) \in {"activating", "resuming"} /\ after[k].frame = f
                  /\ after[k].activation = activation[f]

\* A sound Runtime has no context of a Frame that Main does not know any more,
\* except one it is about to delete.
NoStrayContext ==
    \A k \in Subsystems : \A f \in FrameIds :
        Sound(k) /\ State(k, f) # "none" =>
            /\ owner[f] = k
            /\ \/ lifecycle[f] \notin {"absent", "closed"}
               \/ State(k, f) = "closing" /\ after[k] = Request("close", f, 0, 0)
=============================================================================
