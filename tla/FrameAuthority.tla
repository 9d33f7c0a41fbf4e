--------------------------- MODULE FrameAuthority ---------------------------
(***************************************************************************)
(* The Frame half of the Main session (packages/main/src/internal/         *)
(* main-session.ts): the Frame stack, the activations, the call and return *)
(* handlers, the Frame RPCs Main issues and the failure unwind.            *)
(*                                                                         *)
(* The module starts where bootstrapSession sets frameAuthorityStarted:    *)
(* every declared Runtime has reported ready once, and the start of the    *)
(* initial Frame is queued.  How Runtimes are launched, supervised and     *)
(* terminated is module RuntimeSupervision.                                *)
(*                                                                         *)
(* Main serialises every authority mutation on one promise chain, mutate() *)
(* ("the lane").  An operation holds the lane across its awaits, so a      *)
(* Frame RPC in flight is a state of the lane (lane.op) and its reply is a *)
(* step of its own.  An operation that does not come from Main itself (a   *)
(* message, a lost connection, a fatal source) is a step taken when the    *)
(* lane is free; one that Main owes itself is a member of `owed`.          *)
(***************************************************************************)
EXTENDS Integers, Sequences, FiniteSets

CONSTANTS
    Subsystems,     \* the keys of LogicalGameBootstrap.subsystemKeys
    Initial,        \* LogicalGameBootstrap.initial.subsystemKey
    MaxFrames       \* bound on the Frames one session allocates

ASSUME InitialAssumption == Initial \in Subsystems
ASSUME MaxFramesAssumption == MaxFrames \in Nat \ {0}

VARIABLES
    phase,          \* RuntimeRecord.phase; "failed" iff RuntimeRecord.failure is set
    link,           \* link[k]: the Runtime Control connection of k is not terminal
    lifecycle,      \* FrameRecord.lifecycle; "absent": id not allocated yet,
                    \* "closed": deleted from the frames map
    owner,          \* FrameRecord.subsystemKey
    caller,         \* FrameRecord.callerFrameId, 0 for null
    activation,     \* FrameRecord.currentActivationId, 0 for null
    outcome,        \* FrameRecord.outcome, "none" for null
    contextKnown,   \* FrameRecord.contextKnown
    closeAttempted, \* FrameRecord.closeAttempted
    stack,          \* the stack array, top last
    nextFrame,      \* the number of the next "f:n"
    nextActivation, \* the number of the next "a:n"
    lane,           \* the operation that holds the mutation lane
    owed,           \* the operations Main has promised itself
    terminal,       \* SessionTerminal
    stopRequested

recordVars == <<lifecycle, owner, caller, activation, outcome, contextKnown,
                closeAttempted>>
runtimeVars == <<phase, link>>
counters == <<nextFrame, nextActivation>>
sessionVars == <<terminal, stopRequested>>
vars == <<runtimeVars, recordVars, stack, counters, lane, owed, sessionVars>>

FrameIds == 1..MaxFrames
Phases == {"ready", "stopping", "failed"}
Lifecycles == {"absent", "starting", "active", "suspended", "closing", "closed"}
\* What a Frame can hand to its caller: the value its own frame.return carried,
\* the failure of a rejected frame.initialize, SUBSYSTEM_RUNTIME_FAILED.
Outcomes == {"returned", "rejected", "runtime-failed"}
\* A root outcome, a shutdown, a fatal failure; "divergence" is the fatal
\* failure MAIN_AUTHORITY_DIVERGENCE.
Terminals == {"none", "shutdown", "fatal", "divergence"} \cup Outcomes

RpcOps == {"initialize", "activate", "close", "resume", "unwind-close"}
\* "unwind": at the head of unwindFailures' loop; "pop": in its inner loop;
\* "drop": the top Frame is closing, and published so, and about to be closed.
LaneOps == {"idle", "unwind", "pop", "drop"} \cup RpcOps

\* lane.frame: the Frame the RPC names; lane.returned: the Frame whose outcome
\* is to be delivered (the root of an unwind); lane.below: how many Frames stay
\* under that root; lane.minted: the activation the RPC carries.
LaneRecords == [op : LaneOps, frame : FrameIds \cup {0}, returned : FrameIds \cup {0},
                below : Nat, outcome : Outcomes \cup {"none"}, minted : Nat]
Idle == [op |-> "idle", frame |-> 0, returned |-> 0, below |-> 0,
         outcome |-> "none", minted |-> 0]
Unwinding == [Idle EXCEPT !.op = "unwind"]

\* Operations queued on the lane, or to be queued once a response is written.
OwedOps == [op : {"initial", "start", "finalize", "shutdown"}, frame : FrameIds \cup {0}]
Owed(op, f) == [op |-> op, frame |-> f]

LaneFree == lane.op = "idle"
Top == stack[Len(stack)]
OnTop(f) == stack # <<>> /\ Top = f
Pop == SubSeq(stack, 1, Len(stack) - 1)
OnStack(f) == \E i \in 1..Len(stack) : stack[i] = f
Stopped == stopRequested \/ terminal # "none"

\* runtimeReady: after bootstrap the peer is never null.
RuntimeReady(k) == phase[k] = "ready"
Failed(k) == phase[k] = "failed"
MarkFailed(k) == phase' = [phase EXCEPT ![k] = "failed"]

\* beginRootOutcome, beginShutdown, beginFatal: the first terminal stays, and
\* cleanupRuntime moves every Runtime that has not failed to "stopping" before
\* its first await.
EndSession(t) ==
    /\ terminal' = IF terminal = "none" THEN t ELSE terminal
    /\ phase' = IF terminal = "none"
                THEN [k \in Subsystems |-> IF Failed(k) THEN "failed" ELSE "stopping"]
                ELSE phase

\* allocateFrame and the push that follows it.
Allocate(k, by) ==
    /\ owner' = [owner EXCEPT ![nextFrame] = k]
    /\ caller' = [caller EXCEPT ![nextFrame] = by]
    /\ stack' = Append(stack, nextFrame)
    /\ nextFrame' = nextFrame + 1

\* FrameRecord.lifecycle = "closed", stack.pop() and frames.delete().
CloseTop(f) ==
    /\ lifecycle' = [lifecycle EXCEPT ![f] = "closed"]
    /\ stack' = Pop

\* tryResumeCaller, up to its await; `rest` is the stack without f.
ResumeCaller(f, result, rest) ==
    LET c == caller[f] IN
    IF c = 0
    THEN EndSession(result) /\ lane' = Idle /\ UNCHANGED nextActivation
    ELSE IF rest = <<>> \/ rest[Len(rest)] # c \/ lifecycle[c] # "suspended"
    THEN EndSession("divergence") /\ lane' = Idle /\ UNCHANGED nextActivation
    ELSE IF ~RuntimeReady(owner[c])
    THEN MarkFailed(owner[c]) /\ lane' = Unwinding /\ UNCHANGED <<terminal, nextActivation>>
    ELSE /\ lane' = [Idle EXCEPT !.op = "resume", !.frame = c, !.returned = f,
                                 !.outcome = result, !.minted = nextActivation]
         /\ nextActivation' = nextActivation + 1
         /\ UNCHANGED <<phase, terminal>>

----------------------------------------------------------------------------
Init ==
    /\ phase = [k \in Subsystems |-> "ready"]
    /\ link = [k \in Subsystems |-> TRUE]
    /\ lifecycle = [f \in FrameIds |-> "absent"]
    /\ owner = [f \in FrameIds |-> Initial]
    /\ caller = [f \in FrameIds |-> 0]
    /\ activation = [f \in FrameIds |-> 0]
    /\ outcome = [f \in FrameIds |-> "none"]
    /\ contextKnown = [f \in FrameIds |-> FALSE]
    /\ closeAttempted = [f \in FrameIds |-> FALSE]
    /\ stack = <<>>
    /\ nextFrame = 1
    /\ nextActivation = 1
    /\ lane = Idle
    /\ owed = {Owed("initial", 0)}
    /\ terminal = "none"
    /\ stopRequested = FALSE

----------------------------------------------------------------------------
(* What the outside does to Main.                                          *)

\* requestShutdown runs at once, whatever holds the lane, except inside the
\* inner loop of unwindFailures, which runs to completion between its awaits;
\* only the terminal it asks for waits for its turn.
RequestShutdown ==
    /\ ~Stopped
    /\ lane.op \notin {"pop", "drop"}
    /\ stopRequested' = TRUE
    /\ owed' = owed \cup {Owed("shutdown", 0)}
    /\ UNCHANGED <<runtimeVars, recordVars, stack, counters, lane, terminal>>

\* The connection commits a terminal: carrier lost or closed, protocol fatal
\* (also the answer to a refused frame.call or frame.return), local fatal.
LinkEnds(k) ==
    /\ link[k]
    /\ link' = [link EXCEPT ![k] = FALSE]
    /\ UNCHANGED <<phase, recordVars, stack, counters, lane, owed, sessionVars>>

\* Seeded bug: the Runtime is marked failed and its Frames stay.
FailRuntimeWithoutUnwind(k) ==
    /\ MarkFailed(k)
    /\ UNCHANGED <<link, recordVars, stack, counters, owed, sessionVars, lane>>

\* markRuntimeFailed followed by unwindFailures, as onStatus, watchControl and
\* watchPhysicalRuntime do it in a lane turn of their own.
FailRuntime(k) ==
    /\ MarkFailed(k)
    /\ lane' = IF Stopped THEN Idle ELSE Unwinding
    /\ UNCHANGED <<link, recordVars, stack, counters, owed, sessionVars>>

\* onStatus: "failed".  Marks the Runtime also after the terminal.  The other
\* states change nothing here: a Runtime reports ready before this module
\* starts, and the Control peer takes "stopping" only after Main's own shutdown
\* request, when the phase is "stopping" already.
StatusFailed(k) == LaneFree /\ ~Failed(k) /\ FailRuntime(k)

\* watchControl's continuation.  After the terminal every Runtime has
\* expectedTermination, and the continuation does nothing.
ControlTerminal(k) ==
    /\ LaneFree
    /\ ~link[k]
    /\ ~Failed(k)
    /\ terminal = "none"
    /\ FailRuntime(k)

\* watchPhysicalRuntime's continuations: the Runtime exited, or the platform
\* cannot tell.
PhysicalTerminated(k) ==
    /\ LaneFree
    /\ ~Failed(k)
    /\ terminal = "none"
    /\ FailRuntime(k)

\* The Shared State authority or the Session Event hub became terminal.
AuthorityFatal ==
    /\ LaneFree
    /\ terminal = "none"
    /\ EndSession("fatal")
    /\ UNCHANGED <<link, recordVars, stack, counters, lane, owed, stopRequested>>

\* Seeded bug: the request is not checked against the stack and the activation.
ValidSourceByOwner(k, f, a) ==
    /\ lifecycle[f] \notin {"absent", "closed"}
    /\ owner[f] = k

\* validateFrameSource.
ValidSource(k, f, a) ==
    /\ lifecycle[f] \notin {"absent", "closed"}
    /\ owner[f] = k
    /\ OnTop(f)
    /\ lifecycle[f] = "active"
    /\ activation[f] = a

\* onFrameCall, accepted.  A refusal changes nothing in Main, and costs the
\* caller its connection unless the target is unknown or not ready.
FrameCall(k, f, a, target) ==
    /\ LaneFree
    /\ ~Stopped
    /\ ValidSource(k, f, a)
    /\ RuntimeReady(target)
    /\ nextFrame <= MaxFrames
    /\ activation' = [activation EXCEPT ![f] = 0]
    /\ lifecycle' = [lifecycle EXCEPT ![f] = "suspended", ![nextFrame] = "starting"]
    /\ Allocate(target, f)
    /\ owed' = owed \cup {Owed("start", nextFrame)}
    /\ UNCHANGED <<runtimeVars, outcome, contextKnown, closeAttempted, nextActivation,
                   lane, sessionVars>>

\* onFrameReturn, accepted.
FrameReturn(k, f, a) ==
    /\ LaneFree
    /\ ~Stopped
    /\ ValidSource(k, f, a)
    /\ outcome' = [outcome EXCEPT ![f] = "returned"]
    /\ activation' = [activation EXCEPT ![f] = 0]
    /\ lifecycle' = [lifecycle EXCEPT ![f] = "closing"]
    /\ owed' = owed \cup {Owed("finalize", f)}
    /\ UNCHANGED <<runtimeVars, owner, caller, contextKnown, closeAttempted, stack,
                   counters, lane, sessionVars>>

----------------------------------------------------------------------------
(* What Main owes itself.                                                  *)

\* afterResponse is skipped when the connection that carries the response of
\* the frame.call or frame.return ends first.
ResponseLost(o) ==
    /\ \/ o.op = "start" /\ ~link[owner[caller[o.frame]]]
       \/ o.op = "finalize" /\ ~link[owner[o.frame]]
    /\ owed' = owed \ {o}
    /\ UNCHANGED <<runtimeVars, recordVars, stack, counters, lane, sessionVars>>

BeginShutdown(o) ==
    /\ LaneFree
    /\ o.op = "shutdown"
    /\ owed' = owed \ {o}
    /\ EndSession("shutdown")
    /\ UNCHANGED <<link, recordVars, stack, counters, lane, stopRequested>>

Initialize(f) == lane' = [Idle EXCEPT !.op = "initialize", !.frame = f]

StartInitialFrame(o) ==
    /\ LaneFree
    /\ o.op = "initial"
    /\ owed' = owed \ {o}
    /\ IF Stopped
       THEN UNCHANGED <<phase, lifecycle, owner, caller, stack, nextFrame, lane, terminal>>
       ELSE IF ~RuntimeReady(Initial)
       THEN /\ EndSession("fatal")
            /\ UNCHANGED <<lifecycle, owner, caller, stack, nextFrame, lane>>
       ELSE /\ lifecycle' = [lifecycle EXCEPT ![nextFrame] = "starting"]
            /\ Allocate(Initial, 0)
            /\ Initialize(nextFrame)
            /\ UNCHANGED <<phase, terminal>>
    /\ UNCHANGED <<link, activation, outcome, contextKnown, closeAttempted, nextActivation,
                   stopRequested>>

StartAcceptedChild(o) ==
    LET f == o.frame
        k == owner[f]
    IN
    /\ LaneFree
    /\ o.op = "start"
    /\ owed' = owed \ {o}
    /\ IF Stopped \/ lifecycle[f] # "starting" \/ ~OnTop(f)
       THEN UNCHANGED <<phase, lane>>
       ELSE IF ~RuntimeReady(k)
       THEN MarkFailed(k) /\ lane' = Unwinding
       ELSE Initialize(f) /\ UNCHANGED phase
    /\ UNCHANGED <<link, recordVars, stack, counters, sessionVars>>

\* Seeded bug: the queued close does not re-check that the Frame is still there.
FinalizeWithoutRecheck(o) ==
    LET f == o.frame IN
    /\ LaneFree
    /\ o.op = "finalize"
    /\ owed' = owed \ {o}
    /\ IF Stopped
       THEN UNCHANGED <<phase, closeAttempted, lane, terminal>>
       ELSE IF lifecycle[f] # "closing" \/ outcome[f] = "none"
       THEN EndSession("divergence") /\ UNCHANGED <<closeAttempted, lane>>
       ELSE /\ closeAttempted' = [closeAttempted EXCEPT ![f] = TRUE]
            /\ lane' = [Idle EXCEPT !.op = "close", !.frame = f]
            /\ UNCHANGED <<phase, terminal>>
    /\ UNCHANGED <<link, lifecycle, owner, caller, activation, outcome, contextKnown, stack,
                   counters, stopRequested>>

FinalizeAcceptedReturn(o) ==
    LET f == o.frame
        k == owner[f]
    IN
    /\ LaneFree
    /\ o.op = "finalize"
    /\ owed' = owed \ {o}
    /\ IF Stopped \/ lifecycle[f] = "closed" \/ ~OnTop(f)
       THEN UNCHANGED <<phase, closeAttempted, lane, terminal>>
       ELSE IF lifecycle[f] # "closing" \/ outcome[f] = "none"
       THEN EndSession("divergence") /\ UNCHANGED <<closeAttempted, lane>>
       ELSE IF Failed(k)
       THEN lane' = Unwinding /\ UNCHANGED <<phase, closeAttempted, terminal>>
       ELSE /\ closeAttempted' = [closeAttempted EXCEPT ![f] = TRUE]
            /\ lane' = [Idle EXCEPT !.op = "close", !.frame = f]
            /\ UNCHANGED <<phase, terminal>>
    /\ UNCHANGED <<link, lifecycle, owner, caller, activation, outcome, contextKnown, stack,
                   counters, stopRequested>>

----------------------------------------------------------------------------
(* Replies to the Frame RPC that holds the lane.                           *)

\* A reply arrives on a connection that is still up.
Answered(op) == lane.op = op /\ link[owner[lane.frame]]

\* Every await of a Frame operation is followed by
\* `if (this.stopRequested) return`: the reply releases the lane, no more.
ReplyAfterStop ==
    /\ lane.op \in RpcOps
    /\ stopRequested
    /\ lane' = Idle
    /\ UNCHANGED <<runtimeVars, recordVars, stack, counters, owed, sessionVars>>

InitializeSucceeds ==
    /\ Answered("initialize")
    /\ ~stopRequested
    /\ contextKnown' = [contextKnown EXCEPT ![lane.frame] = TRUE]
    /\ lane' = [lane EXCEPT !.op = "activate", !.minted = nextActivation]
    /\ nextActivation' = nextActivation + 1
    /\ UNCHANGED <<runtimeVars, lifecycle, owner, caller, activation, outcome, closeAttempted,
                   stack, nextFrame, owed, sessionVars>>

\* FRAME_INITIALIZE_REJECTED, the one recoverable refusal of a Frame RPC.
InitializeRejected ==
    /\ Answered("initialize")
    /\ ~stopRequested
    /\ outcome' = [outcome EXCEPT ![lane.frame] = "rejected"]
    /\ CloseTop(lane.frame)
    /\ ResumeCaller(lane.frame, "rejected", Pop)
    /\ UNCHANGED <<link, owner, caller, activation, contextKnown, closeAttempted, nextFrame,
                   owed, stopRequested>>

\* Seeded bug: the await of frame.activate is not followed by the stop check.
ActivateSucceedsAfterStop ==
    /\ Answered("activate")
    /\ lifecycle' = [lifecycle EXCEPT ![lane.frame] = "active"]
    /\ activation' = [activation EXCEPT ![lane.frame] = lane.minted]
    /\ lane' = Idle
    /\ UNCHANGED <<runtimeVars, owner, caller, outcome, contextKnown, closeAttempted, stack,
                   counters, owed, sessionVars>>

ActivateSucceeds ==
    /\ Answered("activate")
    /\ ~stopRequested
    /\ lifecycle' = [lifecycle EXCEPT ![lane.frame] = "active"]
    /\ activation' = [activation EXCEPT ![lane.frame] = lane.minted]
    /\ lane' = Idle
    /\ UNCHANGED <<runtimeVars, owner, caller, outcome, contextKnown, closeAttempted, stack,
                   counters, owed, sessionVars>>

CloseSucceeds ==
    /\ Answered("close")
    /\ ~stopRequested
    /\ contextKnown' = [contextKnown EXCEPT ![lane.frame] = FALSE]
    /\ CloseTop(lane.frame)
    /\ ResumeCaller(lane.frame, outcome[lane.frame], Pop)
    /\ UNCHANGED <<link, owner, caller, activation, outcome, closeAttempted, nextFrame, owed,
                   stopRequested>>

ResumeSucceeds ==
    /\ Answered("resume")
    /\ ~stopRequested
    /\ lifecycle' = [lifecycle EXCEPT ![lane.frame] = "active"]
    /\ activation' = [activation EXCEPT ![lane.frame] = lane.minted]
    /\ lane' = Idle
    /\ UNCHANGED <<runtimeVars, owner, caller, outcome, contextKnown, closeAttempted, stack,
                   counters, owed, sessionVars>>

\* Seeded bug: the failed RPC marks the Runtime and leaves its Frames.
RpcFailsWithoutUnwind ==
    /\ lane.op \in RpcOps
    /\ ~stopRequested
    /\ link' = [link EXCEPT ![owner[lane.frame]] = FALSE]
    /\ MarkFailed(owner[lane.frame])
    /\ lane' = Idle
    /\ UNCHANGED <<recordVars, stack, counters, owed, sessionVars>>

\* Timeout, terminal connection, non-recoverable refusal, local failure: each
\* ends the connection, and markUnsafeFrameOutcome fails the Runtime.  A close
\* that fails inside an unwind starts the unwind over from a lower root.
RpcFails ==
    /\ lane.op \in RpcOps
    /\ ~stopRequested
    /\ link' = [link EXCEPT ![owner[lane.frame]] = FALSE]
    /\ MarkFailed(owner[lane.frame])
    /\ lane' = Unwinding
    /\ UNCHANGED <<recordVars, stack, counters, owed, sessionVars>>

----------------------------------------------------------------------------
(* unwindFailures, one step per turn of its loops.                         *)

\* lowestFailedFrameIndex, over the positions of the stack.
DoomedPositions == {i \in 1..Len(stack) : Failed(owner[stack[i]])}
IsLowestDoomed(i) == i \in DoomedPositions /\ \A j \in DoomedPositions : i <= j

\* rootOutcome: an outcome Main has accepted survives the failure of its Runtime.
RootOutcome(f) == IF outcome[f] = "none" THEN "runtime-failed" ELSE outcome[f]

UnwindLoop ==
    /\ lane.op = "unwind"
    /\ \/ /\ Stopped \/ DoomedPositions = {}
          /\ lane' = Idle
       \/ /\ ~Stopped
          /\ \E i \in DoomedPositions :
                /\ IsLowestDoomed(i)
                /\ lane' = [Idle EXCEPT !.op = "pop", !.returned = stack[i], !.below = i - 1,
                                        !.outcome = RootOutcome(stack[i])]
    /\ UNCHANGED <<runtimeVars, recordVars, stack, counters, owed, sessionVars>>

\* Seeded bug: every Frame above the root is dropped, healthy Runtime or not.
UnwindPopDropsHealthy ==
    LET f == Top IN
    /\ lane.op = "pop"
    /\ ~Stopped
    /\ Len(stack) > lane.below
    /\ activation' = [activation EXCEPT ![f] = 0]
    /\ lifecycle' = [lifecycle EXCEPT ![f] = "closing"]
    /\ lane' = [lane EXCEPT !.op = "drop", !.frame = f]
    /\ UNCHANGED <<phase, closeAttempted, terminal, link, owner, caller, outcome,
                   contextKnown, stack, counters, owed, stopRequested>>

\* The inner loop, on the top Frame: a healthy Runtime that holds its context
\* is asked to close it, otherwise the Frame is dropped.
UnwindPop ==
    LET f == Top
        healthy == ~Failed(owner[f]) /\ contextKnown[f]
    IN
    /\ lane.op = "pop"
    /\ ~Stopped
    /\ Len(stack) > lane.below
    /\ activation' = [activation EXCEPT ![f] = 0]
    /\ lifecycle' = [lifecycle EXCEPT ![f] = "closing"]
    /\ IF ~healthy
       THEN /\ lane' = [lane EXCEPT !.op = "drop", !.frame = f]
            /\ UNCHANGED <<phase, closeAttempted, terminal>>
       ELSE IF closeAttempted[f]
       THEN EndSession("divergence") /\ lane' = Idle /\ UNCHANGED closeAttempted
       ELSE /\ closeAttempted' = [closeAttempted EXCEPT ![f] = TRUE]
            /\ lane' = [lane EXCEPT !.op = "unwind-close", !.frame = f]
            /\ UNCHANGED <<phase, terminal>>
    /\ UNCHANGED <<link, owner, caller, outcome, contextKnown, stack, counters, owed,
                   stopRequested>>

UnwindDrop ==
    /\ lane.op = "drop"
    /\ CloseTop(lane.frame)
    /\ lane' = [lane EXCEPT !.op = "pop", !.frame = 0]
    /\ UNCHANGED <<runtimeVars, owner, caller, activation, outcome, contextKnown,
                   closeAttempted, counters, owed, sessionVars>>

UnwindCloseSucceeds ==
    /\ Answered("unwind-close")
    /\ ~stopRequested
    /\ contextKnown' = [contextKnown EXCEPT ![lane.frame] = FALSE]
    /\ CloseTop(lane.frame)
    /\ lane' = [lane EXCEPT !.op = "pop", !.frame = 0]
    /\ UNCHANGED <<runtimeVars, owner, caller, activation, outcome, closeAttempted, counters,
                   owed, sessionVars>>

\* After the inner loop: the root Frame's outcome ends the session or is
\* delivered to the surviving caller.
UnwindDeliver ==
    /\ lane.op = "pop"
    /\ IF Stopped
       THEN lane' = Idle /\ UNCHANGED <<phase, terminal, nextActivation>>
       ELSE /\ Len(stack) <= lane.below
            /\ IF stack = <<>>
               THEN EndSession(lane.outcome) /\ lane' = Idle /\ UNCHANGED nextActivation
               ELSE IF Top # caller[lane.returned]
               THEN EndSession("divergence") /\ lane' = Idle /\ UNCHANGED nextActivation
               ELSE ResumeCaller(lane.returned, lane.outcome, stack)
    /\ UNCHANGED <<link, recordVars, stack, nextFrame, owed, stopRequested>>

----------------------------------------------------------------------------
Environment ==
    \/ RequestShutdown
    \/ AuthorityFatal
    \/ \E k \in Subsystems :
        \/ LinkEnds(k)
        \/ StatusFailed(k)
        \/ PhysicalTerminated(k)
        \/ \E f \in FrameIds, a \in 1..nextActivation :
            \/ FrameReturn(k, f, a)
            \/ \E target \in Subsystems : FrameCall(k, f, a, target)

OwedStep ==
    \E o \in owed :
        \/ BeginShutdown(o)
        \/ StartInitialFrame(o)
        \/ StartAcceptedChild(o)
        \/ FinalizeAcceptedReturn(o)
        \/ ResponseLost(o)

Reply ==
    \/ ReplyAfterStop
    \/ InitializeSucceeds
    \/ InitializeRejected
    \/ ActivateSucceeds
    \/ CloseSucceeds
    \/ ResumeSucceeds
    \/ UnwindCloseSucceeds
    \/ RpcFails

UnwindStep == UnwindLoop \/ UnwindPop \/ UnwindDrop \/ UnwindDeliver

WatchControl == \E k \in Subsystems : ControlTerminal(k)

Next == Environment \/ OwedStep \/ Reply \/ UnwindStep \/ WatchControl

Spec == Init /\ [][Next]_vars

\* Every Frame RPC has a deadline (Connection.request schedules one before it
\* writes), so it is answered or fails; a queued lane turn runs once the lane
\* is free; a terminal connection calls watchControl.  Requests of the
\* Subsystems and failures of the outside are not fair.
Fairness ==
    /\ WF_vars(Reply)
    /\ WF_vars(UnwindStep)
    /\ WF_vars(OwedStep)
    /\ WF_vars(WatchControl)

FairSpec == Spec /\ Fairness

----------------------------------------------------------------------------
TypeOK ==
    /\ phase \in [Subsystems -> Phases]
    /\ link \in [Subsystems -> BOOLEAN]
    /\ lifecycle \in [FrameIds -> Lifecycles]
    /\ owner \in [FrameIds -> Subsystems]
    /\ caller \in [FrameIds -> FrameIds \cup {0}]
    /\ activation \in [FrameIds -> Nat]
    /\ outcome \in [FrameIds -> Outcomes \cup {"none"}]
    /\ contextKnown \in [FrameIds -> BOOLEAN]
    /\ closeAttempted \in [FrameIds -> BOOLEAN]
    /\ stack \in Seq(FrameIds)
    /\ nextFrame \in 1..(MaxFrames + 1)
    /\ nextActivation \in Nat \ {0}
    /\ lane \in LaneRecords
    /\ owed \subseteq OwedOps
    /\ terminal \in Terminals
    /\ stopRequested \in BOOLEAN

\* The stack is a chain of direct calls: every Frame below the top is
\* suspended in its call of the Frame above it, a Frame is live exactly while
\* it is on the stack, and only an active Frame, which then is the top, holds
\* an activation (frame-call-protocol: no two ordinary InputTargets).
StackDiscipline ==
    /\ \A i \in 1..Len(stack) :
        /\ caller[stack[i]] = IF i = 1 THEN 0 ELSE stack[i - 1]
        /\ i < Len(stack) => lifecycle[stack[i]] = "suspended"
    /\ \A f \in FrameIds :
        /\ OnStack(f) <=> lifecycle[f] \notin {"absent", "closed"}
        /\ activation[f] # 0 <=> lifecycle[f] = "active"

\* Main never meets one of the states it reports as MAIN_AUTHORITY_DIVERGENCE:
\* a return whose closing state was lost, a returned Frame whose direct caller
\* is not the suspended top, a second close of a healthy Frame.
NoAuthorityDivergence == terminal # "divergence"

\* An operation on stack's top that Main still owes, or that the loss of the
\* connection that carried the request has cancelled: watchControl will unwind.
AwaitsStart(f) == Owed("start", f) \in owed \/ ~link[owner[caller[f]]]
AwaitsClose(f) == Owed("finalize", f) \in owed \/ ~link[owner[f]]

\* Whenever the lane is free and the session goes on, no Frame of a failed
\* Runtime is on the stack, and the session can go on: the top Frame is active,
\* or its start or its close is still to come.
SettledAtRest ==
    LaneFree /\ ~Stopped /\ Owed("initial", 0) \notin owed =>
        /\ DoomedPositions = {}
        /\ stack # <<>>
        /\ \/ lifecycle[Top] = "active"
           \/ lifecycle[Top] = "starting" /\ AwaitsStart(Top)
           \/ lifecycle[Top] = "closing" /\ AwaitsClose(Top)

\* A Runtime that has not failed is never left with the context of a Frame
\* that Main has dropped: every close it is owed was sent and answered.
NoOrphanContext ==
    \A f \in FrameIds : lifecycle[f] = "closed" /\ contextKnown[f] => Failed(owner[f])

\* An accepted outcome survives: what a resume hands to the caller, and what
\* the session ends with, is the outcome the returned Frame committed
\* (frame-call-protocol: it MUST survive crash, Control failure and cleanup
\* failure), and SUBSYSTEM_RUNTIME_FAILED only if it committed none.
Committed(f) == IF outcome[f] \in Outcomes THEN outcome[f] ELSE "runtime-failed"
OutcomeSurvives ==
    /\ lane.op = "resume" => lane.outcome = Committed(lane.returned)
    /\ terminal \in Outcomes => terminal = Committed(1)

\* Once shutdown is requested or the session has ended, no continuation of an
\* operation in flight changes a Frame, the stack or an id any more, and the
\* first terminal stays.
FrozenAfterStop ==
    [][/\ Stopped => UNCHANGED <<recordVars, stack, counters>>
       /\ terminal # "none" => UNCHANGED terminal]_vars

\* The Frame authority implements the call stack its contract describes.
Control == IF stack # <<>> /\ lifecycle[Top] = "active" THEN Top ELSE 0
Abstract == INSTANCE CallStack WITH chain <- stack, control <- Control, result <- outcome,
                                    next <- nextFrame, ended <- terminal
ImplementsCallStack == Abstract!Spec

\* An accepted return does not hang: the Frame is closed, or the session ends,
\* whatever replies and connections are lost.
ReturnSettles ==
    \A f \in FrameIds : lifecycle[f] = "closing" ~> (lifecycle[f] = "closed" \/ terminal # "none")
=============================================================================
