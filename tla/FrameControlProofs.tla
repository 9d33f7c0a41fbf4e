------------------------- MODULE FrameControlProofs -------------------------
(***************************************************************************)
(* Proofs about FrameControl, for any set of Runtimes and any bound on the *)
(* Frames: no request of Main is ever refused by a Runtime, and no Runtime *)
(* that Main counts on keeps the context of a Frame Main has dropped.      *)
(*                                                                         *)
(* What Main knows of itself is the inductive invariant of FrameAuthority, *)
(* proved in FrameAuthorityProofs for every step Main can take.            *)
(***************************************************************************)
EXTENDS FrameControl, TLAPS

Authority == INSTANCE FrameAuthorityProofs

\* A slot of a channel: empty, or a message that names a Frame.
Slot(ops) == {Nothing} \cup [op : ops, frame : FrameIds, activation : Nat,
                             child : FrameIds \cup {0}]
Responses == {Nothing} \cup [op : Answers, frame : {0}, activation : {0},
                             child : FrameIds \cup {0}]

RuntimeTypes ==
    /\ up \in [Subsystems -> BOOLEAN]
    /\ context \in [Subsystems -> [FrameIds -> Contexts]]
    /\ inFlight \in [Subsystems -> Slot({"call", "return"})]
    /\ request \in [Subsystems -> Slot({"call", "return"})]
    /\ after \in [Subsystems -> Slot(FrameRequests)]
    /\ asked \in [Subsystems -> Slot(FrameRequests)]
    /\ answer \in [Subsystems -> Responses]
    /\ behind \in [Subsystems -> BOOLEAN]
    /\ reply \in [Subsystems -> {"none", "done", "refused"}]
    /\ reported \in [Subsystems -> BOOLEAN]

\* Activations grow: those that are known are older than any to come.
MintedInOrder ==
    /\ \A f \in FrameIds : activation[f] < nextActivation
    /\ lane.op \in {"activate", "resume"} => lane.minted < nextActivation

\* Before the terminal a Runtime is ready or has failed.
PhasesOpen == terminal = "none" => \A k \in Subsystems : phase[k] \in {"ready", "failed"}

MainInOrder == MintedInOrder /\ PhasesOpen /\ Authority!NoStopInTurn

Live(f) == lifecycle[f] \notin {"absent", "closed"}
Serves(f, ops) == lane.op \in ops /\ lane.frame = f
AsksOf(k) == lane.op \in Authority!RpcOps /\ owner[lane.frame] = k

----------------------------------------------------------------------------
(* What a Runtime and its channel agree on, whatever Main does.            *)

\* The afterResponse that is still to run is the one the context waits for.
AfterAgrees(k) ==
    /\ after[k].op = "initialize" => State(k, after[k].frame) = "initialized"
    /\ after[k].op = "activate" => State(k, after[k].frame) = "activating"
    /\ after[k].op = "resume" => State(k, after[k].frame) = "resuming"
    /\ after[k].op = "close" => State(k, after[k].frame) = "closing"
    /\ \A f \in FrameIds :
        /\ State(k, f) = "activating" => after[k].op = "activate" /\ after[k].frame = f
        /\ State(k, f) = "resuming" => after[k].op = "resume" /\ after[k].frame = f
        /\ State(k, f) = "closing" => after[k] = Request("close", f, 0, 0)

\* One frame.call or frame.return is under way: in flight, and either not yet
\* handled by Main or answered.
FlightAgrees(k) ==
    /\ answer[k] # Nothing => inFlight[k] # Nothing
    /\ link[k] /\ request[k] # Nothing => inFlight[k] = request[k] /\ answer[k] = Nothing
    /\ inFlight[k].op = "call" =>
            State(k, inFlight[k].frame) \in {"calling", "closing", "none"}
    /\ \A f \in FrameIds :
        State(k, f) = "calling" => inFlight[k].op = "call" /\ inFlight[k].frame = f

\* The context has called and will learn, or has learnt, that d is its child.
WillWait(k, c, d) == State(k, c) = "calling" /\ answer[k] = Response("accepted", d)
IsWaiting(k, c, d) == State(k, c) = "awaiting-resume" /\ context[k][c].child = d

\* The context will accept the request that it has not handled yet.
Acceptable(k) ==
    LET m == asked[k]
        f == m.frame
    IN
    /\ m.op = "initialize" => State(k, f) = "none" /\ inFlight[k].frame # f
    /\ m.op = "activate" => State(k, f) = "initialized"
    /\ m.op = "close" => State(k, f) \notin {"none", "closing"} /\ m = Request("close", f, 0, 0)
    /\ m.op = "resume" =>
        \/ IsWaiting(k, f, m.child) /\ context[k][f].revoked # m.activation
        \/ behind[k] /\ WillWait(k, f, m.child) /\ inFlight[k].activation # m.activation

\* A Runtime speaks of Frames that Main has given it.
Known(k) ==
    \A f \in FrameIds :
        \/ State(k, f) # "none"
        \/ inFlight[k].frame = f
        \/ asked[k].frame = f
        => owner[f] = k /\ lifecycle[f] # "absent"

Local(k) ==
    /\ reply[k] # "refused"
    /\ reported[k] => ~up[k]
    /\ up[k] => /\ link[k] => ~Authority!Failed(k)
                /\ AfterAgrees(k)
                /\ FlightAgrees(k)
                /\ Acceptable(k)
                /\ Known(k)
                /\ link[k] /\ (asked[k] # Nothing \/ reply[k] # "none") => AsksOf(k)
                /\ link[k] /\ reply[k] # "none" => asked[k] = Nothing

----------------------------------------------------------------------------
(* What a Runtime that Main counts on has of Main's Frames.                *)

SoundRuntime(k) == up[k] /\ ~Authority!Failed(k)

\* Its contexts are of live Frames.
ContextsLive(k) ==
    \A f \in FrameIds :
        /\ State(k, f) # "none" => Live(f) \/ State(k, f) = "closing"
        /\ asked[k].frame = f => Live(f)

\* While the session goes on: what it is asked is what the lane waits for, and
\* it has no context of a Frame whose initialize it was not asked.
AsksAgree(k) ==
    /\ asked[k] # Nothing => AsksOf(k) /\ asked[k] = FrameRequest(lane)
    /\ \A f \in FrameIds :
        Live(f) /\ owner[f] = k /\ ~contextKnown[f] /\ ~Serves(f, {"initialize"}) =>
            State(k, f) = "none" /\ inFlight[k].frame # f

\* Main has given the Frame an activation, and has not taken a frame.call of it.
InControl(k, f) ==
    /\ State(k, f) \in {"activating", "resuming", "active", "calling", "returning"}
    /\ State(k, f) = "calling" => answer[k].op # "accepted"

\* What the reply of the Runtime tells Main.
Done(k, f, op) ==
    CASE op = "initialize" -> State(k, f) = "initialized"
      [] op \in {"activate", "resume"} -> InControl(k, f)
      [] op \in {"close", "unwind-close"} -> State(k, f) \in {"none", "closing"}

\* The RPC that holds the lane is on its way, or done and answered.
LaneServed(k) ==
    AsksOf(k) =>
        \/ asked[k] = FrameRequest(lane) /\ reply[k] = "none"
        \/ asked[k] = Nothing /\ reply[k] = "done" /\ Done(k, lane.frame, lane.op)

\* A child whose outcome its caller has not been handed.
Uncollected(d) ==
    \/ Authority!OnStack(d)
    \/ lane.op \in {"pop", "drop", "unwind-close"} /\ lane.returned = d

\* The caller of an uncollected child waits for it, with an older activation
\* than any that Main will mint.
Waits(k, c, d) ==
    \/ WillWait(k, c, d) /\ inFlight[k].activation < nextActivation
    \/ IsWaiting(k, c, d) /\ context[k][c].revoked < nextActivation

CallersWait(k) ==
    \A c, d \in FrameIds : owner[c] = k /\ caller[d] = c /\ Uncollected(d) => Waits(k, c, d)

FramesHeld(k) ==
    \A f \in FrameIds : owner[f] = k =>
        /\ Live(f) /\ lifecycle[f] # "starting"
                   /\ ~Serves(f, {"close", "unwind-close", "drop"}) =>
                State(k, f) \notin {"none", "closing"}
        /\ lifecycle[f] = "active" => InControl(k, f)

Agrees(k) ==
    /\ SoundRuntime(k) => ContextsLive(k)
    /\ SoundRuntime(k) /\ ~stopRequested => AsksAgree(k)
    /\ up[k] /\ link[k] /\ ~stopRequested => LaneServed(k) /\ CallersWait(k) /\ FramesHeld(k)

ControlInv ==
    /\ Authority!IndInv
    /\ RuntimeTypes
    /\ MainInOrder
    /\ \A k \in Subsystems : Local(k) /\ Agrees(k)

----------------------------------------------------------------------------
(* Steps of a Runtime, which leave Main alone.                             *)

\* What Main knows of itself does not change.
LEMMA MainRests ==
    ASSUME Authority!IndInv, MainInOrder, UNCHANGED mainVars
    PROVE  Authority!IndInv' /\ MainInOrder'
<1>1. UNCHANGED Authority!vars
  BY DEF mainVars, Authority!vars, Authority!runtimeVars, Authority!recordVars,
         Authority!counters, Authority!sessionVars
<1>2. Authority!IndInv'
  BY <1>1, Authority!NextIndInv, InitialAssumption, MaxFramesAssumption
<1>3. MainInOrder'
  BY DEF MainInOrder, MintedInOrder, PhasesOpen, Authority!NoStopInTurn, mainVars
<1> QED
  BY <1>2, <1>3

\* What concerns a Runtime: its own side of its channel, and Main's state.
SliceKept(k) ==
    /\ up'[k] = up[k]
    /\ context'[k] = context[k]
    /\ inFlight'[k] = inFlight[k]
    /\ after'[k] = after[k]
    /\ asked'[k] = asked[k]
    /\ answer'[k] = answer[k]
    /\ behind'[k] = behind[k]
    /\ request'[k] = request[k]
    /\ reply'[k] = reply[k]
    /\ reported'[k] = reported[k]

LEMMA OthersRest ==
    ASSUME NEW k \in Subsystems, Local(k), Agrees(k), SliceKept(k), UNCHANGED mainVars
    PROVE  Local(k)' /\ Agrees(k)'
<1> USE DEF SliceKept, mainVars
<1>1. Local(k)'
  BY DEF Local, AfterAgrees, FlightAgrees, Acceptable, Known, AsksOf, State, WillWait,
         IsWaiting, Authority!Failed, Authority!RpcOps
<1>2. ContextsLive(k) => ContextsLive(k)'
  BY DEF ContextsLive, Live, State
<1>3. AsksAgree(k) => AsksAgree(k)'
  BY DEF AsksAgree, AsksOf, Live, Serves, State, Authority!RpcOps
<1>4. LaneServed(k) => LaneServed(k)'
  BY DEF LaneServed, AsksOf, Done, InControl, State, Authority!RpcOps
<1>5. CallersWait(k) => CallersWait(k)'
  BY DEF CallersWait, Uncollected, Waits, WillWait, IsWaiting, State, Authority!OnStack
<1>6. FramesHeld(k) => FramesHeld(k)'
  BY DEF FramesHeld, Live, Serves, InControl, State
<1>7. SoundRuntime(k)' = SoundRuntime(k)
  BY DEF SoundRuntime, Authority!Failed
<1>8. Agrees(k)'
  BY <1>2, <1>3, <1>4, <1>5, <1>6, <1>7 DEF Agrees
<1> QED
  BY <1>1, <1>8

\* A step of the Runtime k concerns no other one.
LEMMA RuntimeMoves ==
    ASSUME NEW k \in Subsystems, ControlInv, UNCHANGED mainVars, RuntimeTypes',
           \A j \in Subsystems \ {k} : SliceKept(j), Local(k)', Agrees(k)'
    PROVE  ControlInv'
<1>1. Authority!IndInv' /\ MainInOrder'
  BY MainRests DEF ControlInv
<1>2. ASSUME NEW j \in Subsystems PROVE Local(j)' /\ Agrees(j)'
  BY OthersRest DEF ControlInv
<1> QED
  BY <1>1, <1>2 DEF ControlInv

\* failRuntime: a Runtime that is gone agrees with whatever Main does.
LEMMA RuntimeEnds ==
    ASSUME NEW k \in Subsystems, ControlInv, UNCHANGED mainVars,
           ConnectionEnds(k) \/ FailRuntime(k)
    PROVE  ControlInv'
<1>0. RuntimeTypes /\ \A j \in Subsystems : Local(j)
  BY DEF ControlInv
<1>1. /\ Ends(k)
      /\ request' = request /\ reply' = reply
      /\ reported' \in {reported, [reported EXCEPT ![k] = TRUE]}
  BY DEF ConnectionEnds, FailRuntime
<1>2. RuntimeTypes'
  <2>1. [f \in FrameIds |-> NoContext] \in [FrameIds -> Contexts]
    BY DEF NoContext, Contexts, ContextStates
  <2>2. Nothing \in Slot({"call", "return"}) /\ Nothing \in Slot(FrameRequests)
        /\ Nothing \in Responses
    BY DEF Slot, Responses
  <2>3. up' \in [Subsystems -> BOOLEAN] /\ context' \in [Subsystems -> [FrameIds -> Contexts]]
    BY <1>0, <1>1, <2>1 DEF RuntimeTypes, Ends
  <2>4. /\ inFlight' \in [Subsystems -> Slot({"call", "return"})]
        /\ after' \in [Subsystems -> Slot(FrameRequests)]
        /\ asked' \in [Subsystems -> Slot(FrameRequests)]
        /\ answer' \in [Subsystems -> Responses]
        /\ behind' \in [Subsystems -> BOOLEAN]
    BY <1>0, <1>1, <2>2 DEF RuntimeTypes, Ends
  <2> QED
    BY <1>0, <1>1, <2>3, <2>4 DEF RuntimeTypes
<1>3. \A j \in Subsystems \ {k} : SliceKept(j)
  BY <1>0, <1>1 DEF SliceKept, RuntimeTypes, Ends
<1>4. ~up'[k] /\ reply'[k] # "refused"
  BY <1>0, <1>1 DEF RuntimeTypes, Local, Ends
<1>5. Local(k)' /\ Agrees(k)'
  BY <1>4 DEF Local, Agrees, SoundRuntime
<1> QED
  BY <1>2, <1>3, <1>5, RuntimeMoves

\* What a request of Main tells of the operation that has sent it.
LEMMA AskedTells ==
    ASSUME NEW m, m = FrameRequest(lane), lane.op \in Authority!RpcOps
    PROVE  /\ m.frame = lane.frame
           /\ m.op = IF lane.op = "unwind-close" THEN "close" ELSE lane.op
           /\ m.op = "close" => m = Request("close", lane.frame, 0, 0)
           /\ m.op = "resume" => m.child = lane.returned
           /\ m.op \in {"activate", "resume"} => m.activation = lane.minted
BY DEF FrameRequest, Request, Authority!RpcOps

\* The types of Main's state.
LEMMA MainTypes ==
    ASSUME Authority!IndInv
    PROVE  /\ FrameIds = Authority!FrameIds
           /\ lifecycle \in [FrameIds -> Authority!Lifecycles]
           /\ owner \in [FrameIds -> Subsystems]
           /\ caller \in [FrameIds -> FrameIds \cup {0}]
           /\ activation \in [FrameIds -> Nat]
           /\ contextKnown \in [FrameIds -> BOOLEAN]
           /\ stack \in Seq(FrameIds)
           /\ nextFrame \in 1..(MaxFrames + 1)
           /\ nextActivation \in Nat \ {0}
           /\ lane \in Authority!LaneRecords
           /\ lane.frame \in FrameIds \cup {0} /\ lane.returned \in FrameIds \cup {0}
           /\ lane.minted \in Nat /\ lane.below \in Nat
           /\ phase \in [Subsystems -> Authority!Phases] /\ link \in [Subsystems -> BOOLEAN]
<1>1. FrameIds = Authority!FrameIds
  BY DEF FrameIds, Authority!FrameIds
<1>2. Authority!TypeOK
  BY DEF Authority!IndInv
<1>3. lane \in Authority!LaneRecords
  BY <1>2 DEF Authority!TypeOK
<1>4. /\ lane.frame \in FrameIds \cup {0} /\ lane.returned \in FrameIds \cup {0}
      /\ lane.minted \in Nat /\ lane.below \in Nat
  BY <1>1, <1>3 DEF Authority!LaneRecords
<1> QED
  BY <1>1, <1>2, <1>4 DEF Authority!TypeOK

\* The Frame of the lane's operation is on the stack.
LEMMA LaneFrame ==
    ASSUME Authority!IndInv, lane.op \in Authority!RpcOps \cup {"drop"}
    PROVE  /\ lane.frame \in FrameIds /\ Live(lane.frame)
           /\ lane.frame = stack[Len(stack)] /\ stack # <<>>
           /\ lane.op \in {"initialize", "activate"} <=> lifecycle[lane.frame] = "starting"
           /\ lane.op = "resume" <=> lifecycle[lane.frame] = "suspended"
           /\ lane.op \in {"close", "unwind-close", "drop"} <=> lifecycle[lane.frame] = "closing"
<1>1. /\ lane.frame = stack[Len(stack)] /\ stack # <<>>
      /\ lane.op \in {"initialize", "activate"} => lifecycle[lane.frame] = "starting"
      /\ lane.op = "resume" => lifecycle[lane.frame] = "suspended"
      /\ lane.op \in {"close", "unwind-close", "drop"} => lifecycle[lane.frame] = "closing"
      /\ lane.op \in {"initialize", "activate", "resume", "close", "unwind-close", "drop"}
  BY DEF Authority!IndInv, Authority!LaneOnTop, Authority!OnTop, Authority!Top, Authority!RpcOps
<1>2. lane.frame \in FrameIds
  BY <1>1, MainTypes
<1> QED
  BY <1>1, <1>2 DEF Live

\* A Frame that is asked to close or to resume is the top of the stack: no
\* child of it is uncollected.
LEMMA TopIsChildless ==
    ASSUME Authority!IndInv, lane.op \in {"close", "unwind-close", "resume", "drop"},
           NEW d \in FrameIds, Uncollected(d)
    PROVE  caller[d] # lane.frame
<1>0. /\ stack \in Seq(FrameIds) /\ Len(stack) \in Nat
      /\ \A i \in 1..Len(stack) : stack[i] \in FrameIds
  BY MainTypes
<1>1. stack # <<>> /\ lane.frame = stack[Len(stack)]
  BY DEF Authority!IndInv, Authority!LaneOnTop, Authority!OnTop, Authority!Top
<1>a. \A i, j \in 1..Len(stack) : i < j => stack[i] < stack[j]
  BY DEF Authority!IndInv, Authority!IdsInOrder
<1>b. \A i \in 1..Len(stack) : caller[stack[i]] = IF i = 1 THEN 0 ELSE stack[i - 1]
  BY DEF Authority!IndInv, Authority!StackDiscipline
<1>2. Len(stack) \in 1..Len(stack)
  BY <1>0, <1>1
<1>3. \A i \in 1..Len(stack) : i < Len(stack) => stack[i] # lane.frame
  <2> TAKE i \in 1..Len(stack)
  <2>1. i < Len(stack) => stack[i] < stack[Len(stack)]
    BY <1>2, <1>a
  <2>2. stack[i] \in Int /\ stack[Len(stack)] \in Int
    BY <1>0, <1>2 DEF FrameIds
  <2> QED
    BY <1>1, <2>1, <2>2
<1>4. lane.frame # 0
  BY <1>0, <1>1, <1>2 DEF FrameIds
<1>5. CASE Authority!OnStack(d)
  <2>1. PICK i \in 1..Len(stack) : stack[i] = d
    BY <1>5 DEF Authority!OnStack
  <2>2. CASE i = 1
    BY <1>4, <1>b, <2>1, <2>2
  <2>3. CASE i # 1
    <3>1. i - 1 \in 1..Len(stack) /\ i - 1 < Len(stack)
      BY <1>0, <2>3
    <3> QED
      BY <1>3, <1>b, <2>1, <2>3, <3>1
  <2> QED
    BY <2>2, <2>3
<1>6. CASE lane.op \in {"drop", "unwind-close"} /\ lane.returned = d
  <2>1. /\ lane.below \in Nat /\ lane.below < Len(stack)
        /\ caller[d] = IF lane.below = 0 THEN 0 ELSE stack[lane.below]
    BY <1>6, MainTypes DEF Authority!IndInv, Authority!UnwindRoot
  <2>2. lane.below # 0 => lane.below \in 1..Len(stack)
    BY <1>0, <2>1
  <2> QED
    BY <1>3, <1>4, <2>1, <2>2
<1> QED
  BY <1>5, <1>6 DEF Uncollected

\* A slot is empty, or holds a message that names a Frame.
LEMMA SlotFacts ==
    ASSUME NEW ops, "none" \notin ops, NEW m \in Slot(ops)
    PROVE  /\ m = Nothing => m.op = "none" /\ m.frame = 0 /\ m.activation = 0 /\ m.child = 0
           /\ m # Nothing => /\ m.op \in ops /\ m.op # "none"
                             /\ m.frame \in FrameIds
           /\ m.frame \in FrameIds \cup {0} /\ m.activation \in Nat
           /\ m.child \in FrameIds \cup {0}
           /\ 0 \notin FrameIds
<1>1. 0 \notin FrameIds
  BY DEF FrameIds
<1> QED
  BY <1>1 DEF Slot, Nothing

LEMMA ChannelFacts ==
    ASSUME RuntimeTypes, NEW k \in Subsystems
    PROVE  /\ 0 \notin FrameIds
           /\ asked[k] = Nothing <=> asked[k].op = "none"
           /\ asked[k] # Nothing => asked[k].op \in FrameRequests /\ asked[k].frame \in FrameIds
           /\ asked[k].activation \in Nat
           /\ after[k] = Nothing <=> after[k].op = "none"
           /\ after[k] # Nothing => after[k].op \in FrameRequests /\ after[k].frame \in FrameIds
           /\ after[k].activation \in Nat
           /\ inFlight[k] = Nothing <=> inFlight[k].op = "none"
           /\ inFlight[k] # Nothing =>
                inFlight[k].op \in {"call", "return"} /\ inFlight[k].frame \in FrameIds
           /\ inFlight[k].activation \in Nat
           /\ request[k] = Nothing <=> request[k].op = "none"
           /\ request[k] # Nothing =>
                request[k].op \in {"call", "return"} /\ request[k].frame \in FrameIds
           /\ request[k].activation \in Nat
           /\ Nothing.frame = 0 /\ Nothing.op = "none"
<1>1. "none" \notin FrameRequests /\ "none" \notin {"call", "return"}
  BY DEF FrameRequests
<1>2. /\ asked[k] \in Slot(FrameRequests) /\ after[k] \in Slot(FrameRequests)
      /\ inFlight[k] \in Slot({"call", "return"}) /\ request[k] \in Slot({"call", "return"})
  BY DEF RuntimeTypes
<1>3. Nothing.frame = 0 /\ Nothing.op = "none"
  BY DEF Nothing
<1> QED
  BY <1>1, <1>2, <1>3, SlotFacts

\* The parts of the invariant that concern one Runtime.
LEMMA Parts ==
    ASSUME ControlInv, NEW k \in Subsystems
    PROVE  /\ RuntimeTypes /\ Authority!IndInv /\ MainInOrder
           /\ Local(k) /\ Agrees(k)
BY DEF ControlInv

\* A step that replaces one context.
LEMMA PutFacts ==
    ASSUME RuntimeTypes, NEW k \in Subsystems, NEW f \in FrameIds, NEW c \in Contexts, Put(k, f, c)
    PROVE  /\ context' \in [Subsystems -> [FrameIds -> Contexts]]
           /\ context'[k][f] = c
           /\ \A g \in FrameIds \ {f} : context'[k][g] = context[k][g]
           /\ \A j \in Subsystems \ {k} : context'[j] = context[j]
BY DEF RuntimeTypes, Put

\* What a handler of Main's requests makes of the context.
Handled(op) ==
    CASE op = "initialize" -> "initialized"
      [] op = "activate" -> "activating"
      [] op = "resume" -> "resuming"
      [] op = "close" -> "closing"

\* A handler that accepts the request.
Accepts(k, m, c) ==
    /\ up[k] /\ after[k] = Nothing /\ ~behind[k]
    /\ asked[k] = m /\ m # Nothing
    /\ Put(k, m.frame, c)
    /\ c.state = Handled(m.op)
    /\ after' = [after EXCEPT ![k] = m]
    /\ reply' = [reply EXCEPT ![k] = "done"]
    /\ asked' = [asked EXCEPT ![k] = Nothing]
    /\ UNCHANGED <<up, inFlight, answer, behind, request, reported>>

LEMMA AcceptsLocal ==
    ASSUME NEW k \in Subsystems, ControlInv, NEW m, NEW c \in Contexts, Accepts(k, m, c),
           UNCHANGED mainVars
    PROVE  RuntimeTypes' /\ Local(k)' /\ \A j \in Subsystems \ {k} : SliceKept(j)
<1> DEFINE f == m.frame
<1>0. RuntimeTypes /\ Local(k) /\ Agrees(k)
  BY Parts
<1>1. /\ m \in Slot(FrameRequests) /\ m # Nothing /\ m.op \in FrameRequests /\ f \in FrameIds
      /\ asked[k] = m /\ after[k] = Nothing /\ after[k].op = "none" /\ up[k]
  BY <1>0, ChannelFacts DEF Accepts, RuntimeTypes
<1>2. /\ context' \in [Subsystems -> [FrameIds -> Contexts]]
      /\ context'[k][f] = c /\ c.state = Handled(m.op)
      /\ \A g \in FrameIds \ {f} : context'[k][g] = context[k][g]
      /\ \A j \in Subsystems \ {k} : context'[j] = context[j]
  BY <1>0, <1>1, PutFacts DEF Accepts
<1>3. /\ after' = [after EXCEPT ![k] = m]
      /\ reply' = [reply EXCEPT ![k] = "done"]
      /\ asked' = [asked EXCEPT ![k] = Nothing]
      /\ UNCHANGED <<up, inFlight, answer, behind, request, reported>>
  BY DEF Accepts
<1>4. RuntimeTypes'
  <2>1. Nothing \in Slot(FrameRequests)
    BY DEF Slot
  <2> QED
    BY <1>0, <1>1, <1>2, <1>3, <2>1 DEF RuntimeTypes
<1>5. \A j \in Subsystems \ {k} : SliceKept(j)
  BY <1>0, <1>2, <1>3 DEF SliceKept, RuntimeTypes
<1>6. after'[k] = m /\ asked'[k] = Nothing /\ reply'[k] = "done"
  BY <1>0, <1>3 DEF RuntimeTypes
<1>o. /\ m.op = "initialize" => context[k][f].state = "none" /\ inFlight[k].frame # f
      /\ m.op = "activate" => context[k][f].state = "initialized"
      /\ m.op = "resume" => context[k][f].state = "awaiting-resume"
      /\ m.op = "close" => context[k][f].state \notin {"none", "closing"}
                           /\ m = Request("close", f, 0, 0)
  BY <1>0, <1>1 DEF Local, Acceptable, IsWaiting, State, Accepts
<1>n. /\ m.op = "initialize" => c.state = "initialized"
      /\ m.op = "activate" => c.state = "activating"
      /\ m.op = "resume" => c.state = "resuming"
      /\ m.op = "close" => c.state = "closing"
      /\ m.op \in {"initialize", "activate", "resume", "close"}
  BY <1>1, <1>2 DEF Handled, FrameRequests
<1>7. AfterAgrees(k)'
  <2>1. \A g \in FrameIds : context[k][g].state \notin {"activating", "resuming", "closing"}
    BY <1>0, <1>1 DEF Local, AfterAgrees, State, Request
  <2>2. \A g \in FrameIds \ {f} :
            context'[k][g].state \notin {"activating", "resuming", "closing"}
    BY <1>2, <2>1
  <2> QED
    BY <1>1, <1>2, <1>6, <1>o, <1>n, <2>2 DEF AfterAgrees, State
<1>8. FlightAgrees(k)'
  <2>1. c.state # "calling" /\ c.state # "none"
    BY <1>n
  <2>2. inFlight[k].op = "call" => context'[k][inFlight[k].frame].state \in {"calling", "closing", "none"}
    <3> SUFFICES ASSUME inFlight[k].op = "call"
                 PROVE  context'[k][inFlight[k].frame].state \in {"calling", "closing", "none"}
      OBVIOUS
    <3>1. context[k][inFlight[k].frame].state \in {"calling", "closing", "none"}
          /\ inFlight[k].frame \in FrameIds
      BY <1>0, <1>1, ChannelFacts DEF Local, FlightAgrees, State
    <3> QED
      BY <1>2, <1>o, <1>n, <3>1
  <2>3. \A g \in FrameIds : context'[k][g].state = "calling" => context[k][g].state = "calling"
    BY <1>2, <2>1
  <2> QED
    BY <1>0, <1>1, <1>3, <2>2, <2>3 DEF Local, FlightAgrees, State, mainVars
<1>9. Acceptable(k)' /\ Known(k)'
  BY <1>0, <1>1, <1>2, <1>3, <1>6, ChannelFacts
     DEF Local, Acceptable, Known, State, mainVars
<1>10. Local(k)'
  BY <1>0, <1>1, <1>3, <1>6, <1>7, <1>8, <1>9
     DEF Local, AsksOf, mainVars, Authority!Failed, Authority!RpcOps
<1> QED
  BY <1>4, <1>5, <1>10

\* What the lane waits for is what the handler has done.
LEMMA AcceptsAgrees ==
    ASSUME NEW k \in Subsystems, ControlInv, NEW m, NEW c \in Contexts, Accepts(k, m, c),
           UNCHANGED mainVars
    PROVE  Agrees(k)'
<1> DEFINE f == m.frame
<1>0. RuntimeTypes /\ Authority!IndInv /\ Local(k) /\ Agrees(k)
  BY Parts
<1>1. /\ m # Nothing /\ m.op \in FrameRequests /\ f \in FrameIds
      /\ asked[k] = m /\ up[k]
  BY <1>0, ChannelFacts DEF Accepts
<1>2. /\ context'[k][f] = c /\ c.state = Handled(m.op)
      /\ \A g \in FrameIds \ {f} : context'[k][g] = context[k][g]
  BY <1>0, <1>1, PutFacts DEF Accepts
<1>3. /\ UNCHANGED <<up, inFlight, answer>>
      /\ asked'[k] = Nothing /\ reply'[k] = "done"
  BY <1>0 DEF Accepts, RuntimeTypes
<1>4. /\ m.op = "initialize" => context[k][f].state = "none" /\ c.state = "initialized"
      /\ m.op = "activate" => context[k][f].state = "initialized" /\ c.state = "activating"
      /\ m.op = "resume" => context[k][f].state = "awaiting-resume" /\ c.state = "resuming"
      /\ m.op = "close" => context[k][f].state # "none" /\ c.state = "closing"
      /\ m.op \in {"initialize", "activate", "resume", "close"}
  BY <1>0, <1>1, <1>2 DEF Local, Acceptable, IsWaiting, State, Accepts, Handled, FrameRequests
<1>5. SoundRuntime(k)' = SoundRuntime(k) /\ stopRequested' = stopRequested /\ link' = link
  BY <1>3 DEF SoundRuntime, Authority!Failed, mainVars
<1>6. SoundRuntime(k) => ContextsLive(k)'
  BY <1>0, <1>1, <1>2, <1>3, ChannelFacts DEF Agrees, ContextsLive, Live, State, mainVars
<1>7. ASSUME SoundRuntime(k), ~stopRequested
      PROVE  /\ lane.op \in Authority!RpcOps /\ lane.frame = f
             /\ m.op = IF lane.op = "unwind-close" THEN "close" ELSE lane.op
  BY <1>0, <1>1, <1>7, AskedTells DEF Agrees, AsksAgree, AsksOf
<1>8. SoundRuntime(k) /\ ~stopRequested => AsksAgree(k)'
  <2> SUFFICES ASSUME SoundRuntime(k), ~stopRequested PROVE AsksAgree(k)'
    OBVIOUS
  <2>1. AsksAgree(k)
    BY <1>0 DEF Agrees
  <2> QED
    BY <1>1, <1>2, <1>3, <1>4, <1>7, <2>1 DEF AsksAgree, Live, Serves, State, mainVars
<1>9. ASSUME up[k], link[k], ~stopRequested
      PROVE  LaneServed(k)' /\ CallersWait(k)' /\ FramesHeld(k)'
  <2>0. SoundRuntime(k) /\ LaneServed(k) /\ CallersWait(k) /\ FramesHeld(k)
    BY <1>0, <1>9 DEF Agrees, Local, SoundRuntime
  <2>1. /\ lane.op \in Authority!RpcOps /\ lane.frame = f
        /\ m.op = IF lane.op = "unwind-close" THEN "close" ELSE lane.op
    BY <1>7, <1>9, <2>0
  <2>2. LaneServed(k)'
    BY <1>2, <1>3, <1>4, <2>1
       DEF LaneServed, AsksOf, Done, InControl, State, mainVars, Authority!RpcOps
  <2>3. CallersWait(k)'
    <3> SUFFICES ASSUME NEW d \in FrameIds, NEW e \in FrameIds, owner[d] = k, caller[e] = d,
                        Uncollected(e)
                 PROVE  Waits(k, d, e)'
      BY DEF CallersWait, Uncollected, mainVars, Authority!OnStack
    <3>1. Waits(k, d, e)
      BY <2>0 DEF CallersWait
    <3>2. d # f
      <4>1. CASE m.op \in {"resume", "close"}
        BY <1>0, <2>1, <4>1, TopIsChildless
      <4>2. CASE m.op \in {"initialize", "activate"}
        BY <1>4, <3>1, <4>2 DEF Waits, WillWait, IsWaiting, State
      <4> QED
        BY <1>4, <4>1, <4>2
    <3> QED
      BY <1>2, <1>3, <3>1, <3>2 DEF Waits, WillWait, IsWaiting, State, mainVars
  <2>4. FramesHeld(k)'
    <3>1. m.op = "close" => lane.op \in {"close", "unwind-close"} /\ lifecycle[f] = "closing"
      BY <1>0, <2>1 DEF Authority!RpcOps, Authority!IndInv, Authority!LaneOnTop
    <3> QED
      BY <1>2, <1>3, <1>4, <2>0, <2>1, <3>1 DEF FramesHeld, Live, Serves, InControl, State, mainVars
  <2> QED
    BY <2>2, <2>3, <2>4
<1> QED
  BY <1>3, <1>5, <1>6, <1>8, <1>9 DEF Agrees

\* Every request is accepted, whatever was on the wire when Main sent it.
LEMMA HandlerSteps ==
    ASSUME NEW k \in Subsystems, ControlInv, UNCHANGED mainVars,
           OnInitialize(k) \/ OnActivate(k) \/ OnResume(k) \/ OnClose(k)
    PROVE  ControlInv'
<1> DEFINE m == asked[k]
           old == context[k][m.frame]
<1>0. RuntimeTypes /\ Local(k)
  BY Parts
<1>1. /\ up[k] /\ after[k] = Nothing /\ ~behind[k] /\ m # Nothing /\ m.frame \in FrameIds
      /\ asked' = [asked EXCEPT ![k] = Nothing]
      /\ UNCHANGED <<up, inFlight, answer, behind, request, reported>>
      /\ old \in Contexts
  <2>1. m.op \in FrameRequests
    BY DEF OnInitialize, OnActivate, OnResume, OnClose, Receives, FrameRequests
  <2>2. m # Nothing /\ m.frame \in FrameIds
    BY <1>0, <2>1, ChannelFacts DEF FrameRequests
  <2> QED
    BY <1>0, <2>2 DEF OnInitialize, OnActivate, OnResume, OnClose, Receives, RuntimeTypes
<1>2. \E c \in Contexts : Accepts(k, m, c)
  <2>1. CASE OnInitialize(k)
    <3> DEFINE c == [NoContext EXCEPT !.state = "initialized"]
    <3>1. m.op = "initialize" /\ State(k, m.frame) = "none"
      BY <1>0, <1>1, <2>1 DEF OnInitialize, Receives, Local, Acceptable
    <3>2. c \in Contexts /\ c.state = Handled(m.op)
      BY <3>1 DEF NoContext, Contexts, ContextStates, Handled
    <3>3. Put(k, m.frame, c) /\ Accept(k, m)
      BY <2>1, <3>1 DEF OnInitialize
    <3> QED
      BY <1>1, <3>2, <3>3 DEF Accepts, Accept, Reply
  <2>2. CASE OnActivate(k)
    <3> DEFINE c == [old EXCEPT !.state = "activating"]
    <3>1. m.op = "activate" /\ State(k, m.frame) = "initialized"
      BY <1>0, <1>1, <2>2 DEF OnActivate, Receives, Local, Acceptable
    <3>2. c \in Contexts /\ c.state = Handled(m.op)
      BY <1>1, <3>1 DEF Contexts, ContextStates, Handled
    <3>3. Put(k, m.frame, c) /\ Accept(k, m)
      BY <1>0, <1>1, <2>2, <3>1 DEF OnActivate, Move, Put, RuntimeTypes
    <3> QED
      BY <1>1, <3>2, <3>3 DEF Accepts, Accept, Reply
  <2>3. CASE OnResume(k)
    <3> DEFINE c == [old EXCEPT !.state = "resuming"]
    <3>1. m.op = "resume" /\ CanResume(old, m)
      BY <1>0, <1>1, <2>3
         DEF OnResume, Receives, Local, Acceptable, CanResume, IsWaiting, State
    <3>2. c \in Contexts /\ c.state = Handled(m.op)
      BY <1>1, <3>1 DEF Contexts, ContextStates, Handled
    <3>3. Put(k, m.frame, c) /\ Accept(k, m)
      BY <1>0, <1>1, <2>3, <3>1 DEF OnResume, Move, Put, RuntimeTypes
    <3> QED
      BY <1>1, <3>2, <3>3 DEF Accepts, Accept, Reply
  <2>4. CASE OnClose(k)
    <3> DEFINE c == [old EXCEPT !.state = "closing", !.activation = 0]
    <3>1. m.op = "close" /\ State(k, m.frame) \notin {"none", "closing"}
      BY <1>0, <1>1, <2>4 DEF OnClose, Receives, Local, Acceptable
    <3>2. c \in Contexts /\ c.state = Handled(m.op)
      BY <1>1, <3>1 DEF Contexts, ContextStates, Handled
    <3>3. Put(k, m.frame, c) /\ Accept(k, m)
      BY <2>4, <3>1 DEF OnClose
    <3> QED
      BY <1>1, <3>2, <3>3 DEF Accepts, Accept, Reply
  <2> QED
    BY <2>1, <2>2, <2>3, <2>4
<1> QED
  BY <1>2, AcceptsLocal, AcceptsAgrees, RuntimeMoves

\* afterResponse.
LEMMA AfterResponseStep ==
    ASSUME NEW k \in Subsystems, ControlInv, AfterResponse(k), UNCHANGED mainVars
    PROVE  ControlInv'
<1> DEFINE m == after[k]
           f == m.frame
           running == [NoContext EXCEPT !.state = "active", !.activation = m.activation]
<1>0. RuntimeTypes /\ Authority!IndInv /\ Local(k) /\ Agrees(k)
  BY Parts
<1>1. /\ up[k] /\ m # Nothing /\ m.op \in FrameRequests /\ f \in FrameIds
      /\ m.activation \in Nat
  BY <1>0, ChannelFacts DEF AfterResponse
<1>2. /\ after' = [after EXCEPT ![k] = Nothing]
      /\ UNCHANGED <<up, inFlight, asked, answer, behind, request, reply, reported>>
  BY DEF AfterResponse, wireVars
<1>3. \E c \in Contexts :
        /\ Put(k, f, c)
        /\ \/ m.op = "initialize" /\ c = context[k][f] /\ c.state = "initialized"
           \/ m.op \in {"activate", "resume"} /\ c.state = "active"
                /\ context[k][f].state \in {"activating", "resuming"}
           \/ m.op = "close" /\ c.state = "none" /\ context[k][f].state = "closing"
  <2>0. AfterAgrees(k)
    BY <1>0, <1>1 DEF Local
  <2>1. CASE m.op = "initialize"
    <3>1. context' = context
      BY <2>1 DEF AfterResponse
    <3>2. Put(k, f, context[k][f]) /\ context[k][f] \in Contexts
      BY <1>0, <1>1, <3>1 DEF Put, RuntimeTypes
    <3> QED
      BY <2>0, <2>1, <3>2 DEF AfterAgrees, State
  <2>2. CASE m.op \in {"activate", "resume"}
    <3>1. Put(k, f, running)
      BY <2>2 DEF AfterResponse
    <3>2. running \in Contexts /\ running.state = "active"
      BY <1>1 DEF Contexts, ContextStates, NoContext
    <3> QED
      BY <2>0, <2>2, <3>1, <3>2 DEF AfterAgrees, State
  <2>3. CASE m.op = "close"
    <3>1. Put(k, f, NoContext)
      BY <2>3 DEF AfterResponse
    <3>2. NoContext \in Contexts /\ NoContext.state = "none"
      BY DEF Contexts, ContextStates, NoContext
    <3> QED
      BY <2>0, <2>3, <3>1, <3>2 DEF AfterAgrees, State
  <2> QED
    BY <1>1, <2>1, <2>2, <2>3 DEF FrameRequests
<1>4. PICK c \in Contexts :
        /\ Put(k, f, c)
        /\ \/ m.op = "initialize" /\ c = context[k][f] /\ c.state = "initialized"
           \/ m.op \in {"activate", "resume"} /\ c.state = "active"
                /\ context[k][f].state \in {"activating", "resuming"}
           \/ m.op = "close" /\ c.state = "none" /\ context[k][f].state = "closing"
  BY <1>3
<1>5. /\ context' \in [Subsystems -> [FrameIds -> Contexts]]
      /\ context'[k][f] = c
      /\ \A g \in FrameIds \ {f} : context'[k][g] = context[k][g]
      /\ \A j \in Subsystems \ {k} : context'[j] = context[j]
  BY <1>0, <1>1, <1>4, PutFacts
<1>6. RuntimeTypes' /\ after'[k] = Nothing /\ \A j \in Subsystems \ {k} : after'[j] = after[j]
  <2>1. Nothing \in Slot(FrameRequests)
    BY DEF Slot
  <2> QED
    BY <1>0, <1>2, <1>5, <2>1 DEF RuntimeTypes
<1>7. \A j \in Subsystems \ {k} : SliceKept(j)
  BY <1>2, <1>5, <1>6 DEF SliceKept
<1>8. Local(k)'
  <2>1. AfterAgrees(k)'
    <3>1. ASSUME NEW g \in FrameIds, context[k][g].state \in {"activating", "resuming", "closing"}
          PROVE  g = f
      <4>1. AfterAgrees(k)
        BY <1>0, <1>1 DEF Local
      <4>2. CASE context[k][g].state \in {"activating", "resuming"}
        BY <4>1, <4>2 DEF AfterAgrees, State
      <4>3. CASE context[k][g].state = "closing"
        <5>1. after[k] = Request("close", g, 0, 0)
          BY <4>1, <4>3 DEF AfterAgrees, State
        <5> QED
          BY <5>1 DEF Request
      <4> QED
        BY <3>1, <4>2, <4>3
    <3>2. \A g \in FrameIds : context'[k][g].state \notin {"activating", "resuming", "closing"}
      <4> TAKE g \in FrameIds
      <4>1. CASE g = f
        BY <1>4, <1>5, <4>1
      <4>2. CASE g # f
        BY <1>5, <3>1, <4>2
      <4> QED
        BY <4>1, <4>2
    <3> QED
      BY <1>6, <3>2 DEF AfterAgrees, State, Nothing
  <2>2. FlightAgrees(k)'
    <3>1. inFlight[k].op = "call" => inFlight[k].frame \in FrameIds
      BY <1>0, ChannelFacts
    <3>2. FlightAgrees(k)
      BY <1>0, <1>1 DEF Local
    <3> QED
      BY <1>2, <1>4, <1>5, <3>1, <3>2 DEF FlightAgrees, State, mainVars
  <2>3. Acceptable(k)'
    <3>1. asked[k].op # "none" => asked[k].frame \in FrameIds
      BY <1>0, ChannelFacts
    <3>2. Acceptable(k)
      BY <1>0, <1>1 DEF Local
    <3> QED
      BY <1>2, <1>4, <1>5, <3>1, <3>2 DEF Acceptable, IsWaiting, WillWait, State
  <2>4. Known(k)'
    BY <1>0, <1>1, <1>2, <1>4, <1>5 DEF Local, Known, State, mainVars
  <2> QED
    BY <1>0, <1>1, <1>2, <2>1, <2>2, <2>3, <2>4
       DEF Local, AsksOf, mainVars, Authority!Failed, Authority!RpcOps
<1>9. Agrees(k)'
  <2>0. /\ SoundRuntime(k)' = SoundRuntime(k)
        /\ \A g \in FrameIds : context[k][g].state \in {"none", "initialized"} =>
                context'[k][g].state = context[k][g].state
        /\ \A g \in FrameIds : context'[k][g].state = "none" =>
                context[k][g].state \in {"none", "closing"}
        /\ \A g \in FrameIds : context'[k][g].state = "closing" => context[k][g].state = "closing"
        /\ \A g \in FrameIds : context[k][g].state = "closing" =>
                context'[k][g].state \in {"none", "closing"}
    BY <1>2, <1>4, <1>5 DEF SoundRuntime, Authority!Failed, mainVars
  <2>1. ContextsLive(k) => ContextsLive(k)'
    BY <1>2, <1>4, <1>5 DEF ContextsLive, Live, State, mainVars
  <2>2. AsksAgree(k) => AsksAgree(k)'
    BY <1>2, <2>0 DEF AsksAgree, AsksOf, Live, Serves, State, mainVars, Authority!RpcOps
  <2>3. \A g \in FrameIds : InControl(k, g) => InControl(k, g)'
    BY <1>2, <1>4, <1>5 DEF InControl, State
  <2>4. LaneServed(k) => LaneServed(k)'
    <3>0. lane' = lane /\ owner' = owner
      BY DEF mainVars
    <3>1. AsksOf(k) => lane.frame \in FrameIds
      BY <1>0, LaneFrame DEF AsksOf
    <3>2. ASSUME NEW g \in FrameIds, NEW op \in Authority!RpcOps, Done(k, g, op)
          PROVE  Done(k, g, op)'
      BY <2>0, <2>3, <3>2 DEF Done, State, Authority!RpcOps
    <3>3. ASSUME NEW g, g = lane.frame, NEW op, op = lane.op
          PROVE  Done(k, g, op)' = Done(k, lane.frame, lane.op)'
      BY <3>0, <3>3 DEF Done, State, InControl
    <3> QED
      BY <1>2, <3>0, <3>1, <3>2, <3>3 DEF LaneServed, AsksOf, Authority!RpcOps
  <2>5. CallersWait(k) => CallersWait(k)'
    BY <1>2, <1>4, <1>5
       DEF CallersWait, Uncollected, Waits, WillWait, IsWaiting, State, mainVars, Authority!OnStack
  <2>6. FramesHeld(k) => FramesHeld(k)'
    BY <1>2, <2>0, <2>3 DEF FramesHeld, Live, Serves, State, mainVars
  <2> QED
    BY <1>0, <1>2, <2>0, <2>1, <2>2, <2>4, <2>5, <2>6 DEF Agrees, mainVars
<1> QED
  BY <1>6, <1>7, <1>8, <1>9, RuntimeMoves

\* The response to a frame.call or frame.return is read.
LEMMA ReadAnswerStep ==
    ASSUME NEW k \in Subsystems, ControlInv, ReadAnswer(k), UNCHANGED mainVars
    PROVE  ControlInv'
<1> DEFINE m == inFlight[k]
           f == m.frame
           old == context[k][f]
           waiting == [state |-> "awaiting-resume", activation |-> 0,
                       child |-> answer[k].child, revoked |-> m.activation]
<1>0. RuntimeTypes /\ Authority!IndInv /\ Local(k) /\ Agrees(k)
  BY Parts
<1>1. CASE answer[k].op = "refused"
  BY <1>1, RuntimeEnds DEF ReadAnswer
<1>2. CASE answer[k].op # "refused"
  <2>1. /\ up[k] /\ answer[k] # Nothing
        /\ inFlight' = [inFlight EXCEPT ![k] = Nothing]
        /\ answer' = [answer EXCEPT ![k] = Nothing]
        /\ behind' = [behind EXCEPT ![k] = FALSE]
        /\ UNCHANGED <<up, after, asked, request, reply, reported>>
        /\ Continue(k, m, answer[k])
    BY <1>2 DEF ReadAnswer
  <2>2. /\ m # Nothing /\ f \in FrameIds /\ m.op \in {"call", "return"} /\ m.activation \in Nat
        /\ answer[k].child \in FrameIds \cup {0} /\ answer[k].op \in {"accepted", "unavailable"}
        /\ old \in Contexts
    <3>1. m # Nothing
      BY <1>0, <2>1 DEF Local, FlightAgrees
    <3>2. answer[k] \in [op : Answers, frame : {0}, activation : {0}, child : FrameIds \cup {0}]
      BY <1>0, <2>1 DEF RuntimeTypes, Responses
    <3>3. f \in FrameIds /\ m.op \in {"call", "return"} /\ m.activation \in Nat
      BY <1>0, <3>1, ChannelFacts
    <3>5. answer[k].child \in FrameIds \cup {0} /\ answer[k].op \in {"accepted", "unavailable"}
      BY <1>2, <3>2 DEF Answers
    <3>6. old \in Contexts
      BY <1>0, <3>3 DEF RuntimeTypes
    <3> QED
      BY <3>1, <3>3, <3>5, <3>6
  <2>3. \E c \in Contexts :
          /\ Put(k, f, c)
          /\ \/ c = old /\ (m.op = "return" \/ old.state # "calling")
             \/ /\ m.op = "call" /\ old.state = "calling"
                /\ \/ answer[k].op = "accepted" /\ c = waiting
                   \/ answer[k].op = "unavailable" /\ c.state = "active"
    <3>1. CASE m.op = "return" \/ old.state # "calling"
      BY <1>0, <2>1, <2>2, <3>1 DEF Continue, State, Put, RuntimeTypes
    <3>2. CASE m.op = "call" /\ old.state = "calling" /\ answer[k].op = "accepted"
      <4>1. waiting \in Contexts
        BY <2>2 DEF Contexts, ContextStates
      <4> QED
        BY <2>1, <3>2, <4>1 DEF Continue, State
    <3>3. CASE m.op = "call" /\ old.state = "calling" /\ answer[k].op = "unavailable"
      <4> DEFINE c == [old EXCEPT !.state = "active"]
      <4>1. c \in Contexts /\ c.state = "active"
        BY <2>2 DEF Contexts, ContextStates
      <4>2. Put(k, f, c)
        BY <1>0, <2>1, <2>2, <3>3 DEF Continue, State, Move, Put, RuntimeTypes
      <4> QED
        BY <3>3, <4>1, <4>2
    <3> QED
      BY <2>2, <3>1, <3>2, <3>3
  <2>4. PICK c \in Contexts :
          /\ Put(k, f, c)
          /\ \/ c = old /\ (m.op = "return" \/ old.state # "calling")
             \/ /\ m.op = "call" /\ old.state = "calling"
                /\ \/ answer[k].op = "accepted" /\ c = waiting
                   \/ answer[k].op = "unavailable" /\ c.state = "active"
    BY <2>3
  <2>5. /\ context' \in [Subsystems -> [FrameIds -> Contexts]]
        /\ context'[k][f] = c
        /\ \A g \in FrameIds \ {f} : context'[k][g] = context[k][g]
        /\ \A j \in Subsystems \ {k} : context'[j] = context[j]
    BY <1>0, <2>2, <2>4, PutFacts
  <2>6. RuntimeTypes' /\ inFlight'[k] = Nothing /\ answer'[k] = Nothing
    <3>1. Nothing \in Slot({"call", "return"}) /\ Nothing \in Responses
      BY DEF Slot, Responses
    <3> QED
      BY <1>0, <2>1, <2>5, <3>1 DEF RuntimeTypes
  <2>7. \A j \in Subsystems \ {k} : SliceKept(j)
    BY <1>0, <2>1, <2>5 DEF SliceKept, RuntimeTypes
  <2>8. \A g \in FrameIds :
          /\ context[k][g].state = "calling" => g = f /\ m.op = "call"
          /\ context[k][g].state # "calling" => context'[k][g] = context[k][g]
          /\ context[k][g].state = "calling" /\ answer[k].op = "accepted" =>
                context'[k][g] = waiting
          /\ context[k][g].state = "calling" /\ answer[k].op # "accepted" =>
                context'[k][g].state = "active"
    <3>1. FlightAgrees(k)
      BY <1>0, <2>1 DEF Local
    <3> QED
      BY <2>2, <2>4, <2>5, <3>1 DEF FlightAgrees, State
  <2>9. Local(k)'
    <3>0. AfterAgrees(k) /\ FlightAgrees(k) /\ Acceptable(k) /\ Known(k)
      BY <1>0, <2>1 DEF Local
    <3>1. AfterAgrees(k)'
      <4>1. \A g \in FrameIds :
              context'[k][g].state \in {"activating", "resuming", "closing"} =>
                  context'[k][g] = context[k][g]
        BY <2>2, <2>8
      <4>2. after[k].op # "none" => after[k].frame \in FrameIds
        BY <1>0, ChannelFacts
      <4> QED
        BY <2>1, <2>8, <3>0, <4>1, <4>2 DEF AfterAgrees, State
    <3>2. FlightAgrees(k)'
      BY <2>1, <2>2, <2>6, <2>8, <3>0 DEF FlightAgrees, State, Nothing, mainVars
    <3>3. Acceptable(k)'
      <4>1. asked[k].op # "none" => asked[k].frame \in FrameIds
        BY <1>0, ChannelFacts
      <4>2. inFlight'[k].frame = 0 /\ 0 \notin FrameIds
        BY <1>0, <2>6, ChannelFacts
      <4>3. \A d : Response("accepted", d).op = "accepted" /\ Response("accepted", d).child = d
        BY DEF Response, Nothing
      <4> QED
        BY <2>1, <2>6, <2>8, <3>0, <4>1, <4>2, <4>3 DEF Acceptable, IsWaiting, WillWait, State
    <3>4. Known(k)'
      <4>1. inFlight'[k].frame = 0 /\ 0 \notin FrameIds
        BY <1>0, <2>6, ChannelFacts
      <4> QED
        BY <2>1, <2>8, <3>0, <4>1 DEF Known, State, mainVars
    <3> QED
      BY <1>0, <2>1, <3>1, <3>2, <3>3, <3>4
         DEF Local, AsksOf, mainVars, Authority!Failed, Authority!RpcOps
  <2>10. Agrees(k)'
    <3>0. /\ SoundRuntime(k)' = SoundRuntime(k)
          /\ inFlight'[k].frame = 0 /\ 0 \notin FrameIds /\ answer'[k].op = "none"
      BY <1>0, <2>1, <2>6, ChannelFacts DEF SoundRuntime, Authority!Failed, mainVars
    <3>1. ContextsLive(k) => ContextsLive(k)'
      BY <2>1, <2>8 DEF ContextsLive, Live, State, mainVars
    <3>2. AsksAgree(k) => AsksAgree(k)'
      BY <2>1, <2>8, <3>0 DEF AsksAgree, AsksOf, Live, Serves, State, mainVars, Authority!RpcOps
    <3>3. \A g \in FrameIds : InControl(k, g) => InControl(k, g)'
      BY <2>8, <3>0 DEF InControl, State
    <3>4. LaneServed(k) => LaneServed(k)'
      <4>0. lane' = lane /\ owner' = owner
        BY DEF mainVars
      <4>1. AsksOf(k) => lane.frame \in FrameIds
        BY <1>0, LaneFrame DEF AsksOf
      <4>2. ASSUME NEW g \in FrameIds, NEW op \in Authority!RpcOps, Done(k, g, op)
            PROVE  Done(k, g, op)'
        BY <2>8, <3>3, <4>2 DEF Done, State, Authority!RpcOps
      <4>3. ASSUME NEW g, g = lane.frame, NEW op, op = lane.op
            PROVE  Done(k, g, op)' = Done(k, lane.frame, lane.op)'
        BY <4>0, <4>3 DEF Done, State, InControl
      <4> QED
        BY <2>1, <4>0, <4>1, <4>2, <4>3 DEF LaneServed, AsksOf, Authority!RpcOps
    <3>5. CallersWait(k) => CallersWait(k)'
      <4>1. \A d : Response("accepted", d).op = "accepted" /\ Response("accepted", d).child = d
        BY DEF Response, Nothing
      <4> QED
        BY <2>8, <4>1 DEF CallersWait, Uncollected, Waits, WillWait, IsWaiting, State, mainVars,
                          Authority!OnStack
    <3>6. FramesHeld(k) => FramesHeld(k)'
      BY <2>8, <3>3 DEF FramesHeld, Live, Serves, State, mainVars
    <3> QED
      BY <1>0, <2>1, <3>0, <3>1, <3>2, <3>4, <3>5, <3>6 DEF Agrees, mainVars
  <2> QED
    BY <2>6, <2>7, <2>9, <2>10, RuntimeMoves
<1> QED
  BY <1>1, <1>2

\* A Frame that is active sends its frame.call or frame.return.
Speaks(k, f, m, c) ==
    /\ up[k] /\ inFlight[k] = Nothing
    /\ State(k, f) = "active"
    /\ Put(k, f, c)
    /\ m.frame = f
    /\ \/ m.op = "call" /\ c.state = "calling"
       \/ m.op = "return" /\ c.state = "returning"
    /\ inFlight' = [inFlight EXCEPT ![k] = m]
    /\ request' = [request EXCEPT ![k] = m]
    /\ UNCHANGED <<up, after, asked, answer, behind, reply, reported>>

LEMMA SpeaksStep ==
    ASSUME NEW k \in Subsystems, ControlInv, UNCHANGED mainVars, NEW f \in FrameIds,
           NEW m \in Slot({"call", "return"}), NEW c \in Contexts, Speaks(k, f, m, c)
    PROVE  ControlInv'
<1>0. RuntimeTypes /\ Authority!IndInv /\ Local(k) /\ Agrees(k)
  BY Parts
<1>1. /\ context' \in [Subsystems -> [FrameIds -> Contexts]]
      /\ context'[k][f] = c
      /\ \A g \in FrameIds \ {f} : context'[k][g] = context[k][g]
      /\ \A j \in Subsystems \ {k} : context'[j] = context[j]
  BY <1>0, PutFacts DEF Speaks
<1>2. /\ up[k] /\ m.frame = f /\ context[k][f].state = "active"
      /\ \/ m.op = "call" /\ c.state = "calling"
         \/ m.op = "return" /\ c.state = "returning"
      /\ UNCHANGED <<up, after, asked, answer, behind, reply, reported>>
      /\ inFlight'[k] = m /\ request'[k] = m
      /\ inFlight[k] = Nothing /\ answer[k] = Nothing /\ answer[k].op = "none" /\ m # Nothing
      /\ 0 \notin FrameIds /\ inFlight[k].frame = 0 /\ inFlight[k].op = "none"
  BY <1>0, ChannelFacts DEF Speaks, State, Local, FlightAgrees, RuntimeTypes
<1>3. RuntimeTypes'
  BY <1>0, <1>1 DEF RuntimeTypes, Speaks
<1>4. \A j \in Subsystems \ {k} : SliceKept(j)
  BY <1>0, <1>1 DEF SliceKept, RuntimeTypes, Speaks
<1>5. Local(k)'
  <2>0. AfterAgrees(k) /\ FlightAgrees(k) /\ Acceptable(k) /\ Known(k)
    BY <1>0, <1>2 DEF Local
  <2>1. AfterAgrees(k)'
    <3>1. after[k].op # "none" => after[k].frame \in FrameIds
      BY <1>0, ChannelFacts
    <3> QED
      BY <1>1, <1>2, <2>0, <3>1 DEF AfterAgrees, State
  <2>2. FlightAgrees(k)'
    BY <1>1, <1>2, <2>0 DEF FlightAgrees, State
  <2>3. Acceptable(k)'
    <3>1. asked[k].op # "none" => asked[k].frame \in FrameIds
      BY <1>0, ChannelFacts
    <3>2. \A d : Response("accepted", d).op = "accepted"
      BY DEF Response, Nothing
    <3> QED
      BY <1>1, <1>2, <2>0, <3>1, <3>2 DEF Acceptable, IsWaiting, WillWait, State
  <2>4. Known(k)'
    BY <1>1, <1>2, <2>0 DEF Known, State, mainVars
  <2> QED
    BY <1>0, <1>2, <2>1, <2>2, <2>3, <2>4
       DEF Local, AsksOf, mainVars, Authority!Failed, Authority!RpcOps
<1>6. Agrees(k)'
  <2>0. SoundRuntime(k)' = SoundRuntime(k)
    BY <1>2 DEF SoundRuntime, Authority!Failed, mainVars
  <2>1. ContextsLive(k) => ContextsLive(k)'
    BY <1>1, <1>2 DEF ContextsLive, Live, State, mainVars
  <2>2. AsksAgree(k) => AsksAgree(k)'
    BY <1>1, <1>2 DEF AsksAgree, AsksOf, Live, Serves, State, mainVars, Authority!RpcOps
  <2>3. \A g \in FrameIds : InControl(k, g) => InControl(k, g)'
    BY <1>1, <1>2 DEF InControl, State
  <2>4. LaneServed(k) => LaneServed(k)'
    <3>0. lane' = lane /\ owner' = owner
      BY DEF mainVars
    <3>1. AsksOf(k) => lane.frame \in FrameIds
      BY <1>0, LaneFrame DEF AsksOf
    <3>2. ASSUME NEW g \in FrameIds, NEW op \in Authority!RpcOps, Done(k, g, op)
          PROVE  Done(k, g, op)'
      BY <1>1, <1>2, <2>3, <3>2 DEF Done, State, Authority!RpcOps
    <3>3. ASSUME NEW g, g = lane.frame, NEW op, op = lane.op
          PROVE  Done(k, g, op)' = Done(k, lane.frame, lane.op)'
      BY <3>0, <3>3 DEF Done, State, InControl
    <3> QED
      BY <1>2, <3>0, <3>1, <3>2, <3>3 DEF LaneServed, AsksOf, Authority!RpcOps
  <2>5. CallersWait(k) => CallersWait(k)'
    <3>1. \A d : Response("accepted", d).op = "accepted"
      BY DEF Response, Nothing
    <3> QED
      BY <1>1, <1>2, <3>1 DEF CallersWait, Uncollected, Waits, WillWait, IsWaiting, State, mainVars,
                              Authority!OnStack
  <2>6. FramesHeld(k) => FramesHeld(k)'
    BY <1>1, <1>2, <2>3 DEF FramesHeld, Live, Serves, State, mainVars
  <2> QED
    BY <1>0, <1>2, <2>0, <2>1, <2>2, <2>4, <2>5, <2>6 DEF Agrees, mainVars
<1> QED
  BY <1>3, <1>4, <1>5, <1>6, RuntimeMoves

\* What the game's code does.
LEMMA GameSteps ==
    ASSUME NEW k \in Subsystems, NEW f \in FrameIds, ControlInv, UNCHANGED mainVars,
           Call(k, f) \/ Return(k, f)
    PROVE  ControlInv'
<1> DEFINE old == context[k][f]
<1>0. RuntimeTypes /\ old \in Contexts
  BY Parts DEF RuntimeTypes
<1>1. CASE inFlight[k] # Nothing
  BY <1>1, RuntimeEnds DEF Call, Return, SendOrFail
<1>2. CASE inFlight[k] = Nothing /\ Call(k, f)
  <2> DEFINE m == Request("call", f, old.activation, 0)
             c == [old EXCEPT !.state = "calling"]
  <2>1. /\ m \in Slot({"call", "return"}) /\ m.frame = f /\ m.op = "call"
        /\ c \in Contexts /\ c.state = "calling"
    BY <1>0 DEF Slot, Request, Contexts, ContextStates
  <2>2. Speaks(k, f, m, c)
    BY <1>2, <2>1 DEF Call, SendOrFail, Speaks, State
  <2> QED
    BY <2>1, <2>2, SpeaksStep
<1>3. CASE inFlight[k] = Nothing /\ Return(k, f)
  <2> DEFINE m == Request("return", f, old.activation, 0)
             c == [old EXCEPT !.state = "returning", !.activation = 0]
  <2>1. /\ m \in Slot({"call", "return"}) /\ m.frame = f /\ m.op = "return"
        /\ c \in Contexts /\ c.state = "returning"
    BY <1>0 DEF Slot, Request, Contexts, ContextStates
  <2>2. Speaks(k, f, m, c)
    BY <1>3, <2>1 DEF Return, SendOrFail, Speaks, State
  <2> QED
    BY <2>1, <2>2, SpeaksStep
<1> QED
  BY <1>1, <1>2, <1>3

----------------------------------------------------------------------------
(* Steps of Main, which leave the contexts alone.                          *)

\* The Runtime's own side does not change.
Rests(k) ==
    /\ up'[k] = up[k]
    /\ context'[k] = context[k]
    /\ inFlight'[k] = inFlight[k]
    /\ after'[k] = after[k]

\* Nor does what it has sent and what it is answered.
FlightRests(k) ==
    /\ answer'[k] = answer[k]
    /\ request'[k] \in {request[k], Nothing}
    /\ reported'[k] \in {reported[k], FALSE}

\* Main never forgets a Frame, a failure or a stop, and no connection comes back.
MainProgress(k) ==
    /\ \A f \in FrameIds : lifecycle[f] # "absent" =>
            owner'[f] = owner[f] /\ lifecycle'[f] # "absent"
    /\ link'[k] => link[k]
    /\ Authority!Failed(k) => Authority!Failed(k)'
    /\ up[k] /\ link'[k] => ~Authority!Failed(k)'
    /\ stopRequested => stopRequested'
    /\ nextActivation <= nextActivation'

\* A step of Main that does not touch a channel keeps what is local to it.
LEMMA QuietLocal ==
    ASSUME NEW k \in Subsystems, ControlInv, Rests(k), FlightRests(k), MainProgress(k),
           asked'[k] = asked[k], behind'[k] = behind[k], reply'[k] \in {reply[k], "none"},
           up[k] /\ link'[k] /\ (asked[k] # Nothing \/ reply'[k] # "none") => AsksOf(k)'
    PROVE  Local(k)'
<1>0. RuntimeTypes /\ Local(k)
  BY Parts
<1>1. AfterAgrees(k) => AfterAgrees(k)'
  BY DEF AfterAgrees, State, Rests
<1>2. FlightAgrees(k) => FlightAgrees(k)'
  BY DEF FlightAgrees, State, Rests, FlightRests, MainProgress
<1>3. Acceptable(k) => Acceptable(k)'
  BY DEF Acceptable, IsWaiting, WillWait, State, Rests, FlightRests
<1>4. Known(k) => Known(k)'
  BY DEF Known, State, Rests, MainProgress
<1>5. reply'[k] # "refused" /\ (reported'[k] => ~up'[k])
  BY <1>0 DEF Local, Rests, FlightRests
<1>6. up[k] => /\ link'[k] => ~Authority!Failed(k)'
               /\ link'[k] /\ (asked[k] # Nothing \/ reply'[k] # "none") => AsksOf(k)'
               /\ link'[k] /\ reply'[k] # "none" => asked[k] = Nothing
  BY <1>0 DEF Local, MainProgress
<1> QED
  BY <1>0, <1>1, <1>2, <1>3, <1>4, <1>5, <1>6 DEF Local, Rests

\* A caller that waits goes on waiting while its Runtime rests.
LEMMA WaitsKept ==
    ASSUME RuntimeTypes, Authority!IndInv, Authority!IndInv', NEW k \in Subsystems,
           NEW c \in FrameIds, NEW d \in FrameIds, Rests(k), answer'[k] = answer[k],
           nextActivation <= nextActivation', Waits(k, c, d)
    PROVE  Waits(k, c, d)'
<1>1. nextActivation \in Nat /\ nextActivation' \in Nat
  BY DEF Authority!IndInv, Authority!TypeOK
<1>2. inFlight[k].activation \in Nat /\ context[k][c].revoked \in Nat
  BY ChannelFacts DEF RuntimeTypes, Contexts
<1>3. WillWait(k, c, d)' = WillWait(k, c, d) /\ IsWaiting(k, c, d)' = IsWaiting(k, c, d)
  BY DEF WillWait, IsWaiting, State, Rests
<1>4. inFlight'[k] = inFlight[k] /\ context'[k] = context[k]
  BY DEF Rests
<1> QED
  BY <1>1, <1>2, <1>3, <1>4 DEF Waits

\* A lane operation that sends nothing leaves the records alone.
LEMMA QuietTurn ==
    ASSUME NEW k \in Subsystems, ControlInv, Authority!IndInv',
           Rests(k), FlightRests(k), MainProgress(k),
           asked'[k] = asked[k], behind'[k] = behind[k], reply'[k] \in {reply[k], "none"},
           up[k] /\ link'[k] /\ ~stopRequested' => reply'[k] = reply[k],
           UNCHANGED <<lifecycle, owner, caller, contextKnown, stack>>,
           \/ lane' = lane
           \/ /\ lane.op # "drop" /\ lane'.op \in {"idle", "unwind", "pop"}
              /\ lane'.op = "pop" => Authority!OnStack(lane'.returned)
              /\ AsksOf(k) /\ up[k] =>
                    \/ Authority!Failed(k)'
                    \/ stopRequested' /\ (link'[k] => reply'[k] = "none" /\ asked[k] = Nothing)
    PROVE  Local(k)' /\ Agrees(k)'
<1>0. RuntimeTypes /\ Authority!IndInv /\ Local(k) /\ Agrees(k)
  BY Parts
<1>1. CASE lane' = lane
  <2>1. AsksOf(k)' = AsksOf(k)
    BY <1>1 DEF AsksOf, Authority!RpcOps
  <2>2. Local(k)'
    BY <1>0, <2>1, QuietLocal DEF Local, MainProgress
  <2>3. SoundRuntime(k)' => SoundRuntime(k)
    BY DEF SoundRuntime, Rests, MainProgress
  <2>4. ContextsLive(k) => ContextsLive(k)'
    BY DEF ContextsLive, Live, State, Rests
  <2>5. AsksAgree(k) => AsksAgree(k)'
    BY <1>1, <2>1 DEF AsksAgree, Live, Serves, State, Rests
  <2>6. ASSUME up[k], link'[k], ~stopRequested', LaneServed(k) PROVE LaneServed(k)'
    BY <1>1, <2>1, <2>6 DEF LaneServed, Done, InControl, State, Rests, FlightRests
  <2>7. CallersWait(k) => CallersWait(k)'
    <3>1. ASSUME NEW c \in FrameIds, NEW d \in FrameIds, Waits(k, c, d) PROVE Waits(k, c, d)'
      BY <1>0, <3>1, WaitsKept DEF FlightRests, MainProgress
    <3> QED
      BY <1>1, <3>1 DEF CallersWait, Uncollected, Authority!OnStack
  <2>8. FramesHeld(k) => FramesHeld(k)'
    BY <1>1 DEF FramesHeld, Live, Serves, InControl, State, Rests, FlightRests
  <2> QED
    BY <1>0, <2>2, <2>3, <2>4, <2>5, <2>6, <2>7, <2>8 DEF Agrees, Rests, MainProgress
<1>2. CASE lane' # lane
  <2>1. ~AsksOf(k)'
    BY <1>2 DEF AsksOf, Authority!RpcOps
  <2>2. up[k] /\ link'[k] => asked[k] = Nothing /\ reply'[k] = "none"
    BY <1>0, <1>2 DEF Local, MainProgress
  <2>3. Local(k)'
    BY <2>2, QuietLocal
  <2>4. SoundRuntime(k)' => SoundRuntime(k)
    BY DEF SoundRuntime, Rests, MainProgress
  <2>5. ContextsLive(k) => ContextsLive(k)'
    BY DEF ContextsLive, Live, State, Rests
  <2>6. ASSUME SoundRuntime(k)', ~stopRequested', AsksAgree(k) PROVE AsksAgree(k)'
    <3>1. ~AsksOf(k) /\ asked[k] = Nothing
      BY <1>2, <2>6 DEF SoundRuntime, Rests, AsksAgree
    <3>2. \A f \in FrameIds : owner[f] = k => ~Serves(f, {"initialize"})
      BY <3>1 DEF AsksOf, Serves, Authority!RpcOps
    <3> QED
      BY <2>6, <3>1, <3>2 DEF AsksAgree, Live, State, Rests
  <2>7. LaneServed(k)'
    BY <2>1 DEF LaneServed
  <2>8. CallersWait(k) => CallersWait(k)'
    <3>1. ASSUME NEW c \in FrameIds, NEW d \in FrameIds, Waits(k, c, d) PROVE Waits(k, c, d)'
      BY <1>0, <3>1, WaitsKept DEF FlightRests, MainProgress
    <3>2. ASSUME NEW d \in FrameIds, Uncollected(d)' PROVE Uncollected(d)
      BY <1>2, <3>2 DEF Uncollected, Authority!OnStack
    <3> QED
      BY <3>1, <3>2 DEF CallersWait
  <2>9. ASSUME up[k], link'[k], ~stopRequested', FramesHeld(k) PROVE FramesHeld(k)'
    <3>1. ~AsksOf(k) /\ lane.op # "drop"
      BY <1>2, <2>9 DEF MainProgress
    <3>2. \A f \in FrameIds : owner[f] = k => ~Serves(f, {"close", "unwind-close", "drop"})
      BY <3>1 DEF AsksOf, Serves, Authority!RpcOps
    <3> QED
      BY <2>9, <3>2 DEF FramesHeld, Live, Serves, InControl, State, Rests, FlightRests
  <2> QED
    BY <1>0, <2>3, <2>4, <2>5, <2>6, <2>7, <2>8, <2>9 DEF Agrees, Rests, MainProgress
<1> QED
  BY <1>1, <1>2

\* tryResumeCaller mints an activation for the resume it sends, if any.
LEMMA ResumeMints ==
    ASSUME NEW f, NEW result, NEW rest, Authority!ResumeCaller(f, result, rest)
    PROVE  \/ nextActivation' = nextActivation /\ lane'.op \notin {"activate", "resume"}
           \/ nextActivation' = nextActivation + 1 /\ lane'.minted = nextActivation
<1>1. /\ Authority!Idle.op = "idle" /\ Authority!Unwinding.op = "unwind"
      /\ \A c : [Authority!Idle EXCEPT !.op = "resume", !.frame = c, !.returned = f,
                     !.outcome = result, !.minted = nextActivation].minted = nextActivation
  BY DEF Authority!Idle, Authority!Unwinding
<1> QED
  BY <1>1 DEF Authority!ResumeCaller

LEMMA NextMinted ==
    ASSUME Authority!IndInv, MintedInOrder, Authority!Next
    PROVE  MintedInOrder'
<1> USE DEF MintedInOrder
<1>0. /\ activation \in [FrameIds -> Nat] /\ nextActivation \in Nat \ {0}
      /\ FrameIds = Authority!FrameIds
      /\ Authority!Idle.op = "idle" /\ Authority!Unwinding.op = "unwind"
  BY MainTypes DEF Authority!Idle, Authority!Unwinding
<1>1. CASE Authority!Environment
  <2>1. CASE Authority!RequestShutdown \/ Authority!AuthorityFatal
    BY <2>1 DEF Authority!RequestShutdown, Authority!AuthorityFatal, Authority!recordVars,
                Authority!counters
  <2>2. ASSUME NEW k \in Subsystems,
               Authority!LinkEnds(k) \/ Authority!StatusFailed(k) \/ Authority!PhysicalTerminated(k)
        PROVE  MintedInOrder'
    BY <1>0, <2>2 DEF Authority!LinkEnds, Authority!StatusFailed, Authority!PhysicalTerminated,
                      Authority!FailRuntime, Authority!recordVars, Authority!counters
  <2>3. ASSUME NEW k \in Subsystems, NEW f \in FrameIds, NEW a, Authority!FrameReturn(k, f, a)
        PROVE  MintedInOrder'
    BY <1>0, <2>3 DEF Authority!FrameReturn, Authority!counters
  <2>4. ASSUME NEW k \in Subsystems, NEW f \in FrameIds, NEW a, NEW target \in Subsystems,
               Authority!FrameCall(k, f, a, target)
        PROVE  MintedInOrder'
    BY <1>0, <2>4 DEF Authority!FrameCall
  <2> QED
    BY <1>0, <1>1, <2>1, <2>2, <2>3, <2>4 DEF Authority!Environment
<1>2. CASE Authority!OwedStep
  <2> SUFFICES ASSUME NEW o \in owed,
                      \/ Authority!BeginShutdown(o)
                      \/ Authority!StartInitialFrame(o)
                      \/ Authority!StartAcceptedChild(o)
                      \/ Authority!FinalizeAcceptedReturn(o)
                      \/ Authority!ResponseLost(o)
               PROVE  MintedInOrder'
    BY <1>2 DEF Authority!OwedStep
  <2>1. UNCHANGED <<activation, nextActivation>>
    BY DEF Authority!BeginShutdown, Authority!StartInitialFrame, Authority!StartAcceptedChild,
           Authority!FinalizeAcceptedReturn, Authority!ResponseLost, Authority!recordVars,
           Authority!counters
  <2>2. lane' = lane \/ lane'.op \notin {"activate", "resume"}
    <3>1. \A f : [Authority!Idle EXCEPT !.op = "initialize", !.frame = f].op = "initialize"
                 /\ [Authority!Idle EXCEPT !.op = "close", !.frame = f].op = "close"
      BY DEF Authority!Idle
    <3> QED
      BY <1>0, <3>1 DEF Authority!BeginShutdown, Authority!StartInitialFrame,
           Authority!StartAcceptedChild, Authority!FinalizeAcceptedReturn, Authority!ResponseLost,
           Authority!Initialize
  <2> QED
    BY <2>1, <2>2
<1>3. CASE Authority!Reply
  <2>1. CASE Authority!ReplyAfterStop \/ Authority!RpcFails
    BY <1>0, <2>1 DEF Authority!ReplyAfterStop, Authority!RpcFails, Authority!recordVars,
                      Authority!counters
  <2>2. CASE Authority!InitializeSucceeds
    <3>1. lane'.minted = nextActivation
      BY <2>2, MainTypes DEF Authority!InitializeSucceeds, Authority!LaneRecords
    <3> QED
      BY <1>0, <2>2, <3>1 DEF Authority!InitializeSucceeds
  <2>3. CASE Authority!ActivateSucceeds \/ Authority!ResumeSucceeds
    BY <1>0, <2>3 DEF Authority!ActivateSucceeds, Authority!ResumeSucceeds, Authority!Answered,
                      Authority!counters
  <2>4. CASE Authority!InitializeRejected \/ Authority!CloseSucceeds
    BY <1>0, <2>4, ResumeMints DEF Authority!InitializeRejected, Authority!CloseSucceeds
  <2>5. CASE Authority!UnwindCloseSucceeds
    <3>1. lane'.op = "pop"
      BY <2>5, MainTypes DEF Authority!UnwindCloseSucceeds, Authority!LaneRecords
    <3> QED
      BY <2>5, <3>1 DEF Authority!UnwindCloseSucceeds, Authority!counters
  <2> QED
    BY <1>3, <2>1, <2>2, <2>3, <2>4, <2>5 DEF Authority!Reply
<1>4. CASE Authority!UnwindStep
  <2>1. CASE Authority!UnwindLoop
    <3>1. lane'.op \in {"idle", "pop"}
      <4>1. CASE lane' = Authority!Idle
        BY <1>0, <4>1
      <4>2. CASE lane' # Authority!Idle
        <5>1. PICK i \in Authority!DoomedPositions :
                lane' = [Authority!Idle EXCEPT !.op = "pop", !.returned = stack[i],
                              !.below = i - 1, !.outcome = Authority!RootOutcome(stack[i])]
          BY <2>1, <4>2 DEF Authority!UnwindLoop
        <5> QED
          BY <5>1 DEF Authority!Idle
      <4> QED
        BY <4>1, <4>2
    <3> QED
      BY <2>1, <3>1 DEF Authority!UnwindLoop, Authority!recordVars, Authority!counters
  <2>2. CASE Authority!UnwindPop
    <3>1. lane'.op \in {"drop", "unwind-close", "idle"}
      BY <1>0, <2>2, MainTypes DEF Authority!UnwindPop, Authority!LaneRecords
    <3>2. nextActivation' = nextActivation /\ \E f : activation' = [activation EXCEPT ![f] = 0]
      BY <2>2 DEF Authority!UnwindPop, Authority!counters
    <3> QED
      BY <1>0, <3>1, <3>2
  <2>3. CASE Authority!UnwindDrop
    <3>1. lane'.op = "pop"
      BY <2>3, MainTypes DEF Authority!UnwindDrop, Authority!LaneRecords
    <3> QED
      BY <2>3, <3>1 DEF Authority!UnwindDrop, Authority!counters
  <2>4. CASE Authority!UnwindDeliver
    BY <1>0, <2>4, ResumeMints DEF Authority!UnwindDeliver, Authority!recordVars
  <2> QED
    BY <1>4, <2>1, <2>2, <2>3, <2>4 DEF Authority!UnwindStep
<1>5. CASE Authority!WatchControl
  BY <1>0, <1>5 DEF Authority!WatchControl, Authority!ControlTerminal, Authority!FailRuntime,
                    Authority!recordVars, Authority!counters
<1> QED
  BY <1>1, <1>2, <1>3, <1>4, <1>5 DEF Authority!Next

\* The session ends with a terminal, and only then are Runtimes stopped.
LEMMA NextPhasesOpen ==
    ASSUME Authority!IndInv, PhasesOpen, Authority!Next
    PROVE  PhasesOpen'
<1>0. phase \in [Subsystems -> Authority!Phases]
  BY MainTypes
<1>1. CASE UNCHANGED <<phase, terminal>>
  BY <1>1 DEF PhasesOpen
<1>2. ASSUME NEW t, t # "none", Authority!EndSession(t) PROVE PhasesOpen'
  BY <1>2 DEF PhasesOpen, Authority!EndSession
<1>3. ASSUME NEW k, Authority!MarkFailed(k), terminal' = terminal PROVE PhasesOpen'
  BY <1>0, <1>3 DEF PhasesOpen, Authority!MarkFailed
<1>4. ASSUME NEW f, NEW result, NEW rest, Authority!ResumeCaller(f, result, rest), result # "none"
      PROVE  PhasesOpen'
  BY <1>1, <1>2, <1>3, <1>4 DEF Authority!ResumeCaller
<1>5. CASE Authority!Environment
  BY <1>1, <1>2, <1>3, <1>5
     DEF Authority!Environment, Authority!RequestShutdown, Authority!AuthorityFatal,
         Authority!LinkEnds, Authority!StatusFailed, Authority!PhysicalTerminated,
         Authority!FailRuntime, Authority!FrameReturn, Authority!FrameCall,
         Authority!runtimeVars, Authority!sessionVars
<1>6. CASE Authority!OwedStep
  BY <1>1, <1>2, <1>3, <1>6
     DEF Authority!OwedStep, Authority!BeginShutdown, Authority!StartInitialFrame,
         Authority!StartAcceptedChild, Authority!FinalizeAcceptedReturn, Authority!ResponseLost,
         Authority!runtimeVars, Authority!sessionVars
<1>7. CASE Authority!Reply
  <2>1. CASE Authority!CloseSucceeds
    <3>1. outcome[lane.frame] # "none"
      BY <2>1 DEF Authority!CloseSucceeds, Authority!Answered, Authority!IndInv, Authority!LaneOnTop
    <3> QED
      BY <1>4, <2>1, <3>1 DEF Authority!CloseSucceeds
  <2>2. CASE Authority!InitializeRejected
    BY <1>4, <2>2 DEF Authority!InitializeRejected
  <2> QED
    BY <1>1, <1>3, <1>7, <2>1, <2>2
       DEF Authority!Reply, Authority!ReplyAfterStop, Authority!InitializeSucceeds,
           Authority!ActivateSucceeds, Authority!ResumeSucceeds, Authority!RpcFails,
           Authority!UnwindCloseSucceeds, Authority!runtimeVars, Authority!sessionVars
<1>8. CASE Authority!UnwindStep
  <2>1. CASE Authority!UnwindDeliver
    <3>1. lane.outcome # "none"
      BY <2>1 DEF Authority!UnwindDeliver, Authority!IndInv, Authority!UnwindRoot,
                  Authority!Committed, Authority!Outcomes
    <3> QED
      BY <1>1, <1>2, <1>4, <2>1, <3>1 DEF Authority!UnwindDeliver
  <2> QED
    BY <1>1, <1>2, <1>8, <2>1
       DEF Authority!UnwindStep, Authority!UnwindLoop, Authority!UnwindPop, Authority!UnwindDrop,
           Authority!runtimeVars, Authority!sessionVars
<1>9. CASE Authority!WatchControl
  BY <1>3, <1>9 DEF Authority!WatchControl, Authority!ControlTerminal, Authority!FailRuntime,
                    Authority!sessionVars
<1> QED
  BY <1>5, <1>6, <1>7, <1>8, <1>9 DEF Authority!Next

\* What every step of Main keeps of Main itself.
LEMMA MainKeeps ==
    ASSUME Authority!IndInv, MainInOrder, Authority!Next
    PROVE  Authority!IndInv' /\ MainInOrder'
BY NextMinted, NextPhasesOpen, Authority!NextIndInv, Authority!NextNoStopInTurn,
   InitialAssumption, MaxFramesAssumption DEF MainInOrder

\* The lane's Frame, also after a step.
LaneTyped ==
    /\ lane.returned \in FrameIds \cup {0} /\ lane.minted \in Nat
    /\ lane.op \in Authority!RpcOps \cup {"drop"} => lane.frame \in FrameIds /\ Live(lane.frame)

LEMMA LaneTypedHere == Authority!IndInv => LaneTyped
BY MainTypes, LaneFrame DEF LaneTyped

LEMMA LaneTypedNext == Authority!IndInv' => LaneTyped'
BY LaneTypedHere, PTL

\* The request of a lane operation fits the channel.
LEMMA FrameRequestFits ==
    ASSUME LaneTyped, lane.op \in Authority!RpcOps
    PROVE  FrameRequest(lane) \in Slot(FrameRequests) \ {Nothing}
BY DEF LaneTyped, FrameRequest, Request, Slot, FrameRequests, Nothing, FrameIds, Authority!RpcOps

LEMMA FrameRequestFitsNext ==
    LaneTyped' /\ lane'.op \in Authority!RpcOps
        => FrameRequest(lane') \in Slot(FrameRequests) \ {Nothing}
<1>1. LaneTyped /\ lane.op \in Authority!RpcOps
        => FrameRequest(lane) \in Slot(FrameRequests) \ {Nothing}
  BY FrameRequestFits
<1>2. (LaneTyped /\ lane.op \in Authority!RpcOps
        => FrameRequest(lane) \in Slot(FrameRequests) \ {Nothing})'
  BY <1>1, PTL
<1> QED
  BY <1>2 DEF Authority!RpcOps, Slot, Nothing, FrameIds, FrameRequests

\* What a Runtime finds in its channel when the lane has moved on.
SentTo(k) ==
    /\ AsksOf(k)'
    /\ asked'[k] = FrameRequest(lane')
    /\ behind'[k] = (answer[k] # Nothing)
NothingSent(k) == asked'[k] = asked[k] /\ behind'[k] = behind[k]

LEMMA SendsTells ==
    ASSUME RuntimeTypes, Authority!IndInv', Sends
    PROVE  /\ asked' \in [Subsystems -> Slot(FrameRequests)]
           /\ behind' \in [Subsystems -> BOOLEAN]
           /\ \A k \in Subsystems : NothingSent(k) \/ (up[k] /\ link'[k] /\ lane' # lane /\ SentTo(k))
           /\ \A k \in Subsystems :
                AsksOf(k)' /\ up[k] /\ link'[k] /\ lane' # lane => SentTo(k)
<1>1. asked \in [Subsystems -> Slot(FrameRequests)] /\ behind \in [Subsystems -> BOOLEAN]
  BY DEF RuntimeTypes
<1>2. Main!RpcOps = Authority!RpcOps
  BY DEF Main!RpcOps, Authority!RpcOps
<1>3. LaneTyped'
  BY LaneTypedNext
<1>4. CASE lane'.op \in Authority!RpcOps /\ lane' # lane
           /\ link'[owner'[lane'.frame]] /\ up[owner'[lane'.frame]]
  <2> DEFINE j == owner'[lane'.frame]
  <2>1. FrameRequest(lane') \in Slot(FrameRequests)
    BY <1>3, <1>4, FrameRequestFitsNext
  <2>2. /\ asked' = [asked EXCEPT ![j] = FrameRequest(lane')]
        /\ behind' = [behind EXCEPT ![j] = answer[j] # Nothing]
    BY <1>2, <1>4 DEF Sends
  <2> QED
    BY <1>1, <1>4, <2>1, <2>2 DEF SentTo, NothingSent, AsksOf, Authority!RpcOps
<1>5. CASE ~(lane'.op \in Authority!RpcOps /\ lane' # lane
             /\ link'[owner'[lane'.frame]] /\ up[owner'[lane'.frame]])
  <2>1. UNCHANGED <<asked, behind>>
    BY <1>2, <1>5 DEF Sends
  <2> QED
    BY <1>1, <1>5, <2>1 DEF NothingSent, AsksOf, Authority!RpcOps
<1> QED
  BY <1>4, <1>5

\* Nobody is asked anything, or the reply has just been read.
ChannelFree(k) ==
    /\ SoundRuntime(k) => asked[k] = Nothing
    /\ up[k] /\ link'[k] => reply'[k] = "none"
    /\ reply'[k] \in {reply[k], "none"}

\* A lane operation that ends, or begins with a request, keeps what is local to
\* a channel that was free.
LEMMA TurnLocal ==
    ASSUME NEW k \in Subsystems, ControlInv, Authority!IndInv',
           Rests(k), FlightRests(k), MainProgress(k), ChannelFree(k),
           NothingSent(k) \/ (up[k] /\ link'[k] /\ SentTo(k) /\ Acceptable(k)')
    PROVE  Local(k)'
<1>0. RuntimeTypes /\ Local(k)
  BY Parts
<1>1. up[k] /\ link'[k] => asked[k] = Nothing /\ reply'[k] = "none"
  BY <1>0 DEF ChannelFree, SoundRuntime, Local, MainProgress
<1>2. CASE NothingSent(k)
  BY <1>1, <1>2, QuietLocal DEF NothingSent, ChannelFree
<1>3. CASE up[k] /\ link'[k] /\ SentTo(k) /\ Acceptable(k)'
  <2>1. AfterAgrees(k)'
    BY <1>0, <1>3 DEF AfterAgrees, State, Rests, Local
  <2>2. FlightAgrees(k)'
    BY <1>0, <1>3 DEF FlightAgrees, State, Rests, FlightRests, MainProgress, Local
  <2>3. Known(k)'
    <3>1. asked'[k].frame = lane'.frame /\ lane'.op \in Authority!RpcOps
      BY <1>3 DEF SentTo, AsksOf, FrameRequest, Request, Authority!RpcOps
    <3>2. lane'.frame \in FrameIds /\ owner'[lane'.frame] = k /\ lifecycle'[lane'.frame] # "absent"
      BY <1>3, <3>1, LaneTypedNext DEF SentTo, AsksOf, LaneTyped, Live, Authority!RpcOps
    <3> QED
      BY <1>0, <1>3, <3>1, <3>2 DEF Known, State, Rests, MainProgress, Local
  <2>4. reply'[k] # "refused" /\ (reported'[k] => ~up'[k])
    BY <1>0 DEF Local, Rests, FlightRests, ChannelFree
  <2> QED
    BY <1>1, <1>3, <2>1, <2>2, <2>3, <2>4 DEF Local, MainProgress, SentTo
<1> QED
  BY <1>2, <1>3

\* And what Main and the Runtime agree on, if the records do.
LEMMA TurnAgrees ==
    ASSUME NEW k \in Subsystems, ControlInv, Authority!IndInv',
           Rests(k), MainProgress(k), ChannelFree(k), ~stopRequested,
           NothingSent(k) \/ SentTo(k),
           AsksOf(k)' /\ up[k] /\ link'[k] => SentTo(k),
           SoundRuntime(k) => \A f \in FrameIds :
                Live(f) /\ ~Live(f)' /\ owner[f] = k => State(k, f) \in {"none", "closing"},
           SoundRuntime(k) => \A f \in FrameIds :
                Live(f)' /\ owner'[f] = k /\ ~contextKnown'[f] /\ ~Serves(f, {"initialize"})' =>
                    State(k, f) = "none" /\ inFlight[k].frame # f,
           up[k] /\ link'[k] => CallersWait(k)' /\ FramesHeld(k)'
    PROVE  Agrees(k)'
<1>0. RuntimeTypes /\ Local(k) /\ Agrees(k) /\ Nothing.frame = 0 /\ 0 \notin FrameIds
  BY Parts, ChannelFacts
<1>1. SoundRuntime(k)' => SoundRuntime(k)
  BY DEF SoundRuntime, Rests, MainProgress
<1>2. ASSUME SoundRuntime(k) PROVE asked'[k] = Nothing \/ SentTo(k)
  BY <1>2 DEF ChannelFree, NothingSent
<1>3. ASSUME SentTo(k)
      PROVE  /\ asked'[k].frame = lane'.frame /\ lane'.frame \in FrameIds /\ Live(lane.frame)'
             /\ asked'[k] # Nothing
  <2>1. asked'[k].frame = lane'.frame /\ lane'.op \in Authority!RpcOps
    BY <1>3 DEF SentTo, AsksOf, FrameRequest, Request, Authority!RpcOps
  <2>2. lane'.frame \in FrameIds /\ Live(lane.frame)'
    BY <1>3, <2>1, LaneTypedNext DEF LaneTyped, Live, Authority!RpcOps
  <2> QED
    BY <1>0, <2>1, <2>2
<1>4. ASSUME SoundRuntime(k) PROVE ContextsLive(k)'
  <2>1. ContextsLive(k) /\ Known(k)
    BY <1>0, <1>4 DEF Agrees, Local, SoundRuntime
  <2>2. ASSUME NEW f \in FrameIds, State(k, f)' # "none"
        PROVE  Live(f)' \/ State(k, f)' = "closing"
    <3>1. State(k, f)' = State(k, f)
      BY DEF State, Rests
    <3>2. owner[f] = k /\ (Live(f) \/ State(k, f) = "closing")
      BY <2>1, <2>2, <3>1 DEF ContextsLive, Known
    <3> QED
      BY <1>4, <2>2, <3>1, <3>2
  <2>3. ASSUME NEW f \in FrameIds, asked'[k].frame = f PROVE Live(f)'
    BY <1>0, <1>2, <1>3, <1>4, <2>3 DEF Live
  <2> QED
    BY <2>2, <2>3 DEF ContextsLive
<1>5. ASSUME SoundRuntime(k) PROVE AsksAgree(k)'
  BY <1>2, <1>5 DEF AsksAgree, SentTo, State, Rests
<1>6. ASSUME up[k], link'[k] PROVE LaneServed(k)'
  BY <1>6 DEF LaneServed, SentTo, ChannelFree
<1> QED
  BY <1>0, <1>1, <1>4, <1>5, <1>6 DEF Agrees, Rests

\* What Main never takes back.
MainGrows ==
    /\ \A f \in FrameIds : lifecycle[f] # "absent" =>
            owner'[f] = owner[f] /\ lifecycle'[f] # "absent"
    /\ \A k \in Subsystems : link'[k] => link[k]
    /\ \A k \in Subsystems : Authority!Failed(k) => Authority!Failed(k)'
    /\ stopRequested => stopRequested'
    /\ nextActivation <= nextActivation'

LEMMA EndSessionGrows ==
    ASSUME Authority!IndInv, NEW t, Authority!EndSession(t)
    PROVE  \A k \in Subsystems : Authority!Failed(k) <=> Authority!Failed(k)'
BY MainTypes DEF Authority!EndSession, Authority!Failed

LEMMA MarkFailedGrows ==
    ASSUME Authority!IndInv, NEW j \in Subsystems, Authority!MarkFailed(j)
    PROVE  \A k \in Subsystems : Authority!Failed(k)' <=> Authority!Failed(k) \/ k = j
BY MainTypes DEF Authority!MarkFailed, Authority!Failed

LEMMA ResumeCallerGrows ==
    ASSUME Authority!IndInv, PhasesOpen, terminal = "none", NEW f \in FrameIds, NEW result, NEW rest,
           Authority!ResumeCaller(f, result, rest)
    PROVE  /\ \A k \in Subsystems : Authority!Failed(k)' <=> Authority!Failed(k)
           /\ nextActivation <= nextActivation'
<1>0. nextActivation \in Nat /\ caller[f] \in FrameIds \cup {0} /\ owner \in [FrameIds -> Subsystems]
  BY MainTypes
<1>1. CASE UNCHANGED <<phase>>
  BY <1>0, <1>1 DEF Authority!ResumeCaller, Authority!Failed
<1>2. CASE Authority!EndSession(result) \/ Authority!EndSession("divergence")
  BY <1>0, <1>2, EndSessionGrows DEF Authority!ResumeCaller
<1>3. CASE caller[f] # 0 /\ ~Authority!RuntimeReady(owner[caller[f]])
           /\ Authority!MarkFailed(owner[caller[f]])
  <2>1. owner[caller[f]] \in Subsystems
    BY <1>0, <1>3
  <2>2. Authority!Failed(owner[caller[f]])
    BY <1>3, <2>1 DEF PhasesOpen, Authority!RuntimeReady, Authority!Failed
  <2> QED
    BY <1>0, <1>3, <2>1, <2>2, MarkFailedGrows DEF Authority!ResumeCaller
<1> QED
  BY <1>1, <1>2, <1>3 DEF Authority!ResumeCaller

LEMMA NextGrows ==
    ASSUME Authority!IndInv, PhasesOpen, Authority!Next
    PROVE  MainGrows
<1> USE DEF MainGrows
<1>0. /\ FrameIds = Authority!FrameIds /\ nextActivation \in Nat \ {0}
      /\ lifecycle \in [FrameIds -> Authority!Lifecycles] /\ owner \in [FrameIds -> Subsystems]
      /\ phase \in [Subsystems -> Authority!Phases] /\ link \in [Subsystems -> BOOLEAN]
      /\ \A f \in FrameIds : lifecycle[f] # "absent" => f # nextFrame
      /\ lane.op \in Authority!RpcOps => lane.frame \in FrameIds
      /\ terminal # "none" => lane.op = "idle"
  <2>1. nextFrame \in 1..(MaxFrames + 1)
    BY MainTypes
  <2>2. \A f \in FrameIds : lifecycle[f] # "absent" => f # nextFrame
    <3>1. \A f \in FrameIds : lifecycle[f] = "absent" <=> f >= nextFrame
      BY DEF Authority!IndInv, Authority!IdsInOrder, FrameIds, Authority!FrameIds
    <3> QED
      BY <2>1, <3>1, MaxFramesAssumption DEF FrameIds
  <2> QED
    BY <2>2, MainTypes, LaneFrame DEF Authority!IndInv, Authority!LaneOnTop
<1>1. CASE Authority!Environment
  <2>1. CASE Authority!RequestShutdown
    BY <1>0, <2>1 DEF Authority!RequestShutdown, Authority!recordVars,
            Authority!runtimeVars, Authority!counters, Authority!Failed
  <2>2. CASE Authority!AuthorityFatal
    BY <1>0, <2>2, EndSessionGrows DEF Authority!AuthorityFatal, Authority!recordVars,
            Authority!counters
  <2>3. ASSUME NEW k \in Subsystems, Authority!LinkEnds(k) PROVE MainGrows
    BY <1>0, <2>3 DEF Authority!LinkEnds, Authority!recordVars, Authority!counters,
            Authority!sessionVars, Authority!Failed
  <2>4. ASSUME NEW k \in Subsystems, Authority!StatusFailed(k) \/ Authority!PhysicalTerminated(k)
        PROVE  MainGrows
    BY <1>0, <2>4, MarkFailedGrows DEF Authority!StatusFailed, Authority!PhysicalTerminated,
            Authority!FailRuntime, Authority!recordVars, Authority!counters, Authority!sessionVars
  <2>5. ASSUME NEW k \in Subsystems, NEW f \in FrameIds, NEW a, Authority!FrameReturn(k, f, a)
        PROVE  MainGrows
    BY <1>0, <2>5 DEF Authority!FrameReturn, Authority!counters, Authority!runtimeVars,
            Authority!sessionVars, Authority!Failed
  <2>6. ASSUME NEW k \in Subsystems, NEW f \in FrameIds, NEW a, NEW target \in Subsystems,
               Authority!FrameCall(k, f, a, target)
        PROVE  MainGrows
    BY <1>0, <2>6 DEF Authority!FrameCall, Authority!Allocate, Authority!runtimeVars,
            Authority!sessionVars, Authority!Failed
  <2> QED
    BY <1>0, <1>1, <2>1, <2>2, <2>3, <2>4, <2>5, <2>6 DEF Authority!Environment
<1>2. CASE Authority!OwedStep
  <2> SUFFICES ASSUME NEW o \in owed,
                      \/ Authority!BeginShutdown(o)
                      \/ Authority!StartInitialFrame(o)
                      \/ Authority!StartAcceptedChild(o)
                      \/ Authority!FinalizeAcceptedReturn(o)
                      \/ Authority!ResponseLost(o)
               PROVE  MainGrows
    BY <1>2 DEF Authority!OwedStep
  <2>1. CASE Authority!BeginShutdown(o)
    BY <1>0, <2>1, EndSessionGrows DEF Authority!BeginShutdown, Authority!recordVars,
            Authority!counters
  <2>2. CASE Authority!StartInitialFrame(o)
    BY <1>0, <2>2, EndSessionGrows DEF Authority!StartInitialFrame, Authority!Allocate,
            Authority!Failed
  <2>3. CASE Authority!StartAcceptedChild(o)
    <3>1. o.op = "start" /\ o.frame \in FrameIds
      <4>1. o.op = "start" /\ o.frame \in 1..(nextFrame - 1)
        BY <2>3 DEF Authority!StartAcceptedChild, Authority!IndInv, Authority!OwedInOrder
      <4> QED
        BY <4>1, MainTypes, MaxFramesAssumption DEF FrameIds
    <3>2. owner[o.frame] \in Subsystems
      BY <1>0, <3>1
    <3> QED
      BY <1>0, <2>3, <3>2, MarkFailedGrows DEF Authority!StartAcceptedChild, Authority!recordVars,
            Authority!counters, Authority!sessionVars, Authority!Failed
  <2>4. CASE Authority!FinalizeAcceptedReturn(o)
    BY <1>0, <2>4, EndSessionGrows DEF Authority!FinalizeAcceptedReturn, Authority!counters,
            Authority!Failed
  <2>5. CASE Authority!ResponseLost(o)
    BY <1>0, <2>5 DEF Authority!ResponseLost, Authority!recordVars, Authority!counters,
            Authority!runtimeVars, Authority!sessionVars, Authority!Failed
  <2> QED
    BY <2>1, <2>2, <2>3, <2>4, <2>5
<1>3. CASE Authority!Reply
  <2>0. lane.op \in Authority!RpcOps /\ lane.frame \in FrameIds /\ terminal = "none"
        /\ owner[lane.frame] \in Subsystems
    BY <1>0, <1>3 DEF Authority!Reply, Authority!ReplyAfterStop, Authority!RpcFails,
            Authority!InitializeSucceeds, Authority!ActivateSucceeds, Authority!ResumeSucceeds,
            Authority!InitializeRejected, Authority!CloseSucceeds, Authority!UnwindCloseSucceeds,
            Authority!Answered, Authority!RpcOps
  <2>1. CASE Authority!ReplyAfterStop \/ Authority!InitializeSucceeds
    BY <1>0, <2>1 DEF Authority!ReplyAfterStop, Authority!InitializeSucceeds,
            Authority!recordVars, Authority!counters, Authority!runtimeVars,
            Authority!sessionVars, Authority!Failed
  <2>2. CASE Authority!ActivateSucceeds \/ Authority!ResumeSucceeds
    BY <1>0, <2>0, <2>2 DEF Authority!ActivateSucceeds, Authority!ResumeSucceeds,
            Authority!counters, Authority!runtimeVars, Authority!sessionVars, Authority!Failed
  <2>3. CASE Authority!UnwindCloseSucceeds
    BY <1>0, <2>0, <2>3 DEF Authority!UnwindCloseSucceeds, Authority!CloseTop,
            Authority!counters, Authority!runtimeVars, Authority!sessionVars, Authority!Failed
  <2>4. CASE Authority!RpcFails
    BY <1>0, <2>0, <2>4, MarkFailedGrows DEF Authority!RpcFails, Authority!recordVars,
            Authority!counters, Authority!sessionVars
  <2>5. CASE Authority!InitializeRejected \/ Authority!CloseSucceeds
    <3>1. /\ \A k \in Subsystems : Authority!Failed(k)' <=> Authority!Failed(k)
          /\ nextActivation <= nextActivation'
      BY <2>0, <2>5, ResumeCallerGrows DEF Authority!InitializeRejected, Authority!CloseSucceeds
    <3> QED
      BY <1>0, <2>0, <2>5, <3>1 DEF Authority!InitializeRejected, Authority!CloseSucceeds,
            Authority!CloseTop
  <2> QED
    BY <1>3, <2>1, <2>2, <2>3, <2>4, <2>5 DEF Authority!Reply
<1>4. CASE Authority!UnwindStep
  <2>1. CASE Authority!UnwindLoop
    <3>1. UNCHANGED <<phase, link, lifecycle, owner, stopRequested, nextActivation>>
      BY <2>1 DEF Authority!UnwindLoop, Authority!recordVars, Authority!counters,
            Authority!runtimeVars, Authority!sessionVars
    <3> QED
      BY <1>0, <3>1 DEF Authority!Failed
  <2>2. CASE Authority!UnwindPop
    <3>1. \A k \in Subsystems : Authority!Failed(k) <=> Authority!Failed(k)'
      <4>1. CASE phase' = phase
        BY <4>1 DEF Authority!Failed
      <4>2. CASE Authority!EndSession("divergence")
        BY <4>2, EndSessionGrows
      <4> QED
        BY <2>2, <4>1, <4>2 DEF Authority!UnwindPop
    <3>2. /\ UNCHANGED <<owner, link, stopRequested, nextActivation>>
          /\ \E g : lifecycle' = [lifecycle EXCEPT ![g] = "closing"]
      BY <2>2 DEF Authority!UnwindPop, Authority!counters
    <3> QED
      BY <1>0, <3>1, <3>2
  <2>3. CASE Authority!UnwindDrop
    BY <1>0, <2>3 DEF Authority!UnwindDrop, Authority!CloseTop, Authority!counters,
            Authority!runtimeVars, Authority!sessionVars, Authority!Failed
  <2>4. CASE Authority!UnwindDeliver
    <3>1. /\ \A k \in Subsystems : Authority!Failed(k)' <=> Authority!Failed(k)
          /\ nextActivation <= nextActivation'
      <4>1. CASE UNCHANGED <<phase, nextActivation>>
        BY <1>0, <4>1 DEF Authority!Failed
      <4>2. CASE UNCHANGED nextActivation /\ \E t : Authority!EndSession(t)
        BY <1>0, <4>2, EndSessionGrows
      <4>3. CASE Authority!ResumeCaller(lane.returned, lane.outcome, stack)
        <5>1. lane.returned \in FrameIds
          <6>1. lane.returned \in 1..(nextFrame - 1)
            BY <2>4 DEF Authority!UnwindDeliver, Authority!IndInv, Authority!UnwindRoot
          <6> QED
            BY <6>1, MainTypes, MaxFramesAssumption DEF FrameIds
        <5>2. terminal = "none"
          BY <1>0, <2>4 DEF Authority!UnwindDeliver
        <5> QED
          BY <4>3, <5>1, <5>2, ResumeCallerGrows
      <4> QED
        BY <2>4, <4>1, <4>2, <4>3 DEF Authority!UnwindDeliver
    <3> QED
      BY <1>0, <2>4, <3>1 DEF Authority!UnwindDeliver, Authority!recordVars
  <2> QED
    BY <1>4, <2>1, <2>2, <2>3, <2>4 DEF Authority!UnwindStep
<1>5. CASE Authority!WatchControl
  BY <1>0, <1>5, MarkFailedGrows DEF Authority!WatchControl, Authority!ControlTerminal,
            Authority!FailRuntime, Authority!recordVars, Authority!counters, Authority!sessionVars
<1> QED
  BY <1>1, <1>2, <1>3, <1>4, <1>5 DEF Authority!Next

----------------------------------------------------------------------------
(* A step of Main keeps the invariant if it keeps what each Runtime knows. *)

MainStep ==
    /\ Authority!Next
    /\ Sends
    /\ UNCHANGED contextVars
    /\ request' \in [Subsystems -> Slot({"call", "return"})]
    /\ answer' \in [Subsystems -> Responses]
    /\ reply' \in [Subsystems -> {"none", "done", "refused"}]
    /\ reported' \in [Subsystems -> BOOLEAN]
    /\ \A k \in Subsystems :
            Authority!Failed(k)' => Authority!Failed(k) \/ ~up[k] \/ ~link'[k]

LEMMA MainStepFacts ==
    ASSUME ControlInv, MainStep
    PROVE  /\ Authority!IndInv' /\ MainInOrder' /\ RuntimeTypes'
           /\ MainGrows
           /\ \A k \in Subsystems :
                /\ Rests(k) /\ MainProgress(k)
                /\ NothingSent(k) \/ (up[k] /\ link'[k] /\ lane' # lane /\ SentTo(k))
                /\ AsksOf(k)' /\ up[k] /\ link'[k] /\ lane' # lane => SentTo(k)
<1>1. Authority!IndInv' /\ MainInOrder'
  BY MainKeeps DEF ControlInv, MainStep
<1>2. MainGrows
  BY NextGrows DEF ControlInv, MainInOrder, MainStep
<1>3. /\ asked' \in [Subsystems -> Slot(FrameRequests)]
      /\ behind' \in [Subsystems -> BOOLEAN]
      /\ \A k \in Subsystems :
            /\ NothingSent(k) \/ (up[k] /\ link'[k] /\ lane' # lane /\ SentTo(k))
            /\ AsksOf(k)' /\ up[k] /\ link'[k] /\ lane' # lane => SentTo(k)
  BY <1>1, SendsTells DEF ControlInv, MainStep
<1>4. RuntimeTypes'
  BY <1>3 DEF ControlInv, MainStep, RuntimeTypes, contextVars
<1>5. ASSUME NEW k \in Subsystems PROVE Rests(k) /\ MainProgress(k)
  <2>1. Rests(k)
    BY DEF MainStep, Rests, contextVars
  <2>2. up[k] /\ link'[k] => ~Authority!Failed(k)'
    <3>1. up[k] /\ link[k] => ~Authority!Failed(k)
      BY DEF ControlInv, Local
    <3> QED
      BY <1>2, <3>1 DEF MainStep, MainGrows
  <2>3. MainProgress(k)
    BY <1>2, <2>2 DEF MainGrows, MainProgress
  <2> QED
    BY <2>1, <2>3
<1> QED
  BY <1>1, <1>2, <1>3, <1>4, <1>5

\* Steps that begin no RPC and change no record.
LEMMA QuietMain ==
    ASSUME ControlInv, MainStep,
           UNCHANGED <<lifecycle, owner, caller, contextKnown, stack>>,
           \A k \in Subsystems :
                /\ FlightRests(k) /\ reply'[k] \in {reply[k], "none"}
                /\ up[k] /\ link'[k] /\ ~stopRequested' => reply'[k] = reply[k],
           \/ lane' = lane
           \/ /\ lane.op # "drop" /\ lane'.op \in {"idle", "unwind", "pop"}
              /\ lane'.op = "pop" => Authority!OnStack(lane'.returned)
              /\ \A k \in Subsystems : AsksOf(k) /\ up[k] =>
                    \/ Authority!Failed(k)'
                    \/ stopRequested' /\ (link'[k] => reply'[k] = "none" /\ asked[k] = Nothing)
    PROVE  ControlInv'
<1>1. Authority!IndInv' /\ MainInOrder' /\ RuntimeTypes'
  BY MainStepFacts
<1>2. ASSUME NEW k \in Subsystems PROVE Local(k)' /\ Agrees(k)'
  <2>1. Rests(k) /\ MainProgress(k)
    BY MainStepFacts
  <2>2. UNCHANGED <<asked, behind>>
    <3>1. Main!RpcOps = Authority!RpcOps
      BY DEF Main!RpcOps, Authority!RpcOps
    <3> QED
      BY <3>1 DEF MainStep, Sends, Authority!RpcOps
  <2> QED
    BY <1>1, <2>1, <2>2, QuietTurn
<1> QED
  BY <1>1, <1>2 DEF ControlInv

\* The lane's turn leaves a channel free: what holds the lane has no RPC at k,
\* or its reply has just been read.
LEMMA LaneLeaves ==
    ASSUME NEW k \in Subsystems, ControlInv, ~stopRequested, link'[k] => link[k],
           \/ ~AsksOf(k) /\ reply'[k] = reply[k]
           \/ link[k] /\ reply[k] # "none" /\ reply'[k] = "none"
    PROVE  ChannelFree(k)
BY DEF ChannelFree, SoundRuntime, ControlInv, Local, Agrees, AsksAgree

\* What the records and the lane must go on saying of the Runtime k.
RecordsAgree(k) ==
    /\ SoundRuntime(k) =>
        \A f \in FrameIds :
            /\ Live(f) /\ ~Live(f)' /\ owner[f] = k => State(k, f) \in {"none", "closing"}
            /\ Live(f)' /\ owner'[f] = k /\ ~contextKnown'[f] /\ ~Serves(f, {"initialize"})' =>
                    State(k, f) = "none" /\ inFlight[k].frame # f
    /\ up[k] /\ link'[k] => CallersWait(k)' /\ FramesHeld(k)'

LEMMA RecordsTurn ==
    ASSUME NEW k \in Subsystems, ControlInv, MainStep, ~stopRequested, ChannelFree(k),
           RecordsAgree(k), lane' = lane => ~AsksOf(k)'
    PROVE  Agrees(k)'
<1>1. /\ Authority!IndInv' /\ Rests(k) /\ MainProgress(k)
      /\ NothingSent(k) \/ (up[k] /\ link'[k] /\ lane' # lane /\ SentTo(k))
      /\ AsksOf(k)' /\ up[k] /\ link'[k] /\ lane' # lane => SentTo(k)
  BY MainStepFacts
<1>2. /\ SoundRuntime(k) => \A f \in FrameIds :
            Live(f) /\ ~Live(f)' /\ owner[f] = k => State(k, f) \in {"none", "closing"}
      /\ SoundRuntime(k) => \A f \in FrameIds :
            Live(f)' /\ owner'[f] = k /\ ~contextKnown'[f] /\ ~Serves(f, {"initialize"})' =>
                State(k, f) = "none" /\ inFlight[k].frame # f
      /\ up[k] /\ link'[k] => CallersWait(k)' /\ FramesHeld(k)'
  BY DEF RecordsAgree
<1> QED
  BY <1>1, <1>2, TurnAgrees

\* Steps of the lane that end an RPC, begin one, or both.
LEMMA LaneTurn ==
    ASSUME ControlInv, MainStep, ~stopRequested, lane' # lane,
           \A k \in Subsystems :
                /\ FlightRests(k) /\ ChannelFree(k) /\ RecordsAgree(k)
                /\ up[k] /\ link'[k] /\ SentTo(k) => Acceptable(k)'
    PROVE  ControlInv'
<1>1. Authority!IndInv' /\ MainInOrder' /\ RuntimeTypes'
  BY MainStepFacts
<1>2. ASSUME NEW k \in Subsystems PROVE Local(k)' /\ Agrees(k)'
  <2>1. /\ Rests(k) /\ MainProgress(k) /\ FlightRests(k) /\ ChannelFree(k)
        /\ NothingSent(k) \/ (up[k] /\ link'[k] /\ SentTo(k) /\ Acceptable(k)')
    BY MainStepFacts
  <2>2. Local(k)'
    BY <1>1, <2>1, TurnLocal
  <2>3. Agrees(k)'
    BY RecordsTurn
  <2> QED
    BY <2>2, <2>3
<1> QED
  BY <1>1, <1>2 DEF ControlInv

----------------------------------------------------------------------------
(* The lane's turns that read nothing from a connection.                   *)

NoNewFailure ==
    \A k \in Subsystems : Authority!Failed(k)' => Authority!Failed(k) \/ ~up[k] \/ ~link'[k]

ChannelsRest == UNCHANGED <<contextVars, answer, request, reply, reported>>

LEMMA AloneIsMainStep ==
    ASSUME ControlInv, Authority!Next, Sends, ChannelsRest, NoNewFailure
    PROVE  MainStep /\ \A k \in Subsystems : FlightRests(k) /\ reply'[k] = reply[k]
BY DEF ControlInv, RuntimeTypes, ChannelsRest, NoNewFailure, MainStep, FlightRests

\* A turn that begins nothing, while no RPC holds the lane.
LEMMA QuietAlone ==
    ASSUME ControlInv, Authority!Next, Sends, ChannelsRest, NoNewFailure,
           UNCHANGED <<lifecycle, owner, caller, contextKnown, stack>>,
           \/ lane' = lane
           \/ /\ lane.op \in {"idle", "unwind", "pop"} /\ lane'.op \in {"idle", "unwind", "pop"}
              /\ lane'.op = "pop" => Authority!OnStack(lane'.returned)
    PROVE  ControlInv'
<1>1. MainStep /\ \A k \in Subsystems : FlightRests(k) /\ reply'[k] = reply[k]
  BY AloneIsMainStep
<1>2. lane.op \in {"idle", "unwind", "pop"} => \A k \in Subsystems : ~AsksOf(k)
  BY DEF AsksOf, Authority!RpcOps
<1> QED
  BY <1>1, <1>2, QuietMain

\* A turn that begins an RPC, while none holds the lane.
LEMMA TurnAlone ==
    ASSUME ControlInv, Authority!Next, Sends, ChannelsRest, NoNewFailure, ~stopRequested,
           lane' # lane, lane.op \in {"idle", "unwind", "pop", "drop"},
           \A k \in Subsystems :
                /\ MainProgress(k) /\ Rests(k) => RecordsAgree(k)
                /\ up[k] /\ link'[k] /\ link[k] /\ Rests(k) /\ SentTo(k) => Acceptable(k)'
    PROVE  ControlInv'
<1>1. MainStep /\ \A k \in Subsystems : FlightRests(k) /\ reply'[k] = reply[k]
  BY AloneIsMainStep
<1>2. \A k \in Subsystems : ~AsksOf(k)
  BY DEF AsksOf, Authority!RpcOps
<1>3. \A k \in Subsystems : Rests(k) /\ MainProgress(k) /\ (link'[k] => link[k])
  BY <1>1, MainStepFacts DEF MainProgress
<1>4. \A k \in Subsystems : ChannelFree(k)
  BY <1>1, <1>2, <1>3, LaneLeaves
<1> QED
  BY <1>1, <1>3, <1>4, LaneTurn

LEMMA RequestShutdownKeeps ==
    ASSUME ControlInv, Authority!RequestShutdown, Sends, ChannelsRest
    PROVE  ControlInv'
<1>1. Authority!Next /\ NoNewFailure
  BY DEF Authority!Next, Authority!Environment, Authority!RequestShutdown, NoNewFailure,
         Authority!Failed, Authority!runtimeVars
<1> QED
  BY <1>1, QuietAlone DEF Authority!RequestShutdown, Authority!recordVars

\* watchControl and watchPhysicalRuntime: the Runtime is gone, or nobody reads
\* its connection.
LEMMA FailureKeeps ==
    ASSUME ControlInv, Sends, ChannelsRest, NEW k \in Subsystems,
           \/ Authority!ControlTerminal(k)
           \/ ~up[k] /\ Authority!PhysicalTerminated(k)
    PROVE  ControlInv'
<1>1. Authority!Next
  BY DEF Authority!Next, Authority!Environment, Authority!WatchControl
<1>2. /\ lane.op = "idle" /\ lane'.op \in {"idle", "unwind"}
      /\ UNCHANGED <<lifecycle, owner, caller, contextKnown, stack>>
  BY DEF Authority!ControlTerminal, Authority!PhysicalTerminated, Authority!LaneFree,
         Authority!FailRuntime, Authority!Unwinding, Authority!Idle, Authority!recordVars
<1>3. NoNewFailure
  BY MarkFailedGrows DEF ControlInv, Authority!ControlTerminal, Authority!PhysicalTerminated,
         Authority!FailRuntime, NoNewFailure
<1> QED
  BY <1>1, <1>2, <1>3, QuietAlone

LEMMA UnwindLoopKeeps ==
    ASSUME ControlInv, Sends, ChannelsRest, Authority!UnwindLoop
    PROVE  ControlInv'
<1>1. Authority!Next
  BY DEF Authority!Next, Authority!UnwindStep
<1>2. /\ lane.op = "unwind"
      /\ UNCHANGED <<phase, lifecycle, owner, caller, contextKnown, stack>>
  BY DEF Authority!UnwindLoop, Authority!recordVars, Authority!runtimeVars
<1>3. lane'.op \in {"idle", "pop"} /\ (lane'.op = "pop" => Authority!OnStack(lane'.returned))
  <2>1. CASE lane' = Authority!Idle
    BY <2>1 DEF Authority!Idle
  <2>2. ASSUME NEW i \in Authority!DoomedPositions,
               lane' = [Authority!Idle EXCEPT !.op = "pop", !.returned = stack[i], !.below = i - 1,
                                              !.outcome = Authority!RootOutcome(stack[i])]
        PROVE  lane'.op = "pop" /\ Authority!OnStack(lane'.returned)
    <3>1. lane'.op = "pop" /\ lane'.returned = stack[i]
      BY <2>2 DEF Authority!Idle
    <3> QED
      BY <3>1 DEF Authority!DoomedPositions, Authority!OnStack
  <2> QED
    BY <2>1, <2>2 DEF Authority!UnwindLoop
<1>4. NoNewFailure
  BY <1>2 DEF NoNewFailure, Authority!Failed
<1> QED
  BY <1>1, <1>2, <1>3, <1>4, QuietAlone

\* What is agreed on while the session goes on.
LEMMA AgreedFacts ==
    ASSUME ControlInv, ~stopRequested, NEW k \in Subsystems
    PROVE  /\ SoundRuntime(k) => ContextsLive(k) /\ AsksAgree(k)
           /\ up[k] => Known(k) /\ AfterAgrees(k) /\ FlightAgrees(k)
           /\ up[k] /\ link[k] => /\ SoundRuntime(k) /\ LaneServed(k)
                                  /\ CallersWait(k) /\ FramesHeld(k)
BY DEF ControlInv, Local, Agrees, SoundRuntime

\* Callers go on waiting for the children that are still uncollected.
LEMMA CallersGoOn ==
    ASSUME RuntimeTypes, Authority!IndInv, Authority!IndInv', NEW k \in Subsystems, Rests(k),
           answer'[k] = answer[k], nextActivation <= nextActivation', UNCHANGED <<owner, caller>>,
           CallersWait(k), \A d \in FrameIds : Uncollected(d)' => Uncollected(d)
    PROVE  CallersWait(k)'
<1>1. ASSUME NEW c \in FrameIds, NEW d \in FrameIds, Waits(k, c, d) PROVE Waits(k, c, d)'
  BY <1>1, WaitsKept
<1> QED
  BY <1>1 DEF CallersWait

\* The lane goes from no RPC to one that is not the close of an unwind.
LEMMA RecordsStay ==
    ASSUME ControlInv, Authority!Next, ~stopRequested, NEW k \in Subsystems, Rests(k),
           MainProgress(k), answer'[k] = answer[k], lane.op \in {"idle", "pop"},
           lane'.op \in {"initialize", "close", "resume"},
           UNCHANGED <<lifecycle, owner, caller, contextKnown, stack>>
    PROVE  RecordsAgree(k)
<1>0. Authority!IndInv /\ Authority!IndInv' /\ RuntimeTypes /\ nextActivation <= nextActivation'
      /\ (link'[k] => link[k])
  BY MainKeeps DEF ControlInv, MainProgress
<1>1. ASSUME SoundRuntime(k), NEW f \in FrameIds
      PROVE  /\ Live(f) /\ ~Live(f)' /\ owner[f] = k => State(k, f) \in {"none", "closing"}
             /\ Live(f)' /\ owner'[f] = k /\ ~contextKnown'[f] /\ ~Serves(f, {"initialize"})' =>
                    State(k, f) = "none" /\ inFlight[k].frame # f
  <2>1. AsksAgree(k) /\ ~Serves(f, {"initialize"})
    BY <1>1, AgreedFacts DEF Serves
  <2> QED
    BY <2>1 DEF AsksAgree, Live
<1>2. ASSUME up[k], link'[k] PROVE CallersWait(k)' /\ FramesHeld(k)'
  <2>1. CallersWait(k) /\ FramesHeld(k)
    BY <1>0, <1>2, AgreedFacts
  <2>2. \A d \in FrameIds : Uncollected(d)' => Uncollected(d)
    BY DEF Uncollected, Authority!OnStack
  <2>3. CallersWait(k)'
    BY <1>0, <2>1, <2>2, CallersGoOn
  <2>4. \A f \in FrameIds : ~Serves(f, {"close", "unwind-close", "drop"})
    BY DEF Serves
  <2>5. FramesHeld(k)'
    BY <2>1, <2>4 DEF FramesHeld, Live, InControl, State, Rests
  <2> QED
    BY <2>3, <2>5
<1> QED
  BY <1>1, <1>2 DEF RecordsAgree

\* startAcceptedChild.
LEMMA StartAcceptedChildKeeps ==
    ASSUME ControlInv, Sends, ChannelsRest, NEW o \in owed, Authority!StartAcceptedChild(o)
    PROVE  ControlInv'
<1> DEFINE f == o.frame
           j == owner[f]
<1>0. Authority!IndInv /\ RuntimeTypes /\ MainInOrder /\ PhasesOpen
  BY DEF ControlInv, MainInOrder
<1>1. Authority!Next
  BY DEF Authority!Next, Authority!OwedStep
<1>2. /\ lane.op = "idle"
      /\ UNCHANGED <<link, lifecycle, owner, caller, contextKnown, stack>>
  BY DEF Authority!StartAcceptedChild, Authority!LaneFree, Authority!recordVars
<1>3. f \in FrameIds /\ j \in Subsystems
  <2>1. f \in 1..(nextFrame - 1)
    BY <1>0 DEF Authority!StartAcceptedChild, Authority!IndInv, Authority!OwedInOrder
  <2> QED
    BY <1>0, <2>1, MainTypes, MaxFramesAssumption DEF FrameIds
<1>4. CASE UNCHANGED <<phase, lane>>
  <2>1. NoNewFailure
    BY <1>4 DEF NoNewFailure, Authority!Failed
  <2> QED
    BY <1>1, <1>2, <1>4, <2>1, QuietAlone
<1>5. CASE /\ ~Authority!Stopped /\ ~Authority!RuntimeReady(j)
           /\ Authority!MarkFailed(j) /\ lane' = Authority!Unwinding
  <2>1. Authority!Failed(j)
    BY <1>0, <1>3, <1>5 DEF PhasesOpen, Authority!Stopped, Authority!RuntimeReady, Authority!Failed
  <2>2. NoNewFailure
    BY <1>0, <1>3, <1>5, <2>1, MarkFailedGrows DEF NoNewFailure
  <2>3. lane'.op = "unwind"
    BY <1>5 DEF Authority!Unwinding, Authority!Idle
  <2> QED
    BY <1>1, <1>2, <2>2, <2>3, QuietAlone
<1>6. CASE /\ ~Authority!Stopped /\ lifecycle[f] = "starting" /\ Authority!RuntimeReady(j)
           /\ Authority!Initialize(f) /\ UNCHANGED phase
  <2>1. lane'.op = "initialize" /\ lane'.frame = f /\ ~stopRequested
    BY <1>6 DEF Authority!Initialize, Authority!Idle, Authority!Stopped
  <2>2. NoNewFailure
    BY <1>6 DEF NoNewFailure, Authority!Failed
  <2>3. ASSUME NEW k \in Subsystems, MainProgress(k), Rests(k) PROVE RecordsAgree(k)
    BY <1>1, <1>2, <2>1, <2>3, RecordsStay DEF ChannelsRest
  <2>4. ASSUME NEW k \in Subsystems, up[k], link'[k], link[k], Rests(k), SentTo(k)
        PROVE  Acceptable(k)'
    <3>1. k = j /\ asked'[k] = Request("initialize", f, 0, 0)
      BY <1>2, <2>1, <2>4 DEF SentTo, AsksOf, FrameRequest
    <3>2. ~Authority!Failed(k) /\ ~contextKnown[f] /\ Live(f) /\ ~Serves(f, {"initialize"})
      BY <1>0, <1>2, <1>3, <1>6, <3>1
         DEF Authority!RuntimeReady, Authority!Failed, Authority!IndInv,
             Authority!ContextFollows, FrameIds, Authority!FrameIds, Live, Serves
    <3>3. State(k, f) = "none" /\ inFlight[k].frame # f
      BY <1>3, <2>1, <2>4, <3>1, <3>2, AgreedFacts DEF AsksAgree
    <3> QED
      BY <2>4, <3>1, <3>3 DEF Acceptable, Request, State, Rests
  <2> QED
    BY <1>1, <1>2, <2>1, <2>2, <2>3, <2>4, TurnAlone
<1> QED
  BY <1>4, <1>5, <1>6 DEF Authority!StartAcceptedChild

\* finalizeAcceptedReturn.
LEMMA FinalizeAcceptedReturnKeeps ==
    ASSUME ControlInv, Sends, ChannelsRest, NEW o \in owed, Authority!FinalizeAcceptedReturn(o)
    PROVE  ControlInv'
<1> DEFINE f == o.frame
           j == owner[f]
<1>0. Authority!IndInv /\ RuntimeTypes
  BY DEF ControlInv
<1>1. Authority!Next
  BY DEF Authority!Next, Authority!OwedStep
<1>2. /\ lane.op = "idle"
      /\ UNCHANGED <<link, lifecycle, owner, caller, contextKnown, stack>>
  BY DEF Authority!FinalizeAcceptedReturn, Authority!LaneFree
<1>3. f \in FrameIds /\ j \in Subsystems
  <2>1. f \in 1..(nextFrame - 1)
    BY <1>0 DEF Authority!FinalizeAcceptedReturn, Authority!IndInv, Authority!OwedInOrder
  <2> QED
    BY <1>0, <2>1, MainTypes, MaxFramesAssumption DEF FrameIds
<1>4. CASE UNCHANGED <<phase, lane>>
  <2>1. NoNewFailure
    BY <1>4 DEF NoNewFailure, Authority!Failed
  <2> QED
    BY <1>1, <1>2, <1>4, <2>1, QuietAlone
<1>5. CASE Authority!EndSession("divergence") /\ UNCHANGED lane
  BY <1>0, <1>1, <1>2, <1>5, EndSessionGrows, QuietAlone DEF NoNewFailure
<1>6. CASE UNCHANGED phase /\ lane' = Authority!Unwinding
  <2>1. lane'.op = "unwind"
    BY <1>6 DEF Authority!Unwinding, Authority!Idle
  <2> QED
    BY <1>1, <1>2, <1>6, <2>1, QuietAlone DEF NoNewFailure, Authority!Failed
<1>7. CASE /\ ~Authority!Stopped /\ lifecycle[f] = "closing" /\ UNCHANGED phase
           /\ lane' = [Authority!Idle EXCEPT !.op = "close", !.frame = f]
  <2>1. lane'.op = "close" /\ lane'.frame = f /\ ~stopRequested
    BY <1>7 DEF Authority!Idle, Authority!Stopped
  <2>2. NoNewFailure
    BY <1>7 DEF NoNewFailure, Authority!Failed
  <2>3. ASSUME NEW k \in Subsystems, MainProgress(k), Rests(k) PROVE RecordsAgree(k)
    BY <1>1, <1>2, <2>1, <2>3, RecordsStay DEF ChannelsRest
  <2>4. ASSUME NEW k \in Subsystems, up[k], link'[k], link[k], Rests(k), SentTo(k)
        PROVE  Acceptable(k)'
    <3>1. k = j /\ asked'[k] = Request("close", f, 0, 0)
      BY <1>2, <2>1, <2>4 DEF SentTo, AsksOf, FrameRequest
    <3>2. State(k, f) \notin {"none", "closing"}
      BY <1>2, <1>3, <1>7, <2>1, <2>4, <3>1, AgreedFacts DEF FramesHeld, Live, Serves
    <3> QED
      BY <2>4, <3>1, <3>2 DEF Acceptable, Request, State, Rests
  <2> QED
    BY <1>1, <1>2, <2>1, <2>2, <2>3, <2>4, TurnAlone
<1> QED
  BY <1>4, <1>5, <1>6, <1>7 DEF Authority!FinalizeAcceptedReturn

\* startInitialFrame: the first Frame, of which no Runtime knows yet.
LEMMA StartInitialFrameKeeps ==
    ASSUME ControlInv, Sends, ChannelsRest, NEW o \in owed, Authority!StartInitialFrame(o)
    PROVE  ControlInv'
<1>0. Authority!IndInv /\ RuntimeTypes
  BY DEF ControlInv
<1>1. Authority!Next
  BY DEF Authority!Next, Authority!OwedStep
<1>2. lane.op = "idle" /\ UNCHANGED <<link, contextKnown>>
  BY DEF Authority!StartInitialFrame, Authority!LaneFree
<1>3. CASE UNCHANGED <<phase, lifecycle, owner, caller, stack, lane>>
  BY <1>1, <1>2, <1>3, QuietAlone DEF NoNewFailure, Authority!Failed
<1>4. CASE Authority!EndSession("fatal") /\ UNCHANGED <<lifecycle, owner, caller, stack, lane>>
  BY <1>0, <1>1, <1>2, <1>4, EndSessionGrows, QuietAlone DEF NoNewFailure
<1>5. CASE /\ ~Authority!Stopped /\ UNCHANGED phase
           /\ lifecycle' = [lifecycle EXCEPT ![nextFrame] = "starting"]
           /\ Authority!Allocate(Initial, 0)
           /\ Authority!Initialize(nextFrame)
  <2>1. lane'.op = "initialize" /\ lane'.frame = nextFrame /\ ~stopRequested
    BY <1>5 DEF Authority!Initialize, Authority!Idle, Authority!Stopped
  <2>2. NoNewFailure
    BY <1>5 DEF NoNewFailure, Authority!Failed
  <2>3. /\ nextFrame = 1 /\ 1 \in FrameIds /\ \A f \in FrameIds : lifecycle[f] = "absent"
    <3>1. nextFrame = 1
      BY <1>0 DEF Authority!StartInitialFrame, Authority!IndInv, Authority!OwedInOrder
    <3>2. \A f \in FrameIds : lifecycle[f] = "absent" <=> f >= nextFrame
      BY <1>0 DEF Authority!IndInv, Authority!IdsInOrder, FrameIds, Authority!FrameIds
    <3> QED
      BY <3>1, <3>2, MaxFramesAssumption DEF FrameIds
  <2>4. /\ owner'[1] = Initial /\ caller'[1] = 0 /\ lifecycle'[1] = "starting"
        /\ \A f \in FrameIds \ {1} : lifecycle'[f] = "absent"
    BY <1>0, <1>5, <2>3, MainTypes DEF Authority!Allocate
  <2>5. \A d \in FrameIds : Authority!OnStack(d)' => d = 1
    <3> TAKE d \in FrameIds
    <3>1. Authority!IndInv'
      BY <1>0, <1>1, MainKeeps DEF ControlInv
    <3>2. Authority!OnStack(d)' => lifecycle'[d] # "absent"
      BY <3>1 DEF Authority!IndInv, Authority!StackDiscipline, FrameIds, Authority!FrameIds
    <3> QED
      BY <2>4, <3>2
  <2>6. ASSUME NEW k \in Subsystems PROVE RecordsAgree(k)
    <3>1. ASSUME NEW f \in FrameIds PROVE ~Live(f) /\ (Live(f)' => Serves(f, {"initialize"})')
      BY <2>1, <2>3, <2>4 DEF Live, Serves
    <3>2. CallersWait(k)'
      <4> SUFFICES ASSUME NEW c \in FrameIds, NEW d \in FrameIds, caller'[d] = c, Uncollected(d)'
                   PROVE  FALSE
        BY DEF CallersWait
      <4>1. d = 1
        BY <2>1, <2>5 DEF Uncollected
      <4> QED
        BY <2>4, <4>1 DEF FrameIds
    <3>3. FramesHeld(k)'
      BY <2>4 DEF FramesHeld, Live
    <3> QED
      BY <3>1, <3>2, <3>3 DEF RecordsAgree
  <2>7. ASSUME NEW k \in Subsystems, up[k], link'[k], link[k], Rests(k), SentTo(k)
        PROVE  Acceptable(k)'
    <3>1. asked'[k] = Request("initialize", 1, 0, 0)
      BY <2>1, <2>3, <2>7 DEF SentTo, FrameRequest
    <3>2. State(k, 1) = "none" /\ inFlight[k].frame # 1
      BY <2>1, <2>3, <2>7, AgreedFacts DEF Known
    <3> QED
      BY <2>7, <3>1, <3>2 DEF Acceptable, Request, State, Rests
  <2> QED
    BY <1>1, <1>2, <2>1, <2>2, <2>6, <2>7, TurnAlone
<1> QED
  BY <1>3, <1>4, <1>5 DEF Authority!StartInitialFrame

\* What Main owes itself.
LEMMA OwedStepKeeps ==
    ASSUME ControlInv, Sends, ChannelsRest, Authority!OwedStep
    PROVE  ControlInv'
<1>1. Authority!Next /\ Authority!IndInv
  BY DEF Authority!Next, ControlInv
<1>2. PICK o \in owed : \/ Authority!BeginShutdown(o)
                        \/ Authority!StartInitialFrame(o)
                        \/ Authority!StartAcceptedChild(o)
                        \/ Authority!FinalizeAcceptedReturn(o)
                        \/ Authority!ResponseLost(o)
  BY DEF Authority!OwedStep
<1>3. CASE Authority!BeginShutdown(o)
  BY <1>1, <1>3, EndSessionGrows, QuietAlone
     DEF Authority!BeginShutdown, Authority!recordVars, NoNewFailure
<1>4. CASE Authority!ResponseLost(o)
  BY <1>1, <1>4, QuietAlone
     DEF Authority!ResponseLost, Authority!recordVars, Authority!runtimeVars, NoNewFailure,
         Authority!Failed
<1> QED
  BY <1>2, <1>3, <1>4, StartInitialFrameKeeps, StartAcceptedChildKeeps,
     FinalizeAcceptedReturnKeeps

\* tryResumeCaller: the lane is released, the unwind starts over, or the caller
\* is asked to resume.
LEMMA ResumeCallerLane ==
    ASSUME NEW f, NEW result, NEW rest, Authority!ResumeCaller(f, result, rest)
    PROVE  \/ lane'.op \in {"idle", "unwind"}
           \/ /\ lane'.op = "resume" /\ lane'.frame = caller[f] /\ lane'.returned = f
              /\ lane'.minted = nextActivation /\ caller[f] # 0
<1>1. CASE lane' \in {Authority!Idle, Authority!Unwinding}
  BY <1>1 DEF Authority!Idle, Authority!Unwinding
<1>2. CASE /\ caller[f] # 0
           /\ lane' = [Authority!Idle EXCEPT !.op = "resume", !.frame = caller[f], !.returned = f,
                                        !.outcome = result, !.minted = nextActivation]
  BY <1>2 DEF Authority!Idle
<1> QED
  BY <1>1, <1>2 DEF Authority!ResumeCaller

\* The caller waits for the outcome that it is asked to resume with.
LEMMA ResumeIsAcceptable ==
    ASSUME ControlInv, ~stopRequested, NEW k \in Subsystems, up[k], link[k], Rests(k), SentTo(k),
           answer'[k] = answer[k], owner' = owner,
           NEW f \in FrameIds, Uncollected(f),
           lane'.op = "resume", lane'.frame = caller[f], lane'.returned = f,
           lane'.minted = nextActivation, caller[f] # 0
    PROVE  Acceptable(k)'
<1> DEFINE c == caller[f]
<1>0. RuntimeTypes /\ c \in FrameIds /\ owner[c] = k /\ nextActivation \in Nat
      /\ asked'[k] = Request("resume", c, nextActivation, f)
  BY MainTypes DEF ControlInv, SentTo, AsksOf, FrameRequest
<1>1. Waits(k, c, f)
  BY <1>0, AgreedFacts DEF CallersWait
<1>2. inFlight[k].activation \in Nat /\ context[k][c].revoked \in Nat
  BY <1>0, ChannelFacts DEF RuntimeTypes, Contexts
<1>3. CASE WillWait(k, c, f) /\ inFlight[k].activation < nextActivation
  <2>1. answer[k].op = "accepted" /\ Nothing.op = "none"
    BY <1>3 DEF WillWait, Response, Nothing
  <2>2. behind'[k]
    BY <2>1 DEF SentTo
  <2>3. inFlight[k].activation # nextActivation
    BY <1>0, <1>2, <1>3
  <2> QED
    BY <1>0, <1>3, <2>2, <2>3 DEF Acceptable, Request, WillWait, State, Rests
<1>4. CASE IsWaiting(k, c, f) /\ context[k][c].revoked < nextActivation
  <2>1. context[k][c].revoked # nextActivation
    BY <1>0, <1>2, <1>4
  <2> QED
    BY <1>0, <1>4, <2>1 DEF Acceptable, Request, IsWaiting, State, Rests
<1> QED
  BY <1>1, <1>3, <1>4 DEF Waits

\* The end of an unwind.
LEMMA UnwindDeliverKeeps ==
    ASSUME ControlInv, Sends, ChannelsRest, Authority!UnwindDeliver
    PROVE  ControlInv'
<1>0. Authority!IndInv /\ PhasesOpen
  BY DEF ControlInv, MainInOrder
<1>1. Authority!Next
  BY DEF Authority!Next, Authority!UnwindStep
<1>2. lane.op = "pop" /\ UNCHANGED <<link, lifecycle, owner, caller, contextKnown, stack>>
  BY DEF Authority!UnwindDeliver, Authority!recordVars
<1>3. terminal = "none" /\ lane.returned \in FrameIds
  <2>1. lane.returned \in 1..(nextFrame - 1)
    BY <1>0, <1>2 DEF Authority!IndInv, Authority!UnwindRoot
  <2> QED
    BY <1>0, <1>2, <2>1, MainTypes, MaxFramesAssumption
       DEF FrameIds, Authority!IndInv, Authority!LaneOnTop
<1>4. CASE UNCHANGED phase /\ lane' = Authority!Idle
  BY <1>1, <1>2, <1>4, QuietAlone DEF NoNewFailure, Authority!Failed, Authority!Idle
<1>5. ASSUME NEW t, Authority!EndSession(t), lane' = Authority!Idle PROVE ControlInv'
  BY <1>0, <1>1, <1>2, <1>5, EndSessionGrows, QuietAlone DEF NoNewFailure, Authority!Idle
<1>6. CASE ~Authority!Stopped /\ Authority!ResumeCaller(lane.returned, lane.outcome, stack)
  <2>1. NoNewFailure
    BY <1>0, <1>3, <1>6, ResumeCallerGrows DEF NoNewFailure
  <2>2. CASE lane'.op \in {"idle", "unwind"}
    BY <1>1, <1>2, <2>1, <2>2, QuietAlone
  <2>3. CASE /\ lane'.op = "resume" /\ lane'.frame = caller[lane.returned]
             /\ lane'.returned = lane.returned /\ lane'.minted = nextActivation
             /\ caller[lane.returned] # 0
    <3>1. ~stopRequested /\ Uncollected(lane.returned)
      BY <1>2, <1>6 DEF Authority!Stopped, Uncollected
    <3>2. ASSUME NEW k \in Subsystems, MainProgress(k), Rests(k) PROVE RecordsAgree(k)
      BY <1>1, <1>2, <2>3, <3>1, <3>2, RecordsStay DEF ChannelsRest
    <3>3. ASSUME NEW k \in Subsystems, up[k], link'[k], link[k], Rests(k), SentTo(k)
          PROVE  Acceptable(k)'
      BY <1>2, <1>3, <2>3, <3>1, <3>3, ResumeIsAcceptable DEF ChannelsRest
    <3> QED
      BY <1>1, <1>2, <2>1, <2>3, <3>1, <3>2, <3>3, TurnAlone
  <2> QED
    BY <1>6, <2>2, <2>3, ResumeCallerLane
<1> QED
  BY <1>4, <1>5, <1>6 DEF Authority!UnwindDeliver

\* The inner loop takes the top Frame.
LEMMA UnwindPopKeeps ==
    ASSUME ControlInv, Sends, ChannelsRest, Authority!UnwindPop
    PROVE  ControlInv'
<1> DEFINE f == Authority!Top
<1>0. Authority!IndInv /\ lane \in Authority!LaneRecords
      /\ lifecycle \in [FrameIds -> Authority!Lifecycles]
  BY MainTypes DEF ControlInv
<1>1. Authority!Next /\ Authority!IndInv'
  BY MainKeeps DEF Authority!Next, Authority!UnwindStep, ControlInv
<1>2. /\ lane.op = "pop" /\ ~stopRequested /\ terminal = "none"
      /\ lifecycle' = [lifecycle EXCEPT ![f] = "closing"]
      /\ UNCHANGED <<link, owner, caller, contextKnown, stack, nextActivation>>
  BY DEF Authority!UnwindPop, Authority!Stopped, Authority!counters
<1>3. f \in FrameIds /\ Authority!OnStack(f) /\ Live(f)
  <2>1. Len(stack) > lane.below /\ lane.below \in Nat /\ Len(stack) \in Nat
    BY <1>0, MainTypes DEF Authority!UnwindPop
  <2>2. Len(stack) \in 1..Len(stack)
    BY <2>1
  <2>3. f \in FrameIds /\ Authority!OnStack(f)
    BY <1>0, <2>2, MainTypes DEF Authority!Top, Authority!OnStack
  <2> QED
    BY <1>0, <2>3 DEF Authority!IndInv, Authority!StackDiscipline, Live, FrameIds,
                      Authority!FrameIds
<1>4. ~Authority!EndSession("divergence")
  BY <1>1, <1>2 DEF Authority!EndSession, Authority!IndInv, Authority!NoAuthorityDivergence
<1>5. /\ lane'.op \in {"drop", "unwind-close"} /\ lane'.frame = f /\ lane'.returned = lane.returned
      /\ UNCHANGED phase
      /\ lane'.op = "unwind-close" => ~Authority!Failed(owner[f]) /\ contextKnown[f]
  <2>1. \/ lane' = [lane EXCEPT !.op = "drop", !.frame = f]
        \/ lane' = [lane EXCEPT !.op = "unwind-close", !.frame = f]
             /\ ~Authority!Failed(owner[f]) /\ contextKnown[f]
    BY <1>4 DEF Authority!UnwindPop
  <2>2. UNCHANGED phase
    BY <1>4 DEF Authority!UnwindPop
  <2> QED
    BY <1>0, <2>1, <2>2 DEF Authority!LaneRecords
<1>6. NoNewFailure
  BY <1>5 DEF NoNewFailure, Authority!Failed
<1>7. ASSUME NEW k \in Subsystems, MainProgress(k), Rests(k) PROVE RecordsAgree(k)
  <2>1. ASSUME SoundRuntime(k), NEW g \in FrameIds
        PROVE  /\ Live(g) /\ ~Live(g)' /\ owner[g] = k => State(k, g) \in {"none", "closing"}
               /\ Live(g)' /\ owner'[g] = k /\ ~contextKnown'[g] /\ ~Serves(g, {"initialize"})' =>
                      State(k, g) = "none" /\ inFlight[k].frame # g
    <3>1. AsksAgree(k) /\ ~Serves(g, {"initialize"})
      BY <1>2, <2>1, AgreedFacts DEF Serves
    <3>2. Live(g)' <=> Live(g)
      BY <1>0, <1>2, <1>3 DEF Live
    <3> QED
      BY <1>2, <3>1, <3>2 DEF AsksAgree
  <2>2. ASSUME up[k], link'[k] PROVE CallersWait(k)' /\ FramesHeld(k)'
    <3>1. CallersWait(k) /\ FramesHeld(k) /\ RuntimeTypes
      BY <1>2, <2>2, AgreedFacts DEF ControlInv
    <3>2. \A d \in FrameIds : Uncollected(d)' => Uncollected(d)
      BY <1>2, <1>5 DEF Uncollected, Authority!OnStack
    <3>3. CallersWait(k)'
      <4>1. answer'[k] = answer[k] /\ nextActivation <= nextActivation'
        BY <1>7 DEF ChannelsRest, MainProgress
      <4> QED
        BY <1>0, <1>1, <1>2, <1>7, <3>1, <3>2, <4>1, CallersGoOn
    <3>4. FramesHeld(k)'
      <4>1. ASSUME NEW g \in FrameIds, owner[g] = k, Live(g)', lifecycle'[g] # "starting",
                   ~Serves(g, {"close", "unwind-close", "drop"})'
            PROVE  State(k, g)' \notin {"none", "closing"}
        <5>1. g # f
          BY <1>5, <4>1 DEF Serves
        <5>2. lifecycle'[g] = lifecycle[g] /\ ~Serves(g, {"close", "unwind-close", "drop"})
          BY <1>0, <1>2, <5>1 DEF Serves
        <5> QED
          BY <1>7, <3>1, <4>1, <5>2 DEF FramesHeld, Live, State, Rests
      <4>2. ASSUME NEW g \in FrameIds, owner[g] = k, lifecycle'[g] = "active"
            PROVE  InControl(k, g)'
        <5>1. lifecycle[g] = "active"
          BY <1>0, <1>2, <4>2
        <5> QED
          BY <1>7, <3>1, <4>2, <5>1 DEF FramesHeld, InControl, State, Rests, ChannelsRest
      <4> QED
        BY <1>2, <4>1, <4>2 DEF FramesHeld
    <3> QED
      BY <3>3, <3>4
  <2> QED
    BY <2>1, <2>2 DEF RecordsAgree
<1>8. ASSUME NEW k \in Subsystems, up[k], link'[k], link[k], Rests(k), SentTo(k)
      PROVE  Acceptable(k)'
  <2>1. /\ k = owner[f] /\ asked'[k] = Request("close", f, 0, 0)
        /\ ~Authority!Failed(k) /\ contextKnown[f]
    BY <1>2, <1>5, <1>8 DEF SentTo, AsksOf, FrameRequest, Authority!RpcOps
  <2>2. lifecycle[f] # "starting"
    BY <1>0, <1>2, <1>3, <2>1 DEF Authority!IndInv, Authority!ContextFollows, Authority!Stopped,
                                  FrameIds, Authority!FrameIds
  <2>3. State(k, f) \notin {"none", "closing"}
    BY <1>2, <1>3, <1>8, <2>1, <2>2, AgreedFacts DEF FramesHeld, Serves
  <2> QED
    BY <1>8, <2>1, <2>3 DEF Acceptable, Request, State, Rests
<1> QED
  BY <1>1, <1>2, <1>5, <1>6, <1>7, <1>8, TurnAlone

\* What is on the stack without its top was on the stack.
LEMMA PopKeepsOthers ==
    ASSUME Authority!IndInv, stack # <<>>, stack' = Authority!Pop, NEW d, Authority!OnStack(d)'
    PROVE  Authority!OnStack(d)
<1>1. /\ Len(stack) \in Nat \ {0} /\ Len(Authority!Pop) = Len(stack) - 1
      /\ \A i \in 1..(Len(stack) - 1) : Authority!Pop[i] = stack[i]
  BY Authority!PopFacts, InitialAssumption, MaxFramesAssumption DEF Authority!IndInv
<1>2. PICK i \in 1..Len(stack') : stack'[i] = d
  BY DEF Authority!OnStack
<1>3. i \in 1..Len(stack) /\ stack[i] = d
  BY <1>1, <1>2
<1> QED
  BY <1>3 DEF Authority!OnStack

\* The Frame of the lane's operation is closed, and its Runtime has, or will
\* have, no context of it.
LEMMA RecordsClose ==
    ASSUME ControlInv, Authority!Next, ~stopRequested, NEW k \in Subsystems, Rests(k),
           MainProgress(k), answer'[k] = answer[k], NEW f \in FrameIds, lane.frame = f,
           lane.op \in {"drop", "close", "unwind-close"}, Authority!CloseTop(f),
           UNCHANGED <<owner, caller>>,
           \A g \in FrameIds \ {f} : contextKnown'[g] = contextKnown[g],
           lane'.op \in {"idle", "unwind", "pop", "resume"},
           lane'.op = "pop" => lane.op # "close" /\ lane'.returned = lane.returned,
           SoundRuntime(k) /\ owner[f] = k => State(k, f) \in {"none", "closing"}
    PROVE  RecordsAgree(k)
<1>0. Authority!IndInv /\ Authority!IndInv' /\ RuntimeTypes /\ nextActivation <= nextActivation'
      /\ (link'[k] => link[k]) /\ stack # <<>>
  BY MainKeeps, LaneFrame DEF ControlInv, MainProgress, Authority!RpcOps
<1>1. \A g \in FrameIds : lifecycle'[g] = IF g = f THEN "closed" ELSE lifecycle[g]
  BY <1>0, MainTypes DEF Authority!CloseTop
<1>2. ASSUME SoundRuntime(k), NEW g \in FrameIds
      PROVE  /\ Live(g) /\ ~Live(g)' /\ owner[g] = k => State(k, g) \in {"none", "closing"}
             /\ Live(g)' /\ owner'[g] = k /\ ~contextKnown'[g] /\ ~Serves(g, {"initialize"})' =>
                    State(k, g) = "none" /\ inFlight[k].frame # g
  <2>1. AsksAgree(k) /\ ~Serves(g, {"initialize"})
    BY <1>2, AgreedFacts DEF Serves
  <2>2. CASE g = f
    BY <1>1, <1>2, <2>2 DEF Live
  <2>3. CASE g # f
    BY <1>1, <2>1, <2>3 DEF AsksAgree, Live
  <2> QED
    BY <2>2, <2>3
<1>3. ASSUME up[k], link'[k] PROVE CallersWait(k)' /\ FramesHeld(k)'
  <2>1. CallersWait(k) /\ FramesHeld(k)
    BY <1>0, <1>3, AgreedFacts
  <2>2. ASSUME NEW d \in FrameIds, Uncollected(d)' PROVE Uncollected(d)
    <3>1. CASE Authority!OnStack(d)'
      BY <1>0, <3>1, PopKeepsOthers DEF Authority!CloseTop, Uncollected
    <3>2. CASE ~Authority!OnStack(d)'
      BY <2>2, <3>2 DEF Uncollected
    <3> QED
      BY <3>1, <3>2
  <2>3. CallersWait(k)'
    BY <1>0, <2>1, <2>2, CallersGoOn
  <2>4. ASSUME NEW g \in FrameIds, owner'[g] = k
        PROVE  /\ Live(g)' /\ lifecycle'[g] # "starting"
                           /\ ~Serves(g, {"close", "unwind-close", "drop"})' =>
                      State(k, g)' \notin {"none", "closing"}
               /\ lifecycle'[g] = "active" => InControl(k, g)'
    <3>1. CASE g = f
      BY <1>1, <3>1 DEF Live
    <3>2. CASE g # f
      <4>1. ~Serves(g, {"close", "unwind-close", "drop"}) /\ lifecycle'[g] = lifecycle[g]
        BY <1>1, <3>2 DEF Serves
      <4> QED
        BY <2>1, <2>4, <4>1 DEF FramesHeld, Live, InControl, State, Rests
    <3> QED
      BY <3>1, <3>2
  <2> QED
    BY <2>3, <2>4 DEF FramesHeld
<1> QED
  BY <1>2, <1>3 DEF RecordsAgree

\* The top Frame of a failed Runtime, or without a context, leaves the stack.
LEMMA UnwindDropKeeps ==
    ASSUME ControlInv, Sends, ChannelsRest, Authority!UnwindDrop
    PROVE  ControlInv'
<1> DEFINE f == lane.frame
<1>0. Authority!IndInv /\ lane \in Authority!LaneRecords
  BY MainTypes DEF ControlInv
<1>1. Authority!Next
  BY DEF Authority!Next, Authority!UnwindStep
<1>2. /\ lane.op = "drop" /\ ~stopRequested
      /\ Authority!CloseTop(f)
      /\ UNCHANGED <<phase, link, owner, caller, contextKnown>>
  BY DEF Authority!UnwindDrop, Authority!runtimeVars, ControlInv, MainInOrder,
         Authority!NoStopInTurn
<1>3. lane'.op = "pop" /\ lane'.returned = lane.returned
  BY <1>0 DEF Authority!UnwindDrop, Authority!LaneRecords
<1>4. f \in FrameIds /\ Live(f) /\ (Authority!Failed(owner[f]) \/ ~contextKnown[f])
  BY <1>0, <1>2, LaneFrame DEF Authority!IndInv, Authority!LaneOnTop
<1>5. NoNewFailure
  BY <1>2 DEF NoNewFailure, Authority!Failed
<1>6. ASSUME NEW k \in Subsystems, MainProgress(k), Rests(k) PROVE RecordsAgree(k)
  <2>1. SoundRuntime(k) /\ owner[f] = k => State(k, f) \in {"none", "closing"}
    BY <1>2, <1>4, AgreedFacts DEF SoundRuntime, AsksAgree, Serves
  <2> QED
    BY <1>1, <1>2, <1>3, <1>4, <1>6, <2>1, RecordsClose DEF ChannelsRest
<1>7. ASSUME NEW k \in Subsystems, SentTo(k) PROVE FALSE
  BY <1>3, <1>7 DEF SentTo, AsksOf, Authority!RpcOps
<1> QED
  BY <1>1, <1>2, <1>3, <1>5, <1>6, <1>7, TurnAlone

\* unwindFailures.
LEMMA UnwindStepKeeps ==
    ASSUME ControlInv, Sends, ChannelsRest, Authority!UnwindStep
    PROVE  ControlInv'
BY UnwindLoopKeeps, UnwindPopKeeps, UnwindDropKeeps, UnwindDeliverKeeps DEF Authority!UnwindStep

----------------------------------------------------------------------------
(* Replies.                                                                *)

LEMMA ReplyAfterStopFacts ==
    ASSUME Authority!ReplyAfterStop
    PROVE  /\ Authority!Next /\ stopRequested' /\ lane'.op = "idle" /\ lane.op \in Authority!RpcOps
           /\ UNCHANGED <<phase, lifecycle, owner, caller, contextKnown, stack>>
BY DEF Authority!ReplyAfterStop, Authority!Next, Authority!Reply, Authority!Idle,
       Authority!recordVars, Authority!runtimeVars, Authority!sessionVars

LEMMA RpcFailsFacts ==
    ASSUME Authority!IndInv, Authority!RpcFails
    PROVE  /\ Authority!Next /\ lane'.op = "unwind" /\ lane.op \in Authority!RpcOps
           /\ UNCHANGED <<lifecycle, owner, caller, contextKnown, stack>>
           /\ ~link'[owner[lane.frame]]
           /\ \A k \in Subsystems :
                Authority!Failed(k)' <=> Authority!Failed(k) \/ k = owner[lane.frame]
<1>1. owner[lane.frame] \in Subsystems /\ link \in [Subsystems -> BOOLEAN]
  BY MainTypes, LaneFrame DEF Authority!RpcFails
<1>2. /\ Authority!Next /\ lane'.op = "unwind" /\ lane.op \in Authority!RpcOps
      /\ UNCHANGED <<lifecycle, owner, caller, contextKnown, stack>>
  BY DEF Authority!RpcFails, Authority!Next, Authority!Reply, Authority!Unwinding, Authority!Idle,
         Authority!recordVars
<1> QED
  BY <1>1, <1>2, MarkFailedGrows DEF Authority!RpcFails

\* The connection has ended while the RPC was in flight.
LEMMA RpcLostKeeps ==
    ASSUME ControlInv, Sends, ChannelsRest, Authority!ReplyAfterStop \/ Authority!RpcFails,
           ~link[owner[lane.frame]]
    PROVE  ControlInv'
<1>0. Authority!IndInv
  BY DEF ControlInv
<1>1. CASE Authority!ReplyAfterStop
  <2>1. Authority!Next /\ NoNewFailure /\ link' = link
    BY <1>1, ReplyAfterStopFacts
       DEF NoNewFailure, Authority!Failed, Authority!ReplyAfterStop, Authority!runtimeVars
  <2>2. MainStep /\ \A k \in Subsystems : FlightRests(k) /\ reply'[k] = reply[k]
    BY <2>1, AloneIsMainStep
  <2>3. \A k \in Subsystems : AsksOf(k) => ~link'[k]
    BY <2>1 DEF AsksOf
  <2> QED
    BY <1>1, <2>2, <2>3, ReplyAfterStopFacts, QuietMain DEF Authority!RpcOps
<1>2. CASE Authority!RpcFails
  <2>1. Authority!Next /\ NoNewFailure
    BY <1>0, <1>2, RpcFailsFacts DEF NoNewFailure
  <2>2. MainStep /\ \A k \in Subsystems : FlightRests(k) /\ reply'[k] = reply[k]
    BY <2>1, AloneIsMainStep
  <2>3. \A k \in Subsystems : AsksOf(k) => Authority!Failed(k)'
    BY <1>0, <1>2, RpcFailsFacts DEF AsksOf
  <2> QED
    BY <1>0, <1>2, <2>2, <2>3, RpcFailsFacts, QuietMain DEF Authority!RpcOps
<1> QED
  BY <1>1, <1>2

\* Main takes the reply of the Runtime that the lane waits for.
TakesReply(k) ==
    /\ k = owner[lane.frame] /\ lane.op \in Authority!RpcOps
    /\ link[k] /\ reply[k] # "none"
    /\ reply' = [reply EXCEPT ![k] = "none"]
    /\ Sends
    /\ UNCHANGED <<contextVars, answer, request, reported>>

LEMMA TakesReplyFacts ==
    ASSUME ControlInv, NEW k \in Subsystems, TakesReply(k), Authority!Next, NoNewFailure
    PROVE  /\ MainStep
           /\ \A j \in Subsystems :
                FlightRests(j) /\ reply'[j] = IF j = k THEN "none" ELSE reply[j]
           /\ \A j \in Subsystems \ {k} : ~AsksOf(j)
           /\ up[k] => asked[k] = Nothing
           /\ reply[k] = "done"
<1>0. RuntimeTypes /\ Local(k)
  BY Parts
<1>1. reply' \in [Subsystems -> {"none", "done", "refused"}]
      /\ \A j \in Subsystems : reply'[j] = IF j = k THEN "none" ELSE reply[j]
  BY <1>0 DEF TakesReply, RuntimeTypes
<1>2. MainStep /\ \A j \in Subsystems : FlightRests(j)
  BY <1>0, <1>1 DEF RuntimeTypes, TakesReply, NoNewFailure, MainStep, FlightRests
<1>3. \A j \in Subsystems \ {k} : ~AsksOf(j)
  BY DEF AsksOf, TakesReply
<1>4. (up[k] => asked[k] = Nothing) /\ reply[k] = "done"
  BY <1>0 DEF Local, TakesReply, RuntimeTypes
<1> QED
  BY <1>1, <1>2, <1>3, <1>4

\* After a stop the reply only releases the lane.
LEMMA ReplyAfterStopKeeps ==
    ASSUME ControlInv, NEW k \in Subsystems, TakesReply(k), Authority!ReplyAfterStop
    PROVE  ControlInv'
<1>1. Authority!Next /\ NoNewFailure
  BY ReplyAfterStopFacts
     DEF NoNewFailure, Authority!Failed, Authority!ReplyAfterStop, Authority!runtimeVars
<1>2. /\ MainStep
      /\ \A j \in Subsystems : FlightRests(j) /\ reply'[j] \in {reply[j], "none"}
      /\ \A j \in Subsystems : AsksOf(j) /\ up[j] => reply'[j] = "none" /\ asked[j] = Nothing
  BY <1>1, TakesReplyFacts
<1> QED
  BY <1>2, ReplyAfterStopFacts, QuietMain DEF Authority!RpcOps

\* A reply that lets the lane go on.
LEMMA ReplyTurn ==
    ASSUME ControlInv, NEW k \in Subsystems, TakesReply(k), Authority!Next, NoNewFailure,
           ~stopRequested, lane' # lane,
           \A j \in Subsystems :
                /\ MainProgress(j) /\ Rests(j) => RecordsAgree(j)
                /\ up[j] /\ link'[j] /\ link[j] /\ Rests(j) /\ SentTo(j) => Acceptable(j)'
    PROVE  ControlInv'
<1>1. /\ MainStep
      /\ \A j \in Subsystems : FlightRests(j) /\ reply'[j] = IF j = k THEN "none" ELSE reply[j]
      /\ \A j \in Subsystems \ {k} : ~AsksOf(j)
  BY TakesReplyFacts
<1>2. \A j \in Subsystems : Rests(j) /\ MainProgress(j) /\ (link'[j] => link[j])
  BY <1>1, MainStepFacts DEF MainProgress
<1>3. \A j \in Subsystems : ChannelFree(j)
  BY <1>1, <1>2, LaneLeaves DEF TakesReply
<1> QED
  BY <1>1, <1>2, <1>3, LaneTurn

\* What the reply tells: the handler has done what the lane asked for.
LEMMA ReplyTells ==
    ASSUME ControlInv, ~stopRequested, NEW k \in Subsystems, TakesReply(k), up[k]
    PROVE  Done(k, lane.frame, lane.op)
BY AgreedFacts DEF TakesReply, LaneServed, AsksOf

\* frame.initialize was accepted: frame.activate follows.
LEMMA InitializeSucceedsKeeps ==
    ASSUME ControlInv, NEW k \in Subsystems, TakesReply(k), Authority!InitializeSucceeds
    PROVE  ControlInv'
<1> DEFINE f == lane.frame
<1>0. /\ Authority!IndInv /\ RuntimeTypes /\ lane \in Authority!LaneRecords
      /\ contextKnown \in [FrameIds -> BOOLEAN]
  BY MainTypes DEF ControlInv
<1>1. Authority!Next /\ Authority!IndInv'
  BY MainKeeps DEF Authority!Next, Authority!Reply, ControlInv
<1>2. /\ lane.op = "initialize" /\ ~stopRequested
      /\ UNCHANGED <<phase, link, lifecycle, owner, caller, stack>>
      /\ contextKnown' = [contextKnown EXCEPT ![f] = TRUE]
  BY DEF Authority!InitializeSucceeds, Authority!Answered, Authority!runtimeVars
<1>3. lane'.op = "activate" /\ lane'.frame = f /\ lane'.minted = nextActivation
  BY <1>0 DEF Authority!InitializeSucceeds, Authority!LaneRecords
<1>4. f \in FrameIds /\ NoNewFailure
  BY <1>0, <1>2, LaneFrame DEF NoNewFailure, Authority!Failed, Authority!RpcOps
<1>5. ASSUME NEW j \in Subsystems, MainProgress(j), Rests(j) PROVE RecordsAgree(j)
  <2>1. ASSUME SoundRuntime(j), NEW g \in FrameIds
        PROVE  /\ Live(g) /\ ~Live(g)' /\ owner[g] = j => State(j, g) \in {"none", "closing"}
               /\ Live(g)' /\ owner'[g] = j /\ ~contextKnown'[g] /\ ~Serves(g, {"initialize"})' =>
                      State(j, g) = "none" /\ inFlight[j].frame # g
    <3>1. AsksAgree(j)
      BY <1>2, <2>1, AgreedFacts
    <3>2. ~contextKnown'[g] => g # f /\ ~contextKnown[g]
      BY <1>0, <1>2, <1>4
    <3>3. g # f => ~Serves(g, {"initialize"})
      BY DEF Serves
    <3> QED
      BY <1>2, <3>1, <3>2, <3>3 DEF AsksAgree, Live
  <2>2. ASSUME up[j], link'[j] PROVE CallersWait(j)' /\ FramesHeld(j)'
    <3>1. CallersWait(j) /\ FramesHeld(j)
      BY <1>2, <2>2, AgreedFacts
    <3>2. \A d \in FrameIds : Uncollected(d)' => Uncollected(d)
      BY <1>2, <1>3 DEF Uncollected, Authority!OnStack
    <3>3. CallersWait(j)'
      <4>1. answer'[j] = answer[j] /\ nextActivation <= nextActivation'
        BY <1>5 DEF TakesReply, MainProgress
      <4> QED
        BY <1>0, <1>1, <1>2, <1>5, <3>1, <3>2, <4>1, CallersGoOn
    <3>4. FramesHeld(j)'
      <4>1. \A g \in FrameIds : ~Serves(g, {"close", "unwind-close", "drop"})
        BY <1>2 DEF Serves
      <4>2. answer'[j] = answer[j]
        BY DEF TakesReply
      <4> QED
        BY <1>2, <1>5, <3>1, <4>1, <4>2 DEF FramesHeld, Live, InControl, State, Rests
    <3> QED
      BY <3>3, <3>4
  <2> QED
    BY <2>1, <2>2 DEF RecordsAgree
<1>6. ASSUME NEW j \in Subsystems, up[j], link[j], Rests(j), SentTo(j) PROVE Acceptable(j)'
  <2>1. j = k /\ asked'[j] = Request("activate", f, nextActivation, 0)
    BY <1>2, <1>3, <1>6 DEF SentTo, AsksOf, FrameRequest, TakesReply
  <2>2. State(k, f) = "initialized"
    BY <1>2, <1>6, <2>1, ReplyTells DEF Done
  <2> QED
    BY <1>6, <2>1, <2>2 DEF Acceptable, Request, State, Rests
<1> QED
  BY <1>1, <1>2, <1>3, <1>4, <1>5, <1>6, ReplyTurn

\* frame.activate or frame.resume was accepted: the Frame is in control.
LEMMA ActivationKeeps ==
    ASSUME ControlInv, NEW k \in Subsystems, TakesReply(k),
           Authority!ActivateSucceeds \/ Authority!ResumeSucceeds
    PROVE  ControlInv'
<1> DEFINE f == lane.frame
<1>0. /\ Authority!IndInv /\ RuntimeTypes /\ lane \in Authority!LaneRecords
      /\ lifecycle \in [FrameIds -> Authority!Lifecycles]
  BY MainTypes DEF ControlInv
<1>1. Authority!Next /\ Authority!IndInv'
  BY MainKeeps DEF Authority!Next, Authority!Reply, ControlInv
<1>2. /\ lane.op \in {"activate", "resume"} /\ ~stopRequested
      /\ UNCHANGED <<phase, link, owner, caller, contextKnown, stack>>
      /\ lifecycle' = [lifecycle EXCEPT ![f] = "active"]
      /\ lane'.op = "idle"
  BY DEF Authority!ActivateSucceeds, Authority!ResumeSucceeds, Authority!Answered,
         Authority!runtimeVars, Authority!Idle
<1>3. f \in FrameIds /\ Live(f) /\ NoNewFailure
  BY <1>0, <1>2, LaneFrame DEF NoNewFailure, Authority!Failed, Authority!RpcOps
<1>4. \A g \in FrameIds : lifecycle'[g] = IF g = f THEN "active" ELSE lifecycle[g]
  BY <1>0, <1>2
<1>5. ASSUME NEW j \in Subsystems, MainProgress(j), Rests(j) PROVE RecordsAgree(j)
  <2>1. ASSUME SoundRuntime(j), NEW g \in FrameIds
        PROVE  /\ Live(g) /\ ~Live(g)' /\ owner[g] = j => State(j, g) \in {"none", "closing"}
               /\ Live(g)' /\ owner'[g] = j /\ ~contextKnown'[g] /\ ~Serves(g, {"initialize"})' =>
                      State(j, g) = "none" /\ inFlight[j].frame # g
    <3>1. AsksAgree(j) /\ ~Serves(g, {"initialize"})
      BY <1>2, <2>1, AgreedFacts DEF Serves
    <3>2. Live(g)' <=> Live(g)
      BY <1>3, <1>4 DEF Live
    <3> QED
      BY <1>2, <3>1, <3>2 DEF AsksAgree
  <2>2. ASSUME up[j], link'[j] PROVE CallersWait(j)' /\ FramesHeld(j)'
    <3>0. answer'[j] = answer[j] /\ nextActivation <= nextActivation'
      BY <1>5 DEF TakesReply, MainProgress
    <3>1. CallersWait(j) /\ FramesHeld(j)
      BY <1>2, <2>2, AgreedFacts
    <3>2. \A d \in FrameIds : Uncollected(d)' => Uncollected(d)
      BY <1>2 DEF Uncollected, Authority!OnStack
    <3>3. CallersWait(j)'
      BY <1>0, <1>1, <1>2, <1>5, <3>0, <3>1, <3>2, CallersGoOn
    <3>4. ASSUME NEW g \in FrameIds, owner[g] = j
          PROVE  /\ Live(g)' /\ lifecycle'[g] # "starting"
                             /\ ~Serves(g, {"close", "unwind-close", "drop"})' =>
                        State(j, g)' \notin {"none", "closing"}
                 /\ lifecycle'[g] = "active" => InControl(j, g)'
      <4>1. CASE g = f
        <5>1. InControl(j, g)
          BY <1>2, <2>2, <3>4, <4>1, ReplyTells DEF Done, TakesReply
        <5> QED
          BY <1>5, <3>0, <5>1 DEF InControl, State, Rests
      <4>2. CASE g # f
        <5>1. ~Serves(g, {"close", "unwind-close", "drop"}) /\ lifecycle'[g] = lifecycle[g]
          BY <1>4, <4>2 DEF Serves
        <5> QED
          BY <1>5, <3>0, <3>1, <3>4, <5>1 DEF FramesHeld, Live, InControl, State, Rests
      <4> QED
        BY <4>1, <4>2
    <3> QED
      BY <1>2, <3>3, <3>4 DEF FramesHeld
  <2> QED
    BY <2>1, <2>2 DEF RecordsAgree
<1>6. ASSUME NEW j \in Subsystems, SentTo(j) PROVE FALSE
  BY <1>2, <1>6 DEF SentTo, AsksOf, Authority!RpcOps
<1> QED
  BY <1>1, <1>2, <1>3, <1>5, <1>6, ReplyTurn

\* frame.close was accepted: the Frame leaves the stack.
LEMMA CloseRepliesKeep ==
    ASSUME ControlInv, NEW k \in Subsystems, TakesReply(k),
           Authority!CloseSucceeds \/ Authority!UnwindCloseSucceeds
    PROVE  ControlInv'
<1> DEFINE f == lane.frame
<1>0. /\ Authority!IndInv /\ RuntimeTypes /\ PhasesOpen /\ lane \in Authority!LaneRecords
      /\ contextKnown \in [FrameIds -> BOOLEAN]
  BY MainTypes DEF ControlInv, MainInOrder
<1>1. Authority!Next
  BY DEF Authority!Next, Authority!Reply
<1>2. /\ lane.op \in {"close", "unwind-close"} /\ ~stopRequested
      /\ Authority!CloseTop(f)
      /\ UNCHANGED <<link, owner, caller>>
      /\ contextKnown' = [contextKnown EXCEPT ![f] = FALSE]
  BY DEF Authority!CloseSucceeds, Authority!UnwindCloseSucceeds, Authority!Answered,
         Authority!runtimeVars
<1>3. /\ f \in FrameIds /\ Authority!OnStack(f) /\ caller[f] \in FrameIds \cup {0}
      /\ terminal = "none"
  <2>1. f \in FrameIds /\ Live(f) /\ terminal = "none"
    BY <1>0, <1>2, LaneFrame DEF Authority!RpcOps, Authority!IndInv, Authority!LaneOnTop
  <2> QED
    BY <1>0, <2>1, MainTypes
       DEF Live, Authority!IndInv, Authority!StackDiscipline, FrameIds, Authority!FrameIds
<1>4. ASSUME lane'.op \in {"idle", "unwind", "pop", "resume"},
             lane'.op = "pop" => lane.op # "close" /\ lane'.returned = lane.returned,
             NEW j \in Subsystems, MainProgress(j), Rests(j)
      PROVE  RecordsAgree(j)
  <2>1. ASSUME SoundRuntime(j), owner[f] = j PROVE State(j, f) \in {"none", "closing"}
    BY <1>2, <2>1, ReplyTells DEF SoundRuntime, Done, TakesReply
  <2>2. \A g \in FrameIds \ {f} : contextKnown'[g] = contextKnown[g]
    BY <1>0, <1>2
  <2> QED
    BY <1>1, <1>2, <1>3, <1>4, <2>1, <2>2, RecordsClose DEF TakesReply
<1>5. CASE Authority!UnwindCloseSucceeds
  <2>1. lane'.op = "pop" /\ lane'.returned = lane.returned /\ lane.op = "unwind-close"
    BY <1>0, <1>5 DEF Authority!UnwindCloseSucceeds, Authority!LaneRecords, Authority!Answered
  <2>2. NoNewFailure
    BY <1>5 DEF Authority!UnwindCloseSucceeds, Authority!runtimeVars, NoNewFailure, Authority!Failed
  <2>3. \A j \in Subsystems : ~SentTo(j)
    BY <2>1 DEF SentTo, AsksOf, Authority!RpcOps
  <2>4. lane' # lane
    BY <2>1
  <2>5. \A j \in Subsystems : MainProgress(j) /\ Rests(j) => RecordsAgree(j)
    BY <1>4, <2>1
  <2> QED
    BY <1>1, <1>2, <2>2, <2>3, <2>4, <2>5, ReplyTurn
<1>6. CASE Authority!CloseSucceeds
  <2>0. Authority!ResumeCaller(f, outcome[f], Authority!Pop) /\ lane.op = "close"
    BY <1>6 DEF Authority!CloseSucceeds, Authority!Answered
  <2>1. \/ lane'.op \in {"idle", "unwind"}
        \/ /\ lane'.op = "resume" /\ lane'.frame = caller[f] /\ lane'.returned = f
           /\ lane'.minted = nextActivation /\ caller[f] # 0
    BY <2>0, ResumeCallerLane
  <2>2. NoNewFailure
    BY <1>0, <1>3, <2>0, ResumeCallerGrows DEF NoNewFailure
  <2>3. ASSUME NEW j \in Subsystems, up[j], link[j], Rests(j), SentTo(j) PROVE Acceptable(j)'
    <3>1. lane'.op = "resume"
      BY <2>1, <2>3 DEF SentTo, AsksOf, Authority!RpcOps
    <3>2. Uncollected(f) /\ answer'[j] = answer[j]
      BY <1>3 DEF Uncollected, TakesReply
    <3> QED
      BY <1>2, <1>3, <2>1, <2>3, <3>1, <3>2, ResumeIsAcceptable
  <2>4. lane' # lane
    BY <2>0, <2>1
  <2>5. \A j \in Subsystems : MainProgress(j) /\ Rests(j) => RecordsAgree(j)
    BY <1>4, <2>1
  <2> QED
    BY <1>1, <1>2, <2>2, <2>3, <2>4, <2>5, ReplyTurn
<1> QED
  BY <1>5, <1>6

\* Main reads a reply.
LEMMA ReplyKeeps ==
    ASSUME ControlInv, NEW k \in Subsystems, TakesReply(k),
           IF stopRequested
           THEN Authority!ReplyAfterStop
           ELSE IF reply[k] = "refused"
           THEN Authority!RpcFails
           ELSE \/ Authority!InitializeSucceeds
                \/ Authority!ActivateSucceeds
                \/ Authority!CloseSucceeds
                \/ Authority!ResumeSucceeds
                \/ Authority!UnwindCloseSucceeds
    PROVE  ControlInv'
<1>1. reply[k] # "refused"
  BY DEF ControlInv, Local
<1> QED
  BY <1>1, ReplyAfterStopKeeps, InitializeSucceedsKeeps, ActivationKeeps, CloseRepliesKeep

----------------------------------------------------------------------------
(* Ends of connections and Runtimes, as Main sees them.                    *)

LEMMA LinkEndsKeeps ==
    ASSUME ControlInv, NEW k \in Subsystems, Authority!LinkEnds(k),
           request' = [request EXCEPT ![k] = Nothing],
           reply' = [reply EXCEPT ![k] = "none"],
           reported' = [reported EXCEPT ![k] = FALSE],
           UNCHANGED <<contextVars, asked, answer, behind>>
    PROVE  ControlInv'
<1>0. RuntimeTypes /\ link \in [Subsystems -> BOOLEAN]
  BY MainTypes DEF ControlInv
<1>1. Authority!Next
  BY DEF Authority!Next, Authority!Environment
<1>2. /\ UNCHANGED <<phase, lifecycle, owner, caller, contextKnown, stack, lane>>
      /\ ~link'[k]
  BY <1>0 DEF Authority!LinkEnds, Authority!recordVars
<1>3. /\ request' \in [Subsystems -> Slot({"call", "return"})]
      /\ reply' \in [Subsystems -> {"none", "done", "refused"}]
      /\ reported' \in [Subsystems -> BOOLEAN]
      /\ answer' \in [Subsystems -> Responses]
  BY <1>0 DEF RuntimeTypes, Slot
<1>4. MainStep
  BY <1>1, <1>2, <1>3 DEF MainStep, Sends, Authority!Failed
<1>5. \A j \in Subsystems :
        /\ FlightRests(j) /\ reply'[j] \in {reply[j], "none"}
        /\ up[j] /\ link'[j] /\ ~stopRequested' => reply'[j] = reply[j]
  BY <1>0, <1>2 DEF RuntimeTypes, FlightRests
<1> QED
  BY <1>2, <1>4, <1>5, QuietMain

LEMMA StatusKeeps ==
    ASSUME ControlInv, NEW k \in Subsystems, Authority!StatusFailed(k), reported[k],
           reported' = [reported EXCEPT ![k] = FALSE],
           UNCHANGED <<contextVars, asked, answer, behind, request, reply>>
    PROVE  ControlInv'
<1>0. RuntimeTypes /\ Authority!IndInv /\ ~up[k]
  BY DEF ControlInv, Local
<1>1. Authority!Next
  BY DEF Authority!Next, Authority!Environment
<1>2. /\ UNCHANGED <<link, lifecycle, owner, caller, contextKnown, stack>>
      /\ lane.op = "idle" /\ lane'.op \in {"idle", "unwind"} /\ Authority!MarkFailed(k)
  BY DEF Authority!StatusFailed, Authority!FailRuntime, Authority!recordVars, Authority!LaneFree,
         Authority!Idle, Authority!Unwinding
<1>3. reported' \in [Subsystems -> BOOLEAN] /\ Sends
  BY <1>0, <1>2 DEF RuntimeTypes, Sends, Main!RpcOps
<1>4. MainStep
  BY <1>0, <1>1, <1>2, <1>3, MarkFailedGrows DEF MainStep, RuntimeTypes
<1>5. \A j \in Subsystems : FlightRests(j) /\ reply'[j] = reply[j] /\ ~AsksOf(j)
  BY <1>0, <1>2 DEF RuntimeTypes, FlightRests, AsksOf, Authority!RpcOps
<1> QED
  BY <1>2, <1>4, <1>5, QuietMain

----------------------------------------------------------------------------
(* Main's handlers of frame.call and frame.return.                         *)

\* The handler has the lane to itself and writes its response.
Responds(k, response) ==
    /\ lane.op = "idle" /\ link[k] /\ request[k] # Nothing
    /\ request' = [request EXCEPT ![k] = Nothing]
    /\ Writes(k, response)
    /\ response \in Responses \ {Nothing}
    /\ UNCHANGED <<contextVars, asked, behind, reply, reported>>

LEMMA RespondsFacts ==
    ASSUME ControlInv, NEW k \in Subsystems, NEW response, Responds(k, response)
    PROVE  /\ request' \in [Subsystems -> Slot({"call", "return"})]
           /\ answer' \in [Subsystems -> Responses]
           /\ request'[k] = Nothing /\ (up[k] => answer'[k] = response)
           /\ \A j \in Subsystems \ {k} : answer'[j] = answer[j] /\ request'[j] = request[j]
           /\ \A j \in Subsystems : /\ Rests(j) /\ NothingSent(j)
                                    /\ reply'[j] = reply[j] /\ reported'[j] = reported[j]
                                    /\ ~AsksOf(j)
                                    /\ up[j] /\ link[j] => asked[j] = Nothing /\ reply[j] = "none"
           /\ up[k] => inFlight[k] = request[k] /\ answer[k] = Nothing
<1>0. RuntimeTypes /\ \A j \in Subsystems : Local(j)
  BY DEF ControlInv
<1>1. request' \in [Subsystems -> Slot({"call", "return"})] /\ answer' \in [Subsystems -> Responses]
  BY <1>0 DEF RuntimeTypes, Responds, Writes, Slot
<1>2. /\ request'[k] = Nothing /\ (up[k] => answer'[k] = response)
      /\ \A j \in Subsystems \ {k} : answer'[j] = answer[j] /\ request'[j] = request[j]
  BY <1>0 DEF RuntimeTypes, Responds, Writes
<1>3. ASSUME NEW j \in Subsystems
      PROVE  /\ Rests(j) /\ NothingSent(j)
             /\ reply'[j] = reply[j] /\ reported'[j] = reported[j]
             /\ ~AsksOf(j)
             /\ up[j] /\ link[j] => asked[j] = Nothing /\ reply[j] = "none"
  BY <1>0 DEF Responds, Rests, NothingSent, AsksOf, Authority!RpcOps, Local, contextVars
<1>4. up[k] => inFlight[k] = request[k] /\ answer[k] = Nothing
  BY <1>0 DEF Responds, Local, FlightAgrees
<1> QED
  BY <1>1, <1>2, <1>3, <1>4

LEMMA RespondsLocal ==
    ASSUME ControlInv, NEW k \in Subsystems, NEW response, Responds(k, response), lane' = lane,
           MainProgress(k)
    PROVE  Local(k)'
<1>0. RuntimeTypes /\ Local(k)
  BY DEF ControlInv
<1>1. /\ request'[k] = Nothing /\ (up[k] => answer'[k] = response)
      /\ Rests(k) /\ NothingSent(k) /\ reply'[k] = reply[k] /\ reported'[k] = reported[k]
      /\ (up[k] /\ link[k] => asked[k] = Nothing /\ reply[k] = "none")
      /\ (up[k] => inFlight[k] = request[k] /\ answer[k] = Nothing)
      /\ link[k] /\ request[k] # Nothing
  BY RespondsFacts DEF Responds
<1>2. AfterAgrees(k) => AfterAgrees(k)'
  BY <1>1 DEF AfterAgrees, State, Rests
<1>3. up[k] /\ FlightAgrees(k) => FlightAgrees(k)'
  BY <1>1 DEF FlightAgrees, State, Rests
<1>4. up[k] => Acceptable(k)'
  BY <1>1 DEF Acceptable, Nothing, NothingSent
<1>5. Known(k) => Known(k)'
  BY <1>1 DEF Known, State, Rests, NothingSent, MainProgress
<1> QED
  BY <1>0, <1>1, <1>2, <1>3, <1>4, <1>5 DEF Local, Rests, NothingSent, MainProgress

\* Whoever waited for the outcome of a child goes on waiting.
LEMMA RespondsWaits ==
    ASSUME ControlInv, NEW k \in Subsystems, NEW response, Responds(k, response),
           Authority!IndInv', NEW j \in Subsystems, up[j], nextActivation <= nextActivation',
           NEW c \in FrameIds, NEW d \in FrameIds, Waits(j, c, d)
    PROVE  Waits(j, c, d)'
<1>0. RuntimeTypes /\ Authority!IndInv /\ Rests(j)
  BY RespondsFacts DEF ControlInv
<1>1. CASE j # k
  <2>1. answer'[j] = answer[j]
    BY <1>1, RespondsFacts
  <2> QED
    BY <1>0, <2>1, WaitsKept
<1>2. CASE j = k
  <2>1. IsWaiting(k, c, d) /\ context[k][c].revoked < nextActivation
    <3>1. answer[k].op = "none"
      BY <1>2, RespondsFacts DEF Nothing
    <3>2. Response("accepted", d).op = "accepted"
      BY DEF Response, Nothing
    <3> QED
      BY <1>2, <3>1, <3>2 DEF Waits, WillWait
  <2>2. context[k][c].revoked \in Nat /\ nextActivation \in Nat /\ nextActivation' \in Nat
    BY <1>0 DEF RuntimeTypes, Contexts, Authority!IndInv, Authority!TypeOK
  <2>3. IsWaiting(k, c, d)' /\ context'[k][c].revoked < nextActivation'
    BY <1>0, <1>2, <2>1, <2>2 DEF IsWaiting, State, Rests
  <2> QED
    BY <1>2, <2>3 DEF Waits
<1> QED
  BY <1>1, <1>2

\* A refusal, or an answer that the target is not available, leaves Main alone.
LEMMA RefusalKeeps ==
    ASSUME ControlInv, NEW k \in Subsystems, NEW response, Responds(k, response),
           response.op # "accepted", UNCHANGED mainVars
    PROVE  ControlInv'
<1>0. RuntimeTypes /\ Authority!IndInv /\ Local(k) /\ Agrees(k)
  BY DEF ControlInv
<1>1. /\ \A f \in FrameIds : owner'[f] = owner[f] /\ lifecycle'[f] = lifecycle[f]
      /\ Authority!Failed(k)' = Authority!Failed(k)
      /\ UNCHANGED <<link, stopRequested, nextActivation, lane, owner, caller, stack, contextKnown>>
  BY DEF mainVars, Authority!Failed
<1>2. Authority!IndInv' /\ nextActivation <= nextActivation'
  BY <1>0, <1>1, MainRests, MainTypes DEF ControlInv
<1>3. MainProgress(k)
  BY <1>0, <1>1, <1>2 DEF MainProgress, Local
<1>4. Local(k)'
  BY <1>1, <1>3, RespondsLocal
<1>5. RuntimeTypes' /\ \A j \in Subsystems \ {k} : SliceKept(j)
  <2>1. RuntimeTypes'
    BY <1>0, RespondsFacts DEF RuntimeTypes, Responds, contextVars
  <2>2. \A j \in Subsystems \ {k} : SliceKept(j)
    BY RespondsFacts DEF SliceKept, Rests, NothingSent
  <2> QED
    BY <2>1, <2>2
<1>6. /\ Rests(k) /\ NothingSent(k) /\ ~AsksOf(k) /\ (up[k] => answer'[k] = response)
  BY RespondsFacts
<1>7. ContextsLive(k) => ContextsLive(k)'
  BY <1>1, <1>6 DEF ContextsLive, Live, State, Rests, NothingSent
<1>8. AsksAgree(k) => AsksAgree(k)'
  BY <1>1, <1>6 DEF AsksAgree, AsksOf, Live, Serves, State, Rests, NothingSent
<1>9. LaneServed(k)'
  BY <1>1, <1>6 DEF LaneServed, AsksOf
<1>10. up[k] /\ CallersWait(k) => CallersWait(k)'
  <2>1. ASSUME up[k], NEW c \in FrameIds, NEW d \in FrameIds, Waits(k, c, d) PROVE Waits(k, c, d)'
    BY <1>2, <2>1, RespondsWaits
  <2> QED
    BY <1>1, <2>1 DEF CallersWait, Uncollected, Authority!OnStack
<1>11. up[k] /\ FramesHeld(k) => FramesHeld(k)'
  BY <1>1, <1>6 DEF FramesHeld, Live, Serves, InControl, State, Rests
<1>12. Agrees(k)'
  BY <1>0, <1>1, <1>6, <1>7, <1>8, <1>9, <1>10, <1>11 DEF Agrees, SoundRuntime, Rests
<1> QED
  BY <1>4, <1>5, <1>12, RuntimeMoves

\* An accepted frame.call or frame.return.
LEMMA AcceptanceKeeps ==
    ASSUME ControlInv, NEW k \in Subsystems, NEW response, Responds(k, response),
           Authority!Next, NoNewFailure, ~stopRequested, lane' = lane,
           \A j \in Subsystems : MainProgress(j) => RecordsAgree(j)
    PROVE  ControlInv'
<1>1. MainStep
  <2>1. Sends
    BY DEF Sends, Responds
  <2> QED
    BY <2>1, RespondsFacts DEF MainStep, Responds, NoNewFailure, ControlInv, RuntimeTypes
<1>2. /\ Authority!IndInv' /\ MainInOrder' /\ RuntimeTypes'
      /\ \A j \in Subsystems : MainProgress(j)
  BY <1>1, MainStepFacts
<1>3. ASSUME NEW j \in Subsystems PROVE Local(j)' /\ Agrees(j)'
  <2>1. /\ Rests(j) /\ NothingSent(j) /\ reply'[j] = reply[j] /\ reported'[j] = reported[j]
        /\ ~AsksOf(j)
        /\ up[j] /\ link[j] => asked[j] = Nothing /\ reply[j] = "none"
    BY RespondsFacts
  <2>2. Local(j)'
    <3>1. CASE j = k
      BY <1>2, <3>1, RespondsLocal
    <3>2. CASE j # k
      <4>1. FlightRests(j)
        BY <2>1, <3>2, RespondsFacts DEF FlightRests
      <4> QED
        BY <1>2, <2>1, <4>1, QuietLocal DEF NothingSent, MainProgress
    <3> QED
      BY <3>1, <3>2
  <2>3. ChannelFree(j)
    BY <1>2, <2>1, LaneLeaves DEF MainProgress
  <2>4. ~AsksOf(j)'
    BY DEF AsksOf, Authority!RpcOps, Responds
  <2>5. Agrees(j)'
    BY <1>1, <1>2, <2>3, <2>4, RecordsTurn
  <2> QED
    BY <2>2, <2>5
<1> QED
  BY <1>2, <1>3 DEF ControlInv

\* validateFrameSource: the only Frame in control, with an activation that is
\* older than any to come.
LEMMA SourceFacts ==
    ASSUME Authority!IndInv, MintedInOrder, NEW k, NEW f \in FrameIds, NEW a,
           Authority!ValidSource(k, f, a)
    PROVE  /\ owner[f] = k /\ lifecycle[f] = "active"
           /\ \A g \in FrameIds : lifecycle[g] = "active" => g = f
           /\ a = activation[f] /\ a \in 1..nextActivation /\ a < nextActivation
<1>0. FrameIds = Authority!FrameIds /\ Len(stack) \in Nat
      /\ nextActivation \in Nat /\ activation[f] \in Nat
  BY MainTypes
<1>1. /\ owner[f] = k /\ lifecycle[f] = "active" /\ a = activation[f]
      /\ f = stack[Len(stack)]
  BY DEF Authority!ValidSource, Authority!OnTop, Authority!Top
<1>2. a # 0 /\ a < nextActivation
  BY <1>0, <1>1 DEF Authority!IndInv, Authority!StackDiscipline, MintedInOrder
<1>3. ASSUME NEW g \in FrameIds, lifecycle[g] = "active" PROVE g = f
  <2>1. PICK i \in 1..Len(stack) : stack[i] = g
    BY <1>0, <1>3 DEF Authority!IndInv, Authority!StackDiscipline, Authority!OnStack
  <2>2. ~(i < Len(stack))
    BY <1>3, <2>1 DEF Authority!IndInv, Authority!StackDiscipline
  <2> QED
    BY <1>0, <1>1, <2>1, <2>2
<1> QED
  BY <1>0, <1>1, <1>2, <1>3

\* onFrameReturn, accepted: the Frame keeps its context until it is closed.
LEMMA FrameReturnKeeps ==
    ASSUME ControlInv, NEW k \in Subsystems, NEW f \in FrameIds, NEW a, NEW response,
           Responds(k, response), Authority!FrameReturn(k, f, a)
    PROVE  ControlInv'
<1>0. /\ Authority!IndInv /\ MintedInOrder /\ FrameIds = Authority!FrameIds
      /\ lifecycle \in [FrameIds -> Authority!Lifecycles]
  BY MainTypes DEF ControlInv, MainInOrder
<1>1. /\ owner[f] = k /\ lifecycle[f] = "active"
      /\ \A g \in FrameIds : lifecycle[g] = "active" => g = f
      /\ a \in 1..nextActivation
  BY <1>0, SourceFacts DEF Authority!FrameReturn
<1>2. Authority!Next /\ Authority!IndInv'
  <2>1. Authority!Next
    BY <1>0, <1>1 DEF Authority!Next, Authority!Environment
  <2> QED
    BY <2>1, MainKeeps DEF ControlInv
<1>3. /\ ~stopRequested /\ lane' = lane /\ NoNewFailure
      /\ UNCHANGED <<phase, link, owner, caller, contextKnown, stack, nextActivation>>
  BY DEF Authority!FrameReturn, Authority!runtimeVars, Authority!Stopped, Authority!counters,
         NoNewFailure, Authority!Failed
<1>4. \A g \in FrameIds : lifecycle'[g] = IF g = f THEN "closing" ELSE lifecycle[g]
  BY <1>0 DEF Authority!FrameReturn
<1>5. ASSUME NEW j \in Subsystems, MainProgress(j) PROVE RecordsAgree(j)
  <2>0. Rests(j) /\ lane.op = "idle"
    BY RespondsFacts DEF Responds
  <2>1. ASSUME SoundRuntime(j), NEW g \in FrameIds
        PROVE  /\ Live(g) /\ ~Live(g)' /\ owner[g] = j => State(j, g) \in {"none", "closing"}
               /\ Live(g)' /\ owner'[g] = j /\ ~contextKnown'[g] /\ ~Serves(g, {"initialize"})' =>
                      State(j, g) = "none" /\ inFlight[j].frame # g
    <3>1. AsksAgree(j) /\ ~Serves(g, {"initialize"})
      BY <1>3, <2>0, <2>1, AgreedFacts DEF Serves
    <3>2. Live(g)' <=> Live(g)
      BY <1>1, <1>4 DEF Live
    <3> QED
      BY <1>3, <3>1, <3>2 DEF AsksAgree
  <2>2. ASSUME up[j], link'[j] PROVE CallersWait(j)' /\ FramesHeld(j)'
    <3>1. CallersWait(j) /\ FramesHeld(j)
      BY <1>3, <2>2, AgreedFacts
    <3>2. CallersWait(j)'
      <4>1. nextActivation <= nextActivation'
        BY <1>5 DEF MainProgress
      <4>2. ASSUME NEW c \in FrameIds, NEW d \in FrameIds, Waits(j, c, d) PROVE Waits(j, c, d)'
        BY <1>2, <2>2, <4>1, <4>2, RespondsWaits
      <4> QED
        BY <1>3, <3>1, <4>2 DEF CallersWait, Uncollected, Authority!OnStack
    <3>3. ASSUME NEW g \in FrameIds, owner[g] = j
          PROVE  /\ Live(g)' /\ lifecycle'[g] # "starting"
                             /\ ~Serves(g, {"close", "unwind-close", "drop"})' =>
                        State(j, g)' \notin {"none", "closing"}
                 /\ lifecycle'[g] = "active" => InControl(j, g)'
      <4>1. ~Serves(g, {"close", "unwind-close", "drop"}) /\ State(j, g)' = State(j, g)
        BY <2>0 DEF Serves, State, Rests
      <4>2. lifecycle'[g] # "active"
        BY <1>1, <1>4
      <4>3. Live(g)' /\ lifecycle'[g] # "starting" => Live(g) /\ lifecycle[g] # "starting"
        BY <1>1, <1>4 DEF Live
      <4> QED
        BY <3>1, <3>3, <4>1, <4>2, <4>3 DEF FramesHeld
    <3> QED
      BY <1>3, <3>2, <3>3 DEF FramesHeld
  <2> QED
    BY <2>1, <2>2 DEF RecordsAgree
<1> QED
  BY <1>2, <1>3, <1>5, AcceptanceKeeps

\* The callers of the Frames on the stack are on the stack.
LEMMA CallersOnStack ==
    ASSUME Authority!IndInv, NEW d \in FrameIds, Authority!OnStack(d), caller[d] \in FrameIds
    PROVE  Live(caller[d])
<1>0. Len(stack) \in Nat /\ FrameIds = Authority!FrameIds /\ 0 \notin FrameIds
  BY MainTypes DEF FrameIds
<1>1. PICK i \in 1..Len(stack) : stack[i] = d
  BY DEF Authority!OnStack
<1>2. caller[d] = IF i = 1 THEN 0 ELSE stack[i - 1]
  BY <1>1 DEF Authority!IndInv, Authority!StackDiscipline
<1>3. i - 1 \in 1..Len(stack) /\ caller[d] = stack[i - 1]
  BY <1>0, <1>1, <1>2
<1>4. Authority!OnStack(caller[d])
  BY <1>3 DEF Authority!OnStack
<1> QED
  BY <1>0, <1>4 DEF Authority!IndInv, Authority!StackDiscipline, Live

\* onFrameCall, accepted: the caller waits for the child it is told of.
LEMMA FrameCallKeeps ==
    ASSUME ControlInv, NEW k \in Subsystems, NEW f \in FrameIds, NEW a, NEW target \in Subsystems,
           request[k].op = "call", request[k].frame = f, request[k].activation = a,
           Responds(k, Response("accepted", nextFrame)), Authority!FrameCall(k, f, a, target)
    PROVE  ControlInv'
<1> DEFINE n == nextFrame
           response == Response("accepted", n)
<1>0. /\ Authority!IndInv /\ MintedInOrder /\ RuntimeTypes /\ FrameIds = Authority!FrameIds
      /\ lifecycle \in [FrameIds -> Authority!Lifecycles]
      /\ owner \in [FrameIds -> Subsystems] /\ caller \in [FrameIds -> FrameIds \cup {0}]
      /\ stack \in Seq(FrameIds) /\ Len(stack) \in Nat
  BY MainTypes DEF ControlInv, MainInOrder
<1>1. /\ owner[f] = k /\ lifecycle[f] = "active"
      /\ \A g \in FrameIds : lifecycle[g] = "active" => g = f
      /\ a \in 1..nextActivation /\ a < nextActivation
  BY <1>0, SourceFacts DEF Authority!FrameCall
<1>2. Authority!Next /\ Authority!IndInv'
  <2>1. Authority!Next
    BY <1>0, <1>1 DEF Authority!Next, Authority!Environment
  <2> QED
    BY <2>1, MainKeeps DEF ControlInv
<1>3. /\ ~stopRequested /\ lane' = lane /\ NoNewFailure
      /\ UNCHANGED <<phase, link, contextKnown, nextActivation>>
      /\ stack' = Append(stack, n)
  BY DEF Authority!FrameCall, Authority!Allocate, Authority!runtimeVars, Authority!Stopped,
         NoNewFailure, Authority!Failed
<1>4. n \in FrameIds /\ lifecycle[n] = "absent" /\ n # f
  <2>1. n \in 1..(MaxFrames + 1) /\ n <= MaxFrames
    BY MainTypes, <1>0 DEF Authority!FrameCall
  <2>2. n \in FrameIds
    BY <2>1, MaxFramesAssumption DEF FrameIds
  <2>3. lifecycle[n] = "absent"
    BY <1>0, <2>1, <2>2 DEF Authority!IndInv, Authority!IdsInOrder
  <2> QED
    BY <1>1, <2>2, <2>3
<1>5. /\ \A g \in FrameIds : owner'[g] = IF g = n THEN target ELSE owner[g]
      /\ \A g \in FrameIds : caller'[g] = IF g = n THEN f ELSE caller[g]
      /\ \A g \in FrameIds : lifecycle'[g] = IF g = n THEN "starting"
                                             ELSE IF g = f THEN "suspended" ELSE lifecycle[g]
  BY <1>0, <1>4 DEF Authority!FrameCall, Authority!Allocate
<1>6. \A d \in FrameIds : Authority!OnStack(d)' => d = n \/ Authority!OnStack(d)
  <2>1. /\ Len(stack') = Len(stack) + 1 /\ stack'[Len(stack) + 1] = n
        /\ \A i \in 1..Len(stack) : stack'[i] = stack[i]
    BY <1>0, <1>3, <1>4
  <2> QED
    BY <1>0, <2>1 DEF Authority!OnStack
<1>7. Rests(k) /\ request[k] # Nothing /\ lane.op = "idle" /\ link[k]
      /\ (up[k] => inFlight[k] = request[k] /\ answer'[k] = response)
  <2>1. request[k] # Nothing /\ lane.op = "idle" /\ link[k]
    BY DEF Responds
  <2> QED
    BY <2>1, RespondsFacts
<1>8. ASSUME NEW j \in Subsystems, MainProgress(j) PROVE RecordsAgree(j)
  <2>0. Rests(j) /\ lane.op = "idle" /\ (link'[j] => link[j])
    BY <1>3, RespondsFacts DEF Responds
  <2>1. ASSUME SoundRuntime(j), NEW g \in FrameIds
        PROVE  /\ Live(g) /\ ~Live(g)' /\ owner[g] = j => State(j, g) \in {"none", "closing"}
               /\ Live(g)' /\ owner'[g] = j /\ ~contextKnown'[g] /\ ~Serves(g, {"initialize"})' =>
                      State(j, g) = "none" /\ inFlight[j].frame # g
    <3>1. AsksAgree(j) /\ ~Serves(g, {"initialize"}) /\ Known(j)
      BY <1>3, <2>0, <2>1, AgreedFacts DEF Serves, SoundRuntime
    <3>2. CASE g = n
      BY <1>4, <3>1, <3>2 DEF Known, Live
    <3>3. CASE g # n
      <4>1. (Live(g)' <=> Live(g)) /\ owner'[g] = owner[g] /\ contextKnown'[g] = contextKnown[g]
        BY <1>1, <1>3, <1>5, <3>3 DEF Live
      <4> QED
        BY <3>1, <4>1 DEF AsksAgree
    <3> QED
      BY <3>2, <3>3
  <2>2. ASSUME up[j], link'[j] PROVE CallersWait(j)' /\ FramesHeld(j)'
    <3>1. CallersWait(j) /\ FramesHeld(j)
      BY <1>3, <2>0, <2>2, AgreedFacts
    <3>2. ASSUME NEW c \in FrameIds, NEW d \in FrameIds, owner'[c] = j, caller'[d] = c,
                 Uncollected(d)'
          PROVE  Waits(j, c, d)'
      <4>1. Authority!OnStack(d)'
        BY <1>3, <2>0, <3>2 DEF Uncollected
      <4>2. CASE d = n
        <5>1. c = f /\ j = k
          BY <1>1, <1>4, <1>5, <3>2, <4>2
        <5>2. State(k, f) = "calling"
          <6>1. FlightAgrees(k) /\ FramesHeld(k)
            BY <1>3, <2>2, <3>1, <5>1, AgreedFacts
          <6>2. State(k, f) \in {"calling", "closing", "none"}
            BY <1>7, <2>2, <5>1, <6>1 DEF FlightAgrees
          <6>3. InControl(k, f)
            BY <1>1, <6>1 DEF FramesHeld
          <6> QED
            BY <6>2, <6>3 DEF InControl
        <5>3. State(k, c)' = "calling" /\ answer'[k] = Response("accepted", d)
          BY <1>7, <2>2, <4>2, <5>1, <5>2 DEF State, Rests
        <5>4. inFlight'[k].activation < nextActivation'
          BY <1>1, <1>3, <1>7, <2>2, <5>1 DEF Rests
        <5> QED
          BY <5>1, <5>3, <5>4 DEF Waits, WillWait
      <4>3. CASE d # n
        <5>1. Authority!OnStack(d) /\ caller[d] = c
          BY <1>5, <1>6, <3>2, <4>1, <4>3
        <5>2. c # n
          BY <1>0, <1>4, <5>1, CallersOnStack DEF Live
        <5>3. Waits(j, c, d)
          BY <1>5, <3>1, <3>2, <5>1, <5>2 DEF CallersWait, Uncollected
        <5>4. nextActivation <= nextActivation'
          BY <1>8 DEF MainProgress
        <5> QED
          BY <1>2, <2>2, <5>3, <5>4, RespondsWaits
      <4> QED
        BY <4>2, <4>3
    <3>3. ASSUME NEW g \in FrameIds, owner'[g] = j
          PROVE  /\ Live(g)' /\ lifecycle'[g] # "starting"
                             /\ ~Serves(g, {"close", "unwind-close", "drop"})' =>
                        State(j, g)' \notin {"none", "closing"}
                 /\ lifecycle'[g] = "active" => InControl(j, g)'
      <4>1. ~Serves(g, {"close", "unwind-close", "drop"}) /\ State(j, g)' = State(j, g)
        BY <2>0 DEF Serves, State, Rests
      <4>2. lifecycle'[g] # "active"
        BY <1>1, <1>5
      <4>3. Live(g)' /\ lifecycle'[g] # "starting" =>
                Live(g) /\ lifecycle[g] # "starting" /\ owner[g] = j
        BY <1>1, <1>5, <3>3 DEF Live
      <4> QED
        BY <3>1, <3>3, <4>1, <4>2, <4>3 DEF FramesHeld
    <3> QED
      BY <3>2, <3>3 DEF CallersWait, FramesHeld
  <2> QED
    BY <2>1, <2>2 DEF RecordsAgree
<1> QED
  BY <1>2, <1>3, <1>8, AcceptanceKeeps

----------------------------------------------------------------------------
(* Main is the Frame authority of FrameAuthorityProofs, step by step.      *)

LEMMA SameSteps ==
    /\ Main!RequestShutdown <=> Authority!RequestShutdown
    /\ Main!OwedStep <=> Authority!OwedStep
    /\ Main!UnwindStep <=> Authority!UnwindStep
    /\ Main!WatchControl <=> Authority!WatchControl
    /\ Main!ReplyAfterStop <=> Authority!ReplyAfterStop
    /\ Main!RpcFails <=> Authority!RpcFails
    /\ Main!InitializeSucceeds <=> Authority!InitializeSucceeds
    /\ Main!ActivateSucceeds <=> Authority!ActivateSucceeds
    /\ Main!ResumeSucceeds <=> Authority!ResumeSucceeds
    /\ Main!CloseSucceeds <=> Authority!CloseSucceeds
    /\ Main!UnwindCloseSucceeds <=> Authority!UnwindCloseSucceeds
<1>1. Main!RequestShutdown <=> Authority!RequestShutdown
  BY DEF Main!RequestShutdown, Authority!RequestShutdown, Main!Owed, Authority!Owed,
         Main!Stopped, Authority!Stopped,
         Main!recordVars, Authority!recordVars, Main!runtimeVars, Authority!runtimeVars,
         Main!counters, Authority!counters, Main!sessionVars, Authority!sessionVars
<1>2. Main!OwedStep <=> Authority!OwedStep
  BY DEF Main!OwedStep, Authority!OwedStep, Main!BeginShutdown, Authority!BeginShutdown,
         Main!StartInitialFrame, Authority!StartInitialFrame, Main!StartAcceptedChild,
         Authority!StartAcceptedChild, Main!FinalizeAcceptedReturn,
         Authority!FinalizeAcceptedReturn, Main!ResponseLost, Authority!ResponseLost,
         Main!Initialize, Authority!Initialize, Main!Allocate, Authority!Allocate, Main!EndSession,
         Authority!EndSession, Main!MarkFailed, Authority!MarkFailed, Main!Failed, Authority!Failed,
         Main!RuntimeReady, Authority!RuntimeReady, Main!Stopped, Authority!Stopped, Main!LaneFree,
         Authority!LaneFree, Main!OnTop, Authority!OnTop, Main!Top, Authority!Top, Main!Unwinding,
         Authority!Unwinding, Main!Idle, Authority!Idle, Main!Owed, Authority!Owed, Main!FrameIds,
         Authority!FrameIds, Main!recordVars, Authority!recordVars, Main!runtimeVars,
         Authority!runtimeVars, Main!counters, Authority!counters, Main!sessionVars,
         Authority!sessionVars
<1>3. Main!UnwindStep <=> Authority!UnwindStep
  BY DEF Main!UnwindStep, Authority!UnwindStep, Main!UnwindLoop, Authority!UnwindLoop,
         Main!UnwindPop, Authority!UnwindPop, Main!UnwindDrop, Authority!UnwindDrop,
         Main!UnwindDeliver, Authority!UnwindDeliver, Main!ResumeCaller, Authority!ResumeCaller,
         Main!CloseTop, Authority!CloseTop, Main!Pop, Authority!Pop, Main!DoomedPositions,
         Authority!DoomedPositions, Main!IsLowestDoomed, Authority!IsLowestDoomed, Main!RootOutcome,
         Authority!RootOutcome, Main!EndSession, Authority!EndSession, Main!MarkFailed,
         Authority!MarkFailed, Main!Failed, Authority!Failed, Main!RuntimeReady,
         Authority!RuntimeReady, Main!Stopped, Authority!Stopped, Main!OnTop, Authority!OnTop,
         Main!Top, Authority!Top, Main!Unwinding, Authority!Unwinding, Main!Idle, Authority!Idle,
         Main!recordVars, Authority!recordVars, Main!runtimeVars, Authority!runtimeVars,
         Main!counters, Authority!counters, Main!sessionVars, Authority!sessionVars
<1>4. Main!WatchControl <=> Authority!WatchControl
  BY DEF Main!WatchControl, Authority!WatchControl, Main!ControlTerminal, Authority!ControlTerminal,
         Main!FailRuntime, Authority!FailRuntime, Main!MarkFailed, Authority!MarkFailed,
         Main!Failed, Authority!Failed, Main!Stopped, Authority!Stopped, Main!LaneFree,
         Authority!LaneFree, Main!Unwinding, Authority!Unwinding, Main!Idle, Authority!Idle,
         Main!recordVars, Authority!recordVars, Main!runtimeVars, Authority!runtimeVars,
         Main!counters, Authority!counters, Main!sessionVars, Authority!sessionVars
<1>5. Main!ReplyAfterStop <=> Authority!ReplyAfterStop
  BY DEF Main!ReplyAfterStop, Authority!ReplyAfterStop, Main!RpcOps, Authority!RpcOps, Main!Idle,
         Authority!Idle, Main!recordVars, Authority!recordVars, Main!runtimeVars,
         Authority!runtimeVars, Main!counters, Authority!counters, Main!sessionVars,
         Authority!sessionVars
<1>6. Main!RpcFails <=> Authority!RpcFails
  BY DEF Main!RpcFails, Authority!RpcFails, Main!RpcOps, Authority!RpcOps, Main!MarkFailed,
         Authority!MarkFailed, Main!Unwinding, Authority!Unwinding, Main!Idle, Authority!Idle,
         Main!recordVars, Authority!recordVars, Main!runtimeVars, Authority!runtimeVars,
         Main!counters, Authority!counters, Main!sessionVars, Authority!sessionVars
<1>7. Main!InitializeSucceeds <=> Authority!InitializeSucceeds
  BY DEF Main!InitializeSucceeds, Authority!InitializeSucceeds, Main!Answered, Authority!Answered,
         Main!recordVars, Authority!recordVars, Main!runtimeVars, Authority!runtimeVars,
         Main!counters, Authority!counters, Main!sessionVars, Authority!sessionVars
<1>8. Main!ActivateSucceeds <=> Authority!ActivateSucceeds
  BY DEF Main!ActivateSucceeds, Authority!ActivateSucceeds, Main!Answered, Authority!Answered,
         Main!Idle, Authority!Idle, Main!recordVars, Authority!recordVars, Main!runtimeVars,
         Authority!runtimeVars, Main!counters, Authority!counters, Main!sessionVars,
         Authority!sessionVars
<1>9. Main!ResumeSucceeds <=> Authority!ResumeSucceeds
  BY DEF Main!ResumeSucceeds, Authority!ResumeSucceeds, Main!Answered, Authority!Answered,
         Main!Idle, Authority!Idle, Main!recordVars, Authority!recordVars, Main!runtimeVars,
         Authority!runtimeVars, Main!counters, Authority!counters, Main!sessionVars,
         Authority!sessionVars
<1>10. Main!CloseSucceeds <=> Authority!CloseSucceeds
  BY DEF Main!CloseSucceeds, Authority!CloseSucceeds, Main!Answered, Authority!Answered,
         Main!CloseTop, Authority!CloseTop, Main!Pop, Authority!Pop, Main!ResumeCaller,
         Authority!ResumeCaller, Main!EndSession, Authority!EndSession, Main!MarkFailed,
         Authority!MarkFailed, Main!Failed, Authority!Failed, Main!RuntimeReady,
         Authority!RuntimeReady, Main!Unwinding, Authority!Unwinding, Main!Idle, Authority!Idle,
         Main!recordVars, Authority!recordVars, Main!runtimeVars, Authority!runtimeVars,
         Main!counters, Authority!counters, Main!sessionVars, Authority!sessionVars
<1>11. Main!UnwindCloseSucceeds <=> Authority!UnwindCloseSucceeds
  BY DEF Main!UnwindCloseSucceeds, Authority!UnwindCloseSucceeds, Main!Answered, Authority!Answered,
         Main!CloseTop, Authority!CloseTop, Main!Pop, Authority!Pop, Main!recordVars,
         Authority!recordVars, Main!runtimeVars, Authority!runtimeVars, Main!counters,
         Authority!counters, Main!sessionVars, Authority!sessionVars
<1> QED
  BY <1>1, <1>2, <1>3, <1>4, <1>5, <1>6, <1>7, <1>8, <1>9, <1>10, <1>11

LEMMA SameRuntimeSteps ==
    ASSUME NEW k
    PROVE  /\ Main!LinkEnds(k) <=> Authority!LinkEnds(k)
           /\ Main!StatusFailed(k) <=> Authority!StatusFailed(k)
           /\ Main!PhysicalTerminated(k) <=> Authority!PhysicalTerminated(k)
           /\ Main!Failed(k) <=> Authority!Failed(k)
<1>1. Main!LinkEnds(k) <=> Authority!LinkEnds(k)
  BY DEF Main!LinkEnds, Authority!LinkEnds, Main!recordVars, Authority!recordVars, Main!runtimeVars,
         Authority!runtimeVars, Main!counters, Authority!counters, Main!sessionVars,
         Authority!sessionVars
<1>2. Main!StatusFailed(k) <=> Authority!StatusFailed(k)
  BY DEF Main!StatusFailed, Authority!StatusFailed, Main!FailRuntime, Authority!FailRuntime,
         Main!MarkFailed, Authority!MarkFailed, Main!Failed, Authority!Failed, Main!Stopped,
         Authority!Stopped, Main!LaneFree, Authority!LaneFree, Main!Unwinding, Authority!Unwinding,
         Main!Idle, Authority!Idle, Main!recordVars, Authority!recordVars, Main!runtimeVars,
         Authority!runtimeVars, Main!counters, Authority!counters, Main!sessionVars,
         Authority!sessionVars
<1>3. Main!PhysicalTerminated(k) <=> Authority!PhysicalTerminated(k)
  BY DEF Main!PhysicalTerminated, Authority!PhysicalTerminated, Main!FailRuntime,
         Authority!FailRuntime, Main!MarkFailed, Authority!MarkFailed, Main!Failed,
         Authority!Failed, Main!Stopped, Authority!Stopped, Main!LaneFree, Authority!LaneFree,
         Main!Unwinding, Authority!Unwinding, Main!Idle, Authority!Idle, Main!recordVars,
         Authority!recordVars, Main!runtimeVars, Authority!runtimeVars, Main!counters,
         Authority!counters, Main!sessionVars, Authority!sessionVars
<1>4. Main!Failed(k) <=> Authority!Failed(k)
  BY DEF Main!Failed, Authority!Failed
<1> QED
  BY <1>1, <1>2, <1>3, <1>4

LEMMA SameHandlers ==
    ASSUME NEW k, NEW f, NEW a, NEW target
    PROVE  /\ Main!FrameCall(k, f, a, target) <=> Authority!FrameCall(k, f, a, target)
           /\ Main!FrameReturn(k, f, a) <=> Authority!FrameReturn(k, f, a)
<1>1. Main!FrameCall(k, f, a, target) <=> Authority!FrameCall(k, f, a, target)
  BY DEF Main!FrameCall, Authority!FrameCall, Main!ValidSource, Authority!ValidSource, Main!OnTop,
         Authority!OnTop, Main!Top, Authority!Top, Main!LaneFree, Authority!LaneFree, Main!Stopped,
         Authority!Stopped, Main!RuntimeReady, Authority!RuntimeReady, Main!Allocate,
         Authority!Allocate, Main!Owed, Authority!Owed, Main!recordVars, Authority!recordVars,
         Main!runtimeVars, Authority!runtimeVars, Main!counters, Authority!counters,
         Main!sessionVars, Authority!sessionVars
<1>2. Main!FrameReturn(k, f, a) <=> Authority!FrameReturn(k, f, a)
  BY DEF Main!FrameReturn, Authority!FrameReturn, Main!ValidSource, Authority!ValidSource,
         Main!OnTop, Authority!OnTop, Main!Top, Authority!Top, Main!LaneFree, Authority!LaneFree,
         Main!Stopped, Authority!Stopped, Main!RuntimeReady, Authority!RuntimeReady, Main!Allocate,
         Authority!Allocate, Main!Owed, Authority!Owed, Main!recordVars, Authority!recordVars,
         Main!runtimeVars, Authority!runtimeVars, Main!counters, Authority!counters,
         Main!sessionVars, Authority!sessionVars
<1> QED
  BY <1>1, <1>2

LEMMA SameInit == Main!Init <=> Authority!Init
BY DEF Main!Init, Authority!Init, Main!FrameIds, Authority!FrameIds, Main!Idle, Authority!Idle,
       Main!Owed, Authority!Owed

----------------------------------------------------------------------------
(* Every step keeps the invariant.                                         *)

LEMMA InitControlInv == Init => ControlInv
<1> SUFFICES ASSUME Init PROVE ControlInv
  OBVIOUS
<1>1. Authority!IndInv
  BY SameInit, Authority!InitIndInv, InitialAssumption, MaxFramesAssumption DEF Init
<1>2. /\ phase = [k \in Subsystems |-> "ready"] /\ link = [k \in Subsystems |-> TRUE]
      /\ lifecycle = [f \in FrameIds |-> "absent"]
      /\ activation = [f \in FrameIds |-> 0]
      /\ stack = <<>> /\ nextActivation = 1 /\ lane.op = "idle" /\ ~stopRequested
  BY DEF Init, Main!Init, Main!Idle, Main!FrameIds, FrameIds
<1>3. Nothing.op = "none" /\ Nothing.frame = 0 /\ 0 \notin FrameIds
  BY DEF Nothing, FrameIds
<1>4. RuntimeTypes
  <2>1. NoContext \in Contexts
    BY DEF NoContext, Contexts, ContextStates
  <2> QED
    BY <2>1 DEF RuntimeTypes, Init, RuntimeInit, Slot, Responses
<1>5. MainInOrder
  BY <1>2 DEF MainInOrder, MintedInOrder, PhasesOpen, Authority!NoStopInTurn
<1>6. ASSUME NEW k \in Subsystems PROVE Local(k) /\ Agrees(k)
  <2>1. /\ up[k] /\ inFlight[k] = Nothing /\ after[k] = Nothing /\ asked[k] = Nothing
        /\ answer[k] = Nothing /\ request[k] = Nothing /\ reply[k] = "none" /\ ~reported[k]
        /\ \A f \in FrameIds : State(k, f) = "none"
    BY DEF Init, RuntimeInit, State, NoContext
  <2>2. ~Authority!Failed(k) /\ \A f \in FrameIds : ~Live(f) /\ ~Authority!OnStack(f)
    BY <1>2 DEF Authority!Failed, Live, Authority!OnStack
  <2>3. Local(k)
    BY <1>3, <2>1, <2>2 DEF Local, AfterAgrees, FlightAgrees, Acceptable, Known
  <2>4. ContextsLive(k) /\ AsksAgree(k)
    BY <1>3, <2>1, <2>2 DEF ContextsLive, AsksAgree
  <2>5. LaneServed(k) /\ CallersWait(k)
    BY <1>2, <2>2 DEF LaneServed, AsksOf, Authority!RpcOps, CallersWait, Uncollected
  <2>6. FramesHeld(k)
    BY <1>2, <2>2 DEF FramesHeld
  <2> QED
    BY <2>3, <2>4, <2>5, <2>6 DEF Agrees
<1> QED
  BY <1>1, <1>4, <1>5, <1>6 DEF ControlInv

LEMMA StutterKeeps == ControlInv /\ UNCHANGED vars => ControlInv'
<1> SUFFICES ASSUME ControlInv, UNCHANGED vars PROVE ControlInv'
  OBVIOUS
<1>1. UNCHANGED mainVars /\ UNCHANGED runtimeSideVars
  BY DEF vars
<1>2. RuntimeTypes'
  BY <1>1 DEF ControlInv, RuntimeTypes, runtimeSideVars, contextVars, wireVars
<1>3. \A k \in Subsystems : SliceKept(k)
  BY <1>1 DEF SliceKept, runtimeSideVars, contextVars, wireVars
<1> QED
  BY <1>1, <1>2, <1>3, MainRests, OthersRest DEF ControlInv

\* Main takes a frame.call, a frame.return or a status.
LEMMA HandlerTurnKeeps ==
    ASSUME ControlInv, NEW k \in Subsystems, TakeCall(k) \/ TakeReturn(k) \/ TakeStatus(k)
    PROVE  ControlInv'
<1>0. RuntimeTypes /\ Authority!IndInv
  BY DEF ControlInv
<1>1. \A c \in FrameIds \cup {0} : \A op \in Answers :
        Response(op, c) \in Responses \ {Nothing} /\ Response(op, c).op = op
  BY DEF Response, Responses, Nothing, Answers
<1>2. Nothing.op = "none" /\ 0 \in FrameIds \cup {0}
      /\ "refused" \in Answers /\ "unavailable" \in Answers /\ "accepted" \in Answers
  BY DEF Nothing, Answers
<1>3. ASSUME TakeStatus(k) PROVE ControlInv'
  BY <1>3, SameRuntimeSteps, StatusKeeps DEF TakeStatus
<1>4. ASSUME NEW op \in {"call", "return"}, NEW response \in Responses \ {Nothing},
             Takes(k, op), Writes(k, response)
      PROVE  /\ Responds(k, response)
             /\ request[k].op = op /\ request[k].frame \in FrameIds
  <2>1. request[k].op = op /\ request[k] # Nothing
    BY <1>2, <1>4 DEF Takes
  <2> QED
    BY <1>0, <1>4, <2>1, ChannelFacts DEF Takes, Responds, Main!LaneFree
<1>5. ASSUME NEW op \in {"call", "return"}, NEW answerOp \in {"refused", "unavailable"},
             Takes(k, op), Writes(k, Response(answerOp, 0)), UNCHANGED mainVars
      PROVE  ControlInv'
  <2>1. /\ Response(answerOp, 0) \in Responses \ {Nothing}
        /\ Response(answerOp, 0).op # "accepted"
    BY <1>1, <1>2
  <2>2. Responds(k, Response(answerOp, 0))
    BY <1>4, <1>5, <2>1
  <2> QED
    BY <1>5, <2>1, <2>2, RefusalKeeps
<1>6. ASSUME TakeReturn(k) PROVE ControlInv'
  <2> DEFINE f == request[k].frame
             a == request[k].activation
  <2>1. CASE Main!FrameReturn(k, f, a) /\ Writes(k, Response("accepted", 0))
    <3>1. Responds(k, Response("accepted", 0)) /\ f \in FrameIds
      BY <1>1, <1>2, <1>4, <1>6, <2>1 DEF TakeReturn
    <3>2. Authority!FrameReturn(k, f, a)
      BY <2>1, SameHandlers
    <3> QED
      BY <3>1, <3>2, FrameReturnKeeps
  <2>2. CASE Writes(k, Response("refused", 0)) /\ UNCHANGED mainVars
    BY <1>5, <1>6, <2>2 DEF TakeReturn
  <2> QED
    BY <1>6, <2>1, <2>2 DEF TakeReturn
<1>7. ASSUME TakeCall(k) PROVE ControlInv'
  <2> DEFINE f == request[k].frame
             a == request[k].activation
  <2>0. Takes(k, "call")
    BY <1>7 DEF TakeCall
  <2>1. ASSUME NEW target \in Subsystems, Main!FrameCall(k, f, a, target),
               Writes(k, Response("accepted", nextFrame))
        PROVE  ControlInv'
    <3>1. Authority!FrameCall(k, f, a, target)
      BY <2>1, SameHandlers
    <3>2. nextFrame \in FrameIds
      BY <1>0, <3>1, MainTypes, MaxFramesAssumption DEF Authority!FrameCall, FrameIds
    <3>3. Responds(k, Response("accepted", nextFrame)) /\ request[k].op = "call" /\ f \in FrameIds
      BY <1>1, <1>2, <1>4, <2>0, <2>1, <3>2
    <3> QED
      BY <3>1, <3>3, FrameCallKeeps
  <2>2. CASE Writes(k, Response("refused", 0)) /\ UNCHANGED mainVars
    BY <1>5, <2>0, <2>2
  <2>3. CASE Writes(k, Response("unavailable", 0)) /\ UNCHANGED mainVars
    BY <1>5, <2>0, <2>3
  <2> QED
    BY <1>7, <2>1, <2>2, <2>3 DEF TakeCall
<1> QED
  BY <1>3, <1>6, <1>7

\* Main's turns of the mutation lane.
LEMMA MainTurnKeeps == ControlInv /\ MainTurn => ControlInv'
<1> SUFFICES ASSUME ControlInv, MainTurn PROVE ControlInv'
  OBVIOUS
<1>0. Authority!IndInv /\ Main!RpcOps = Authority!RpcOps
  BY DEF ControlInv, Main!RpcOps, Authority!RpcOps
<1>1. CASE Alone(Main!OwedStep)
  BY <1>1, SameSteps, OwedStepKeeps DEF Alone, ChannelsRest
<1>2. CASE Alone(Main!UnwindStep)
  BY <1>2, SameSteps, UnwindStepKeeps DEF Alone, ChannelsRest
<1>3. CASE Alone(Main!WatchControl)
  BY <1>3, SameSteps, FailureKeeps DEF Alone, ChannelsRest, Authority!WatchControl
<1>4. CASE Alone(RpcLost)
  BY <1>4, SameSteps, RpcLostKeeps DEF Alone, ChannelsRest, RpcLost
<1>5. CASE TakeReply
  <2> DEFINE k == owner[lane.frame]
  <2>1. k \in Subsystems
    BY <1>0, <1>5, MainTypes, LaneFrame DEF TakeReply
  <2>2. TakesReply(k)
    BY <1>0, <1>5 DEF TakeReply, TakesReply
  <2> QED
    BY <1>5, <2>1, <2>2, SameSteps, ReplyKeeps DEF TakeReply
<1>6. CASE \E k \in Subsystems : TakeCall(k) \/ TakeReturn(k) \/ TakeStatus(k)
  BY <1>6, HandlerTurnKeeps
<1> QED
  BY <1>1, <1>2, <1>3, <1>4, <1>5, <1>6 DEF MainTurn

\* Every step of the session keeps the invariant.
LEMMA NextControlInv == ControlInv /\ [Next]_vars => ControlInv'
<1> SUFFICES ASSUME ControlInv, [Next]_vars PROVE ControlInv'
  OBVIOUS
<1>1. CASE Alone(Main!RequestShutdown)
  BY <1>1, SameSteps, RequestShutdownKeeps DEF Alone, ChannelsRest
<1>2. ASSUME NEW k \in Subsystems, LinkFollows(k) \/ LinkFault(k) PROVE ControlInv'
  BY <1>2, SameRuntimeSteps, LinkEndsKeeps DEF LinkFollows, LinkFault, LinkEnds
<1>3. ASSUME NEW k \in Subsystems, Alone(ProcessFollows(k)) PROVE ControlInv'
  BY <1>3, SameRuntimeSteps, FailureKeeps DEF Alone, ProcessFollows, ChannelsRest
<1>4. ASSUME NEW k \in Subsystems, RuntimeFollows(k) \/ RuntimeFault(k) \/ HandlerFault(k)
      PROVE  ControlInv'
  BY <1>4, RuntimeEnds DEF RuntimeFollows, RuntimeFault, HandlerFault, ReturnDuringCall
<1>5. ASSUME NEW k \in Subsystems, HandlerStep(k) PROVE ControlInv'
  BY <1>5, HandlerSteps, AfterResponseStep, ReadAnswerStep DEF HandlerStep
<1>6. ASSUME NEW k \in Subsystems, GameStep(k) PROVE ControlInv'
  BY <1>6, GameSteps DEF GameStep
<1> QED
  BY <1>1, <1>2, <1>3, <1>4, <1>5, <1>6, MainTurnKeeps, StutterKeeps
     DEF Next, Follows, Fault

\* The invariant holds in every reachable state, for any set of Runtimes and
\* any bound on the Frames.
THEOREM ControlInvariant == Spec => []ControlInv
BY InitControlInv, NextControlInv, PTL DEF Spec

\* No request of Main is ever refused by a Runtime, whatever crosses on the
\* wire, fails or is unwound.
THEOREM NoRequestRefused == Spec => []NoDivergence
<1>1. ControlInv => NoDivergence
  BY DEF ControlInv, Local, NoDivergence
<1> QED
  BY <1>1, ControlInvariant, PTL

\* A Runtime that Main counts on has contexts only of Frames that Main has given
\* it and still holds, or that it is about to destroy after a close it answered.
THEOREM NoContextStrays == Spec => []NoStrayContext
<1>1. ASSUME ControlInv, NEW k \in Subsystems, NEW f \in FrameIds, Sound(k),
             State(k, f) # "none"
      PROVE  /\ owner[f] = k
             /\ \/ Live(f)
                \/ State(k, f) = "closing" /\ after[k] = Request("close", f, 0, 0)
  <2>1. SoundRuntime(k)
    BY <1>1 DEF Sound, SoundRuntime, Main!Failed, Authority!Failed
  <2>2. Known(k) /\ AfterAgrees(k) /\ ContextsLive(k)
    BY <1>1, <2>1 DEF ControlInv, Local, Agrees, SoundRuntime
  <2>3. owner[f] = k
    BY <1>1, <2>2 DEF Known
  <2>4. Live(f) \/ State(k, f) = "closing"
    BY <1>1, <2>2 DEF ContextsLive
  <2>5. State(k, f) = "closing" => after[k] = Request("close", f, 0, 0)
    BY <2>2 DEF AfterAgrees
  <2> QED
    BY <2>3, <2>4, <2>5
<1>2. ControlInv => NoStrayContext
  BY <1>1 DEF NoStrayContext, Live
<1> QED
  BY <1>2, ControlInvariant, PTL
=============================================================================
