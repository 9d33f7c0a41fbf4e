------------------------ MODULE FrameAuthorityProofs ------------------------
(***************************************************************************)
(* Proofs about FrameAuthority, for any set of Subsystems and any bound on *)
(* the Frames.                                                             *)
(***************************************************************************)
EXTENDS FrameAuthority, SequenceTheorems, TLAPS

\* Ids grow along the stack, and exactly the ids below nextFrame are allocated.
IdsInOrder ==
    /\ \A i, j \in 1..Len(stack) : i < j => stack[i] < stack[j]
    /\ \A f \in FrameIds : lifecycle[f] = "absent" <=> f >= nextFrame
    /\ \A f \in FrameIds : f < nextFrame => (caller[f] = 0 <=> f = 1)
    /\ \A f \in FrameIds : lifecycle[f] = "absent" =>
            outcome[f] = "none" /\ ~contextKnown[f] /\ ~closeAttempted[f]

\* What the lane's operation knows of the stack while it waits.
LaneOnTop ==
    /\ lane.op \in {"initialize", "activate"} =>
            OnTop(lane.frame) /\ lifecycle[lane.frame] = "starting"
    /\ lane.op \in {"activate", "resume"} => lane.minted # 0
    /\ lane.op = "resume" =>
            OnTop(lane.frame) /\ lifecycle[lane.frame] = "suspended"
    /\ lane.op \in {"close", "unwind-close", "drop"} =>
            OnTop(lane.frame) /\ lifecycle[lane.frame] = "closing"
    /\ lane.op = "close" => outcome[lane.frame] # "none"
    /\ lane.op = "drop" => Failed(owner[lane.frame]) \/ ~contextKnown[lane.frame]
    /\ terminal # "none" => lane.op = "idle"

\* What an unwind keeps of its root: the Frames under it do not change.
UnwindRoot ==
    /\ lane.op \in {"pop", "drop", "unwind-close"} =>
            /\ lane.returned \in 1..(nextFrame - 1)
            /\ lane.below <= Len(stack)
            /\ caller[lane.returned] = IF lane.below = 0 THEN 0 ELSE stack[lane.below]
    /\ lane.op \in {"drop", "unwind-close"} => lane.below < Len(stack)
    /\ lane.op = "pop" /\ Len(stack) = lane.below /\ lane.below > 0 =>
            lifecycle[stack[lane.below]] = "suspended"
    /\ lane.op = "resume" => lane.returned \in 1..(nextFrame - 1)
    /\ lane.op \in {"pop", "drop", "unwind-close", "resume"} =>
            lane.outcome = Committed(lane.returned)

\* What the queued operations find when their turn comes.
OwedInOrder ==
    /\ \A o \in owed : o.op \in {"start", "finalize"} => o.frame \in 1..(nextFrame - 1)
    /\ \A o \in owed : o.op = "finalize" =>
            outcome[o.frame] # "none" /\ lifecycle[o.frame] \in {"closing", "closed"}
    /\ \A o \in owed : o.op = "initial" => o = Owed("initial", 0) /\ nextFrame = 1

\* A close is sent once: the Frame it named is closed, its Runtime has failed,
\* the session has stopped, or the reply is still awaited.
CloseOnce ==
    ~Stopped => \A f \in FrameIds :
        closeAttempted[f] /\ lifecycle[f] # "closed" /\ ~Failed(owner[f]) =>
            lane.op \in {"close", "unwind-close"} /\ lane.frame = f

\* A starting Frame has no known context, but for the await of frame.activate.
ContextFollows ==
    ~Stopped => \A f \in FrameIds :
        lifecycle[f] = "starting" /\ contextKnown[f] /\ ~Failed(owner[f]) =>
            lane.op = "activate" /\ lane.frame = f

IndInv ==
    /\ TypeOK
    /\ StackDiscipline
    /\ IdsInOrder
    /\ LaneOnTop
    /\ UnwindRoot
    /\ OwedInOrder
    /\ CloseOnce
    /\ ContextFollows
    /\ NoOrphanContext
    /\ OutcomeSurvives
    /\ NoAuthorityDivergence

----------------------------------------------------------------------------
\* The stack without its top.
LEMMA PopFacts ==
    ASSUME TypeOK, stack # <<>>
    PROVE  /\ Len(stack) \in Nat \ {0}
           /\ Pop \in Seq(FrameIds)
           /\ Len(Pop) = Len(stack) - 1
           /\ \A i \in 1..(Len(stack) - 1) : Pop[i] = stack[i]
           /\ \A i \in 1..Len(stack) : stack[i] \in FrameIds
           /\ Top \in FrameIds
<1>1. Len(stack) \in Nat \ {0} /\ \A i \in 1..Len(stack) : stack[i] \in FrameIds
  BY DEF TypeOK
<1>2. \A i \in 1..(Len(stack) - 1) : stack[i] \in FrameIds
  BY <1>1
<1>3. /\ Pop \in Seq(FrameIds)
      /\ Len(Pop) = Len(stack) - 1
      /\ \A i \in 1..(Len(stack) - 1) : Pop[i] = stack[i]
  <2> DEFINE n == Len(stack) - 1
  <2>1. 1 \in Int /\ n \in Int /\ \A i \in 1..n : stack[i] \in FrameIds
    BY <1>1, <1>2
  <2> HIDE DEF n
  <2>2. /\ SubSeq(stack, 1, n) \in Seq(FrameIds)
        /\ Len(SubSeq(stack, 1, n)) = IF 1 <= n THEN n - 1 + 1 ELSE 0
        /\ \A i \in 1..(n - 1 + 1) : SubSeq(stack, 1, n)[i] = stack[1 + i - 1]
    BY <2>1, SubSeqProperties
  <2>3. Pop = SubSeq(stack, 1, n)
    BY DEF Pop, n
  <2>4. n \in Nat
    BY <1>1 DEF n
  <2>5. \A i \in 1..n : Pop[i] = stack[i]
    <3> TAKE i \in 1..n
    <3>1. i \in 1..(n - 1 + 1) /\ 1 + i - 1 = i
      BY <2>4
    <3> QED
      BY <2>2, <2>3, <3>1
  <2>6. Len(Pop) = n
    BY <2>2, <2>3, <2>4
  <2> QED
    BY <2>2, <2>3, <2>5, <2>6 DEF n
<1> QED
  BY <1>1, <1>3 DEF Top

\* The stack with one Frame more.
LEMMA PushFacts ==
    ASSUME TypeOK, NEW f \in FrameIds
    PROVE  /\ Append(stack, f) \in Seq(FrameIds)
           /\ Len(Append(stack, f)) = Len(stack) + 1
           /\ Append(stack, f)[Len(stack) + 1] = f
           /\ \A i \in 1..Len(stack) : Append(stack, f)[i] = stack[i]
BY DEF TypeOK

\* The invariant holds when the Frame authority starts.
LEMMA InitIndInv == Init => IndInv
<1> SUFFICES ASSUME Init PROVE IndInv
    OBVIOUS
<1> USE InitialAssumption, MaxFramesAssumption DEF Init
<1>1. TypeOK
  <2>1. lane \in LaneRecords
    BY DEF Idle, LaneRecords, LaneOps
  <2>2. owed \subseteq OwedOps
    BY DEF Owed, OwedOps
  <2>3. /\ phase \in [Subsystems -> Phases]
        /\ link \in [Subsystems -> BOOLEAN]
        /\ nextFrame \in 1..(MaxFrames + 1)
        /\ stack \in Seq(FrameIds)
        /\ terminal \in Terminals
    BY DEF Phases, Terminals
  <2>4. /\ lifecycle \in [FrameIds -> Lifecycles]
        /\ owner \in [FrameIds -> Subsystems]
        /\ caller \in [FrameIds -> FrameIds \cup {0}]
        /\ activation \in [FrameIds -> Nat]
        /\ outcome \in [FrameIds -> Outcomes \cup {"none"}]
        /\ contextKnown \in [FrameIds -> BOOLEAN]
        /\ closeAttempted \in [FrameIds -> BOOLEAN]
    BY DEF Lifecycles, Outcomes
  <2>5. nextActivation \in Nat \ {0}
    OBVIOUS
  <2>6. stopRequested \in BOOLEAN
    OBVIOUS
  <2> QED
    BY ONLY <2>1, <2>2, <2>3, <2>4, <2>5, <2>6 DEF TypeOK
<1>2. StackDiscipline
  BY DEF StackDiscipline, OnStack, FrameIds
<1>3. IdsInOrder
  BY DEF IdsInOrder, FrameIds
<1>4. LaneOnTop /\ UnwindRoot /\ CloseOnce /\ ContextFollows /\ NoOrphanContext
  BY DEF LaneOnTop, UnwindRoot, CloseOnce, ContextFollows, NoOrphanContext, Idle
<1>5. OwedInOrder
  BY DEF OwedInOrder, Owed
<1>6. OutcomeSurvives /\ NoAuthorityDivergence
  BY DEF OutcomeSurvives, NoAuthorityDivergence, Idle, Outcomes
<1> QED
  BY <1>1, <1>2, <1>3, <1>4, <1>5, <1>6 DEF IndInv

USE DEF recordVars, runtimeVars, counters, sessionVars

\* Steps that touch no Frame record, no stack and no counter.
LEMMA QuietStep ==
    IndInv /\ UNCHANGED <<recordVars, stack, counters>> => StackDiscipline' /\ IdsInOrder'
BY DEF IndInv, StackDiscipline, IdsInOrder, OnStack

\* EndSession leaves a terminal session with no lane operation to protect.
LEMMA EndSessionTypes ==
    ASSUME TypeOK, NEW t \in Terminals, EndSession(t)
    PROVE  /\ terminal' \in Terminals
           /\ phase' \in [Subsystems -> Phases]
           /\ \A k \in Subsystems : Failed(k)' <=> Failed(k)
BY DEF TypeOK, EndSession, Phases, Failed

\* A shutdown request keeps the invariant whatever holds the lane.
LEMMA RequestShutdownStep == IndInv /\ RequestShutdown => IndInv'
<1> SUFFICES ASSUME IndInv, RequestShutdown PROVE IndInv'
    OBVIOUS
<1> USE DEF IndInv, RequestShutdown
<1>1. TypeOK'
  BY DEF TypeOK, OwedOps, Owed
<1>2. StackDiscipline' /\ IdsInOrder'
  BY QuietStep
<1>3. LaneOnTop' /\ UnwindRoot' /\ OwedInOrder'
  BY DEF LaneOnTop, UnwindRoot, OwedInOrder, Owed, Failed, OnTop, Top, Committed
<1>4. CloseOnce' /\ ContextFollows'
  BY DEF CloseOnce, ContextFollows, Stopped
<1>5. NoOrphanContext' /\ OutcomeSurvives' /\ NoAuthorityDivergence'
  BY DEF NoOrphanContext, OutcomeSurvives, NoAuthorityDivergence, Failed, Committed
<1> QED
  BY <1>1, <1>2, <1>3, <1>4, <1>5

\* Losing a connection keeps the invariant whatever holds the lane.
LEMMA LinkEndsStep == ASSUME NEW k \in Subsystems, IndInv, LinkEnds(k) PROVE IndInv'
<1> USE DEF IndInv, LinkEnds
<1>1. TypeOK'
  BY DEF TypeOK
<1>2. StackDiscipline' /\ IdsInOrder'
  BY QuietStep
<1>3. LaneOnTop' /\ UnwindRoot' /\ OwedInOrder'
  BY DEF LaneOnTop, UnwindRoot, OwedInOrder, Owed, Failed, OnTop, Top, Committed
<1>4. CloseOnce' /\ ContextFollows'
  BY DEF CloseOnce, ContextFollows, Stopped, Failed
<1>5. NoOrphanContext' /\ OutcomeSurvives' /\ NoAuthorityDivergence'
  BY DEF NoOrphanContext, OutcomeSurvives, NoAuthorityDivergence, Failed, Committed
<1> QED
  BY <1>1, <1>2, <1>3, <1>4, <1>5

\* StatusFailed, ControlTerminal and PhysicalTerminated.
LEMMA FailRuntimeStep ==
    ASSUME NEW k \in Subsystems, IndInv, LaneFree, FailRuntime(k) PROVE IndInv'
<1> USE DEF IndInv, FailRuntime, MarkFailed
<1>1. lane' \in LaneRecords /\ lane'.op \in {"idle", "unwind"}
      /\ (terminal # "none" => lane'.op = "idle")
  BY DEF Unwinding, Idle, LaneRecords, LaneOps, Stopped
<1>2. phase' \in [Subsystems -> Phases] /\ \A x \in Subsystems : Failed(x) => Failed(x)'
  BY DEF TypeOK, Phases, Failed
<1>3. TypeOK'
  BY <1>1, <1>2 DEF TypeOK
<1>4. StackDiscipline' /\ IdsInOrder'
  BY QuietStep
<1>5. LaneOnTop' /\ UnwindRoot' /\ OwedInOrder'
  BY <1>1 DEF LaneOnTop, UnwindRoot, OwedInOrder
<1>6. CloseOnce' /\ ContextFollows' /\ NoOrphanContext'
  BY <1>1, <1>2 DEF CloseOnce, ContextFollows, NoOrphanContext, LaneFree, Stopped, TypeOK
<1>7. OutcomeSurvives' /\ NoAuthorityDivergence'
  BY <1>1 DEF OutcomeSurvives, NoAuthorityDivergence, Committed
<1> QED
  BY <1>3, <1>4, <1>5, <1>6, <1>7

\* AuthorityFatal and BeginShutdown: the session ends on a free lane.
LEMMA EndOnFreeLaneStep ==
    ASSUME IndInv, LaneFree, NEW t \in {"fatal", "shutdown"}, EndSession(t),
           owed' \subseteq owed,
           UNCHANGED <<link, recordVars, stack, counters, lane, stopRequested>>
    PROVE  IndInv'
<1> USE DEF IndInv
<1>1. /\ terminal' \in Terminals
      /\ phase' \in [Subsystems -> Phases]
      /\ \A x \in Subsystems : Failed(x)' <=> Failed(x)
      /\ terminal' # "none"
      /\ terminal' \in {terminal, t}
  BY EndSessionTypes DEF Terminals, EndSession
<1>2. TypeOK'
  BY <1>1 DEF TypeOK
<1>3. StackDiscipline' /\ IdsInOrder'
  BY QuietStep
<1>4. LaneOnTop' /\ UnwindRoot' /\ OwedInOrder'
  BY <1>1 DEF LaneOnTop, UnwindRoot, OwedInOrder, LaneFree
<1>5. CloseOnce' /\ ContextFollows' /\ NoOrphanContext'
  BY <1>1 DEF CloseOnce, ContextFollows, NoOrphanContext, Stopped, TypeOK
<1>6. OutcomeSurvives' /\ NoAuthorityDivergence'
  BY <1>1 DEF OutcomeSurvives, NoAuthorityDivergence, Committed, LaneFree, Outcomes
<1> QED
  BY <1>2, <1>3, <1>4, <1>5, <1>6

\* Accepting a frame.return keeps the invariant.
LEMMA FrameReturnStep ==
    ASSUME NEW k \in Subsystems, NEW f \in FrameIds, NEW a \in Nat, IndInv, FrameReturn(k, f, a)
    PROVE  IndInv'
<1> USE DEF IndInv, FrameReturn, ValidSource
<1>0. f < nextFrame /\ f = Top /\ stack # <<>> /\ terminal = "none" /\ lane.op = "idle"
  BY DEF IdsInOrder, OnTop, TypeOK, Stopped, LaneFree, FrameIds
<1>1. TypeOK'
  BY DEF TypeOK, OwedOps, Owed, Lifecycles, Outcomes
<1>2. StackDiscipline'
  BY <1>0, PopFacts DEF StackDiscipline, IdsInOrder, OnStack, TypeOK, Top
<1>3. IdsInOrder'
  BY <1>0 DEF IdsInOrder, TypeOK
<1>4. LaneOnTop' /\ UnwindRoot'
  BY <1>0 DEF LaneOnTop, UnwindRoot
<1>5. OwedInOrder'
  BY <1>0 DEF OwedInOrder, TypeOK, OwedOps, Owed, FrameIds
<1>6. CloseOnce' /\ ContextFollows' /\ NoOrphanContext'
  BY <1>0 DEF CloseOnce, ContextFollows, NoOrphanContext, Stopped, TypeOK, Failed
<1>7. OutcomeSurvives' /\ NoAuthorityDivergence'
  BY <1>0 DEF OutcomeSurvives, NoAuthorityDivergence, Outcomes
<1> QED
  BY <1>1, <1>2, <1>3, <1>4, <1>5, <1>6, <1>7

\* Accepting a frame.call keeps the invariant.
LEMMA FrameCallStep ==
    ASSUME NEW k \in Subsystems, NEW f \in FrameIds, NEW a \in Nat, NEW target \in Subsystems,
           IndInv, FrameCall(k, f, a, target)
    PROVE  IndInv'
<1> USE DEF IndInv, FrameCall, ValidSource, Allocate
<1> DEFINE g == nextFrame
<1>0. /\ g \in FrameIds /\ f < g /\ f # g
      /\ f = Top /\ stack # <<>> /\ terminal = "none" /\ lane.op = "idle"
      /\ f = stack[Len(stack)] /\ lifecycle[g] = "absent"
  BY MaxFramesAssumption DEF IdsInOrder, OnTop, TypeOK, Stopped, LaneFree, FrameIds, Top
<1>1. TypeOK'
  <2>1. stack' \in Seq(FrameIds)
    BY <1>0, PushFacts
  <2>2. nextFrame' \in 1..(MaxFrames + 1)
    BY MaxFramesAssumption DEF TypeOK
  <2>3. owed' \subseteq OwedOps
    BY <1>0 DEF TypeOK, OwedOps, Owed
  <2> QED
    BY <1>0, <2>1, <2>2, <2>3 DEF TypeOK, Lifecycles
<1>2. StackDiscipline'
  <2>1. \A i \in 1..Len(stack) : stack[i] \in FrameIds /\ stack[i] # g /\ stack'[i] = stack[i]
    BY <1>0, PopFacts, PushFacts DEF StackDiscipline, OnStack
  <2>2. Len(stack') = Len(stack) + 1 /\ stack'[Len(stack) + 1] = g /\ Len(stack) \in Nat \ {0}
    BY <1>0, PopFacts, PushFacts
  <2>3. \A i \in 1..Len(stack') :
            /\ caller'[stack'[i]] = IF i = 1 THEN 0 ELSE stack'[i - 1]
            /\ i < Len(stack') => lifecycle'[stack'[i]] = "suspended"
    <3> SUFFICES ASSUME NEW i \in 1..Len(stack')
                 PROVE  /\ caller'[stack'[i]] = IF i = 1 THEN 0 ELSE stack'[i - 1]
                        /\ i < Len(stack') => lifecycle'[stack'[i]] = "suspended"
        OBVIOUS
    <3>1. CASE i = Len(stack) + 1
      <4>1. stack'[i] = g /\ i # 1 /\ ~(i < Len(stack'))
        BY <2>2, <3>1
      <4>2. stack'[i - 1] = f
        BY <1>0, <2>1, <2>2, <3>1
      <4>3. caller'[g] = f
        BY <1>0 DEF TypeOK
      <4> QED
        BY <4>1, <4>2, <4>3
    <3>2. CASE i \in 1..Len(stack)
      <4>1. stack'[i] = stack[i] /\ stack[i] # g /\ stack[i] \in FrameIds
        BY <2>1, <3>2
      <4>2. caller'[stack[i]] = IF i = 1 THEN 0 ELSE stack[i - 1]
        BY <3>2, <4>1 DEF TypeOK, StackDiscipline
      <4>3. i # 1 => stack'[i - 1] = stack[i - 1]
        BY <2>1, <3>2
      <4>4. lifecycle'[stack[i]] = "suspended"
        <5>1. CASE i = Len(stack)
          BY <1>0, <5>1 DEF TypeOK
        <5>2. CASE i < Len(stack)
          BY <3>2, <4>1, <5>2 DEF TypeOK, StackDiscipline
        <5> QED
          BY <3>2, <5>1, <5>2
      <4> QED
        BY <4>1, <4>2, <4>3, <4>4
    <3> QED
      BY <2>2, <3>1, <3>2
  <2>4. \A x \in FrameIds : OnStack(x)' <=> lifecycle'[x] \notin {"absent", "closed"}
    <3>1. \A x \in FrameIds : OnStack(x)' <=> OnStack(x) \/ x = g
      BY <2>1, <2>2 DEF OnStack
    <3> QED
      BY <1>0, <3>1 DEF StackDiscipline, TypeOK
  <2>5. \A x \in FrameIds : activation'[x] # 0 <=> lifecycle'[x] = "active"
    BY <1>0 DEF StackDiscipline, TypeOK
  <2> QED
    BY <2>3, <2>4, <2>5 DEF StackDiscipline, OnStack
<1>3. IdsInOrder'
  <2>1. \A i \in 1..Len(stack) : stack[i] \in FrameIds /\ stack[i] < g /\ stack'[i] = stack[i]
    BY <1>0, PopFacts, PushFacts DEF StackDiscipline, OnStack, IdsInOrder, TypeOK, FrameIds
  <2>2. Len(stack') = Len(stack) + 1 /\ stack'[Len(stack) + 1] = g /\ Len(stack) \in Nat \ {0}
    BY <1>0, PopFacts, PushFacts
  <2>3. \A i, j \in 1..Len(stack') : i < j => stack'[i] < stack'[j]
    <3> SUFFICES ASSUME NEW i \in 1..Len(stack'), NEW j \in 1..Len(stack'), i < j
                 PROVE  stack'[i] < stack'[j]
        OBVIOUS
    <3> HIDE DEF FrameCall, Allocate
    <3>1. i \in 1..Len(stack) /\ (j = Len(stack) + 1 \/ j \in 1..Len(stack))
      BY <2>2
    <3>2. CASE j = Len(stack) + 1
      BY <2>1, <2>2, <3>1, <3>2
    <3>3. CASE j \in 1..Len(stack)
      BY <2>1, <3>1, <3>3 DEF IdsInOrder
    <3> QED
      BY <3>1, <3>2, <3>3
  <2>4. \A x \in FrameIds : /\ lifecycle'[x] = "absent" <=> x >= g + 1
                            /\ x < g + 1 => (caller'[x] = 0 <=> x = 1)
    BY <1>0 DEF IdsInOrder, TypeOK, FrameIds
  <2> QED
    BY <1>0, <2>3, <2>4 DEF IdsInOrder, TypeOK
<1>4. LaneOnTop' /\ UnwindRoot'
  BY <1>0 DEF LaneOnTop, UnwindRoot
<1>5. OwedInOrder'
  <2>1. \A o \in owed : /\ o.op # "initial"
                        /\ o.op \in {"start", "finalize"} => o.frame \in 1..nextFrame
    BY <1>0 DEF OwedInOrder, FrameIds, TypeOK
  <2>2. \A o \in owed : o.op = "finalize" =>
            outcome'[o.frame] # "none" /\ lifecycle'[o.frame] \in {"closing", "closed"}
    <3> SUFFICES ASSUME NEW o \in owed, o.op = "finalize"
                 PROVE  outcome'[o.frame] # "none" /\ lifecycle'[o.frame] \in {"closing", "closed"}
        OBVIOUS
    <3>1. /\ outcome[o.frame] # "none" /\ lifecycle[o.frame] \in {"closing", "closed"}
          /\ o.frame \in 1..(g - 1)
      BY DEF OwedInOrder
    <3>2. outcome' = outcome /\ \A x \in FrameIds : x # f /\ x # g => lifecycle'[x] = lifecycle[x]
      BY DEF TypeOK
    <3>3. g \in 1..MaxFrames /\ lifecycle[f] = "active"
      BY <1>0 DEF FrameIds
    <3> HIDE DEF FrameCall, Allocate, IndInv
    <3>4. o.frame \in FrameIds /\ o.frame # g
      BY <3>1, <3>3, MaxFramesAssumption DEF FrameIds
    <3> QED
      BY <3>1, <3>2, <3>3, <3>4
  <2>3. owed' = owed \cup {Owed("start", g)} /\ nextFrame' = g + 1 /\ g \in Nat \ {0}
    BY DEF TypeOK
  <2>4. Owed("start", g).op = "start" /\ Owed("start", g).frame = g
    BY DEF Owed
  <2> HIDE DEF FrameCall, Allocate
  <2> QED
    BY <2>1, <2>2, <2>3, <2>4 DEF OwedInOrder
<1>6. CloseOnce' /\ ContextFollows' /\ NoOrphanContext'
  BY <1>0 DEF CloseOnce, ContextFollows, NoOrphanContext, IdsInOrder, Stopped, TypeOK, Failed
<1>7. OutcomeSurvives' /\ NoAuthorityDivergence'
  BY <1>0 DEF OutcomeSurvives, NoAuthorityDivergence, Outcomes
<1> QED
  BY <1>1, <1>2, <1>3, <1>4, <1>5, <1>6, <1>7

\* An operation cancelled with its response keeps the invariant.
LEMMA ResponseLostStep ==
    ASSUME NEW o \in owed, IndInv, ResponseLost(o) PROVE IndInv'
<1> USE DEF IndInv, ResponseLost
<1>1. TypeOK'
  BY DEF TypeOK
<1>2. StackDiscipline' /\ IdsInOrder'
  BY QuietStep
<1>3. LaneOnTop' /\ UnwindRoot' /\ OwedInOrder'
  BY DEF LaneOnTop, UnwindRoot, OwedInOrder, Failed, OnTop, Top, Committed
<1>4. CloseOnce' /\ ContextFollows' /\ NoOrphanContext'
  BY DEF CloseOnce, ContextFollows, NoOrphanContext, Stopped, Failed
<1>5. OutcomeSurvives' /\ NoAuthorityDivergence'
  BY DEF OutcomeSurvives, NoAuthorityDivergence, Committed
<1> QED
  BY <1>1, <1>2, <1>3, <1>4, <1>5

\* Allocating the root Frame keeps the invariant.
LEMMA StartInitialFrameStep ==
    ASSUME NEW o \in owed, IndInv, StartInitialFrame(o) PROVE IndInv'
<1> USE DEF IndInv, StartInitialFrame
<1>0. nextFrame = 1 /\ lane.op = "idle"
  BY DEF OwedInOrder, LaneFree
<1>1. CASE Stopped
  <2>1. TypeOK'
    BY <1>1 DEF TypeOK
  <2>2. StackDiscipline' /\ IdsInOrder'
    BY <1>1, QuietStep
  <2>3. LaneOnTop' /\ UnwindRoot' /\ OwedInOrder'
    BY <1>0, <1>1 DEF LaneOnTop, UnwindRoot, OwedInOrder
  <2>4. CloseOnce' /\ ContextFollows' /\ NoOrphanContext' /\ OutcomeSurvives'
        /\ NoAuthorityDivergence'
    BY <1>1 DEF CloseOnce, ContextFollows, NoOrphanContext, Stopped, Failed, OutcomeSurvives,
                NoAuthorityDivergence, Committed
  <2> QED
    BY <2>1, <2>2, <2>3, <2>4
<1>2. CASE ~Stopped /\ ~RuntimeReady(Initial)
  BY <1>2, EndOnFreeLaneStep
<1>3. CASE ~Stopped /\ RuntimeReady(Initial)
  <2>0. /\ 1 \in FrameIds
        /\ \A x \in FrameIds : lifecycle[x] = "absent"
        /\ \A x \in FrameIds : ~OnStack(x)
    BY <1>0, MaxFramesAssumption DEF FrameIds, IdsInOrder, StackDiscipline
  <2>1. stack = <<>>
    BY <2>0, PopFacts DEF OnStack
  <2>2. /\ lifecycle' = [lifecycle EXCEPT ![1] = "starting"]
        /\ owner' = [owner EXCEPT ![1] = Initial]
        /\ caller' = [caller EXCEPT ![1] = 0]
        /\ stack' = Append(stack, 1)
        /\ nextFrame' = 2
        /\ lane' = [Idle EXCEPT !.op = "initialize", !.frame = 1]
        /\ owed' = owed \ {o}
        /\ o = Owed("initial", 0)
        /\ UNCHANGED <<phase, link, activation, outcome, contextKnown, closeAttempted,
                       nextActivation, terminal, stopRequested>>
    BY <1>0, <1>3 DEF Allocate, Initialize, OwedInOrder
  <2> HIDE DEF StartInitialFrame
  <2>3. Len(stack') = 1 /\ stack'[1] = 1 /\ stack' \in Seq(FrameIds)
    BY <2>0, <2>1, <2>2, PushFacts
  <2>4. lane' \in LaneRecords /\ lane'.op = "initialize" /\ lane'.frame = 1
    BY <2>0, <2>2 DEF Idle, LaneRecords, LaneOps, RpcOps
  <2>5. TypeOK'
    <3>1. nextFrame' \in 1..(MaxFrames + 1)
      BY <2>2, MaxFramesAssumption
    <3>2. /\ lifecycle' \in [FrameIds -> Lifecycles]
          /\ owner' \in [FrameIds -> Subsystems]
          /\ caller' \in [FrameIds -> FrameIds \cup {0}]
      BY <2>2, InitialAssumption DEF TypeOK, Lifecycles
    <3> QED
      BY <2>2, <2>3, <2>4, <3>1, <3>2 DEF TypeOK
  <2>6. StackDiscipline'
    <3>1. \A x \in FrameIds : OnStack(x)' <=> x = 1
      BY <2>3 DEF OnStack
    <3> QED
      BY <2>0, <2>2, <2>3, <3>1 DEF StackDiscipline, TypeOK, OnStack
  <2>7. IdsInOrder'
    <3>1. \A i, j \in 1..Len(stack') : ~(i < j)
      BY <2>3
    <3>2. \A x \in FrameIds : /\ lifecycle'[x] = "absent" <=> x # 1
                              /\ x >= nextFrame' <=> x # 1
                              /\ x < nextFrame' <=> x = 1
      BY <2>0, <2>2 DEF TypeOK, FrameIds
    <3> QED
      BY <2>0, <2>2, <3>1, <3>2 DEF IdsInOrder, TypeOK
  <2>8. LaneOnTop' /\ UnwindRoot'
    BY <1>3, <2>0, <2>2, <2>3, <2>4 DEF LaneOnTop, UnwindRoot, OnTop, Top, TypeOK, Stopped
  <2>9. OwedInOrder'
    <3>1. \A x \in owed' : x \in owed /\ x.op \notin {"initial", "start", "finalize"}
      BY <1>0, <2>2 DEF OwedInOrder
    <3> QED
      BY <3>1 DEF OwedInOrder
  <2>10. CloseOnce' /\ ContextFollows' /\ NoOrphanContext'
    BY <1>3, <2>0, <2>2, <2>4 DEF CloseOnce, ContextFollows, NoOrphanContext, IdsInOrder,
                                  Stopped, TypeOK, Failed
  <2>11. OutcomeSurvives' /\ NoAuthorityDivergence'
    BY <1>3, <2>2, <2>4 DEF OutcomeSurvives, NoAuthorityDivergence, Outcomes, Stopped
  <2> QED
    BY <2>5, <2>6, <2>7, <2>8, <2>9, <2>10, <2>11
<1> QED
  BY <1>1, <1>2, <1>3

\* The turn of an accepted child keeps the invariant.
LEMMA StartAcceptedChildStep ==
    ASSUME NEW o \in owed, IndInv, StartAcceptedChild(o) PROVE IndInv'
<1> USE DEF IndInv, StartAcceptedChild
<1> DEFINE f == o.frame
<1>0. f \in FrameIds /\ lane.op = "idle"
  BY MaxFramesAssumption DEF OwedInOrder, TypeOK, LaneFree, FrameIds
<1>1. /\ lane' \in LaneRecords
      /\ \/ lane'.op \in {"idle", "unwind"}
         \/ /\ lane'.op = "initialize" /\ lane'.frame = f
            /\ lifecycle[f] = "starting" /\ OnTop(f)
      /\ terminal # "none" => lane'.op = "idle"
  <2>1. CASE UNCHANGED lane
    BY <1>0, <2>1 DEF TypeOK
  <2>2. CASE lane' = Unwinding /\ ~Stopped
    BY <2>2 DEF Unwinding, Idle, LaneRecords, LaneOps, Stopped
  <2>3. CASE Initialize(f) /\ ~Stopped /\ lifecycle[f] = "starting" /\ OnTop(f)
    BY <1>0, <2>3 DEF Idle, Initialize, LaneRecords, LaneOps, RpcOps, Stopped
  <2> QED
    BY <2>1, <2>2, <2>3
<1>2. phase' \in [Subsystems -> Phases] /\ \A x \in Subsystems : Failed(x) => Failed(x)'
  BY <1>0 DEF TypeOK, Phases, Failed, MarkFailed
<1>3. TypeOK'
  BY <1>1, <1>2 DEF TypeOK
<1>4. StackDiscipline' /\ IdsInOrder'
  BY QuietStep
<1>5. LaneOnTop' /\ UnwindRoot' /\ OwedInOrder'
  BY <1>0, <1>1 DEF LaneOnTop, UnwindRoot, OwedInOrder, OnTop, Top
<1>6. CloseOnce' /\ ContextFollows' /\ NoOrphanContext'
  BY <1>0, <1>1, <1>2 DEF CloseOnce, ContextFollows, NoOrphanContext, Stopped, TypeOK
<1>7. OutcomeSurvives' /\ NoAuthorityDivergence'
  BY <1>1 DEF OutcomeSurvives, NoAuthorityDivergence, Committed
<1> QED
  BY <1>3, <1>4, <1>5, <1>6, <1>7

\* A child that becomes active keeps the invariant.
LEMMA ActivateStep == IndInv /\ ActivateSucceeds => IndInv'
<1> SUFFICES ASSUME IndInv, ActivateSucceeds PROVE IndInv'
    OBVIOUS
<1> DEFINE f == lane.frame
<1> USE DEF IndInv, ActivateSucceeds, Answered, recordVars, runtimeVars, counters, sessionVars
<1>0. OnTop(f) /\ lifecycle[f] = "starting" /\ lane.minted # 0 /\ f \in FrameIds /\ terminal = "none"
  BY PopFacts DEF LaneOnTop, OnTop
<1>1. TypeOK'
  BY <1>0 DEF TypeOK, LaneRecords, LaneOps, Idle, Outcomes, Lifecycles
<1>2. StackDiscipline'
  BY <1>0, PopFacts DEF StackDiscipline, OnStack, OnTop, TypeOK, Top, IdsInOrder
<1>3. IdsInOrder'
  BY <1>0 DEF IdsInOrder, TypeOK
<1>4. LaneOnTop' /\ UnwindRoot'
  BY <1>0 DEF LaneOnTop, UnwindRoot, Idle
<1>5. OwedInOrder'
  BY <1>0 DEF OwedInOrder, TypeOK, OwedOps
<1>6. CloseOnce'
  BY <1>0 DEF CloseOnce, TypeOK, Stopped, Failed, Idle
<1>7. ContextFollows' /\ NoOrphanContext'
  BY <1>0 DEF ContextFollows, NoOrphanContext, TypeOK, Stopped, Failed, Idle
<1>8. OutcomeSurvives' /\ NoAuthorityDivergence'
  BY <1>0 DEF OutcomeSurvives, NoAuthorityDivergence, Idle, Outcomes
<1> QED
  BY <1>1, <1>2, <1>3, <1>4, <1>5, <1>6, <1>7, <1>8

\* The caller takes control again with a new activation.
LEMMA ResumeStep == IndInv /\ ResumeSucceeds => IndInv'
<1> SUFFICES ASSUME IndInv, ResumeSucceeds PROVE IndInv'
    OBVIOUS
<1> DEFINE f == lane.frame
<1> USE DEF IndInv, ResumeSucceeds, Answered
<1>0. OnTop(f) /\ lifecycle[f] = "suspended" /\ lane.minted # 0 /\ f \in FrameIds /\ terminal = "none"
  BY PopFacts DEF LaneOnTop, OnTop
<1>1. TypeOK'
  BY <1>0 DEF TypeOK, LaneRecords, LaneOps, Idle, Outcomes, Lifecycles
<1>2. StackDiscipline'
  <2>1. /\ stack # <<>> /\ f = stack[Len(stack)] /\ Len(stack) \in Nat \ {0}
        /\ \A i \in 1..Len(stack) : stack[i] \in FrameIds
    BY <1>0, PopFacts DEF OnTop, Top
  <2>2. \A i \in 1..Len(stack) : i < Len(stack) => stack[i] # f
    BY <2>1 DEF IdsInOrder, FrameIds
  <2>3. \A x \in FrameIds : x # f => lifecycle'[x] = lifecycle[x] /\ activation'[x] = activation[x]
    BY DEF TypeOK
  <2>4. lifecycle'[f] = "active" /\ activation'[f] # 0 /\ UNCHANGED <<stack, caller>>
    BY <1>0 DEF TypeOK
  <2> HIDE DEF ResumeSucceeds
  <2>5. \A i \in 1..Len(stack) :
            /\ caller'[stack[i]] = IF i = 1 THEN 0 ELSE stack[i - 1]
            /\ i < Len(stack) => lifecycle'[stack[i]] = "suspended"
    BY <2>1, <2>2, <2>3, <2>4 DEF StackDiscipline
  <2>6. \A x \in FrameIds : lifecycle'[x] \in {"absent", "closed"}
                            <=> lifecycle[x] \in {"absent", "closed"}
    BY <1>0, <2>3, <2>4
  <2>7. \A x \in FrameIds : activation'[x] # 0 <=> lifecycle'[x] = "active"
    BY <2>3, <2>4 DEF StackDiscipline
  <2> QED
    BY <2>4, <2>5, <2>6, <2>7 DEF StackDiscipline, OnStack
<1>3. IdsInOrder'
  BY <1>0 DEF IdsInOrder, TypeOK
<1>4. LaneOnTop' /\ UnwindRoot'
  BY <1>0 DEF LaneOnTop, UnwindRoot, Idle
<1>5. OwedInOrder'
  BY <1>0 DEF OwedInOrder, TypeOK, OwedOps
<1>6. CloseOnce'
  BY <1>0 DEF CloseOnce, TypeOK, Stopped, Failed, Idle
<1>7. ContextFollows' /\ NoOrphanContext'
  BY <1>0 DEF ContextFollows, NoOrphanContext, TypeOK, Stopped, Failed, Idle
<1>8. OutcomeSurvives' /\ NoAuthorityDivergence'
  BY <1>0 DEF OutcomeSurvives, NoAuthorityDivergence, Idle, Outcomes
<1> QED
  BY <1>1, <1>2, <1>3, <1>4, <1>5, <1>6, <1>7, <1>8

\* The turn of an accepted return never meets a divergence.
LEMMA FinalizeStep ==
    ASSUME NEW o \in owed, IndInv, FinalizeAcceptedReturn(o) PROVE IndInv'
<1> USE DEF IndInv, FinalizeAcceptedReturn
<1> DEFINE f == o.frame
<1>0. /\ f \in FrameIds /\ lane.op = "idle"
      /\ outcome[f] # "none" /\ lifecycle[f] \in {"closing", "closed"}
  BY MaxFramesAssumption DEF OwedInOrder, TypeOK, LaneFree, FrameIds
<1>1. /\ phase' = phase /\ terminal' = terminal
      /\ \/ lane' = lane /\ closeAttempted' = closeAttempted
         \/ lane' = Unwinding /\ closeAttempted' = closeAttempted /\ ~Stopped
         \/ /\ lane' = [Idle EXCEPT !.op = "close", !.frame = f]
            /\ closeAttempted' = [closeAttempted EXCEPT ![f] = TRUE]
            /\ ~Stopped /\ OnTop(f) /\ lifecycle[f] = "closing"
  BY <1>0
<1>2. /\ owed' \subseteq owed
      /\ UNCHANGED <<link, lifecycle, owner, caller, activation, outcome, contextKnown, stack,
                     counters, stopRequested>>
  OBVIOUS
<1> HIDE DEF FinalizeAcceptedReturn
<1>3. /\ lane' \in LaneRecords
      /\ lane'.op \in {"idle", "unwind", "close"}
      /\ terminal # "none" => lane'.op = "idle"
      /\ lane'.op = "close" => lane'.frame = f /\ OnTop(f) /\ lifecycle[f] = "closing"
  <2>1. lane \in LaneRecords
    BY DEF TypeOK
  <2> HIDE DEF IndInv
  <2>2. CASE lane' = lane
    BY <1>0, <2>1, <2>2
  <2>3. CASE lane' = Unwinding /\ ~Stopped
    BY <2>3 DEF Unwinding, Idle, LaneRecords, LaneOps, Stopped
  <2>4. CASE /\ lane' = [Idle EXCEPT !.op = "close", !.frame = f]
             /\ ~Stopped /\ OnTop(f) /\ lifecycle[f] = "closing"
    BY <1>0, <2>4 DEF Idle, LaneRecords, LaneOps, RpcOps, Stopped
  <2> QED
    BY <1>1, <2>2, <2>3, <2>4
<1>4. /\ closeAttempted' \in [FrameIds -> BOOLEAN]
      /\ \A x \in FrameIds : x # f => closeAttempted'[x] = closeAttempted[x]
      /\ closeAttempted'[f] => closeAttempted[f] \/ lane'.op = "close"
  BY <1>0, <1>1 DEF TypeOK, Idle
<1>5. TypeOK'
  BY <1>1, <1>2, <1>3, <1>4 DEF TypeOK
<1>6. StackDiscipline'
  BY <1>2 DEF StackDiscipline, OnStack
<1>7. IdsInOrder'
  BY <1>0, <1>2, <1>4 DEF IdsInOrder
<1>8. LaneOnTop' /\ UnwindRoot' /\ OwedInOrder'
  BY <1>0, <1>1, <1>2, <1>3 DEF LaneOnTop, UnwindRoot, OwedInOrder, OnTop, Top
<1>9. CloseOnce' /\ ContextFollows' /\ NoOrphanContext'
  BY <1>0, <1>1, <1>2, <1>3, <1>4 DEF CloseOnce, ContextFollows, NoOrphanContext, Stopped,
                                      Failed
<1>10. OutcomeSurvives' /\ NoAuthorityDivergence'
  BY <1>1, <1>2, <1>3 DEF OutcomeSurvives, NoAuthorityDivergence, Committed
<1> QED
  BY <1>5, <1>6, <1>7, <1>8, <1>9, <1>10

\* A reply that finds the session stopped only frees the lane.
LEMMA ReplyAfterStopStep == IndInv /\ ReplyAfterStop => IndInv'
<1> SUFFICES ASSUME IndInv, ReplyAfterStop PROVE IndInv'
    OBVIOUS
<1> USE DEF IndInv, ReplyAfterStop
<1>1. lane' \in LaneRecords /\ lane'.op = "idle"
  BY DEF Idle, LaneRecords, LaneOps
<1>2. TypeOK'
  BY <1>1 DEF TypeOK
<1>3. StackDiscipline' /\ IdsInOrder'
  BY QuietStep
<1>4. LaneOnTop' /\ UnwindRoot' /\ OwedInOrder'
  BY <1>1 DEF LaneOnTop, UnwindRoot, OwedInOrder
<1>5. CloseOnce' /\ ContextFollows' /\ NoOrphanContext'
  BY <1>1 DEF CloseOnce, ContextFollows, NoOrphanContext, Stopped, Failed
<1>6. OutcomeSurvives' /\ NoAuthorityDivergence'
  BY <1>1 DEF OutcomeSurvives, NoAuthorityDivergence, Committed
<1> QED
  BY <1>2, <1>3, <1>4, <1>5, <1>6

\* The context of a starting Frame becomes known and its activation is minted.
LEMMA InitializeSucceedsStep == IndInv /\ InitializeSucceeds => IndInv'
<1> SUFFICES ASSUME IndInv, InitializeSucceeds PROVE IndInv'
    OBVIOUS
<1> DEFINE f == lane.frame
<1> USE DEF IndInv, InitializeSucceeds, Answered
<1>0. /\ OnTop(f) /\ lifecycle[f] = "starting" /\ f \in FrameIds /\ terminal = "none"
      /\ lane.op = "initialize" /\ ~Stopped
  BY PopFacts DEF LaneOnTop, OnTop, Stopped
<1>1. /\ lane' \in LaneRecords /\ lane'.op = "activate" /\ lane'.frame = f /\ lane'.minted # 0
      /\ nextActivation' \in Nat \ {0}
  <2>1. lane \in LaneRecords /\ nextActivation \in Nat \ {0}
    BY DEF TypeOK
  <2>2. lane' = [lane EXCEPT !.op = "activate", !.minted = nextActivation]
        /\ nextActivation' = nextActivation + 1
    OBVIOUS
  <2> HIDE DEF IndInv, InitializeSucceeds
  <2>3. [lane EXCEPT !.op = "activate"] \in LaneRecords
    BY <2>1 DEF LaneRecords, LaneOps, RpcOps
  <2>4. [[lane EXCEPT !.op = "activate"] EXCEPT !.minted = nextActivation] \in LaneRecords
    BY <2>1, <2>3 DEF LaneRecords
  <2> QED
    BY <2>1, <2>2, <2>4 DEF LaneRecords
<1>2. TypeOK'
  BY <1>0, <1>1 DEF TypeOK
<1>3. StackDiscipline'
  BY DEF StackDiscipline, OnStack
<1>4. IdsInOrder'
  BY <1>0 DEF IdsInOrder, TypeOK
<1>5. LaneOnTop' /\ UnwindRoot' /\ OwedInOrder'
  BY <1>0, <1>1 DEF LaneOnTop, UnwindRoot, OwedInOrder, OnTop, Top
<1>6. CloseOnce' /\ ContextFollows' /\ NoOrphanContext'
  BY <1>0, <1>1 DEF CloseOnce, ContextFollows, NoOrphanContext, Stopped, Failed, TypeOK
<1>7. OutcomeSurvives' /\ NoAuthorityDivergence'
  BY <1>0, <1>1 DEF OutcomeSurvives, NoAuthorityDivergence, Committed, Outcomes
<1> QED
  BY <1>2, <1>3, <1>4, <1>5, <1>6, <1>7

\* A lost, refused or late Frame RPC fails the Runtime of the top Frame.
LEMMA RpcFailsStep == IndInv /\ RpcFails => IndInv'
<1> SUFFICES ASSUME IndInv, RpcFails PROVE IndInv'
    OBVIOUS
<1> DEFINE f == lane.frame
<1> USE DEF IndInv, RpcFails, MarkFailed
<1>0. f \in FrameIds /\ terminal = "none" /\ ~Stopped
  BY PopFacts DEF LaneOnTop, OnTop, RpcOps, Stopped
<1>1. lane' \in LaneRecords /\ lane'.op = "unwind"
  BY DEF Unwinding, Idle, LaneRecords, LaneOps
<1>2. /\ owner[f] \in Subsystems
      /\ phase' \in [Subsystems -> Phases] /\ \A x \in Subsystems : Failed(x) => Failed(x)'
      /\ phase'[owner[f]] = "failed"
  <2>1. phase \in [Subsystems -> Phases] /\ owner[f] \in Subsystems
    BY <1>0 DEF TypeOK
  <2>2. phase' = [phase EXCEPT ![owner[f]] = "failed"]
    OBVIOUS
  <2> QED
    BY ONLY <2>1, <2>2 DEF Phases, Failed
<1>3. TypeOK'
  BY <1>1, <1>2 DEF TypeOK
<1>4. StackDiscipline' /\ IdsInOrder'
  BY QuietStep
<1>5. LaneOnTop' /\ UnwindRoot' /\ OwedInOrder'
  BY <1>0, <1>1 DEF LaneOnTop, UnwindRoot, OwedInOrder
<1>6. CloseOnce' /\ ContextFollows' /\ NoOrphanContext'
  <2>1. UNCHANGED <<lifecycle, owner, contextKnown, closeAttempted, stopRequested, terminal>>
    OBVIOUS
  <2>2. \A x \in FrameIds : owner[x] \in Subsystems
    BY DEF TypeOK
  <2> HIDE DEF RpcFails
  <2>3. \A x \in FrameIds : owner[x] = owner[f] => phase'[owner'[x]] = "failed"
    BY <1>2, <2>1
  <2> QED
    BY <1>0, <1>1, <1>2, <2>1, <2>2, <2>3
    DEF CloseOnce, ContextFollows, NoOrphanContext, Stopped, Failed
<1>7. OutcomeSurvives' /\ NoAuthorityDivergence'
  BY <1>0, <1>1 DEF OutcomeSurvives, NoAuthorityDivergence, Committed, Outcomes
<1> QED
  BY <1>3, <1>4, <1>5, <1>6, <1>7

\* The turn at the head of the unwind picks its root on the stack.
LEMMA UnwindLoopStep == IndInv /\ UnwindLoop => IndInv'
<1> SUFFICES ASSUME IndInv, UnwindLoop PROVE IndInv'
    OBVIOUS
<1> USE DEF IndInv, UnwindLoop
<1>0. lane.op = "unwind" /\ terminal = "none"
  BY DEF LaneOnTop
<1>1. CASE lane' = Idle
  <2>1. lane' \in LaneRecords /\ lane'.op = "idle"
    BY <1>1 DEF Idle, LaneRecords, LaneOps
  <2>2. TypeOK'
    BY <2>1 DEF TypeOK
  <2>3. StackDiscipline' /\ IdsInOrder'
    BY QuietStep
  <2>4. LaneOnTop' /\ UnwindRoot' /\ OwedInOrder'
    BY <2>1 DEF LaneOnTop, UnwindRoot, OwedInOrder
  <2>5. CloseOnce' /\ ContextFollows' /\ NoOrphanContext'
    BY <1>0, <2>1 DEF CloseOnce, ContextFollows, NoOrphanContext, Stopped, Failed
  <2>6. OutcomeSurvives' /\ NoAuthorityDivergence'
    BY <2>1 DEF OutcomeSurvives, NoAuthorityDivergence, Committed
  <2> QED
    BY <2>2, <2>3, <2>4, <2>5, <2>6
<1>2. ASSUME NEW i \in DoomedPositions,
             lane' = [Idle EXCEPT !.op = "pop", !.returned = stack[i], !.below = i - 1,
                                  !.outcome = RootOutcome(stack[i])]
      PROVE  IndInv'
  <2>1. /\ i \in 1..Len(stack) /\ Len(stack) \in Nat /\ stack[i] \in FrameIds
        /\ stack[i] \in 1..(nextFrame - 1)
        /\ caller[stack[i]] = IF i = 1 THEN 0 ELSE stack[i - 1]
    <3>1. /\ i \in 1..Len(stack) /\ stack \in Seq(FrameIds) /\ nextFrame \in 1..(MaxFrames + 1)
      BY DEF DoomedPositions, TypeOK
    <3>2. StackDiscipline /\ IdsInOrder
      OBVIOUS
    <3> HIDE DEF IndInv, UnwindLoop
    <3>3. Len(stack) \in Nat /\ stack[i] \in FrameIds
      BY <3>1
    <3>4. caller[stack[i]] = IF i = 1 THEN 0 ELSE stack[i - 1]
      BY <3>1, <3>2 DEF StackDiscipline
    <3>5. lifecycle[stack[i]] # "absent"
      BY <3>1, <3>2, <3>3 DEF StackDiscipline, OnStack
    <3>6. ~(stack[i] >= nextFrame)
      BY <3>2, <3>3, <3>5 DEF IdsInOrder
    <3>7. nextFrame \in Nat
      BY <3>1, MaxFramesAssumption
    <3> QED
      BY <3>1, <3>3, <3>4, <3>6, <3>7 DEF FrameIds
  <2>2. RootOutcome(stack[i]) = Committed(stack[i]) /\ RootOutcome(stack[i]) \in Outcomes
    BY <2>1 DEF TypeOK, RootOutcome, Committed, Outcomes
  <2>3. /\ lane' \in LaneRecords /\ lane'.op = "pop" /\ lane'.returned = stack[i]
        /\ lane'.below = i - 1 /\ lane'.outcome = Committed(stack[i])
    <3> HIDE DEF IndInv, UnwindLoop
    <3>1. i - 1 \in Nat
      BY ONLY <2>1
    <3> QED
      BY <1>2, <2>1, <2>2, <3>1 DEF Idle, LaneRecords, LaneOps
  <2>4. TypeOK'
    BY <2>3 DEF TypeOK
  <2>5. StackDiscipline' /\ IdsInOrder'
    BY QuietStep
  <2>6. LaneOnTop' /\ OwedInOrder'
    BY <1>0, <2>3 DEF LaneOnTop, OwedInOrder
  <2>7. UnwindRoot'
    <3>1. i - 1 # Len(stack) /\ i - 1 <= Len(stack) /\ (i - 1 = 0 <=> i = 1)
      BY ONLY <2>1
    <3>2. Committed(stack[i])' = Committed(stack[i])
      BY DEF Committed
    <3>3. UNCHANGED <<stack, caller, nextFrame, outcome>>
      OBVIOUS
    <3> HIDE DEF UnwindLoop, IndInv
    <3> QED
      BY <2>1, <2>3, <3>1, <3>3 DEF UnwindRoot, Committed
  <2>8. CloseOnce' /\ ContextFollows' /\ NoOrphanContext'
    BY <1>0, <2>3 DEF CloseOnce, ContextFollows, NoOrphanContext, Stopped, Failed
  <2>9. OutcomeSurvives' /\ NoAuthorityDivergence'
    BY <1>0, <2>3 DEF OutcomeSurvives, NoAuthorityDivergence, Committed
  <2> QED
    BY <2>4, <2>5, <2>6, <2>7, <2>8, <2>9
<1> QED
  BY <1>1, <1>2

\* What is known of the Frame under the top.
LEMMA CallerOfTop ==
    ASSUME IndInv, stack # <<>>
    PROVE  /\ caller[Top] = 0 <=> Len(stack) = 1
           /\ Len(stack) # 1 => /\ Pop # <<>>
                                /\ Pop[Len(Pop)] = caller[Top]
                                /\ caller[Top] \in FrameIds
                                /\ caller[Top] # Top
                                /\ lifecycle[caller[Top]] = "suspended"
<1> DEFINE n == Len(stack)
<1>1. /\ n \in Nat \ {0} /\ Top = stack[n] /\ Len(Pop) = n - 1
      /\ \A i \in 1..(n - 1) : Pop[i] = stack[i]
      /\ \A i \in 1..n : stack[i] \in FrameIds
  BY PopFacts DEF IndInv, Top
<1>2. caller[Top] = IF n = 1 THEN 0 ELSE stack[n - 1]
  BY <1>1 DEF IndInv, StackDiscipline
<1> HIDE DEF n
<1>3. CASE n = 1
  BY <1>2, <1>3 DEF n
<1>4. CASE n # 1
  <2>1. n - 1 \in 1..n /\ n - 1 \in 1..(n - 1) /\ n - 1 < n
    BY <1>1, <1>4
  <2>2. Pop # <<>> /\ Pop[Len(Pop)] = stack[n - 1] /\ stack[n - 1] \in FrameIds
    BY <1>1, <1>4, <2>1
  <2>3. lifecycle[stack[n - 1]] = "suspended" /\ stack[n - 1] < stack[n]
    BY <1>1, <2>1 DEF n, IndInv, StackDiscipline, IdsInOrder
  <2>4. stack[n - 1] # 0 /\ stack[n - 1] # stack[n]
    BY <2>2, <2>3 DEF FrameIds
  <2> QED
    BY <1>1, <1>2, <1>4, <2>2, <2>3, <2>4 DEF n
<1> QED
  BY <1>3, <1>4

\* Closing the top Frame keeps the stack a chain of calls.
LEMMA CloseTopStep ==
    ASSUME IndInv, NEW f \in FrameIds, OnTop(f), CloseTop(f),
           UNCHANGED <<owner, caller, activation, closeAttempted, nextFrame>>,
           lifecycle[f] \in {"starting", "closing"},
           \A x \in FrameIds : x # f => outcome'[x] = outcome[x] /\ contextKnown'[x] = contextKnown[x]
    PROVE  StackDiscipline' /\ IdsInOrder'
<1> DEFINE n == Len(stack)
<1>1. /\ n \in Nat \ {0} /\ f = stack[n] /\ stack # <<>>
      /\ stack' = Pop /\ Len(Pop) = n - 1
      /\ \A i \in 1..(n - 1) : Pop[i] = stack[i]
      /\ \A i \in 1..n : stack[i] \in FrameIds
  BY PopFacts DEF IndInv, Top, OnTop, CloseTop
<1>2. \A x \in FrameIds : lifecycle'[x] = IF x = f THEN "closed" ELSE lifecycle[x]
  BY DEF CloseTop, IndInv, TypeOK
<1>3. UNCHANGED <<owner, caller, activation, closeAttempted, nextFrame>>
  OBVIOUS
<1>4. StackDiscipline /\ IdsInOrder
  BY DEF IndInv
<1>5. \A i \in 1..(n - 1) : /\ i \in 1..n /\ i < n /\ stack[i] \in FrameIds /\ stack[i] < f
                            /\ stack'[i] = stack[i] /\ stack[i] # f
  <2> SUFFICES ASSUME NEW i \in 1..(n - 1)
               PROVE  /\ i \in 1..n /\ i < n /\ stack[i] \in FrameIds /\ stack[i] < f
                      /\ stack'[i] = stack[i] /\ stack[i] # f
      OBVIOUS
  <2>1. i \in 1..n /\ n \in 1..n /\ i < n
    BY <1>1
  <2>2. stack[i] < stack[n] /\ stack[i] \in FrameIds
    BY <1>1, <1>4, <2>1 DEF IdsInOrder
  <2> QED
    BY <1>1, <2>1, <2>2 DEF FrameIds
<1> HIDE DEF n
<1>6. Len(stack') = n - 1
  BY <1>1
<1>7. \A i \in 1..Len(stack') :
        /\ caller'[stack'[i]] = IF i = 1 THEN 0 ELSE stack'[i - 1]
        /\ i < Len(stack') => lifecycle'[stack'[i]] = "suspended"
  <2> SUFFICES ASSUME NEW i \in 1..(n - 1)
               PROVE  /\ caller'[stack'[i]] = IF i = 1 THEN 0 ELSE stack'[i - 1]
                      /\ lifecycle'[stack'[i]] = "suspended"
      BY <1>6
  <2>1. /\ caller[stack[i]] = IF i = 1 THEN 0 ELSE stack[i - 1]
        /\ lifecycle[stack[i]] = "suspended"
    BY <1>4, <1>5 DEF StackDiscipline, n
  <2>2. i # 1 => stack'[i - 1] = stack[i - 1]
    BY <1>1, <1>5
  <2> QED
    BY <1>2, <1>3, <1>5, <2>1, <2>2
<1>8. \A x \in FrameIds : OnStack(x)' <=> OnStack(x) /\ x # f
  <2>1. \A x \in FrameIds : OnStack(x) <=> \E i \in 1..n : stack[i] = x
    BY DEF OnStack, n
  <2>2. \A x \in FrameIds : OnStack(x)' <=> \E i \in 1..(n - 1) : stack[i] = x
    BY <1>5, <1>6 DEF OnStack
  <2>3. \A i \in 1..n : i \in 1..(n - 1) \/ i = n
    BY <1>1
  <2> QED
    BY <1>1, <1>5, <2>1, <2>2, <2>3
<1>9. StackDiscipline'
  <2>1. \A x \in FrameIds : OnStack(x)' <=> lifecycle'[x] \notin {"absent", "closed"}
    BY <1>2, <1>4, <1>8 DEF StackDiscipline
  <2>2. \A x \in FrameIds : activation'[x] # 0 <=> lifecycle'[x] = "active"
    BY <1>2, <1>3, <1>4 DEF StackDiscipline
  <2> QED
    BY <1>7, <2>1, <2>2 DEF StackDiscipline, OnStack
<1>10. IdsInOrder'
  <2>1. \A i, j \in 1..Len(stack') : i < j => stack'[i] < stack'[j]
    BY <1>4, <1>5, <1>6 DEF IdsInOrder, n
  <2>2. f < nextFrame
    BY <1>4 DEF IdsInOrder, IndInv, TypeOK, FrameIds
  <2> QED
    BY <1>2, <1>3, <1>4, <2>1, <2>2 DEF IdsInOrder
<1> QED
  BY <1>9, <1>10

\* Delivering an outcome ends the session when there is no caller, and
\* otherwise finds the caller suspended on the top.
LEMMA ResumeCallerFacts ==
    ASSUME IndInv, ~Stopped, NEW f \in FrameIds, NEW result \in Outcomes, NEW rest,
           ResumeCaller(f, result, rest),
           caller[f] # 0 => /\ rest # <<>> /\ rest[Len(rest)] = caller[f]
                            /\ caller[f] \in FrameIds /\ lifecycle[caller[f]] = "suspended"
    PROVE  /\ lane' \in LaneRecords
           /\ lane'.op \in {"idle", "unwind", "resume"}
           /\ lane'.op = "resume" => /\ lane'.frame = caller[f] /\ lane'.minted # 0
                                     /\ lane'.returned = f /\ lane'.outcome = result
           /\ terminal' \in {"none", result}
           /\ terminal' # "none" => lane'.op = "idle"
           /\ lane'.op # "idle" => caller[f] # 0
           /\ terminal' # "none" => caller[f] = 0
           /\ terminal' = "none" => lane'.op # "idle"
           /\ phase' \in [Subsystems -> Phases]
           /\ \A k \in Subsystems : Failed(k) => Failed(k)'
           /\ nextActivation' \in Nat \ {0}
<1>0. terminal = "none" /\ nextActivation \in Nat \ {0} /\ phase \in [Subsystems -> Phases]
      /\ caller[f] \in FrameIds \cup {0}
  BY DEF Stopped, IndInv, TypeOK
<1>1. CASE caller[f] = 0
  <2>1. EndSession(result) /\ lane' = Idle /\ UNCHANGED nextActivation
    BY <1>1 DEF ResumeCaller
  <2>2. result \in Terminals /\ result # "none"
    BY DEF Outcomes, Terminals
  <2>3. lane' \in LaneRecords /\ lane'.op = "idle"
    BY <2>1 DEF Idle, LaneRecords, LaneOps
  <2>4. /\ terminal' = result
        /\ phase' \in [Subsystems -> Phases]
        /\ \A k \in Subsystems : Failed(k)' <=> Failed(k)
    BY <1>0, <2>1, <2>2, EndSessionTypes DEF EndSession, IndInv
  <2> QED
    BY <1>0, <1>1, <2>1, <2>2, <2>3, <2>4
<1>2. CASE caller[f] # 0 /\ ~RuntimeReady(owner[caller[f]])
  <2>1. MarkFailed(owner[caller[f]]) /\ lane' = Unwinding /\ UNCHANGED <<terminal, nextActivation>>
    BY <1>2 DEF ResumeCaller
  <2>2. lane' \in LaneRecords /\ lane'.op = "unwind"
    BY <2>1 DEF Unwinding, Idle, LaneRecords, LaneOps
  <2>3. phase' \in [Subsystems -> Phases] /\ \A k \in Subsystems : Failed(k) => Failed(k)'
    BY <1>0, <2>1 DEF MarkFailed, Phases, Failed
  <2> QED
    BY <1>0, <1>2, <2>1, <2>2, <2>3
<1>3. CASE caller[f] # 0 /\ RuntimeReady(owner[caller[f]])
  <2>1. /\ lane' = [Idle EXCEPT !.op = "resume", !.frame = caller[f], !.returned = f,
                                !.outcome = result, !.minted = nextActivation]
        /\ nextActivation' = nextActivation + 1
        /\ UNCHANGED <<phase, terminal>>
    BY <1>3 DEF ResumeCaller
  <2>2. /\ lane' \in LaneRecords /\ lane'.op = "resume" /\ lane'.frame = caller[f]
        /\ lane'.minted = nextActivation /\ lane'.returned = f /\ lane'.outcome = result
    BY <1>0, <2>1 DEF Idle, LaneRecords, LaneOps, RpcOps
  <2>3. nextActivation' \in Nat \ {0}
    BY <1>0, <2>1
  <2> QED
    BY <1>0, <1>3, <2>1, <2>2, <2>3 DEF Failed
<1> QED
  BY <1>1, <1>2, <1>3

\* A rejected child leaves the stack and its failure goes to its caller.
LEMMA InitializeRejectedStep == IndInv /\ InitializeRejected => IndInv'
<1> SUFFICES ASSUME IndInv, InitializeRejected PROVE IndInv'
    OBVIOUS
<1> DEFINE f == lane.frame
<1>0. /\ OnTop(f) /\ f \in FrameIds /\ f = Top /\ stack # <<>> /\ lifecycle[f] = "starting"
      /\ lane.op = "initialize" /\ ~Stopped
      /\ f \in 1..(nextFrame - 1)
  <2>1. /\ OnTop(f) /\ f \in FrameIds /\ f = Top /\ stack # <<>> /\ lifecycle[f] = "starting"
        /\ lane.op = "initialize" /\ ~Stopped
    BY PopFacts DEF IndInv, InitializeRejected, Answered, LaneOnTop, OnTop, Stopped
  <2>2. ~(f >= nextFrame) /\ nextFrame \in Nat
    BY <2>1, MaxFramesAssumption DEF IndInv, IdsInOrder, TypeOK
  <2> QED
    BY <2>1, <2>2 DEF FrameIds
<1>1. /\ outcome' = [outcome EXCEPT ![f] = "rejected"]
      /\ CloseTop(f)
      /\ ResumeCaller(f, "rejected", Pop)
      /\ UNCHANGED <<link, owner, caller, activation, contextKnown, closeAttempted, nextFrame,
                     owed, stopRequested>>
  BY DEF InitializeRejected
<1>2. \A x \in FrameIds : /\ lifecycle'[x] = IF x = f THEN "closed" ELSE lifecycle[x]
                          /\ outcome'[x] = IF x = f THEN "rejected" ELSE outcome[x]
  BY <1>1 DEF CloseTop, IndInv, TypeOK
<1>3. StackDiscipline' /\ IdsInOrder'
  BY <1>0, <1>1, <1>2, CloseTopStep
<1>4. caller[f] # 0 => /\ Pop # <<>> /\ Pop[Len(Pop)] = caller[f] /\ caller[f] \in FrameIds
                       /\ caller[f] # f /\ lifecycle[caller[f]] = "suspended"
  BY <1>0, CallerOfTop
<1>5. /\ lane' \in LaneRecords
      /\ lane'.op \in {"idle", "unwind", "resume"}
      /\ lane'.op = "resume" => /\ lane'.frame = caller[f] /\ lane'.minted # 0
                                /\ lane'.returned = f /\ lane'.outcome = "rejected"
      /\ terminal' \in {"none", "rejected"}
      /\ terminal' # "none" => lane'.op = "idle"
      /\ lane'.op # "idle" => caller[f] # 0
      /\ terminal' # "none" => caller[f] = 0
      /\ terminal' = "none" => lane'.op # "idle"
      /\ phase' \in [Subsystems -> Phases]
      /\ \A k \in Subsystems : Failed(k) => Failed(k)'
      /\ nextActivation' \in Nat \ {0}
  BY <1>0, <1>1, <1>4, ResumeCallerFacts DEF Outcomes
<1>6. TypeOK'
  <2>1. stack' \in Seq(FrameIds)
    BY <1>0, <1>1, PopFacts DEF IndInv, CloseTop
  <2>2. /\ lifecycle' \in [FrameIds -> Lifecycles]
        /\ outcome' \in [FrameIds -> Outcomes \cup {"none"}]
    BY <1>0, <1>1 DEF IndInv, TypeOK, CloseTop, Lifecycles, Outcomes
  <2>3. terminal' \in Terminals
    BY <1>5 DEF Terminals, Outcomes
  <2> QED
    BY <1>1, <1>5, <2>1, <2>2, <2>3 DEF IndInv, TypeOK
<1>7. LaneOnTop'
  <2>1. caller[f] # 0 => /\ stack' # <<>> /\ stack'[Len(stack')] = caller[f]
                         /\ lifecycle'[caller[f]] = "suspended"
    BY <1>1, <1>2, <1>4 DEF CloseTop
  <2> HIDE DEF f
  <2> QED
    BY <1>5, <2>1 DEF LaneOnTop, OnTop, Top
<1>8. UnwindRoot'
  BY <1>0, <1>1, <1>2, <1>5 DEF UnwindRoot, Committed, Outcomes
<1>9. OwedInOrder'
  <2>1. \A o \in owed : o.op = "finalize" => o.frame \in FrameIds
    BY MaxFramesAssumption DEF IndInv, OwedInOrder, TypeOK, FrameIds
  <2> QED
    BY <1>1, <1>2, <2>1 DEF IndInv, OwedInOrder
<1>10. CloseOnce'
  BY <1>0, <1>1, <1>2, <1>5 DEF IndInv, CloseOnce, Stopped, TypeOK
<1>11. ContextFollows'
  BY <1>0, <1>1, <1>2, <1>5 DEF IndInv, ContextFollows, Stopped, TypeOK
<1>12. NoOrphanContext'
  BY <1>0, <1>1, <1>2, <1>5 DEF IndInv, NoOrphanContext, ContextFollows, TypeOK
<1>13. OutcomeSurvives'
  <2>1. caller[f] = 0 => f = 1
    <3>1. nextFrame \in Nat
      BY MaxFramesAssumption DEF IndInv, TypeOK
    <3>2. f < nextFrame
      BY <1>0, <3>1
    <3> QED
      BY <1>0, <3>2 DEF IndInv, IdsInOrder
  <2> QED
    BY <1>0, <1>2, <1>5, <2>1 DEF OutcomeSurvives, Committed, Outcomes
<1>14. NoAuthorityDivergence'
  BY <1>5 DEF NoAuthorityDivergence
<1> QED
  BY <1>3, <1>6, <1>7, <1>8, <1>9, <1>10, <1>11, <1>12, <1>13, <1>14 DEF IndInv

\* A closed Frame leaves the stack and its outcome goes to its caller.
LEMMA CloseSucceedsStep == IndInv /\ CloseSucceeds => IndInv'
<1> SUFFICES ASSUME IndInv, CloseSucceeds PROVE IndInv'
    OBVIOUS
<1> DEFINE f == lane.frame
           result == outcome[f]
<1>0. /\ OnTop(f) /\ f \in FrameIds /\ f = Top /\ stack # <<>> /\ lifecycle[f] = "closing"
      /\ lane.op = "close" /\ ~Stopped
      /\ f \in 1..(nextFrame - 1) /\ result \in Outcomes
  <2>1. /\ OnTop(f) /\ f \in FrameIds /\ f = Top /\ stack # <<>> /\ lifecycle[f] = "closing"
        /\ lane.op = "close" /\ ~Stopped /\ outcome[f] # "none"
    BY PopFacts DEF IndInv, CloseSucceeds, Answered, LaneOnTop, OnTop, Stopped
  <2>2. ~(f >= nextFrame) /\ nextFrame \in Nat /\ outcome[f] \in Outcomes
    BY <2>1, MaxFramesAssumption DEF IndInv, IdsInOrder, TypeOK
  <2> QED
    BY <2>1, <2>2 DEF FrameIds
<1>1. /\ contextKnown' = [contextKnown EXCEPT ![f] = FALSE]
      /\ CloseTop(f)
      /\ ResumeCaller(f, result, Pop)
      /\ UNCHANGED <<link, owner, caller, activation, outcome, closeAttempted, nextFrame, owed,
                     stopRequested>>
  BY DEF CloseSucceeds
<1>2. \A x \in FrameIds : /\ lifecycle'[x] = IF x = f THEN "closed" ELSE lifecycle[x]
                          /\ contextKnown'[x] = IF x = f THEN FALSE ELSE contextKnown[x]
  BY <1>1 DEF CloseTop, IndInv, TypeOK
<1>3. StackDiscipline' /\ IdsInOrder'
  <2>1. \A x \in FrameIds : x # f => outcome'[x] = outcome[x] /\ contextKnown'[x] = contextKnown[x]
    BY <1>1, <1>2
  <2>2. OnTop(f) /\ CloseTop(f) /\ lifecycle[f] \in {"starting", "closing"}
    BY <1>0, <1>1
  <2>3. UNCHANGED <<owner, caller, activation, closeAttempted, nextFrame>>
    BY <1>1
  <2> QED
    BY <1>0, <2>1, <2>2, <2>3, CloseTopStep
<1>4. caller[f] # 0 => /\ Pop # <<>> /\ Pop[Len(Pop)] = caller[f] /\ caller[f] \in FrameIds
                       /\ caller[f] # f /\ lifecycle[caller[f]] = "suspended"
  BY <1>0, CallerOfTop
<1> HIDE DEF result
<1>5. /\ lane' \in LaneRecords
      /\ lane'.op \in {"idle", "unwind", "resume"}
      /\ lane'.op = "resume" => /\ lane'.frame = caller[f] /\ lane'.minted # 0
                                /\ lane'.returned = f /\ lane'.outcome = result
      /\ terminal' \in {"none", result}
      /\ terminal' # "none" => lane'.op = "idle"
      /\ lane'.op # "idle" => caller[f] # 0
      /\ terminal' # "none" => caller[f] = 0
      /\ terminal' = "none" => lane'.op # "idle"
      /\ phase' \in [Subsystems -> Phases]
      /\ \A k \in Subsystems : Failed(k) => Failed(k)'
      /\ nextActivation' \in Nat \ {0}
  BY <1>0, <1>1, <1>4, ResumeCallerFacts
<1>6. TypeOK'
  <2>1. stack' \in Seq(FrameIds)
    BY <1>0, <1>1, PopFacts DEF IndInv, CloseTop
  <2>2. /\ lifecycle' \in [FrameIds -> Lifecycles]
        /\ contextKnown' \in [FrameIds -> BOOLEAN]
    BY <1>0, <1>1 DEF IndInv, TypeOK, CloseTop, Lifecycles
  <2>3. terminal' \in Terminals
    BY <1>0, <1>5 DEF Terminals, Outcomes
  <2> QED
    BY <1>1, <1>5, <2>1, <2>2, <2>3 DEF IndInv, TypeOK
<1>7. LaneOnTop'
  <2>1. caller[f] # 0 => /\ stack' # <<>> /\ stack'[Len(stack')] = caller[f]
                         /\ lifecycle'[caller[f]] = "suspended"
    BY <1>1, <1>2, <1>4 DEF CloseTop
  <2> HIDE DEF f
  <2> QED
    BY <1>5, <2>1 DEF LaneOnTop, OnTop, Top
<1>8. UnwindRoot'
  BY <1>0, <1>1, <1>5 DEF UnwindRoot, Committed, result
<1>9. OwedInOrder'
  <2>1. \A o \in owed : o.op = "finalize" => o.frame \in FrameIds
    BY MaxFramesAssumption DEF IndInv, OwedInOrder, TypeOK, FrameIds
  <2> QED
    BY <1>1, <1>2, <2>1 DEF IndInv, OwedInOrder
<1>10. CloseOnce'
  BY <1>0, <1>1, <1>2, <1>5 DEF IndInv, CloseOnce, Stopped, TypeOK
<1>11. ContextFollows'
  BY <1>0, <1>1, <1>2, <1>5 DEF IndInv, ContextFollows, Stopped, TypeOK
<1>12. NoOrphanContext'
  BY <1>0, <1>1, <1>2, <1>5 DEF IndInv, NoOrphanContext, TypeOK
<1>13. OutcomeSurvives'
  <2>1. caller[f] = 0 => f = 1
    <3>1. nextFrame \in Nat
      BY MaxFramesAssumption DEF IndInv, TypeOK
    <3>2. f < nextFrame
      BY <1>0, <3>1
    <3> QED
      BY <1>0, <3>2 DEF IndInv, IdsInOrder
  <2> QED
    BY <1>0, <1>1, <1>5, <2>1 DEF OutcomeSurvives, Committed, Outcomes, result
<1>14. NoAuthorityDivergence'
  BY <1>0, <1>5 DEF NoAuthorityDivergence, Outcomes
<1> QED
  BY <1>3, <1>6, <1>7, <1>8, <1>9, <1>10, <1>11, <1>12, <1>13, <1>14 DEF IndInv

\* The top Frame of an unwind is taken out of control; its close is sent at
\* most once, so the divergence branch is never taken.
LEMMA UnwindPopStep == IndInv /\ UnwindPop => IndInv'
<1> SUFFICES ASSUME IndInv, UnwindPop PROVE IndInv'
    OBVIOUS
<1> DEFINE f == Top
           n == Len(stack)
<1>0. /\ lane.op = "pop" /\ ~Stopped /\ n > lane.below /\ terminal = "none"
      /\ lane \in LaneRecords /\ lane.below \in Nat /\ n \in Nat
  BY DEF UnwindPop, Stopped, IndInv, TypeOK, LaneRecords
<1>1. stack # <<>>
  BY <1>0
<1>2. /\ n \in Nat \ {0} /\ f = stack[n] /\ f \in FrameIds
      /\ \A i \in 1..n : stack[i] \in FrameIds
  BY <1>1, PopFacts DEF IndInv, Top
<1>3. lifecycle[f] \notin {"absent", "closed"}
  BY <1>2 DEF IndInv, StackDiscipline, OnStack
<1>4. ~(~Failed(owner[f]) /\ contextKnown[f] /\ closeAttempted[f])
  BY <1>0, <1>2, <1>3 DEF IndInv, CloseOnce
<1>5. /\ activation' = [activation EXCEPT ![f] = 0]
      /\ lifecycle' = [lifecycle EXCEPT ![f] = "closing"]
      /\ UNCHANGED <<phase, terminal, link, owner, caller, outcome, contextKnown, stack, counters,
                     owed, stopRequested>>
      /\ \/ /\ Failed(owner[f]) \/ ~contextKnown[f]
            /\ lane' = [lane EXCEPT !.op = "drop", !.frame = f]
            /\ closeAttempted' = closeAttempted
         \/ /\ lane' = [lane EXCEPT !.op = "unwind-close", !.frame = f]
            /\ closeAttempted' = [closeAttempted EXCEPT ![f] = TRUE]
  BY <1>4 DEF UnwindPop
<1>6. /\ lane' \in LaneRecords /\ lane'.op \in {"drop", "unwind-close"} /\ lane'.frame = f
      /\ lane'.returned = lane.returned /\ lane'.below = lane.below /\ lane'.outcome = lane.outcome
      /\ lane'.op = "drop" => Failed(owner[f]) \/ ~contextKnown[f]
      /\ lane'.op = "drop" => closeAttempted' = closeAttempted
  <2> DEFINE RecordFacts(op) ==
                /\ [lane EXCEPT !.op = op, !.frame = f] \in LaneRecords
                /\ [lane EXCEPT !.op = op, !.frame = f].op = op
                /\ [lane EXCEPT !.op = op, !.frame = f].frame = f
                /\ [lane EXCEPT !.op = op, !.frame = f].returned = lane.returned
                /\ [lane EXCEPT !.op = op, !.frame = f].below = lane.below
                /\ [lane EXCEPT !.op = op, !.frame = f].outcome = lane.outcome
  <2>1. ASSUME NEW op \in LaneOps PROVE RecordFacts(op)
    <3>1. [lane EXCEPT !.op = op] \in LaneRecords
      BY <1>0 DEF LaneRecords
    <3>2. [[lane EXCEPT !.op = op] EXCEPT !.frame = f] \in LaneRecords
      BY <1>2, <3>1 DEF LaneRecords
    <3> QED
      BY <1>0, <3>1, <3>2 DEF LaneRecords
  <2>2. RecordFacts("drop") /\ RecordFacts("unwind-close")
    BY <2>1 DEF LaneOps, RpcOps
  <2> QED
    BY <1>5, <2>2
<1>7. /\ closeAttempted' \in [FrameIds -> BOOLEAN]
      /\ \A x \in FrameIds : x # f => closeAttempted'[x] = closeAttempted[x]
  BY <1>5 DEF IndInv, TypeOK
<1>8. \A x \in FrameIds : /\ lifecycle'[x] = IF x = f THEN "closing" ELSE lifecycle[x]
                          /\ activation'[x] = IF x = f THEN 0 ELSE activation[x]
  BY <1>5 DEF IndInv, TypeOK
<1>9. TypeOK'
  BY <1>5, <1>6, <1>7 DEF IndInv, TypeOK, Lifecycles
<1>10. StackDiscipline'
  <2>1. \A i \in 1..n : i < n => stack[i] # f
    BY <1>2 DEF IndInv, IdsInOrder, FrameIds
  <2>2. \A x \in FrameIds : lifecycle'[x] \in {"absent", "closed"}
                            <=> lifecycle[x] \in {"absent", "closed"}
    BY <1>3, <1>8
  <2>3. \A x \in FrameIds : activation'[x] # 0 <=> lifecycle'[x] = "active"
    BY <1>8 DEF IndInv, StackDiscipline
  <2>4. \A i \in 1..n : i < n => lifecycle'[stack[i]] = "suspended"
    BY <1>2, <1>8, <2>1 DEF IndInv, StackDiscipline
  <2> QED
    BY <1>5, <2>2, <2>3, <2>4 DEF IndInv, StackDiscipline, OnStack
<1>11. IdsInOrder'
  BY <1>2, <1>3, <1>5, <1>7, <1>8 DEF IndInv, IdsInOrder
<1>12. LaneOnTop'
  <2>1. lifecycle'[f] = "closing" /\ UNCHANGED <<stack, phase, owner, contextKnown, terminal>>
    BY <1>2, <1>5, <1>8
  <2>2. stack' # <<>> /\ stack'[Len(stack')] = f
    BY <1>1, <1>2, <2>1
  <2> HIDE DEF f
  <2> QED
    BY <1>0, <1>6, <2>1, <2>2 DEF LaneOnTop, OnTop, Top, Failed
<1>13. UnwindRoot'
  BY <1>0, <1>5, <1>6 DEF IndInv, UnwindRoot, Committed
<1>14. OwedInOrder'
  <2>1. \A o \in owed : o.op = "finalize" => o.frame \in FrameIds
    BY MaxFramesAssumption DEF IndInv, OwedInOrder, TypeOK, FrameIds
  <2> QED
    BY <1>5, <1>8, <2>1 DEF IndInv, OwedInOrder
<1>15. CloseOnce'
  <2> SUFFICES ASSUME NEW x \in FrameIds, closeAttempted'[x], lifecycle'[x] # "closed",
                      ~Failed(owner[x])
               PROVE  lane'.op \in {"close", "unwind-close"} /\ lane'.frame = x
      BY <1>5 DEF CloseOnce, Failed
  <2>1. x = f
    BY <1>0, <1>7, <1>8 DEF IndInv, CloseOnce
  <2>2. lane'.op # "drop"
    BY <1>0, <1>3, <1>6, <2>1 DEF IndInv, CloseOnce
  <2> QED
    BY <1>6, <2>1, <2>2
<1>16. ContextFollows'
  BY <1>0, <1>5, <1>8 DEF IndInv, ContextFollows, Failed, Stopped
<1>17. NoOrphanContext'
  BY <1>5, <1>8 DEF IndInv, NoOrphanContext, Failed
<1>18. OutcomeSurvives' /\ NoAuthorityDivergence'
  BY <1>0, <1>5, <1>6 DEF IndInv, OutcomeSurvives, NoAuthorityDivergence, Outcomes
<1> QED
  BY <1>9, <1>10, <1>11, <1>12, <1>13, <1>14, <1>15, <1>16, <1>17, <1>18 DEF IndInv

\* The top Frame of an unwind leaves the stack, dropped or closed: its Runtime
\* has failed, or it has no context there any more.
LEMMA UnwindCloseStep ==
    ASSUME IndInv, lane.op \in {"drop", "unwind-close"}, CloseTop(lane.frame),
           lane' = [lane EXCEPT !.op = "pop", !.frame = 0],
           \/ contextKnown' = contextKnown /\ lane.op = "drop"
           \/ contextKnown' = [contextKnown EXCEPT ![lane.frame] = FALSE],
           UNCHANGED <<runtimeVars, owner, caller, activation, outcome, closeAttempted, counters,
                       owed, sessionVars>>
    PROVE  IndInv'
<1> DEFINE f == lane.frame
           n == Len(stack)
<1>0. /\ OnTop(f) /\ f \in FrameIds /\ f = Top /\ stack # <<>> /\ lifecycle[f] = "closing"
      /\ terminal = "none" /\ lane \in LaneRecords
  BY PopFacts DEF IndInv, LaneOnTop, OnTop, TypeOK
<1>1. /\ n \in Nat \ {0} /\ stack' = Pop /\ Len(stack') = n - 1 /\ stack' \in Seq(FrameIds)
      /\ \A i \in 1..(n - 1) : stack'[i] = stack[i]
      /\ \A i \in 1..n : stack[i] \in FrameIds
  BY <1>0, PopFacts DEF IndInv, CloseTop
<1>2. \A x \in FrameIds : /\ lifecycle'[x] = IF x = f THEN "closed" ELSE lifecycle[x]
                          /\ x # f => contextKnown'[x] = contextKnown[x]
                          /\ x = f => ~contextKnown'[x] \/ Failed(owner[x])
  BY <1>0 DEF CloseTop, IndInv, TypeOK, LaneOnTop
<1>3. UNCHANGED <<runtimeVars, owner, caller, activation, outcome, closeAttempted, counters,
                  owed, sessionVars>>
  OBVIOUS
<1>4. StackDiscipline' /\ IdsInOrder'
  BY <1>0, <1>2, <1>3, CloseTopStep
<1>5. /\ lane' \in LaneRecords /\ lane'.op = "pop" /\ lane'.below = lane.below
      /\ lane'.returned = lane.returned /\ lane'.outcome = lane.outcome
  <2>1. [lane EXCEPT !.op = "pop"] \in LaneRecords
    BY <1>0 DEF LaneRecords, LaneOps
  <2>2. [[lane EXCEPT !.op = "pop"] EXCEPT !.frame = 0] \in LaneRecords
    BY <2>1 DEF LaneRecords
  <2> QED
    BY <1>0, <2>1, <2>2 DEF LaneRecords
<1>6. TypeOK'
  <2>1. /\ lifecycle' \in [FrameIds -> Lifecycles]
        /\ contextKnown' \in [FrameIds -> BOOLEAN]
    BY <1>0 DEF IndInv, TypeOK, CloseTop, Lifecycles
  <2> QED
    BY <1>1, <1>3, <1>5, <2>1 DEF IndInv, TypeOK
<1>7. LaneOnTop'
  BY <1>0, <1>3, <1>5 DEF LaneOnTop
<1>8. UnwindRoot'
  <2>1. /\ lane.below \in Nat /\ lane.below < n
        /\ lane.returned \in 1..(nextFrame - 1)
        /\ caller[lane.returned] = IF lane.below = 0 THEN 0 ELSE stack[lane.below]
        /\ lane.outcome = Committed(lane.returned)
    BY <1>0 DEF IndInv, UnwindRoot, LaneRecords
  <2>2. lane.below > 0 => /\ lane.below \in 1..(n - 1)
                          /\ stack'[lane.below] = stack[lane.below]
    BY <1>1, <2>1
  <2>3. lane.below > 0 => lifecycle[stack[lane.below]] = "suspended"
                          /\ stack[lane.below] \in FrameIds
    BY <1>1, <2>1, <2>2 DEF IndInv, StackDiscipline
  <2>4. lane.below > 0 => lifecycle'[stack[lane.below]] = "suspended"
    BY <1>0, <1>2, <2>3
  <2>5. lane.below <= Len(stack')
    BY <1>1, <2>1
  <2> HIDE DEF n, f
  <2> QED
    BY <1>3, <1>5, <2>1, <2>2, <2>4, <2>5 DEF UnwindRoot, Committed
<1>9. OwedInOrder'
  <2>1. \A o \in owed : o.op = "finalize" => o.frame \in FrameIds
    BY MaxFramesAssumption DEF IndInv, OwedInOrder, TypeOK, FrameIds
  <2> QED
    BY <1>2, <1>3, <2>1 DEF IndInv, OwedInOrder
<1>10. CloseOnce'
  <2> SUFFICES ASSUME ~Stopped, NEW x \in FrameIds, closeAttempted[x], lifecycle'[x] # "closed",
                      ~Failed(owner[x])
               PROVE  FALSE
      BY <1>3 DEF CloseOnce, Failed, Stopped
  <2> QED
    BY <1>0, <1>2 DEF IndInv, CloseOnce
<1>11. ContextFollows'
  <2> SUFFICES ASSUME ~Stopped, NEW x \in FrameIds, lifecycle'[x] = "starting", contextKnown'[x],
                      ~Failed(owner[x])
               PROVE  FALSE
      BY <1>3 DEF ContextFollows, Failed, Stopped
  <2> QED
    BY <1>0, <1>2 DEF IndInv, ContextFollows
<1>12. NoOrphanContext'
  BY <1>2, <1>3 DEF IndInv, NoOrphanContext, Failed
<1>13. OutcomeSurvives' /\ NoAuthorityDivergence'
  BY <1>0, <1>3, <1>5 DEF IndInv, OutcomeSurvives, NoAuthorityDivergence, Outcomes
<1> QED
  BY <1>4, <1>6, <1>7, <1>8, <1>9, <1>10, <1>11, <1>12, <1>13 DEF IndInv

\* The root's outcome reaches the Frame that called it, or ends the session.
LEMMA UnwindDeliverStep == IndInv /\ UnwindDeliver => IndInv'
<1> SUFFICES ASSUME IndInv, UnwindDeliver PROVE IndInv'
    OBVIOUS
<1> DEFINE f == lane.returned
           result == lane.outcome
<1>0. /\ lane.op = "pop" /\ terminal = "none" /\ lane \in LaneRecords
      /\ f \in 1..(nextFrame - 1) /\ f \in FrameIds
      /\ result = Committed(f) /\ result \in Outcomes
  <2>1. /\ lane.op = "pop" /\ terminal = "none" /\ lane \in LaneRecords
        /\ f \in 1..(nextFrame - 1) /\ result = Committed(f)
    BY DEF UnwindDeliver, IndInv, LaneOnTop, UnwindRoot, TypeOK
  <2>2. nextFrame \in 1..(MaxFrames + 1)
    BY DEF IndInv, TypeOK
  <2> QED
    BY <2>1, <2>2, MaxFramesAssumption DEF FrameIds, Committed, Outcomes
<1>1. UNCHANGED <<link, recordVars, stack, nextFrame, owed, stopRequested>>
  BY DEF UnwindDeliver
<1>2. /\ lane' \in LaneRecords
      /\ lane'.op \in {"idle", "unwind", "resume"}
      /\ lane'.op = "resume" => /\ lane'.frame = caller[f] /\ lane'.minted # 0
                                /\ lane'.returned = f /\ lane'.outcome = result
                                /\ stack # <<>> /\ stack[Len(stack)] = caller[f]
                                /\ lifecycle[caller[f]] = "suspended"
      /\ terminal' \in {"none", result}
      /\ terminal' # "none" => lane'.op = "idle"
      /\ terminal' # "none" => caller[f] = 0
      /\ phase' \in [Subsystems -> Phases]
      /\ \A k \in Subsystems : Failed(k) => Failed(k)'
      /\ nextActivation' \in Nat \ {0}
  <2>1. CASE Stopped
    <3>1. lane' = Idle /\ UNCHANGED <<phase, terminal, nextActivation>>
      BY <2>1 DEF UnwindDeliver
    <3>2. Idle \in LaneRecords /\ Idle.op = "idle"
      BY DEF Idle, LaneRecords, LaneOps
    <3> QED
      BY <1>0, <3>1, <3>2 DEF IndInv, TypeOK, Failed
  <2>2. CASE ~Stopped
    <3>1. lane.below = Len(stack) /\ Len(stack) \in Nat
      BY <1>0, <2>2 DEF UnwindDeliver, IndInv, UnwindRoot, TypeOK, LaneRecords
    <3>2. caller[f] = IF stack = <<>> THEN 0 ELSE stack[Len(stack)]
      BY <1>0, <3>1 DEF IndInv, UnwindRoot, TypeOK
    <3>3. CASE stack = <<>>
      <4>1. EndSession(result) /\ lane' = Idle /\ UNCHANGED nextActivation
        BY <2>2, <3>3 DEF UnwindDeliver
      <4>2. result \in Terminals
        BY <1>0 DEF Terminals
      <4>3. /\ terminal' = result
            /\ phase' \in [Subsystems -> Phases]
            /\ \A k \in Subsystems : Failed(k)' <=> Failed(k)
        BY <1>0, <4>1, <4>2, EndSessionTypes DEF EndSession, IndInv
      <4>4. Idle \in LaneRecords /\ Idle.op = "idle"
        BY DEF Idle, LaneRecords, LaneOps
      <4> QED
        BY <3>2, <3>3, <4>1, <4>3, <4>4 DEF IndInv, TypeOK
    <3>4. CASE stack # <<>>
      <4>1. /\ Top = caller[f] /\ stack[Len(stack)] = caller[f] /\ Top \in FrameIds
            /\ lifecycle[caller[f]] = "suspended" /\ caller[f] # 0
        BY <1>0, <3>1, <3>2, <3>4, PopFacts DEF IndInv, UnwindRoot, Top, FrameIds
      <4>2. ResumeCaller(f, result, stack)
        BY <2>2, <3>4, <4>1 DEF UnwindDeliver
      <4> HIDE DEF f, result
      <4> QED
        BY <1>0, <2>2, <3>4, <4>1, <4>2, ResumeCallerFacts
    <3> QED
      BY <3>3, <3>4
  <2> QED
    BY <2>1, <2>2
<1>3. TypeOK'
  <2>1. terminal' \in Terminals
    BY <1>0, <1>2 DEF Terminals
  <2> QED
    BY <1>1, <1>2, <2>1 DEF IndInv, TypeOK
<1>4. StackDiscipline'
  BY <1>1 DEF IndInv, StackDiscipline, OnStack
<1>5. IdsInOrder'
  BY <1>1 DEF IndInv, IdsInOrder
<1>6. LaneOnTop'
  <2>1. UNCHANGED <<stack, lifecycle>>
    BY <1>1
  <2> HIDE DEF f, result
  <2> QED
    BY <1>2, <2>1 DEF LaneOnTop, OnTop, Top
<1>7. UnwindRoot'
  <2>1. Committed(f) = result /\ UNCHANGED <<outcome, nextFrame>> /\ f \in 1..(nextFrame - 1)
    BY <1>0, <1>1
  <2> HIDE DEF f, result
  <2> QED
    BY <1>2, <2>1 DEF UnwindRoot, Committed
<1>8. OwedInOrder'
  BY <1>1 DEF IndInv, OwedInOrder
<1>9. CloseOnce' /\ ContextFollows' /\ NoOrphanContext'
  <2>1. ~Stopped' => ~Stopped
    BY <1>0, <1>1 DEF Stopped
  <2>2. UNCHANGED <<lifecycle, owner, contextKnown, closeAttempted>>
    BY <1>1
  <2> HIDE DEF f, result
  <2> QED
    BY <1>0, <1>2, <2>1, <2>2
    DEF IndInv, TypeOK, CloseOnce, ContextFollows, NoOrphanContext
<1>10. OutcomeSurvives'
  <2>1. caller[f] = 0 => f = 1
    <3>1. nextFrame \in Nat
      BY MaxFramesAssumption DEF IndInv, TypeOK
    <3>2. f < nextFrame
      BY <1>0, <3>1
    <3> QED
      BY <1>0, <3>2 DEF IndInv, IdsInOrder
  <2>2. Committed(f) = result /\ UNCHANGED outcome
    BY <1>0, <1>1
  <2> HIDE DEF f, result
  <2> QED
    BY <1>0, <1>2, <2>1, <2>2 DEF OutcomeSurvives, Committed, Outcomes
<1>11. NoAuthorityDivergence'
  BY <1>0, <1>2 DEF NoAuthorityDivergence, Outcomes
<1> QED
  BY <1>3, <1>4, <1>5, <1>6, <1>7, <1>8, <1>9, <1>10, <1>11 DEF IndInv

----------------------------------------------------------------------------
\* Every step of Main and of its environment keeps the invariant.
LEMMA NextIndInv == IndInv /\ [Next]_vars => IndInv'
<1> SUFFICES ASSUME IndInv, [Next]_vars PROVE IndInv'
    OBVIOUS
<1>1. CASE Environment
  <2>1. CASE RequestShutdown
    BY <2>1, RequestShutdownStep
  <2>2. CASE AuthorityFatal
    BY <2>2, EndOnFreeLaneStep DEF AuthorityFatal
  <2>3. ASSUME NEW k \in Subsystems, LinkEnds(k) PROVE IndInv'
    BY <2>3, LinkEndsStep
  <2>4. ASSUME NEW k \in Subsystems, StatusFailed(k) PROVE IndInv'
    <3>1. LaneFree /\ FailRuntime(k)
      BY <2>4 DEF StatusFailed
    <3> QED
      BY <3>1, FailRuntimeStep
  <2>6. ASSUME NEW k \in Subsystems, PhysicalTerminated(k) PROVE IndInv'
    <3>1. LaneFree /\ FailRuntime(k)
      BY <2>6 DEF PhysicalTerminated
    <3> QED
      BY <3>1, FailRuntimeStep
  <2>7. ASSUME NEW k \in Subsystems, NEW f \in FrameIds, NEW a \in 1..nextActivation,
               FrameReturn(k, f, a)
        PROVE  IndInv'
    <3>1. a \in Nat
      BY DEF IndInv, TypeOK
    <3> QED
      BY <2>7, <3>1, FrameReturnStep
  <2>8. ASSUME NEW k \in Subsystems, NEW f \in FrameIds, NEW a \in 1..nextActivation,
               NEW target \in Subsystems, FrameCall(k, f, a, target)
        PROVE  IndInv'
    <3>1. a \in Nat
      BY DEF IndInv, TypeOK
    <3> QED
      BY <2>8, <3>1, FrameCallStep
  <2> QED
    BY <1>1, <2>1, <2>2, <2>3, <2>4, <2>6, <2>7, <2>8 DEF Environment
<1>2. CASE OwedStep
  <2> SUFFICES ASSUME NEW o \in owed,
                      \/ BeginShutdown(o)
                      \/ StartInitialFrame(o)
                      \/ StartAcceptedChild(o)
                      \/ FinalizeAcceptedReturn(o)
                      \/ ResponseLost(o)
               PROVE  IndInv'
      BY <1>2 DEF OwedStep
  <2>1. CASE BeginShutdown(o)
    BY <2>1, EndOnFreeLaneStep DEF BeginShutdown
  <2>2. CASE StartInitialFrame(o)
    BY <2>2, StartInitialFrameStep
  <2>3. CASE StartAcceptedChild(o)
    BY <2>3, StartAcceptedChildStep
  <2>4. CASE FinalizeAcceptedReturn(o)
    BY <2>4, FinalizeStep
  <2>5. CASE ResponseLost(o)
    BY <2>5, ResponseLostStep
  <2> QED
    BY <2>1, <2>2, <2>3, <2>4, <2>5
<1>3. CASE Reply
  <2>1. CASE UnwindCloseSucceeds
    BY <2>1, UnwindCloseStep DEF UnwindCloseSucceeds, Answered
  <2> QED
    BY <1>3, <2>1, ReplyAfterStopStep, InitializeSucceedsStep, InitializeRejectedStep,
       ActivateStep, CloseSucceedsStep, ResumeStep, RpcFailsStep DEF Reply
<1>4. CASE UnwindStep
  <2>1. CASE UnwindDrop
    BY <2>1, UnwindCloseStep DEF UnwindDrop
  <2> QED
    BY <1>4, <2>1, UnwindLoopStep, UnwindPopStep, UnwindDeliverStep DEF UnwindStep
<1>5. CASE WatchControl
  BY <1>5, FailRuntimeStep DEF WatchControl, ControlTerminal
<1>6. CASE UNCHANGED vars
  BY <1>6 DEF vars, IndInv, TypeOK, StackDiscipline, OnStack, IdsInOrder, LaneOnTop, OnTop, Top,
     UnwindRoot, OwedInOrder, CloseOnce, ContextFollows, NoOrphanContext, OutcomeSurvives,
     NoAuthorityDivergence, Committed, Failed, Stopped
<1> QED
  BY <1>1, <1>2, <1>3, <1>4, <1>5, <1>6 DEF Next

\* The strengthened invariant holds in every reachable state.
THEOREM InvariantHolds == Spec => []IndInv
<1>1. Init => IndInv
  BY InitIndInv
<1>2. IndInv /\ [Next]_vars => IndInv'
  BY NextIndInv
<1> QED
  BY <1>1, <1>2, PTL DEF Spec

\* Every variable of the Frame authority keeps its type, for any number of
\* Subsystems and Frames.
THEOREM TypeCorrect == Spec => []TypeOK
BY InvariantHolds, PTL DEF IndInv

\* The stack is always a chain of direct calls with at most one active Frame,
\* the top, and only that Frame holds an activation.
THEOREM StackIsCallChain == Spec => []StackDiscipline
BY InvariantHolds, PTL DEF IndInv

\* No interleaving of replies, crashes, lost connections and shutdown brings
\* Main to a state it reports as MAIN_AUTHORITY_DIVERGENCE.
THEOREM NeverDiverges == Spec => []NoAuthorityDivergence
BY InvariantHolds, PTL DEF IndInv

\* Main never drops a Frame whose context a surviving Runtime still holds.
THEOREM ContextsAreClosed == Spec => []NoOrphanContext
BY InvariantHolds, PTL DEF IndInv

\* What a caller, or the session, receives is the outcome the Frame committed.
THEOREM CommittedOutcomeSurvives == Spec => []OutcomeSurvives
BY InvariantHolds, PTL DEF IndInv

----------------------------------------------------------------------------
\* The inner loop of unwindFailures runs between two awaits: no stop falls
\* into it.
NoStopInTurn == lane.op \in {"pop", "drop"} => ~stopRequested

\* Every step keeps stops out of the unwind's inner loop.
LEMMA NextNoStopInTurn == IndInv /\ NoStopInTurn /\ [Next]_vars => NoStopInTurn'
<1> SUFFICES ASSUME IndInv, NoStopInTurn, [Next]_vars PROVE NoStopInTurn'
    OBVIOUS
<1>0. lane \in LaneRecords
  BY DEF IndInv, TypeOK
<1> USE DEF NoStopInTurn
<1>1. CASE Environment
  BY <1>1 DEF Environment, RequestShutdown, AuthorityFatal, LinkEnds, StatusFailed, FailRuntime,
     PhysicalTerminated, FrameReturn, FrameCall, LaneFree, Unwinding, Idle
<1>2. CASE OwedStep
  BY <1>2 DEF OwedStep, BeginShutdown, StartInitialFrame, StartAcceptedChild, Initialize,
     FinalizeAcceptedReturn, ResponseLost, LaneFree, Unwinding, Idle
<1>3. CASE Reply
  <2>1. CASE InitializeSucceeds
    BY <2>1 DEF InitializeSucceeds
  <2>2. CASE InitializeRejected \/ CloseSucceeds
    BY <2>2 DEF InitializeRejected, CloseSucceeds
  <2>3. CASE UnwindCloseSucceeds \/ ActivateSucceeds \/ ResumeSucceeds \/ RpcFails
    BY <2>3 DEF UnwindCloseSucceeds, ActivateSucceeds, ResumeSucceeds, RpcFails
  <2>4. CASE ReplyAfterStop
    BY <2>4 DEF ReplyAfterStop, Idle
  <2> QED
    BY <1>3, <2>1, <2>2, <2>3, <2>4 DEF Reply
<1>4. CASE UnwindStep
  <2>1. CASE UnwindLoop
    <3>1. UNCHANGED stopRequested /\ (lane' = Idle \/ ~stopRequested)
      BY <2>1 DEF UnwindLoop, Stopped
    <3> QED
      BY <3>1 DEF Idle
  <2>2. CASE UnwindPop \/ UnwindDrop \/ UnwindDeliver
    <3>1. lane.op \in {"pop", "drop"} /\ UNCHANGED stopRequested
      BY <2>2 DEF UnwindPop, UnwindDrop, UnwindDeliver
    <3> QED
      BY <3>1
  <2> QED
    BY <1>4, <2>1, <2>2 DEF UnwindStep
<1>5. CASE WatchControl
  BY <1>5 DEF WatchControl, ControlTerminal, FailRuntime, Unwinding, Idle
<1>6. CASE UNCHANGED vars
  BY <1>6 DEF vars
<1> QED
  BY <1>1, <1>2, <1>3, <1>4, <1>5, <1>6 DEF Next

\* After a stop no step touches a Frame, and the terminal is decided once.
LEMMA NextFrozen ==
    IndInv /\ NoStopInTurn /\ [Next]_vars =>
        [/\ Stopped => UNCHANGED <<recordVars, stack, counters>>
         /\ terminal # "none" => UNCHANGED terminal]_vars
<1> SUFFICES ASSUME IndInv, NoStopInTurn, Next
             PROVE  /\ Stopped => UNCHANGED <<recordVars, stack, counters>>
                    /\ terminal # "none" => UNCHANGED terminal
    BY DEF vars
<1>0. terminal # "none" => lane.op = "idle"
  BY DEF IndInv, LaneOnTop
<1>1. CASE Environment
  BY <1>1 DEF Environment, RequestShutdown, AuthorityFatal, LinkEnds, StatusFailed, FailRuntime,
     PhysicalTerminated, FrameReturn, FrameCall, EndSession, Stopped
<1>2. CASE OwedStep
  BY <1>2 DEF OwedStep, BeginShutdown, StartInitialFrame, StartAcceptedChild,
     FinalizeAcceptedReturn, ResponseLost, EndSession, Stopped
<1>3. CASE Reply
  <2>1. terminal = "none"
    BY <1>0, <1>3 DEF Reply, ReplyAfterStop, InitializeSucceeds, InitializeRejected,
                      ActivateSucceeds, CloseSucceeds, ResumeSucceeds, UnwindCloseSucceeds,
                      RpcFails, Answered, RpcOps
  <2>2. CASE ReplyAfterStop
    BY <2>1, <2>2 DEF ReplyAfterStop
  <2>3. CASE ~stopRequested
    BY <2>1, <2>3 DEF Stopped
  <2> QED
    BY <1>3, <2>2, <2>3 DEF Reply, InitializeSucceeds, InitializeRejected, ActivateSucceeds,
       CloseSucceeds, ResumeSucceeds, UnwindCloseSucceeds, RpcFails
<1>4. CASE UnwindStep
  <2>1. terminal = "none"
    BY <1>0, <1>4 DEF UnwindStep, UnwindLoop, UnwindPop, UnwindDrop, UnwindDeliver
  <2>2. CASE UnwindLoop
    BY <2>1, <2>2 DEF UnwindLoop
  <2>3. CASE UnwindPop \/ UnwindDrop \/ UnwindDeliver
    <3>1. ~Stopped
      BY <2>1, <2>3 DEF UnwindPop, UnwindDrop, UnwindDeliver, NoStopInTurn, Stopped
    <3> QED
      BY <2>1, <3>1
  <2> QED
    BY <1>4, <2>2, <2>3 DEF UnwindStep
<1>5. CASE WatchControl
  BY <1>5 DEF WatchControl, ControlTerminal, FailRuntime
<1> QED
  BY <1>1, <1>2, <1>3, <1>4, <1>5 DEF Next

\* Once shutdown is requested or the session has ended, late replies and
\* queued operations leave every Frame, the stack and the ids as they are.
THEOREM StopFreezes == Spec => FrozenAfterStop
<1>1. Init => IndInv /\ NoStopInTurn
  BY InitIndInv DEF Init, NoStopInTurn
<1>2. IndInv /\ NoStopInTurn /\ [Next]_vars => IndInv' /\ NoStopInTurn'
  BY NextIndInv, NextNoStopInTurn
<1> QED
  BY <1>1, <1>2, NextFrozen, PTL DEF Spec, FrozenAfterStop

----------------------------------------------------------------------------
(***************************************************************************)
(* Two results that rest on the inductive invariant: FrameAuthority        *)
(* implements the call stack of module CallStack, and whenever the lane is *)
(* free the session can go on.                                             *)
(***************************************************************************)

\* Only a Frame that leaves has committed an outcome.
OutcomesLate ==
    \A f \in FrameIds : outcome[f] # "none" => lifecycle[f] \in {"closing", "closed"}

RefinementInv == IndInv /\ OutcomesLate

InitialOwed == Owed("initial", 0) \in owed

\* The top Frame is active, or what it waits for is still to come.
TopServed ==
    /\ stack # <<>>
    /\ \/ lifecycle[Top] = "active"
       \/ lifecycle[Top] = "starting" /\ caller[Top] # 0 /\ AwaitsStart(Top)
       \/ lifecycle[Top] = "closing" /\ AwaitsClose(Top)

\* What a lane operation keeps of the way back to rest: a Frame RPC finds no
\* Frame of a failed Runtime, an unwind finds one or leaves a served top, and
\* no Frame below the root of an unwind belongs to a failed Runtime.
Settling ==
    ~Stopped =>
        /\ lane.op = "idle" /\ ~InitialOwed => DoomedPositions = {} /\ TopServed
        /\ lane.op = "unwind" /\ ~InitialOwed => DoomedPositions # {} \/ TopServed
        /\ lane.op \in {"initialize", "activate", "close", "resume"} => DoomedPositions = {}
        /\ lane.op \in {"pop", "drop", "unwind-close"} =>
                \A j \in 1..lane.below : ~Failed(owner[stack[j]])

----------------------------------------------------------------------------
\* An outcome is committed by a Frame that starts to leave, and none comes back.
LEMMA NextOutcomesLate == RefinementInv /\ [Next]_vars => OutcomesLate'
<1> SUFFICES ASSUME RefinementInv, [Next]_vars PROVE OutcomesLate'
    OBVIOUS
<1> USE DEF RefinementInv, OutcomesLate
<1>0. /\ lifecycle \in [FrameIds -> Lifecycles]
      /\ outcome \in [FrameIds -> Outcomes \cup {"none"}]
      /\ IdsInOrder /\ LaneOnTop
  BY DEF IndInv, TypeOK
<1>1. CASE Environment
  <2>1. CASE RequestShutdown \/ AuthorityFatal
    BY <2>1 DEF RequestShutdown, AuthorityFatal, recordVars
  <2>2. ASSUME NEW k \in Subsystems, LinkEnds(k) \/ StatusFailed(k) \/ PhysicalTerminated(k)
        PROVE  OutcomesLate'
    BY <2>2 DEF LinkEnds, StatusFailed, PhysicalTerminated, FailRuntime, recordVars
  <2>3. ASSUME NEW k \in Subsystems, NEW f \in FrameIds, NEW a \in 1..nextActivation,
               FrameReturn(k, f, a)
        PROVE  OutcomesLate'
    BY <1>0, <2>3 DEF FrameReturn
  <2>4. ASSUME NEW k \in Subsystems, NEW f \in FrameIds, NEW a \in 1..nextActivation,
               NEW target \in Subsystems, FrameCall(k, f, a, target)
        PROVE  OutcomesLate'
    <3>1. nextFrame \in FrameIds /\ lifecycle[nextFrame] = "absent"
      BY <2>4, MaxFramesAssumption DEF FrameCall, IndInv, TypeOK, IdsInOrder, FrameIds
    <3>2. outcome[f] = "none" /\ outcome[nextFrame] = "none"
      BY <1>0, <2>4, <3>1 DEF FrameCall, ValidSource
    <3>3. \A g \in FrameIds : outcome'[g] # "none" => g # f /\ g # nextFrame
      BY <2>4, <3>2 DEF FrameCall
    <3> QED
      BY <1>0, <2>4, <3>3 DEF FrameCall
  <2> QED
    BY <1>1, <2>1, <2>2, <2>3, <2>4 DEF Environment
<1>2. CASE OwedStep
  BY <1>0, <1>2 DEF OwedStep, BeginShutdown, StartInitialFrame, StartAcceptedChild,
     FinalizeAcceptedReturn, ResponseLost, recordVars, IdsInOrder
<1>3. CASE Reply
  <2>1. CASE ReplyAfterStop \/ InitializeSucceeds \/ RpcFails
    BY <2>1 DEF ReplyAfterStop, InitializeSucceeds, RpcFails, recordVars
  <2>2. CASE InitializeRejected
    BY <1>0, <2>2 DEF InitializeRejected, CloseTop
  <2>3. CASE CloseSucceeds \/ UnwindCloseSucceeds
    BY <1>0, <2>3 DEF CloseSucceeds, UnwindCloseSucceeds, CloseTop
  <2>4. CASE ActivateSucceeds \/ ResumeSucceeds
    BY <1>0, <2>4 DEF ActivateSucceeds, ResumeSucceeds, Answered, LaneOnTop
  <2> QED
    BY <1>3, <2>1, <2>2, <2>3, <2>4 DEF Reply
<1>4. CASE UnwindStep
  BY <1>0, <1>4 DEF UnwindStep, UnwindLoop, UnwindPop, UnwindDrop, UnwindDeliver, CloseTop,
     recordVars
<1>5. CASE WatchControl
  BY <1>5 DEF WatchControl, ControlTerminal, FailRuntime, recordVars
<1>6. CASE UNCHANGED vars
  BY <1>6 DEF vars, recordVars
<1> QED
  BY <1>1, <1>2, <1>3, <1>4, <1>5, <1>6 DEF Next

----------------------------------------------------------------------------
\* A step that moves no Frame is a stutter of the call stack, or ends the
\* session early.
LEMMA QuietRefines ==
    ASSUME RefinementInv, UNCHANGED <<lifecycle, stack, outcome, nextFrame>>,
           \/ UNCHANGED terminal
           \/ terminal = "none" /\ terminal' \in {"shutdown", "fatal"}
    PROVE  [Abstract!Next]_(Abstract!vars)
<1>1. UNCHANGED Control
  BY DEF Control, Top
<1> QED
  BY <1>1 DEF Abstract!Next, Abstract!EndEarly, Abstract!vars

\* Closing the top Frame takes it off the call stack, with the session's end
\* when it was the root.
LEMMA CloseTopRefines ==
    ASSUME RefinementInv, NEW f \in FrameIds, OnTop(f), CloseTop(f), lifecycle[f] # "active",
           terminal = "none", UNCHANGED nextFrame,
           \/ UNCHANGED outcome
           \/ lifecycle[f] = "starting" /\ outcome' = [outcome EXCEPT ![f] = "rejected"],
           \/ UNCHANGED terminal
           \/ caller[f] = 0 /\ terminal' = outcome'[f] /\ outcome'[f] # "none"
    PROVE  [Abstract!Next]_(Abstract!vars)
<1>0. /\ TypeOK /\ stack # <<>> /\ f = Top /\ stack' = Pop /\ Pop # stack
      /\ Len(stack) \in Nat \ {0} /\ Len(Pop) = Len(stack) - 1
  <2>1. TypeOK /\ stack # <<>> /\ f = Top /\ stack' = Pop
    BY DEF RefinementInv, IndInv, OnTop, CloseTop
  <2> QED
    BY <2>1, PopFacts
<1>1. Control' = 0
  <2>1. CASE Len(stack) = 1
    BY <1>0, <2>1 DEF Control
  <2>2. CASE Len(stack) # 1
    <3>1. /\ stack' # <<>> /\ Top' = caller[f] /\ caller[f] # f
          /\ caller[f] \in FrameIds /\ lifecycle[caller[f]] = "suspended"
      BY <1>0, <2>2, CallerOfTop DEF Top, RefinementInv
    <3>2. lifecycle'[caller[f]] = "suspended"
      BY <1>0, <3>1 DEF CloseTop, TypeOK
    <3> QED
      BY <3>1, <3>2 DEF Control
  <2> QED
    BY <2>1, <2>2
<1>2. lifecycle[f] = "starting" => outcome[f] = "none"
  BY DEF RefinementInv, OutcomesLate
<1>3. terminal' # terminal =>
        /\ stack' = <<>>
        /\ terminal' = IF outcome'[1] = "none" THEN "runtime-failed" ELSE outcome'[1]
  <2> SUFFICES ASSUME terminal' # terminal
               PROVE  /\ stack' = <<>>
                      /\ terminal' = IF outcome'[1] = "none" THEN "runtime-failed"
                                     ELSE outcome'[1]
      OBVIOUS
  <2>1. caller[f] = 0 /\ terminal' = outcome'[f] /\ outcome'[f] # "none"
    OBVIOUS
  <2>2. Len(stack) = 1
    BY <1>0, <2>1, CallerOfTop DEF RefinementInv
  <2>3. stack' = <<>>
    BY <1>0, <2>2, PopFacts
  <2>4. f = 1
    <3>1. f < nextFrame
      BY <1>0 DEF RefinementInv, IndInv, IdsInOrder, StackDiscipline, OnStack, TypeOK,
                  FrameIds, Top
    <3> QED
      BY <2>1, <3>1 DEF RefinementInv, IndInv, IdsInOrder
  <2> QED
    BY <2>1, <2>3, <2>4
<1>4. Abstract!Drop
  BY <1>0, <1>1, <1>2, <1>3 DEF Abstract!Drop, Abstract!Top, Abstract!NoResult, Top, Pop
<1> QED
  BY <1>4 DEF Abstract!Next

\* Delivering an outcome ends the session only with that outcome, when there is
\* no caller to deliver it to.
LEMMA ResumeCallerEnds ==
    ASSUME NEW f, NEW result, NEW rest, ResumeCaller(f, result, rest),
           terminal = "none", terminal' # "divergence"
    PROVE  UNCHANGED terminal \/ (caller[f] = 0 /\ terminal' = result)
BY DEF ResumeCaller, EndSession

\* Every step of Main is a step of the call stack, or a stutter.
LEMMA NextRefines ==
    RefinementInv /\ RefinementInv' /\ [Next]_vars => [Abstract!Next]_(Abstract!vars)
<1> SUFFICES ASSUME RefinementInv, RefinementInv', [Next]_vars
             PROVE  [Abstract!Next]_(Abstract!vars)
    OBVIOUS
<1>0. /\ TypeOK /\ LaneOnTop /\ UnwindRoot /\ StackDiscipline /\ IdsInOrder /\ OutcomesLate
      /\ terminal' # "divergence"
  BY DEF RefinementInv, IndInv, NoAuthorityDivergence
<1>1. CASE Environment
  <2>1. CASE RequestShutdown
    BY <2>1, QuietRefines DEF RequestShutdown, recordVars, counters
  <2>2. CASE AuthorityFatal
    BY <2>2, QuietRefines DEF AuthorityFatal, EndSession, recordVars, counters
  <2>3. ASSUME NEW k \in Subsystems, LinkEnds(k) \/ StatusFailed(k) \/ PhysicalTerminated(k)
        PROVE  [Abstract!Next]_(Abstract!vars)
    BY <2>3, QuietRefines DEF LinkEnds, StatusFailed, PhysicalTerminated, FailRuntime,
       recordVars, counters, sessionVars
  <2>4. ASSUME NEW k \in Subsystems, NEW f \in FrameIds, NEW a \in 1..nextActivation,
               FrameReturn(k, f, a)
        PROVE  [Abstract!Next]_(Abstract!vars)
    <3>1. /\ stack # <<>> /\ Top = f /\ Control = f /\ f # 0 /\ terminal = "none"
          /\ lifecycle'[f] = "closing" /\ UNCHANGED stack
      BY <1>0, <2>4 DEF FrameReturn, ValidSource, OnTop, Control, FrameIds, TypeOK, Stopped
    <3>2. Control' = 0
      BY <3>1 DEF Control, Top
    <3>3. Abstract!Return
      BY <2>4, <3>1, <3>2 DEF FrameReturn, Abstract!Return, counters, sessionVars
    <3> QED
      BY <3>1, <3>3 DEF Abstract!Next
  <2>5. ASSUME NEW k \in Subsystems, NEW f \in FrameIds, NEW a \in 1..nextActivation,
               NEW target \in Subsystems, FrameCall(k, f, a, target)
        PROVE  [Abstract!Next]_(Abstract!vars)
    <3>1. /\ stack # <<>> /\ Top = f /\ Control = f /\ terminal = "none"
          /\ nextFrame \in FrameIds
      BY <1>0, <2>5, MaxFramesAssumption
         DEF FrameCall, ValidSource, OnTop, Control, FrameIds, TypeOK, Stopped
    <3>2. /\ stack' = Append(stack, nextFrame) /\ nextFrame' = nextFrame + 1
          /\ stack' # <<>> /\ Top' = nextFrame
      BY <1>0, <2>5, <3>1, PushFacts DEF FrameCall, Allocate, Top
    <3>3. lifecycle'[nextFrame] = "starting"
      BY <1>0, <2>5, <3>1 DEF FrameCall, TypeOK
    <3>4. Control' = 0
      BY <3>2, <3>3 DEF Control
    <3>5. Abstract!Push
      BY <2>5, <3>1, <3>2, <3>4
         DEF FrameCall, Abstract!Push, Abstract!FrameIds, Abstract!Top, FrameIds, Top, sessionVars
    <3> QED
      BY <3>1, <3>5 DEF Abstract!Next
  <2> QED
    BY <1>1, <2>1, <2>2, <2>3, <2>4, <2>5 DEF Environment
<1>2. CASE OwedStep
  <2> SUFFICES ASSUME NEW o \in owed,
                      \/ BeginShutdown(o)
                      \/ StartInitialFrame(o)
                      \/ StartAcceptedChild(o)
                      \/ FinalizeAcceptedReturn(o)
                      \/ ResponseLost(o)
               PROVE  [Abstract!Next]_(Abstract!vars)
      BY <1>2 DEF OwedStep
  <2>1. CASE BeginShutdown(o) \/ ResponseLost(o) \/ StartAcceptedChild(o)
    BY <2>1, QuietRefines DEF BeginShutdown, ResponseLost, StartAcceptedChild, EndSession,
       recordVars, counters, sessionVars
  <2>2. CASE FinalizeAcceptedReturn(o)
    BY <1>0, <2>2, QuietRefines DEF FinalizeAcceptedReturn, EndSession, counters
  <2>3. CASE StartInitialFrame(o)
    <3>1. CASE Stopped \/ ~RuntimeReady(Initial)
      BY <2>3, <3>1, QuietRefines DEF StartInitialFrame, EndSession, Stopped
    <3>2. CASE ~Stopped /\ RuntimeReady(Initial)
      <4>1. nextFrame = 1 /\ 1 \in FrameIds
        BY <2>3, MaxFramesAssumption
           DEF StartInitialFrame, RefinementInv, IndInv, OwedInOrder, FrameIds
      <4>2. stack = <<>>
        <5> SUFFICES ASSUME stack # <<>> PROVE FALSE
            OBVIOUS
        <5>1. Top \in FrameIds /\ OnStack(Top)
          BY <1>0, PopFacts DEF OnStack, Top
        <5>2. lifecycle[Top] = "absent"
          BY <1>0, <4>1, <5>1 DEF IdsInOrder, FrameIds
        <5> QED
          BY <1>0, <5>1, <5>2 DEF StackDiscipline
      <4>3. /\ stack' = Append(stack, nextFrame) /\ nextFrame' = nextFrame + 1
            /\ lifecycle' = [lifecycle EXCEPT ![nextFrame] = "starting"]
            /\ UNCHANGED <<outcome, terminal>> /\ terminal = "none"
        BY <2>3, <3>2 DEF StartInitialFrame, Allocate, Stopped
      <4>4. stack' # <<>> /\ Top' = nextFrame /\ lifecycle'[nextFrame] = "starting"
        <5>1. Len(stack') = Len(stack) + 1 /\ stack'[Len(stack) + 1] = nextFrame
          BY <1>0, <4>1, <4>3, PushFacts
        <5>2. Len(stack) \in Nat
          BY <1>0 DEF TypeOK
        <5>3. lifecycle'[nextFrame] = "starting"
          BY <1>0, <4>1, <4>3 DEF TypeOK
        <5>4. stack' # <<>>
          BY <4>3, <4>2
        <5> QED
          BY <4>2, <5>1, <5>3, <5>4 DEF Top
      <4>5. Control' = 0
        BY <4>4 DEF Control
      <4>6. Abstract!Push
        BY <4>1, <4>2, <4>3, <4>5 DEF Abstract!Push, Abstract!FrameIds, FrameIds
      <4> QED
        BY <4>3, <4>6 DEF Abstract!Next
    <3> QED
      BY <3>1, <3>2
  <2> QED
    BY <2>1, <2>2, <2>3
<1>3. CASE Reply
  <2>0. terminal = "none" /\ lane.frame \in FrameIds \cup {0}
    BY <1>0, <1>3 DEF Reply, ReplyAfterStop, InitializeSucceeds, InitializeRejected,
       ActivateSucceeds, CloseSucceeds, ResumeSucceeds, UnwindCloseSucceeds, RpcFails, Answered,
       RpcOps, LaneOnTop, TypeOK, LaneRecords
  <2>1. CASE ReplyAfterStop \/ InitializeSucceeds \/ RpcFails
    BY <2>1, QuietRefines DEF ReplyAfterStop, InitializeSucceeds, RpcFails, recordVars, counters,
       sessionVars
  <2>2. CASE InitializeRejected \/ CloseSucceeds \/ UnwindCloseSucceeds
    <3> DEFINE f == lane.frame
    <3>1. /\ OnTop(f) /\ f \in FrameIds /\ lifecycle[f] \in {"starting", "closing"}
          /\ CloseTop(f) /\ UNCHANGED nextFrame
      BY <1>0, <2>0, <2>2, PopFacts
         DEF InitializeRejected, CloseSucceeds, UnwindCloseSucceeds, Answered, LaneOnTop, OnTop,
             counters
    <3>2. CASE InitializeRejected
      <4>1. /\ lifecycle[f] = "starting" /\ outcome' = [outcome EXCEPT ![f] = "rejected"]
            /\ ResumeCaller(f, "rejected", Pop)
        BY <1>0, <3>2 DEF InitializeRejected, Answered, LaneOnTop
      <4>2. outcome'[f] = "rejected"
        BY <1>0, <3>1, <4>1 DEF TypeOK
      <4>3. UNCHANGED terminal \/ (caller[f] = 0 /\ terminal' = "rejected")
        BY <1>0, <2>0, <4>1, ResumeCallerEnds
      <4> QED
        BY <2>0, <3>1, <4>1, <4>2, <4>3, CloseTopRefines
    <3>3. CASE CloseSucceeds
      <4>1. UNCHANGED outcome /\ outcome[f] # "none" /\ ResumeCaller(f, outcome[f], Pop)
        BY <1>0, <3>3 DEF CloseSucceeds, Answered, LaneOnTop
      <4>2. UNCHANGED terminal \/ (caller[f] = 0 /\ terminal' = outcome[f])
        BY <1>0, <2>0, <4>1, ResumeCallerEnds
      <4> QED
        BY <2>0, <3>1, <4>1, <4>2, CloseTopRefines
    <3>4. CASE UnwindCloseSucceeds
      BY <2>0, <3>1, <3>4, CloseTopRefines DEF UnwindCloseSucceeds, sessionVars
    <3> QED
      BY <2>2, <3>2, <3>3, <3>4
  <2>3. CASE ActivateSucceeds \/ ResumeSucceeds
    <3>1. /\ stack # <<>> /\ Top = lane.frame /\ lane.frame # 0 /\ lane.frame \in FrameIds
          /\ lifecycle[lane.frame] \in {"starting", "suspended"}
      BY <1>0, <2>0, <2>3, PopFacts
         DEF ActivateSucceeds, ResumeSucceeds, Answered, LaneOnTop, OnTop, FrameIds
    <3>2. Control = 0 /\ outcome[Top] = "none"
      BY <1>0, <3>1 DEF Control, OutcomesLate
    <3>3. /\ UNCHANGED <<stack, outcome, nextFrame, terminal>>
          /\ lifecycle'[Top] = "active"
      BY <1>0, <2>3, <3>1 DEF ActivateSucceeds, ResumeSucceeds, TypeOK, counters, sessionVars
    <3>4. Control' = Top
      BY <3>1, <3>3 DEF Control, Top
    <3>5. Abstract!Grant
      BY <3>1, <3>2, <3>3, <3>4 DEF Abstract!Grant, Abstract!Top, Abstract!NoResult, Top
    <3> QED
      BY <2>0, <3>5 DEF Abstract!Next
  <2> QED
    BY <1>3, <2>1, <2>2, <2>3 DEF Reply
<1>4. CASE UnwindStep
  <2>1. CASE UnwindLoop
    BY <2>1, QuietRefines DEF UnwindLoop, recordVars, counters, sessionVars
  <2>2. CASE UnwindPop
    <3>1. /\ terminal = "none" /\ stack # <<>> /\ Top \in FrameIds
          /\ UNCHANGED <<stack, outcome, nextFrame, terminal>>
          /\ lifecycle' = [lifecycle EXCEPT ![Top] = "closing"]
      <4>1. terminal = "none" /\ stack # <<>>
        BY <1>0, <2>2 DEF UnwindPop, LaneOnTop, TypeOK, LaneRecords
      <4>2. Top \in FrameIds
        BY <1>0, <4>1, PopFacts
      <4> QED
        BY <1>0, <2>2, <4>1, <4>2 DEF UnwindPop, EndSession, counters
    <3>2. Control' = 0
      BY <1>0, <3>1 DEF Control, Top, TypeOK
    <3>3. Abstract!Drop
      BY <3>1, <3>2 DEF Abstract!Drop
    <3> QED
      BY <3>1, <3>3 DEF Abstract!Next
  <2>3. CASE UnwindDrop
    <3>1. /\ OnTop(lane.frame) /\ lane.frame \in FrameIds /\ terminal = "none"
          /\ lifecycle[lane.frame] = "closing"
      BY <1>0, <2>3, PopFacts DEF UnwindDrop, LaneOnTop, OnTop
    <3> QED
      BY <2>3, <3>1, CloseTopRefines DEF UnwindDrop, counters, sessionVars
  <2>4. CASE UnwindDeliver
    <3>1. /\ UNCHANGED <<lifecycle, stack, outcome, nextFrame>>
          /\ terminal = "none" /\ lane.outcome = Committed(lane.returned)
          /\ lane.returned \in 1..(nextFrame - 1) /\ lane.below <= Len(stack)
          /\ caller[lane.returned] = IF lane.below = 0 THEN 0 ELSE stack[lane.below]
      BY <1>0, <2>4 DEF UnwindDeliver, LaneOnTop, UnwindRoot, recordVars
    <3>2. CASE UNCHANGED terminal
      BY <3>1, <3>2, QuietRefines
    <3>3. CASE terminal' # terminal
      <4>1. stack = <<>> /\ terminal' = lane.outcome
        <5>1. CASE stack = <<>>
          BY <2>4, <3>1, <3>3, <5>1 DEF UnwindDeliver, EndSession
        <5>2. CASE stack # <<>>
          <6>1. Top = caller[lane.returned] /\ ResumeCaller(lane.returned, lane.outcome, stack)
            BY <1>0, <2>4, <3>1, <3>3, <5>2 DEF UnwindDeliver, EndSession
          <6>2. caller[lane.returned] # 0
            BY <1>0, <5>2, <6>1, PopFacts DEF FrameIds
          <6> QED
            BY <1>0, <3>1, <3>3, <6>1, <6>2, ResumeCallerEnds
        <5> QED
          BY <5>1, <5>2
      <4>2. lane.below = 0 /\ caller[lane.returned] = 0
        BY <1>0, <3>1, <4>1 DEF TypeOK, LaneRecords
      <4>3. lane.returned = 1 /\ nextFrame > 1
        <5>1. lane.returned \in FrameIds /\ lane.returned < nextFrame /\ nextFrame \in Nat
          BY <1>0, <3>1, MaxFramesAssumption DEF TypeOK, FrameIds
        <5> QED
          BY <1>0, <4>2, <5>1 DEF IdsInOrder, FrameIds
      <4>4. UNCHANGED Control
        BY <3>1, <4>1 DEF Control
      <4>5. 1 \in FrameIds /\ outcome[1] \in Outcomes \cup {"none"}
        BY <1>0, MaxFramesAssumption DEF TypeOK, FrameIds
      <4>6. Abstract!EndWithRoot
        BY <3>1, <4>1, <4>3, <4>4, <4>5
           DEF Abstract!EndWithRoot, Abstract!NoResult, Committed, Outcomes
      <4> QED
        BY <3>1, <4>6 DEF Abstract!Next
    <3> QED
      BY <3>2, <3>3
  <2> QED
    BY <1>4, <2>1, <2>2, <2>3, <2>4 DEF UnwindStep
<1>5. CASE WatchControl
  BY <1>5, QuietRefines DEF WatchControl, ControlTerminal, FailRuntime, recordVars, counters,
     sessionVars
<1>6. CASE UNCHANGED vars
  BY <1>6, QuietRefines DEF vars, recordVars, counters, sessionVars
<1> QED
  BY <1>1, <1>2, <1>3, <1>4, <1>5, <1>6 DEF Next

\* The Frame authority of Main, with its lane, its RPCs and its unwinds,
\* implements the call stack: at most one Frame in control, none in control
\* after it has returned or been dropped, and the session ends with the result
\* of its root Frame (main-session.ts, unwindFailures and tryResumeCaller).
THEOREM CallStackImplemented == Spec => ImplementsCallStack
<1>1. Init => RefinementInv
  BY InitIndInv DEF Init, RefinementInv, OutcomesLate
<1>2. RefinementInv /\ [Next]_vars => RefinementInv'
  BY NextIndInv, NextOutcomesLate DEF RefinementInv
<1>3. Init => Abstract!Init
  BY DEF Init, Abstract!Init, Abstract!FrameIds, Abstract!NoResult, FrameIds, Control
<1> QED
  BY <1>1, <1>2, <1>3, NextRefines, PTL DEF Spec, ImplementsCallStack, Abstract!Spec

----------------------------------------------------------------------------
\* A served top stays served while links only go down and no operation it
\* waits for is taken from the queue, unless its response is lost.
LEMMA ServedStays ==
    ASSUME TypeOK, TypeOK', TopServed, UNCHANGED <<stack, lifecycle, owner, caller>>,
           \A k \in Subsystems : link'[k] => link[k],
           \A f \in FrameIds : Owed("start", f) \in owed =>
                \/ Owed("start", f) \in owed'
                \/ f # Top \/ ~link'[owner[caller[f]]],
           \A f \in FrameIds : Owed("finalize", f) \in owed =>
                \/ Owed("finalize", f) \in owed'
                \/ f # Top \/ ~link'[owner[f]]
    PROVE  TopServed'
<1>1. Top' = Top /\ Top \in FrameIds /\ stack # <<>>
  BY PopFacts DEF TopServed, Top
<1>2. /\ owner[Top] \in Subsystems
      /\ caller[Top] # 0 => owner[caller[Top]] \in Subsystems
  BY <1>1 DEF TypeOK
<1>3. caller[Top] # 0 /\ AwaitsStart(Top) =>
        Owed("start", Top) \in owed' \/ ~link'[owner[caller[Top]]]
  BY <1>1, <1>2 DEF AwaitsStart
<1>4. AwaitsClose(Top) => Owed("finalize", Top) \in owed' \/ ~link'[owner[Top]]
  BY <1>1, <1>2 DEF AwaitsClose
<1> QED
  BY <1>1, <1>3, <1>4 DEF TopServed, AwaitsStart, AwaitsClose

\* The failed positions depend on the phases, the owners and the stack alone.
LEMMA DoomedStays ==
    ASSUME UNCHANGED <<phase, owner, stack>>
    PROVE  DoomedPositions' = DoomedPositions
BY DEF DoomedPositions, Failed

\* Delivering an outcome to the top of `rest`, where no Frame of a failed
\* Runtime is left, ends the session, resumes the caller or finds it failed.
LEMMA ResumeCallerSettles ==
    ASSUME TypeOK, NEW f \in FrameIds, NEW result, result # "none",
           ResumeCaller(f, result, stack'),
           stack' \in Seq(FrameIds), UNCHANGED <<owner, stopRequested>>,
           \A i \in 1..Len(stack') : ~Failed(owner[stack'[i]])
    PROVE  Settling'
<1> DEFINE c == caller[f]
<1>1. CASE c = 0 \/ stack' = <<>> \/ stack'[Len(stack')] # c \/ lifecycle[c] # "suspended"
  <2>1. terminal' # "none"
    BY <1>1 DEF ResumeCaller, EndSession
  <2> QED
    BY <2>1 DEF Settling, Stopped
<1>2. CASE /\ c # 0 /\ stack' # <<>> /\ stack'[Len(stack')] = c /\ lifecycle[c] = "suspended"
           /\ ~RuntimeReady(owner[c])
  <2>1. MarkFailed(owner[c]) /\ lane' = Unwinding
    BY <1>2 DEF ResumeCaller
  <2>2. Len(stack') \in 1..Len(stack') /\ c \in FrameIds /\ owner[c] \in Subsystems
    BY <1>2 DEF TypeOK
  <2>3. phase'[owner[c]] = "failed"
    BY <2>1, <2>2 DEF MarkFailed, TypeOK
  <2>4. DoomedPositions' # {}
    BY <1>2, <2>2, <2>3 DEF DoomedPositions, Failed
  <2>5. lane'.op = "unwind"
    BY <2>1 DEF Unwinding, Idle
  <2> QED
    BY <2>4, <2>5 DEF Settling
<1>3. CASE /\ c # 0 /\ stack' # <<>> /\ stack'[Len(stack')] = c /\ lifecycle[c] = "suspended"
           /\ RuntimeReady(owner[c])
  <2>1. lane'.op = "resume" /\ UNCHANGED phase
    BY <1>3 DEF ResumeCaller, Idle
  <2>2. DoomedPositions' = {}
    BY <2>1 DEF DoomedPositions, Failed
  <2> QED
    BY <2>1, <2>2 DEF Settling
<1> QED
  BY <1>1, <1>2, <1>3

\* Taking the top off the stack leaves the Frames below as they were.
LEMMA PopKeepsHealth ==
    ASSUME TypeOK, stack # <<>>, NEW n \in 0..(Len(stack) - 1),
           \A j \in 1..n : ~Failed(owner[stack[j]])
    PROVE  \A j \in 1..n : ~Failed(owner[Pop[j]])
BY PopFacts

\* What the outside does leaves the session able to go on.
LEMMA EnvironmentSettles ==
    IndInv /\ IndInv' /\ Settling /\ (Environment \/ WatchControl) => Settling'
<1> SUFFICES ASSUME IndInv, IndInv', Settling, Environment \/ WatchControl, ~Stopped'
             PROVE  Settling'
    BY DEF Settling
<1>0. TypeOK /\ TypeOK' /\ IdsInOrder
  BY DEF IndInv
<1> USE DEF recordVars, runtimeVars, counters, sessionVars
<1>1. CASE RequestShutdown \/ AuthorityFatal
  BY <1>1 DEF RequestShutdown, AuthorityFatal, EndSession, Stopped
<1>2. ASSUME NEW k \in Subsystems, LinkEnds(k) PROVE Settling'
  <2>1. DoomedPositions' = DoomedPositions /\ UNCHANGED <<lane, InitialOwed>> /\ ~Stopped
    BY <1>2, DoomedStays DEF LinkEnds, InitialOwed, Stopped
  <2>2. TopServed => TopServed'
    <3>1. \A x \in Subsystems : link'[x] => link[x]
      BY <1>0, <1>2 DEF LinkEnds, TypeOK
    <3> QED
      BY <1>0, <1>2, <3>1, ServedStays DEF LinkEnds
  <2>3. \A j : ~Failed(owner[stack[j]]) => ~Failed(owner[stack[j]])'
    BY <1>2 DEF LinkEnds, Failed
  <2> QED
    BY <2>1, <2>2, <2>3 DEF Settling
<1>3. ASSUME NEW k \in Subsystems, LaneFree, FailRuntime(k) PROVE Settling'
  <2>1. lane.op = "idle" /\ lane'.op = "unwind" /\ UNCHANGED InitialOwed /\ ~Stopped
    BY <1>3 DEF LaneFree, FailRuntime, InitialOwed, Stopped, Unwinding, Idle
  <2>2. TopServed => TopServed'
    BY <1>0, <1>3, ServedStays DEF FailRuntime
  <2> QED
    BY <2>1, <2>2 DEF Settling
<1>4. ASSUME NEW k \in Subsystems, NEW f \in FrameIds, NEW a \in 1..nextActivation,
             FrameReturn(k, f, a)
      PROVE  Settling'
  <2>1. /\ DoomedPositions' = DoomedPositions /\ lane'.op = "idle" /\ lane.op = "idle"
        /\ ~Stopped /\ (InitialOwed => InitialOwed')
    BY <1>4, DoomedStays DEF FrameReturn, LaneFree, InitialOwed
  <2>2. TopServed'
    BY <1>0, <1>4 DEF FrameReturn, ValidSource, OnTop, TopServed, AwaitsClose, Top, TypeOK
  <2> QED
    BY <2>1, <2>2 DEF Settling
<1>5. ASSUME NEW k \in Subsystems, NEW f \in FrameIds, NEW a \in 1..nextActivation,
             NEW target \in Subsystems, FrameCall(k, f, a, target)
      PROVE  Settling'
  <2> DEFINE g == nextFrame
  <2>1. /\ lane'.op = "idle" /\ lane.op = "idle" /\ ~Stopped /\ (InitialOwed => InitialOwed')
        /\ UNCHANGED phase /\ Owed("start", g) \in owed'
    BY <1>5 DEF FrameCall, LaneFree, InitialOwed
  <2>2. /\ stack # <<>> /\ f = Top /\ g \in FrameIds /\ lifecycle[g] = "absent"
        /\ stack' = Append(stack, g) /\ owner' = [owner EXCEPT ![g] = target]
        /\ caller' = [caller EXCEPT ![g] = f]
    BY <1>0, <1>5, MaxFramesAssumption
       DEF FrameCall, Allocate, ValidSource, OnTop, TypeOK, IdsInOrder, FrameIds
  <2>3. /\ Len(stack') = Len(stack) + 1 /\ stack'[Len(stack) + 1] = g
        /\ \A i \in 1..Len(stack) : stack'[i] = stack[i] /\ stack[i] \in FrameIds
        /\ Len(stack) \in Nat \ {0}
    BY <1>0, <2>2, PushFacts, PopFacts
  <2>4. \A i \in 1..Len(stack) : stack[i] # g
    BY <2>2, <2>3 DEF IndInv, StackDiscipline, OnStack
  <2>5. DoomedPositions = {} => DoomedPositions' = {}
    <3> SUFFICES ASSUME DoomedPositions = {}, NEW i \in 1..Len(stack')
                 PROVE  ~Failed(owner[stack[i]])'
        BY DEF DoomedPositions
    <3>1. CASE i \in 1..Len(stack)
      <4>1. owner'[stack'[i]] = owner[stack[i]]
        BY <1>0, <2>2, <2>3, <2>4, <3>1 DEF TypeOK
      <4>2. ~Failed(owner[stack[i]])
        BY <3>1 DEF DoomedPositions
      <4> QED
        BY <2>1, <4>1, <4>2 DEF Failed
    <3>2. CASE i = Len(stack) + 1
      <4>1. owner'[stack'[i]] = target
        BY <1>0, <2>2, <2>3, <3>2 DEF TypeOK
      <4>2. ~Failed(target)
        BY <1>5 DEF FrameCall, RuntimeReady, Failed
      <4> QED
        BY <2>1, <4>1, <4>2 DEF Failed
    <3> QED
      BY <2>3, <3>1, <3>2
  <2>6. TopServed'
    <3>1. stack' # <<>> /\ Top' = g
      BY <2>2, <2>3 DEF Top
    <3>2. lifecycle'[g] = "starting" /\ caller'[g] = f /\ f # 0
      BY <1>0, <1>5, <2>2 DEF FrameCall, TypeOK, FrameIds
    <3> QED
      BY <2>1, <3>1, <3>2 DEF TopServed, AwaitsStart
  <2> QED
    BY <2>1, <2>5, <2>6 DEF Settling
<1> QED
  BY <1>1, <1>2, <1>3, <1>4, <1>5
     DEF Environment, WatchControl, StatusFailed, ControlTerminal, PhysicalTerminated

\* What Main owes itself leaves the session able to go on.
LEMMA OwedSettles == IndInv /\ IndInv' /\ Settling /\ OwedStep => Settling'
<1> SUFFICES ASSUME IndInv, IndInv', Settling, ~Stopped', NEW o \in owed,
                    \/ BeginShutdown(o)
                    \/ StartInitialFrame(o)
                    \/ StartAcceptedChild(o)
                    \/ FinalizeAcceptedReturn(o)
                    \/ ResponseLost(o)
             PROVE  Settling'
    BY DEF OwedStep, Settling
<1>0. TypeOK /\ TypeOK' /\ OwedInOrder
  BY DEF IndInv
<1> USE DEF recordVars, runtimeVars, counters, sessionVars
<1>1. CASE BeginShutdown(o)
  BY <1>1 DEF BeginShutdown, EndSession, Stopped
<1>2. CASE ResponseLost(o)
  <2>1. /\ DoomedPositions' = DoomedPositions /\ UNCHANGED <<lane, InitialOwed>> /\ ~Stopped
    BY <1>2, DoomedStays DEF ResponseLost, InitialOwed, Owed, Stopped
  <2>2. TopServed => TopServed'
    <3>1. \A f \in FrameIds : Owed("start", f) \in owed =>
             Owed("start", f) \in owed' \/ f # Top \/ ~link'[owner[caller[f]]]
      BY <1>2 DEF ResponseLost, Owed
    <3>2. \A f \in FrameIds : Owed("finalize", f) \in owed =>
             Owed("finalize", f) \in owed' \/ f # Top \/ ~link'[owner[f]]
      BY <1>2 DEF ResponseLost, Owed
    <3> QED
      BY <1>0, <1>2, <3>1, <3>2, ServedStays DEF ResponseLost
  <2>3. \A j : ~Failed(owner[stack[j]]) => ~Failed(owner[stack[j]])'
    BY <1>2 DEF ResponseLost, Failed
  <2> QED
    BY <2>1, <2>2, <2>3 DEF Settling
<1>3. o.op \in {"start", "finalize"} => ~InitialOwed /\ o.frame \in FrameIds
  <2>1. Owed("initial", 0).op = "initial"
    BY DEF Owed
  <2>2. InitialOwed => nextFrame = 1
    BY <1>0, <2>1 DEF OwedInOrder, InitialOwed
  <2>3. o.op \in {"start", "finalize"} => o.frame \in 1..(nextFrame - 1)
    BY <1>0 DEF OwedInOrder
  <2>4. nextFrame \in 1..(MaxFrames + 1)
    BY <1>0 DEF TypeOK
  <2> QED
    BY <2>2, <2>3, <2>4, MaxFramesAssumption DEF FrameIds
<1>4. CASE StartInitialFrame(o)
  <2>1. CASE ~RuntimeReady(Initial) \/ Stopped
    BY <1>4, <2>1 DEF StartInitialFrame, EndSession, Stopped
  <2>2. CASE RuntimeReady(Initial) /\ ~Stopped
    <3>1. /\ lane'.op = "initialize" /\ UNCHANGED phase /\ nextFrame = 1
          /\ stack' = Append(stack, nextFrame) /\ owner' = [owner EXCEPT ![nextFrame] = Initial]
      BY <1>0, <1>4, <2>2
         DEF StartInitialFrame, Allocate, Initialize, Idle, OwedInOrder
    <3>2. stack = <<>>
      <4> SUFFICES ASSUME stack # <<>> PROVE FALSE
          OBVIOUS
      <4>1. Top \in FrameIds /\ OnStack(Top)
        BY <1>0, PopFacts DEF OnStack, Top
      <4>2. lifecycle[Top] = "absent"
        BY <3>1, <4>1 DEF IndInv, IdsInOrder, FrameIds
      <4> QED
        BY <4>1, <4>2 DEF IndInv, StackDiscipline
    <3>3. 1 \in FrameIds
      BY MaxFramesAssumption DEF FrameIds
    <3>4. Len(stack') = 1 /\ stack'[1] = 1
      BY <3>1, <3>2
    <3>5. owner'[1] = Initial
      BY <1>0, <3>1, <3>3 DEF TypeOK
    <3>6. DoomedPositions' = {}
      BY <2>2, <3>1, <3>4, <3>5 DEF DoomedPositions, Failed, RuntimeReady
    <3> QED
      BY <3>1, <3>6 DEF Settling
  <2> QED
    BY <2>1, <2>2
<1>5. CASE StartAcceptedChild(o)
  <2> DEFINE f == o.frame
  <2>1. /\ lane.op = "idle" /\ o.op = "start" /\ UNCHANGED <<stack, owner, terminal, stopRequested>>
        /\ f \in FrameIds /\ ~InitialOwed /\ owed' = owed \ {o}
    BY <1>3, <1>5 DEF StartAcceptedChild, LaneFree
  <2>2. DoomedPositions = {} /\ TopServed /\ ~Stopped
    BY <2>1 DEF Settling, Stopped
  <2>3. CASE lifecycle[f] # "starting" \/ ~OnTop(f)
    <3>1. /\ DoomedPositions' = {} /\ lane' = lane
      BY <1>5, <2>2, <2>3, DoomedStays DEF StartAcceptedChild
    <3>2. TopServed'
      <4>1. CASE ~OnTop(f)
        <5>1. f # Top
          BY <2>2, <4>1 DEF OnTop, TopServed
        <5> QED
          BY <1>0, <1>5, <2>1, <2>2, <5>1, ServedStays DEF StartAcceptedChild, Owed
      <4>2. CASE lifecycle[f] # "starting" /\ OnTop(f)
        BY <1>5, <2>1, <2>2, <4>2 DEF StartAcceptedChild, TopServed, AwaitsClose, OnTop, Top, Owed
      <4> QED
        BY <2>3, <4>1, <4>2
    <3> QED
      BY <2>1, <3>1, <3>2 DEF Settling
  <2>4. CASE lifecycle[f] = "starting" /\ OnTop(f) /\ ~RuntimeReady(owner[f])
    <3>1. MarkFailed(owner[f]) /\ lane'.op = "unwind"
      BY <1>5, <2>2, <2>4 DEF StartAcceptedChild, Unwinding, Idle
    <3>2. phase'[owner[f]] = "failed"
      BY <1>0, <2>1, <3>1 DEF MarkFailed, TypeOK
    <3>3. Len(stack) \in 1..Len(stack) /\ stack[Len(stack)] = f
      BY <1>0, <2>4, PopFacts DEF OnTop, Top
    <3>4. DoomedPositions' # {}
      BY <2>1, <3>2, <3>3 DEF DoomedPositions, Failed
    <3> QED
      BY <3>1, <3>4 DEF Settling
  <2>5. CASE lifecycle[f] = "starting" /\ OnTop(f) /\ RuntimeReady(owner[f])
    <3>1. lane'.op = "initialize" /\ DoomedPositions' = {}
      BY <1>5, <2>2, <2>5, DoomedStays DEF StartAcceptedChild, Initialize, Idle
    <3> QED
      BY <3>1 DEF Settling
  <2> QED
    BY <2>3, <2>4, <2>5
<1>6. CASE FinalizeAcceptedReturn(o)
  <2> DEFINE f == o.frame
  <2>1. /\ lane.op = "idle" /\ o.op = "finalize" /\ UNCHANGED <<stack, owner, stopRequested>>
        /\ f \in FrameIds /\ ~InitialOwed /\ owed' = owed \ {o}
    BY <1>3, <1>6 DEF FinalizeAcceptedReturn, LaneFree
  <2>2. ~Stopped
    BY <1>6 DEF FinalizeAcceptedReturn, EndSession, Stopped
  <2>3. DoomedPositions = {} /\ TopServed
    BY <2>1, <2>2 DEF Settling
  <2>4. CASE lifecycle[f] = "closed" \/ ~OnTop(f)
    <3>1. DoomedPositions' = {} /\ lane' = lane
      BY <1>6, <2>3, <2>4, DoomedStays DEF FinalizeAcceptedReturn
    <3>2. f # Top
      BY <1>0, <2>3, <2>4, PopFacts
         DEF OnTop, TopServed, IndInv, StackDiscipline, OnStack, Top
    <3>3. TopServed'
      BY <1>0, <1>6, <2>1, <2>3, <3>2, ServedStays DEF FinalizeAcceptedReturn, Owed
    <3> QED
      BY <2>1, <3>1, <3>3 DEF Settling
  <2>5. CASE lifecycle[f] # "closed" /\ OnTop(f)
    <3>1. lifecycle[f] = "closing" /\ outcome[f] # "none"
      BY <1>0, <2>1, <2>5 DEF OwedInOrder
    <3>2. ~Failed(owner[f])
      <4>1. Len(stack) \in 1..Len(stack) /\ stack[Len(stack)] = f
        BY <1>0, <2>5, PopFacts DEF OnTop, Top
      <4> QED
        BY <2>3, <4>1 DEF DoomedPositions
    <3>3. lane'.op = "close" /\ DoomedPositions' = {}
      BY <1>6, <2>2, <2>3, <2>5, <3>1, <3>2, DoomedStays DEF FinalizeAcceptedReturn, Idle
    <3> QED
      BY <3>3 DEF Settling
  <2> QED
    BY <2>4, <2>5
<1> QED
  BY <1>1, <1>2, <1>4, <1>5, <1>6

\* A reply, or its absence, leaves the session able to go on.
LEMMA ReplySettles == IndInv /\ IndInv' /\ Settling /\ Reply => Settling'
<1> SUFFICES ASSUME IndInv, IndInv', Settling, Reply, ~Stopped' PROVE Settling'
    BY DEF Settling
<1>0. /\ TypeOK /\ TypeOK' /\ LaneOnTop /\ UnwindRoot
      /\ lane.op \in RpcOps /\ OnTop(lane.frame) /\ stack # <<>> /\ lane.frame \in FrameIds
      /\ Len(stack) \in 1..Len(stack) /\ stack[Len(stack)] = lane.frame /\ Len(stack) \in Nat
  <2>1. TypeOK /\ TypeOK' /\ LaneOnTop /\ UnwindRoot
    BY DEF IndInv
  <2>2. lane.op \in RpcOps
    BY DEF Reply, ReplyAfterStop, InitializeSucceeds, InitializeRejected, ActivateSucceeds,
           CloseSucceeds, ResumeSucceeds, UnwindCloseSucceeds, RpcFails, Answered, RpcOps
  <2>3. OnTop(lane.frame)
    BY <2>1, <2>2 DEF LaneOnTop, RpcOps
  <2> QED
    BY <2>1, <2>2, <2>3, PopFacts DEF OnTop, Top
<1> USE DEF recordVars, runtimeVars, counters, sessionVars
<1>1. CASE ReplyAfterStop
  BY <1>1 DEF ReplyAfterStop, Stopped
<1>2. CASE InitializeSucceeds
  <2>1. /\ DoomedPositions' = DoomedPositions /\ lane.op = "initialize" /\ ~Stopped
        /\ lane'.op = "activate"
    BY <1>0, <1>2, DoomedStays
       DEF InitializeSucceeds, Answered, Stopped, TypeOK, LaneRecords
  <2> QED
    BY <2>1 DEF Settling
<1>3. CASE ActivateSucceeds \/ ResumeSucceeds
  <2>1. /\ DoomedPositions' = DoomedPositions /\ lane.op \in {"activate", "resume"} /\ ~Stopped
        /\ lane'.op = "idle"
    BY <1>3, DoomedStays DEF ActivateSucceeds, ResumeSucceeds, Answered, Stopped, Idle
  <2>2. stack' # <<>> /\ Top' = lane.frame /\ lifecycle'[lane.frame] = "active"
    BY <1>0, <1>3 DEF ActivateSucceeds, ResumeSucceeds, OnTop, Top, TypeOK
  <2> QED
    BY <2>1, <2>2 DEF Settling, TopServed
<1>4. CASE InitializeRejected \/ CloseSucceeds
  <2>1. lane.op \in {"initialize", "close"} /\ stack' = Pop /\ ~stopRequested
    BY <1>4 DEF InitializeRejected, CloseSucceeds, Answered, CloseTop
  <2>2. DoomedPositions = {}
    BY <1>0, <2>1 DEF Settling, Stopped, LaneOnTop
  <2>3. PICK result : result # "none" /\ ResumeCaller(lane.frame, result, stack')
    BY <1>0, <1>4, <2>1 DEF InitializeRejected, CloseSucceeds, Answered, LaneOnTop
  <2>4. UNCHANGED <<owner, stopRequested>>
    BY <1>4 DEF InitializeRejected, CloseSucceeds
  <2>5. \A j \in 1..(Len(stack) - 1) : ~Failed(owner[stack[j]])
    BY <1>0, <2>2 DEF DoomedPositions
  <2>6. Len(Pop) = Len(stack) - 1 /\ Len(stack) - 1 \in 0..(Len(stack) - 1)
    BY <1>0, PopFacts
  <2>7. \A i \in 1..Len(stack') : ~Failed(owner[stack'[i]])
    BY <1>0, <2>1, <2>5, <2>6, PopKeepsHealth
  <2>8. stack' \in Seq(FrameIds)
    BY <1>0 DEF TypeOK
  <2> QED
    BY <1>0, <2>3, <2>4, <2>7, <2>8, ResumeCallerSettles
<1>5. CASE UnwindCloseSucceeds
  <2>1. /\ lane.op = "unwind-close" /\ lane'.op = "pop" /\ lane'.below = lane.below
        /\ stack' = Pop /\ UNCHANGED <<owner, phase>> /\ ~Stopped
    BY <1>0, <1>5 DEF UnwindCloseSucceeds, Answered, CloseTop, Stopped, TypeOK, LaneRecords
  <2>2. lane.below \in 0..(Len(stack) - 1)
    BY <1>0, <2>1 DEF UnwindRoot, TypeOK, LaneRecords
  <2>3. \A j \in 1..lane.below : ~Failed(owner[stack[j]])
    BY <2>1 DEF Settling
  <2>4. \A j \in 1..lane.below : ~Failed(owner[Pop[j]])
    BY <1>0, <2>2, <2>3, PopKeepsHealth
  <2>5. \A j \in 1..lane'.below : ~Failed(owner[stack[j]])'
    BY <2>1, <2>4 DEF Failed
  <2> QED
    BY <2>1, <2>5 DEF Settling
<1>6. CASE RpcFails
  <2>1. MarkFailed(owner[lane.frame]) /\ lane'.op = "unwind" /\ UNCHANGED <<stack, owner>>
    BY <1>6 DEF RpcFails, Unwinding, Idle
  <2>2. phase'[owner[lane.frame]] = "failed"
    BY <1>0, <2>1 DEF MarkFailed, TypeOK
  <2>3. DoomedPositions' # {}
    BY <1>0, <2>1, <2>2 DEF DoomedPositions, Failed
  <2> QED
    BY <2>1, <2>3 DEF Settling
<1> QED
  BY <1>1, <1>2, <1>3, <1>4, <1>5, <1>6 DEF Reply

\* An unwind comes to rest with no Frame of a failed Runtime on the stack, or
\* with the delivery of its root's outcome.
LEMMA UnwindSettles == IndInv /\ IndInv' /\ Settling /\ UnwindStep => Settling'
<1> SUFFICES ASSUME IndInv, IndInv', Settling, UnwindStep, ~Stopped' PROVE Settling'
    BY DEF Settling
<1>0. TypeOK /\ TypeOK' /\ LaneOnTop /\ UnwindRoot /\ Len(stack) \in Nat
  BY DEF IndInv, TypeOK
<1> USE DEF recordVars, runtimeVars, counters, sessionVars
<1>1. CASE UnwindLoop
  <2>1. /\ ~Stopped /\ lane.op = "unwind" /\ UNCHANGED <<phase, owner, stack>>
        /\ UNCHANGED <<lifecycle, caller, link, owed>>
    BY <1>1 DEF UnwindLoop, Stopped
  <2>2. CASE DoomedPositions = {}
    <3>1. lane'.op = "idle"
      BY <1>1, <2>2 DEF UnwindLoop, Idle
    <3>2. ~InitialOwed' => DoomedPositions' = {} /\ TopServed'
      BY <1>0, <2>1, <2>2, DoomedStays, ServedStays DEF Settling, InitialOwed
    <3> QED
      BY <3>1, <3>2 DEF Settling
  <2>3. CASE DoomedPositions # {}
    <3>1. PICK i \in DoomedPositions :
            /\ IsLowestDoomed(i)
            /\ lane' = [Idle EXCEPT !.op = "pop", !.returned = stack[i], !.below = i - 1,
                                    !.outcome = RootOutcome(stack[i])]
      BY <1>1, <2>1, <2>3 DEF UnwindLoop
    <3>2. i \in 1..Len(stack) /\ lane'.op = "pop" /\ lane'.below = i - 1
      BY <3>1 DEF DoomedPositions, Idle
    <3>3. \A j \in 1..(i - 1) : ~Failed(owner[stack[j]])
      BY <1>0, <3>1, <3>2 DEF IsLowestDoomed, DoomedPositions
    <3>4. \A j \in 1..lane'.below : ~Failed(owner[stack[j]])'
      BY <2>1, <3>2, <3>3 DEF Failed
    <3> QED
      BY <3>2, <3>4 DEF Settling
  <2> QED
    BY <2>2, <2>3
<1>2. CASE UnwindPop
  <2>1. /\ ~Stopped /\ lane.op = "pop" /\ UNCHANGED <<phase, owner, stack>>
        /\ lane'.op \in {"drop", "unwind-close"} /\ lane'.below = lane.below
    <3>1. ~Stopped /\ lane.op = "pop" /\ UNCHANGED <<owner, stack>> /\ terminal' = "none"
      BY <1>2 DEF UnwindPop, Stopped
    <3>2. CASE ~Failed(owner[Top]) /\ contextKnown[Top] /\ closeAttempted[Top]
      BY <1>2, <3>1, <3>2 DEF UnwindPop, EndSession, Stopped
    <3>3. CASE ~(~Failed(owner[Top]) /\ contextKnown[Top] /\ closeAttempted[Top])
      <4>1. /\ UNCHANGED phase
            /\ \/ lane' = [lane EXCEPT !.op = "drop", !.frame = Top]
               \/ lane' = [lane EXCEPT !.op = "unwind-close", !.frame = Top]
        BY <1>2, <3>3 DEF UnwindPop
      <4>2. lane \in LaneRecords
        BY <1>0 DEF TypeOK
      <4> QED
        BY <3>1, <4>1, <4>2 DEF LaneRecords
    <3> QED
      BY <3>2, <3>3
  <2>2. \A j \in 1..lane'.below : ~Failed(owner[stack[j]])'
    BY <2>1 DEF Settling, Failed
  <2> QED
    BY <2>1, <2>2 DEF Settling
<1>3. CASE UnwindDrop
  <2>1. /\ lane.op = "drop" /\ lane'.op = "pop" /\ lane'.below = lane.below
        /\ stack' = Pop /\ UNCHANGED <<owner, phase>> /\ ~Stopped
    BY <1>0, <1>3 DEF UnwindDrop, CloseTop, Stopped, TypeOK, LaneRecords
  <2>2. lane.below \in 0..(Len(stack) - 1) /\ stack # <<>>
    BY <1>0, <2>1 DEF UnwindRoot, LaneOnTop, OnTop, TypeOK, LaneRecords
  <2>3. \A j \in 1..lane.below : ~Failed(owner[stack[j]])
    BY <2>1 DEF Settling
  <2>4. \A j \in 1..lane.below : ~Failed(owner[Pop[j]])
    BY <1>0, <2>2, <2>3, PopKeepsHealth
  <2>5. \A j \in 1..lane'.below : ~Failed(owner[stack[j]])'
    BY <2>1, <2>4 DEF Failed
  <2> QED
    BY <2>1, <2>5 DEF Settling
<1>4. CASE UnwindDeliver
  <2>1. /\ ~Stopped /\ lane.op = "pop" /\ UNCHANGED <<owner, stack, stopRequested>>
        /\ Len(stack) <= lane.below /\ lane.below <= Len(stack)
    BY <1>0, <1>4 DEF UnwindDeliver, Stopped, UnwindRoot
  <2>2. \A i \in 1..Len(stack) : ~Failed(owner[stack[i]])
    BY <1>0, <2>1 DEF Settling, TypeOK, LaneRecords
  <2>3. /\ lane.outcome # "none" /\ lane.returned \in 1..(nextFrame - 1)
        /\ lane.returned \in FrameIds
    BY <1>0, <2>1, MaxFramesAssumption DEF UnwindRoot, Committed, Outcomes, TypeOK, FrameIds
  <2>4. ResumeCaller(lane.returned, lane.outcome, stack')
    BY <1>4, <2>1, <2>3 DEF UnwindDeliver, EndSession, Stopped
  <2>5. stack' \in Seq(FrameIds)
    BY <1>0 DEF TypeOK
  <2> QED
    BY <1>0, <2>1, <2>2, <2>3, <2>4, <2>5, ResumeCallerSettles
<1> QED
  BY <1>1, <1>2, <1>3, <1>4 DEF UnwindStep

\* Whenever the lane is free and the session has not stopped, no Frame of a
\* failed Runtime is on the stack, and its top is active or is still to be
\* started or closed (main-session.ts, unwindFailures before every release).
THEOREM AtRestTheSessionGoesOn == Spec => []SettledAtRest
<1>1. Init => IndInv /\ Settling
  BY InitIndInv DEF Init, Settling, InitialOwed, Owed, Idle
<1>2. IndInv /\ Settling /\ [Next]_vars => IndInv' /\ Settling'
  <2> SUFFICES ASSUME IndInv, Settling, [Next]_vars PROVE IndInv' /\ Settling'
      OBVIOUS
  <2>1. IndInv'
    BY NextIndInv
  <2>2. CASE UNCHANGED vars
    <3>1. UNCHANGED <<phase, link, lifecycle, owner, caller, stack, lane, owed, terminal,
                      stopRequested>>
      BY <2>2 DEF vars, recordVars, runtimeVars, counters, sessionVars
    <3>2. UNCHANGED <<InitialOwed, DoomedPositions, Stopped>>
      BY <3>1, DoomedStays DEF InitialOwed, Stopped
    <3>3. UNCHANGED TopServed
      BY <3>1 DEF TopServed, AwaitsStart, AwaitsClose, Top
    <3>4. \A j : UNCHANGED Failed(owner[stack[j]])
      BY <3>1 DEF Failed
    <3> QED
      BY <2>1, <3>1, <3>2, <3>3, <3>4 DEF Settling
  <2>3. CASE Next
    BY <2>1, <2>3, EnvironmentSettles, OwedSettles, ReplySettles, UnwindSettles DEF Next
  <2> QED
    BY <2>1, <2>2, <2>3
<1>3. Settling => SettledAtRest
  BY DEF Settling, SettledAtRest, LaneFree, InitialOwed, TopServed
<1> QED
  BY <1>1, <1>2, <1>3, PTL DEF Spec
=============================================================================
