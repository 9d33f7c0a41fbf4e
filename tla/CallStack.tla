------------------------------ MODULE CallStack ------------------------------
(***************************************************************************)
(* What the Frame authority of the Main session promises, whatever its     *)
(* RPCs, failures and queues do: a call stack with at most one Frame in    *)
(* control, a Frame that returned or was dropped never in control again,   *)
(* and a session that ends with the root Frame's own result.               *)
(***************************************************************************)
EXTENDS Integers, Sequences

CONSTANT MaxFrames

VARIABLES
    chain,      \* the stack of live Frames, top last
    control,    \* the Frame in control, 0 when there is none
    result,     \* result[f]: what f has committed to give to its caller
    next,       \* the next Frame id
    ended       \* how the session ended, "none" before

vars == <<chain, control, result, next, ended>>

FrameIds == 1..MaxFrames
NoResult == "none"
Top == chain[Len(chain)]

Init ==
    /\ chain = <<>>
    /\ control = 0
    /\ result = [f \in FrameIds |-> NoResult]
    /\ next = 1
    /\ ended = "none"

\* The root Frame, or a child called by the Frame in control.
Push ==
    /\ next \in FrameIds
    /\ IF chain = <<>> THEN next = 1 ELSE control = Top
    /\ chain' = Append(chain, next)
    /\ control' = 0
    /\ next' = next + 1
    /\ UNCHANGED <<result, ended>>

\* The Frame in control commits its result and gives up control.
Return ==
    /\ control # 0
    /\ result' = [result EXCEPT ![control] = "returned"]
    /\ control' = 0
    /\ UNCHANGED <<chain, next, ended>>

\* Control is taken away; the top Frame may leave the stack with it, and a
\* Frame that leaves without ever having been in control may leave rejected.
Drop ==
    /\ chain # <<>>
    /\ control' = 0
    /\ chain' \in {chain, SubSeq(chain, 1, Len(chain) - 1)}
    /\ \/ UNCHANGED result
       \/ /\ chain' # chain
          /\ result[Top] = NoResult
          /\ result' = [result EXCEPT ![Top] = "rejected"]
    /\ UNCHANGED next
    /\ \/ UNCHANGED ended
       \/ /\ ended = "none"
          /\ chain' = <<>>
          /\ ended' = IF result'[1] = NoResult THEN "runtime-failed" ELSE result'[1]

\* Control is given to the top Frame, unless it has committed a result.
Grant ==
    /\ chain # <<>>
    /\ control = 0
    /\ result[Top] = NoResult
    /\ control' = Top
    /\ UNCHANGED <<chain, result, next, ended>>

\* With the stack empty the session ends with what the root Frame committed.
EndWithRoot ==
    /\ chain = <<>>
    /\ next > 1
    /\ ended' = IF result[1] = NoResult THEN "runtime-failed" ELSE result[1]
    /\ UNCHANGED <<chain, control, result, next>>

EndEarly ==
    /\ ended' \in {"shutdown", "fatal"}
    /\ UNCHANGED <<chain, control, result, next>>

Next == ended = "none" /\ (Push \/ Return \/ Drop \/ Grant \/ EndWithRoot \/ EndEarly)

Spec == Init /\ [][Next]_vars
=============================================================================
