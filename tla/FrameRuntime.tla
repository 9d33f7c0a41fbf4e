---------------------------- MODULE FrameRuntime ----------------------------
(***************************************************************************)
(* The Frames of the Subsystem Runtimes (packages/subsystem/src/internal/  *)
(* frame-runtime.ts), each behind its Runtime Control peer                 *)
(* (packages/runtime-control/src/subsystem-peer.ts and runtime.ts), from   *)
(* the moment the Runtime has reported ready: the contexts, the handlers   *)
(* of Main's Frame requests, Frame.call and the return of a handler.       *)
(*                                                                         *)
(* The wire is part of the state.  The read loop of a Runtime handles a    *)
(* response when it reads it, while a request waits until the one before   *)
(* it has been answered and its afterResponse has run.  There is at most   *)
(* one request of Main on the wire, since Main awaits the reply, and one   *)
(* response, since a Runtime has one request in flight: a channel is two   *)
(* slots, and whether the request was sent behind the response.            *)
(*                                                                         *)
(* onSuspend is left out: Main never sends frame.suspend.                  *)
(***************************************************************************)
EXTENDS Integers

CONSTANTS
    Subsystems,     \* the Runtimes
    MaxFrames       \* bound on the Frames of the session

VARIABLES
    up,             \* SubsystemHost.terminal is null: canAcceptFrames()
    context,        \* context[k][f]: the FrameContext of f in the Runtime k
    inFlight,       \* the frame.call or frame.return that awaits its response;
                    \* `mutation` of the peer while there is one
    after,          \* the request whose response is written and whose
                    \* afterResponse is still to run
    asked,          \* Main's request that the Runtime has not handled
    answer,         \* Main's response that the Runtime has not read
    behind,         \* `asked` was sent while `answer` was still unread
    request,        \* the frame.call or frame.return Main has not handled
    reply,          \* the answer to Main's request that Main has not read
    reported        \* the status "failed" is on its way to Main

contextVars == <<up, context, inFlight, after>>
wireVars == <<asked, answer, behind, request, reply, reported>>
runtimeSideVars == <<contextVars, wireVars>>

FrameIds == 1..MaxFrames

\* FrameState; "none": not in the contexts map ("closed" is deleted from it).
ContextStates == {"none", "initialized", "activating", "active", "calling",
                  "awaiting-resume", "resuming", "returning", "closing"}
\* A FrameContext: activationId and pendingCall.
NoContext == [state |-> "none", activation |-> 0, child |-> 0, revoked |-> 0]

FrameRequests == {"initialize", "activate", "resume", "close"}
Answers == {"accepted", "unavailable", "refused"}
\* A message names a Frame, an activation, and the child whose outcome it
\* delivers (resume) or that it has created (accepted).
Nothing == [op |-> "none", frame |-> 0, activation |-> 0, child |-> 0]
Request(op, f, a, c) == [op |-> op, frame |-> f, activation |-> a, child |-> c]
Response(op, c) == [Nothing EXCEPT !.op = op, !.child = c]

State(k, f) == context[k][f].state
Put(k, f, c) == context' = [context EXCEPT ![k][f] = c]
Move(k, f, s) == context' = [context EXCEPT ![k][f].state = s]

RuntimeInit ==
    /\ up = [k \in Subsystems |-> TRUE]
    /\ context = [k \in Subsystems |-> [f \in FrameIds |-> NoContext]]
    /\ inFlight = [k \in Subsystems |-> Nothing]
    /\ after = [k \in Subsystems |-> Nothing]
    /\ asked = [k \in Subsystems |-> Nothing]
    /\ answer = [k \in Subsystems |-> Nothing]
    /\ behind = [k \in Subsystems |-> FALSE]
    /\ request = [k \in Subsystems |-> Nothing]
    /\ reply = [k \in Subsystems |-> "none"]
    /\ reported = [k \in Subsystems |-> FALSE]

\* failRuntime: the contexts are aborted; an answer or a request that is not
\* yet written is lost, and so is what Main sends from now on.
Ends(k) ==
    /\ up' = [up EXCEPT ![k] = FALSE]
    /\ context' = [context EXCEPT ![k] = [f \in FrameIds |-> NoContext]]
    /\ inFlight' = [inFlight EXCEPT ![k] = Nothing]
    /\ after' = [after EXCEPT ![k] = Nothing]
    /\ asked' = [asked EXCEPT ![k] = Nothing]
    /\ answer' = [answer EXCEPT ![k] = Nothing]
    /\ behind' = [behind EXCEPT ![k] = FALSE]

\* A terminal of the connection is mapped to a failure of the Runtime; no
\* status can be sent any more.
ConnectionEnds(k) == Ends(k) /\ UNCHANGED <<request, reply, reported>>

\* A failure inside the Runtime: finishFatal sends "failed" and then closes.
FailRuntime(k) ==
    /\ Ends(k)
    /\ reported' = [reported EXCEPT ![k] = TRUE]
    /\ UNCHANGED <<request, reply>>

----------------------------------------------------------------------------
(* Requests of Main.  A handler runs to its reply, the reply is written,   *)
(* and afterResponse runs before the next request is looked at.            *)

\* Seeded bug: requests are handled in a lane of their own, which overtakes the
\* responses.
ReceivesAhead(k, op) ==
    /\ up[k]
    /\ after[k] = Nothing
    /\ asked[k].op = op
    /\ asked' = [asked EXCEPT ![k] = Nothing]
    /\ UNCHANGED <<up, inFlight, answer, behind, request, reported>>

Receives(k, op) ==
    /\ up[k]
    /\ after[k] = Nothing
    /\ asked[k].op = op
    /\ ~behind[k]
    /\ asked' = [asked EXCEPT ![k] = Nothing]
    /\ UNCHANGED <<up, inFlight, answer, behind, request, reported>>

Reply(k, r) == reply' = [reply EXCEPT ![k] = r]
Accept(k, m) == after' = [after EXCEPT ![k] = m] /\ Reply(k, "done")
Refuse(k) == Reply(k, "refused") /\ UNCHANGED <<context, after>>

OnInitialize(k) ==
    LET m == asked[k] IN
    /\ Receives(k, "initialize")
    /\ IF State(k, m.frame) # "none"
       THEN Refuse(k)
       ELSE Put(k, m.frame, [NoContext EXCEPT !.state = "initialized"]) /\ Accept(k, m)

OnActivate(k) ==
    LET m == asked[k] IN
    /\ Receives(k, "activate")
    /\ IF State(k, m.frame) # "initialized"
       THEN Refuse(k)
       ELSE Move(k, m.frame, "activating") /\ Accept(k, m)

\* onResume's guards, after the context was found.
CanResume(c, m) ==
    /\ c.state = "awaiting-resume"
    /\ c.child = m.child
    /\ c.revoked # m.activation

OnResume(k) ==
    LET m == asked[k] IN
    /\ Receives(k, "resume")
    /\ IF ~CanResume(context[k][m.frame], m)
       THEN Refuse(k)
       ELSE Move(k, m.frame, "resuming") /\ Accept(k, m)

\* Seeded bug: the context of a call under way is left to its response.
OnCloseSparesCall(k) ==
    LET m == asked[k] IN
    /\ Receives(k, "close")
    /\ IF State(k, m.frame) \in {"none", "closing"}
       THEN Refuse(k)
       ELSE IF State(k, m.frame) = "calling"
       THEN Reply(k, "done") /\ UNCHANGED <<context, after>>
       ELSE /\ Put(k, m.frame, [context[k][m.frame] EXCEPT !.state = "closing",
                                                           !.activation = 0])
            /\ Accept(k, m)

OnClose(k) ==
    LET m == asked[k] IN
    /\ Receives(k, "close")
    /\ IF State(k, m.frame) \in {"none", "closing"}
       THEN Refuse(k)
       ELSE /\ Put(k, m.frame, [context[k][m.frame] EXCEPT !.state = "closing",
                                                           !.activation = 0])
            /\ Accept(k, m)

\* afterResponse: the Frame runs, goes on with its child's outcome, or is gone.
AfterResponse(k) ==
    LET m == after[k] IN
    /\ up[k]
    /\ m # Nothing
    /\ CASE m.op = "initialize" -> UNCHANGED context
         [] m.op \in {"activate", "resume"} ->
                Put(k, m.frame, [NoContext EXCEPT !.state = "active",
                                                  !.activation = m.activation])
         [] m.op = "close" -> Put(k, m.frame, NoContext)
    /\ after' = [after EXCEPT ![k] = Nothing]
    /\ UNCHANGED <<up, inFlight, wireVars>>

----------------------------------------------------------------------------
(* What the game's code does.                                              *)

\* frameRequest: a second mutation in flight ends the connection locally.
SendOrFail(k, m, c) ==
    IF inFlight[k] # Nothing
    THEN ConnectionEnds(k)
    ELSE /\ Put(k, m.frame, c)
         /\ inFlight' = [inFlight EXCEPT ![k] = m]
         /\ request' = [request EXCEPT ![k] = m]
         /\ UNCHANGED <<up, after, asked, answer, behind, reply, reported>>

\* Frame.call; which Runtime it names is up to the game (see TakeCall).
Call(k, f) ==
    LET c == context[k][f] IN
    /\ up[k]
    /\ c.state = "active"
    /\ SendOrFail(k, Request("call", f, c.activation, 0), [c EXCEPT !.state = "calling"])

\* The handler's promise settles: returnOutcome.
Return(k, f) ==
    LET c == context[k][f] IN
    /\ up[k]
    /\ c.state = "active"
    /\ SendOrFail(k, Request("return", f, c.activation, 0),
                  [c EXCEPT !.state = "returning", !.activation = 0])

\* The handler's promise settles while a call it did not await is under way.
ReturnDuringCall(k, f) ==
    /\ up[k]
    /\ State(k, f) \in {"calling", "awaiting-resume", "resuming"}
    /\ FailRuntime(k)

----------------------------------------------------------------------------
(* Responses of Main.                                                      *)

\* The continuation of Frame.call; a Frame that is being closed, or gone,
\* stays as it is.
Continue(k, m, response) ==
    IF m.op = "return" \/ State(k, m.frame) # "calling"
    THEN UNCHANGED context
    ELSE IF response.op = "accepted"
    THEN Put(k, m.frame, [state |-> "awaiting-resume", activation |-> 0,
                          child |-> response.child, revoked |-> m.activation])
    ELSE Move(k, m.frame, "active")

\* receiveResponse.
ReadAnswer(k) ==
    /\ up[k]
    /\ answer[k] # Nothing
    /\ IF answer[k].op = "refused"
       THEN ConnectionEnds(k)
       ELSE /\ Continue(k, inFlight[k], answer[k])
            /\ inFlight' = [inFlight EXCEPT ![k] = Nothing]
            /\ answer' = [answer EXCEPT ![k] = Nothing]
            /\ behind' = [behind EXCEPT ![k] = FALSE]
            /\ UNCHANGED <<up, after, asked, request, reply, reported>>
=============================================================================
