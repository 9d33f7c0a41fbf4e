------------------------- MODULE SharedStateCommits -------------------------
(***************************************************************************)
(* Conditional commits to the Shared State Authority (packages/shared-     *)
(* state/src) by one Subsystem whose client replaces its carrier binding   *)
(* while commits are in flight, next to other clients of the Authority.    *)
(* The subject is the evidence an author gets: committed, not committed    *)
(* for certain, or OUTCOME_UNKNOWN.                                        *)
(*                                                                         *)
(* A commit passes the binding's request table, its outbound lane, the     *)
(* carrier, the server's request loop, Authority.commit, and the way back. *)
(* That the carrier has accepted it ("dispatched") and what became of it   *)
(* ("result") are two promises, which may settle in either order.          *)
(*                                                                         *)
(* The carrier is external: a send that is rejected has not delivered the  *)
(* message; one that is accepted may have, even after the connection ended *)
(* (the server reads what it had buffered).  A transaction is the versions *)
(* it is conditioned on and the keys it writes.                            *)
(***************************************************************************)
EXTENDS Integers, FiniteSets

CONSTANTS
    Keys,           \* the Records, by identity token
    Commits,        \* the calls of commit() by our author
    Bindings,       \* how many bindings the client is given, one after the other
    MaxRevision     \* Number.MAX_SAFE_INTEGER, for revision and versions

ASSUME BindingsAssumption == Bindings \in Nat
ASSUME MaxRevisionAssumption == MaxRevision \in Nat

VARIABLES
    version,            \* StoredRecord.version, 0 for a Record not materialized
    revision,           \* SharedStateAuthority.revisionValue
    authorityTerminal,  \* SharedStateAuthority.terminalValue
    current,            \* the binding attached to the client, 0 for null
    attachments,        \* how many bindings have been attached so far
    clientTerminal,     \* ReplaceableSharedStateClient.terminalValue
    link,               \* link[b]: the connection of binding b is up
    conditions,         \* conditions[c][k]: the version of k that c asks for
    writes,             \* writes[c]: the keys c writes
    via,                \* the binding that c was admitted to, 0: not called
    place,              \* where its request is
    dispatched,         \* AttachedBinding attempt's dispatched promise
    result,             \* its result promise
    outcome,            \* what the promise returned to the author says
    applied             \* history: the revision at which c took effect, 0: none

storeVars == <<version, revision, authorityTerminal>>
clientVars == <<current, attachments, clientTerminal>>
txVars == <<conditions, writes, via>>
attemptVars == <<place, dispatched, result, outcome>>
vars == <<storeVars, clientVars, link, txVars, attemptVars, applied>>

NoCondition == -1                       \* no condition on this key
Refusals == {"INVALID_REQUEST", "LIMIT_EXCEEDED", "CONFLICT", "TERMINAL"}
\* The failures that assure the author that nothing was committed.
KnownNoCommit == Refusals \cup {"BINDING_UNAVAILABLE"}
Answers == Refusals \cup {"committed"}
\* In the outbound lane, with the carrier; an answer: that answer is under way.
Places == {"none", "lane", "carrier", "gone"} \cup Answers

Same(c) == via[c] # 0 /\ current = via[c]
Unsettled(c) == via[c] # 0 /\ outcome[c] = "none"

Init ==
    /\ version = [k \in Keys |-> 0] /\ revision = 0 /\ authorityTerminal = FALSE
    /\ current = 0 /\ attachments = 0 /\ clientTerminal = FALSE
    /\ link = [b \in 1..Bindings |-> TRUE]
    /\ conditions = [c \in Commits |-> [k \in Keys |-> NoCondition]]
    /\ writes = [c \in Commits |-> {}]
    /\ via = [c \in Commits |-> 0]
    /\ place = [c \in Commits |-> "none"]
    /\ dispatched = [c \in Commits |-> "pending"]
    /\ result = [c \in Commits |-> "pending"]
    /\ outcome = [c \in Commits |-> "none"]
    /\ applied = [c \in Commits |-> 0]

----------------------------------------------------------------------------

\* The rest of client.commit() for a commit c whose promises are d and r while
\* the client's binding is cur; "none": it still awaits one of them.
Conclusion(c, d, r, cur) ==
    IF d = "pending" THEN "none"
    ELSE IF d = "rejected" THEN "BINDING_UNAVAILABLE"
    ELSE IF r = "pending" THEN "none"
    ELSE IF cur # via[c] \/ r = "lost" THEN "OUTCOME_UNKNOWN" ELSE r

\* The promises of c become d and r.
Learn(c, d, r) ==
    /\ dispatched' = [dispatched EXCEPT ![c] = d]
    /\ result' = [result EXCEPT ![c] = r]
    /\ outcome' = [outcome EXCEPT ![c] = IF Unsettled(c) THEN Conclusion(c, d, r, current) ELSE @]

\* Seeded bug: requests are rejected before the client is fenced, and close()
\* rejects them with a BINDING_UNAVAILABLE of its own.
BindingGoneRejectsFirst(d) ==
    LET lost == {c \in Commits : Same(c) /\ result[c] = "pending"} IN
    /\ current' = 0
    /\ result' = [c \in Commits |-> IF c \in lost THEN "lost" ELSE result[c]]
    /\ outcome' = [c \in Commits |->
                    IF c \in lost /\ Unsettled(c) /\ d[c] = "resolved"
                    THEN "BINDING_UNAVAILABLE" ELSE outcome[c]]

\* Seeded bug: the loss of a binding leaves its requests in the table.
BindingGoneForgetsRequests(d) ==
    /\ current' = 0
    /\ UNCHANGED <<result, outcome>>

\* failClosed of the current binding, and the client's detach, with d for the
\* dispatched promises: every request that is not answered is rejected, the
\* client being fenced first.
BindingGone(d) ==
    LET lost == {c \in Commits : Same(c) /\ result[c] = "pending"} IN
    /\ current' = 0
    /\ result' = [c \in Commits |-> IF c \in lost THEN "lost" ELSE result[c]]
    /\ outcome' = [c \in Commits |->
                    IF c \in lost /\ Unsettled(c)
                    THEN Conclusion(c, d[c], "lost", 0) ELSE outcome[c]]

----------------------------------------------------------------------------
\* attach(), of a fresh binding; one that is attached is detached first.
Attach ==
    /\ ~clientTerminal /\ current = 0 /\ attachments < Bindings
    /\ attachments' = attachments + 1
    /\ current' = attachments'
    /\ UNCHANGED <<storeVars, clientTerminal, link, txVars, attemptVars, applied>>

\* detach(), which closes the carrier, by attach() or by the client's owner.
Detach ==
    /\ current # 0
    /\ link' = [link EXCEPT ![current] = FALSE]
    /\ BindingGone(dispatched)
    /\ UNCHANGED <<storeVars, attachments, clientTerminal, txVars, place, dispatched, applied>>

Terminate ==
    /\ ~clientTerminal
    /\ clientTerminal' = TRUE
    /\ IF current = 0
       THEN UNCHANGED <<current, link, result, outcome>>
       ELSE link' = [link EXCEPT ![current] = FALSE] /\ BindingGone(dispatched)
    /\ UNCHANGED <<storeVars, attachments, txVars, place, dispatched, applied>>

LinkBreaks(b) ==
    /\ link[b] /\ b <= attachments
    /\ link' = [link EXCEPT ![b] = FALSE]
    /\ UNCHANGED <<storeVars, clientVars, txVars, attemptVars, applied>>

\* carrier.closed, or a rejected send, ends the binding, and that detaches it.
BindingFails ==
    /\ current # 0 /\ ~link[current]
    /\ BindingGone(dispatched)
    /\ UNCHANGED <<storeVars, attachments, clientTerminal, link, txVars, place, dispatched,
                   applied>>

----------------------------------------------------------------------------
\* commit() is refused before it is dispatched: admit(), or the binding's
\* validation, closed state or request table.
CommitRefused(c) ==
    /\ via[c] = 0 /\ outcome[c] = "none"
    /\ \E why \in {"TERMINAL", "BINDING_UNAVAILABLE", "INVALID_REQUEST", "LIMIT_EXCEEDED"} :
        /\ clientTerminal <=> why = "TERMINAL"
        /\ current = 0 /\ ~clientTerminal => why = "BINDING_UNAVAILABLE"
        /\ outcome' = [outcome EXCEPT ![c] = why]
    /\ UNCHANGED <<storeVars, clientVars, link, txVars, place, dispatched, result, applied>>

\* commit() by an author who conditions on versions it may have read.
Commit(c, wanted, W) ==
    /\ via[c] = 0 /\ outcome[c] = "none"
    /\ current # 0
    /\ \A k \in Keys : wanted[k] <= version[k]
    /\ conditions' = [conditions EXCEPT ![c] = wanted]
    /\ writes' = [writes EXCEPT ![c] = W]
    /\ via' = [via EXCEPT ![c] = current]
    /\ place' = [place EXCEPT ![c] = "lane"]
    /\ UNCHANGED <<storeVars, clientVars, link, dispatched, result, outcome, applied>>

\* A send that is rejected ends its binding, and with it every other request.
SendFails(c) ==
    /\ dispatched' = [dispatched EXCEPT ![c] = "rejected"]
    /\ place' = [place EXCEPT ![c] = "gone"]
    /\ link' = [link EXCEPT ![via[c]] = FALSE]
    /\ IF Same(c)
       THEN BindingGone(dispatched')
       ELSE /\ outcome' = [outcome EXCEPT ![c] = Conclusion(c, "rejected", result[c], current)]
            /\ UNCHANGED <<current, result>>
    /\ UNCHANGED <<storeVars, attachments, clientTerminal, txVars, applied>>

\* The outbound lane hands the request to the carrier.
Send(c) ==
    /\ place[c] = "lane" /\ link[via[c]]
    /\ place' = [place EXCEPT ![c] = "carrier"]
    /\ UNCHANGED <<storeVars, clientVars, link, txVars, dispatched, result, outcome, applied>>

\* A request still in the lane of a dead carrier is dropped.
SendRefused(c) ==
    /\ place[c] = "lane" /\ ~link[via[c]]
    /\ SendFails(c)

\* The carrier's promise is rejected: it could not write the message out.
SendRejected(c) ==
    /\ place[c] = "carrier" /\ dispatched[c] = "pending"
    /\ SendFails(c)

\* The carrier's promise resolves, possibly long after the message arrived.
SendAccepted(c) ==
    /\ place[c] \notin {"none", "lane"} /\ dispatched[c] = "pending"
    /\ Learn(c, "resolved", result[c])
    /\ UNCHANGED <<storeVars, clientVars, link, txVars, place, applied>>

\* A connection that has ended takes an accepted request with it.
RequestLost(c) ==
    /\ place[c] = "carrier" /\ ~link[via[c]]
    /\ place' = [place EXCEPT ![c] = "gone"]
    /\ UNCHANGED <<storeVars, clientVars, link, txVars, dispatched, result, outcome, applied>>

----------------------------------------------------------------------------
\* Seeded bug: the conditions are compared with the revision's order.
ConditionsHoldIfOlder(wanted) == \A k \in Keys : wanted[k] # NoCondition => wanted[k] <= version[k]

ConditionsHold(wanted) == \A k \in Keys : wanted[k] # NoCondition => wanted[k] = version[k]

Exhausted(W) == revision = MaxRevision \/ \E k \in W : version[k] = MaxRevision

Apply(W) ==
    /\ revision' = revision + 1
    /\ version' = [k \in Keys |-> IF k \in W THEN version[k] + 1 ELSE version[k]]

\* The server's request loop and Authority.commit: the conditions first, then
\* the limits, and then all of the writes.
Serve(c) ==
    /\ place[c] = "carrier"
    /\ LET answer == IF authorityTerminal THEN "TERMINAL"
                     ELSE IF ~ConditionsHold(conditions[c]) THEN "CONFLICT"
                     ELSE IF Exhausted(writes[c]) THEN "LIMIT_EXCEEDED"
                     ELSE "committed"
       IN
       /\ place' = [place EXCEPT ![c] = answer]
       /\ IF answer = "committed"
          THEN Apply(writes[c]) /\ applied' = [applied EXCEPT ![c] = revision']
          ELSE UNCHANGED <<revision, version, applied>>
    /\ UNCHANGED <<authorityTerminal, clientVars, link, txVars, dispatched, result, outcome>>

\* The answer settles the request's correlation, if its binding is open still.
AnswerArrives(c) ==
    /\ place[c] \in Answers /\ Same(c)
    /\ Learn(c, dispatched[c], place[c])
    /\ place' = [place EXCEPT ![c] = "gone"]
    /\ UNCHANGED <<storeVars, clientVars, link, txVars, applied>>

AnswerLost(c) ==
    /\ place[c] \in Answers /\ ~link[via[c]]
    /\ place' = [place EXCEPT ![c] = "gone"]
    /\ UNCHANGED <<storeVars, clientVars, link, txVars, dispatched, result, outcome, applied>>

\* A commit of another client of the Authority, conditions and all.
OtherCommit(W) ==
    /\ ~authorityTerminal /\ ~Exhausted(W)
    /\ Apply(W)
    /\ UNCHANGED <<authorityTerminal, clientVars, link, txVars, attemptVars, applied>>

AuthorityTerminates ==
    /\ ~authorityTerminal
    /\ authorityTerminal' = TRUE
    /\ UNCHANGED <<version, revision, clientVars, link, txVars, attemptVars, applied>>

----------------------------------------------------------------------------
WriteSets == SUBSET Keys \ {{}}
Wanted == [Keys -> {NoCondition} \cup 0..MaxRevision]

Environment ==
    \/ Attach
    \/ Detach
    \/ Terminate
    \/ \E b \in 1..Bindings : LinkBreaks(b)
    \/ \E W \in WriteSets : OtherCommit(W)
    \/ AuthorityTerminates
    \/ \E c \in Commits :
        \/ CommitRefused(c)
        \/ \E wanted \in Wanted, W \in WriteSets : Commit(c, wanted, W)

Next ==
    \/ Environment
    \/ BindingFails
    \/ \E c \in Commits :
        \/ Send(c)
        \/ SendRefused(c)
        \/ SendAccepted(c)
        \/ SendRejected(c)
        \/ RequestLost(c)
        \/ Serve(c)
        \/ AnswerArrives(c)
        \/ AnswerLost(c)

Spec == Init /\ [][Next]_vars

\* The outbound lane runs, the carrier's promises settle, a request that has
\* arrived is served and its answer read, and a binding notices that its
\* connection has ended.  Each of these happens a bounded number of times, so
\* that it is enough that some of them does while any can.
CarrierWork ==
    \/ BindingFails
    \/ \E c \in Commits :
         \/ Send(c) \/ SendRefused(c) \/ SendAccepted(c)
         \/ Serve(c) \/ RequestLost(c) \/ AnswerArrives(c)

Fairness == WF_vars(CarrierWork)

FairSpec == Spec /\ Fairness

----------------------------------------------------------------------------
TypeOK ==
    /\ version \in [Keys -> 0..MaxRevision]
    /\ revision \in 0..MaxRevision
    /\ authorityTerminal \in BOOLEAN
    /\ current \in 0..Bindings
    /\ attachments \in 0..Bindings
    /\ clientTerminal \in BOOLEAN
    /\ link \in [1..Bindings -> BOOLEAN]
    /\ conditions \in [Commits -> Wanted]
    /\ writes \in [Commits -> SUBSET Keys]
    /\ via \in [Commits -> 0..Bindings]
    /\ place \in [Commits -> Places]
    /\ dispatched \in [Commits -> {"pending", "resolved", "rejected"}]
    /\ result \in [Commits -> {"pending", "lost"} \cup Answers]
    /\ outcome \in [Commits -> {"none", "OUTCOME_UNKNOWN", "BINDING_UNAVAILABLE"} \cup Answers]
    /\ applied \in [Commits -> 0..MaxRevision]

\* What an author is told is true, and stays true whatever is still under way:
\* a commit that succeeded has taken effect, and one that failed other than
\* with OUTCOME_UNKNOWN has not and never will (shared-state-v1, section 12).
EvidenceSound ==
    \A c \in Commits :
        /\ outcome[c] = "committed" => applied[c] # 0
        /\ outcome[c] \in KnownNoCommit =>
            applied[c] = 0 /\ place[c] \notin {"lane", "carrier", "committed"}

\* No update is lost: of two commits that write a key, each on the condition
\* that the key has the version both have read, one at most takes effect.
Rivals(c, d) == \E k \in writes[c] \cap writes[d] : conditions[c][k] # NoCondition
                                                 /\ conditions[c][k] = conditions[d][k]
NoLostUpdate ==
    \A c, d \in Commits :
        c # d /\ applied[c] # 0 /\ applied[d] # 0 => ~Rivals(c, d)

\* commit() does not leave its author waiting, whatever binding is lost: again
\* and again no commit is unsettled, and each is made once.
CommitSettles == []<>(\A c \in Commits : ~Unsettled(c))
=============================================================================
