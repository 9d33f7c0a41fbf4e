--------------------------- MODULE DataProvisioning ---------------------------
(***************************************************************************)
(* How a Renderer and a Runtime get the two ends of one Data connection:    *)
(* the Desktop Data broker with its candidate, current and operation tail,  *)
(* the Renderer's binding behind its settlement socket, and the Runner's    *)
(* binding behind the IPC of its process.  One Subsystem: the slots of the  *)
(* broker do not interact.                                                 *)
(*                                                                         *)
(* Everything in the host process is one record and its operations are      *)
(* functions on it; the two bindings live in other processes and are        *)
(* reached by ordered messages.                                            *)
(***************************************************************************)
EXTENDS Naturals, Sequences, FiniteSets, SequencesExt

CONSTANTS MaxRenderers,   \* bound: Renderer participants of the session
          MaxCandidates,  \* bound: candidates ever requested
          MaxFaults       \* bound: lost sockets, exits of the Runner, wishes for a fresh candidate

ASSUME DataProvisioningAssumption ==
    {MaxRenderers, MaxCandidates} \subseteq Nat \ {0} /\ MaxFaults \in Nat

VARIABLES host,   \* the broker, the provisioner and the settlements
          end,    \* the bindings, and what each gave to its role
          up,     \* what the bindings have answered
          lost,   \* <<candidate, end>>: this end of the carrier is closed
          faults  \* how many disturbances there were

vars == <<host, end, up, lost, faults>>

Runner == 0
Renderers == 1 .. MaxRenderers
Ends == {Runner} \cup Renderers
Nobody == 0

(***************************************************************************)
(* The host.  A candidate keeps which preparations were confirmed, whether  *)
(* one was refused and whether the outcome was queued ("settled"); "asked"  *)
(* tells a candidate the product asked for beside the current one, "hit"    *)
(* one that lost a socket before it was installed.                         *)
(***************************************************************************)
Candidates(h) == DOMAIN h.candidate
Of(h, c) == h.candidate[c]
HasEntry(h) == h.renderer # Nobody /\ h.runtime = "ready"
Authorized(h, c) == HasEntry(h) /\ Of(h, c).renderer = h.renderer

Enqueue(h, op, c) == [h EXCEPT !.tail = Append(@, [op |-> op, c |-> c])]
Schedule(h) == [h EXCEPT !.scheduled = TRUE]
SendTo(h, e, type, c) ==
    IF e \in h.unreachable THEN h
    ELSE [h EXCEPT !.down[e] = Append(@, [type |-> type, c |-> c])]
Unless(x, c) == IF x = c THEN Nobody ELSE x

Refused(h, c) == [h EXCEPT !.candidate[c].refused = TRUE]

\* provisioner.revoke(): an operation that waits for the Runner is rejected.
RevokeRunner(h, c) ==
    LET p == h.provisioner
        r == IF p.preparing = c THEN Refused(h, c) ELSE h
    IN  SendTo([r EXCEPT !.provisioner = [preparing |-> Unless(p.preparing, c),
                                          prepared |-> Unless(p.prepared, c),
                                          committing |-> Unless(p.committing, c)]],
               Runner, "revoke", c)

\* settlement: the abort of a waiting preparation rejects it.
RevokeRenderer(h, c) ==
    LET r == Of(h, c).renderer
        w == IF h.settling[r] = c THEN [Refused(h, c) EXCEPT !.settling[r] = Nobody] ELSE h
    IN  SendTo(w, r, "revoke", c)

\* controller.abort(): only what still waits reacts.
Abort(h, c) ==
    LET a == IF c \in {h.provisioner.preparing, h.provisioner.committing}
             THEN RevokeRunner(h, c) ELSE h
    IN  IF a.settling[Of(a, c).renderer] = c THEN RevokeRenderer(a, c) ELSE a

CleanupRetired(h, c) ==
    RevokeRenderer([RevokeRunner(h, c) EXCEPT !.candidate[c].physical = "retired"], c)

Retire(h, c) ==
    IF Of(h, c).state = "retired" THEN h
    ELSE CleanupRetired(Abort([h EXCEPT !.candidate[c].state = "retired"], c), c)

DisposePending(h, c) == Retire([h EXCEPT !.pending = Unless(@, c)], c)

\* A connection that was current is lost.
Discard(h, c) == Schedule(Retire([h EXCEPT !.current = Nobody], c))

RequestCandidate(h, asked) ==
    IF ~HasEntry(h) \/ h.pending # Nobody \/ h.renderer \notin h.attached
    THEN h
    ELSE [h EXCEPT !.pending = Len(h.candidate) + 1,
                   !.candidate = Append(@,
                      [renderer |-> h.renderer, state |-> "preparing", physical |-> "none",
                       confirmed |-> {}, refused |-> FALSE, settled |-> FALSE,
                       asked |-> asked, hit |-> FALSE])]

\* provisioner.prepare() and settlement.prepare().
PrepareRunner(h, c) ==
    IF Runner \in h.unreachable \/ h.provisioner.preparing # Nobody \/ h.provisioner.prepared # Nobody
    THEN Refused(h, c)
    ELSE SendTo([h EXCEPT !.provisioner.preparing = c], Runner, "prepare", c)

PrepareRenderer(h, c) ==
    LET r == Of(h, c).renderer
    IN  IF r \in h.unreachable THEN Refused(h, c)
        ELSE SendTo([h EXCEPT !.settling[r] = c], r, "prepare", c)

\* provisioner.commit(): a rejection comes back through the tail.
CommitRunner(h, c) ==
    IF Runner \in h.unreachable \/ h.provisioner.committing # Nobody \/ h.provisioner.prepared # c
    THEN Enqueue(h, "undelivered", c)
    ELSE SendTo([h EXCEPT !.provisioner.committing = c], Runner, "commit", c)

\* Seeded bug: the two ends are told before the relay is open.
InstallUnopened(h, c) ==
    IF h.pending # c \/ Of(h, c).state # "prepared" \/ ~Authorized(h, c) THEN DisposePending(h, c)
    ELSE CommitRunner(SendTo([h EXCEPT !.pending = Nobody, !.current = c,
                                       !.candidate[c].state = "current"],
                             h.renderer, "commit", c), c)

\* install(): the old connection loses its place before the new one has it.
Install(h, c) ==
    LET old == h.current
        cleared == IF old = Nobody THEN h
                   ELSE Abort([h EXCEPT !.candidate[old].state = "retired"], old)
        placed == [cleared EXCEPT !.pending = Nobody, !.current = c,
                                  !.candidate[c].state = "current"]
        told == IF Of(h, c).physical = "preparing" /\ h.renderer \notin h.unreachable
                THEN CommitRunner(SendTo([placed EXCEPT !.candidate[c].physical = "installed"],
                                         h.renderer, "commit", c), c)
                ELSE Retire([placed EXCEPT !.current = Nobody], c)
    IN  IF \/ h.pending # c \/ Of(h, c).state # "prepared" \/ ~Authorized(h, c)
        THEN DisposePending(h, c)
        ELSE IF old = Nobody THEN told ELSE CleanupRetired(told, old)

\* One operation of the slot's tail.
Run(h, t) ==
    CASE t.op = "install" -> Install(h, t.c)
      [] t.op = "dispose" -> DisposePending(h, t.c)
      [] t.op = "failed" /\ h.pending = t.c -> DisposePending(h, t.c)
      [] t.op \in {"failed", "undelivered"} /\ h.current = t.c -> Discard(h, t.c)
      [] OTHER -> h

\* The settlements of Renderers that are no longer the current one, which Main
\* never names again: what waits for them is refused.
CloseRenderers(h, rs) ==
    LET here == rs \cap h.attached
        waiting == {h.settling[r] : r \in here}
    IN  [h EXCEPT !.attached = @ \ rs, !.unreachable = @ \cup rs,
                  !.settling = [r \in Renderers |-> IF r \in here THEN Nobody ELSE h.settling[r]],
                  !.candidate = [c \in Candidates(h) |->
                      IF c \in waiting THEN [Of(h, c) EXCEPT !.refused = TRUE] ELSE Of(h, c)],
                  !.down = [e \in Ends |->
                      IF e \in here THEN Append(h.down[e], [type |-> "close", c |-> Nobody])
                      ELSE h.down[e]]]

\* Seeded bug: a new view reconciles only when it has another Renderer than the last.
ReplaceUnscheduled(h, r, runtime) ==
    LET view == [h EXCEPT !.renderer = r, !.runtime = runtime]
        out(x) == x # Nobody /\ ~Authorized(view, x)
        cleared == [view EXCEPT !.pending = IF out(@) THEN Nobody ELSE @,
                                !.current = IF out(@) THEN Nobody ELSE @]
        given(g, x) == IF out(x) THEN Retire(g, x) ELSE g
        retired == given(given(cleared, h.pending), h.current)
    IN  IF h.renderer \in {Nobody, r} THEN retired
        ELSE Schedule(CloseRenderers(retired, {h.renderer}))

\* replace(): what is no longer authorized is out before anything else happens.
Replace(h, r, runtime) ==
    LET view == [h EXCEPT !.renderer = r, !.runtime = runtime]
        out(x) == x # Nobody /\ ~Authorized(view, x)
        cleared == [view EXCEPT !.pending = IF out(@) THEN Nobody ELSE @,
                                !.current = IF out(@) THEN Nobody ELSE @]
        given(g, x) == IF out(x) THEN Retire(g, x) ELSE g
        retired == given(given(cleared, h.pending), h.current)
    IN  Schedule(IF h.renderer \in {Nobody, r} THEN retired
                 ELSE CloseRenderers(retired, {h.renderer}))

(***************************************************************************)
(* A binding: the candidate it connects, the one it has prepared, and the   *)
(* current one, which it gives to its role at most once.  "held" is what    *)
(* the role has, "waiter" that the role waits.                             *)
(***************************************************************************)
Empty == [connecting |-> Nobody, prepared |-> Nobody, current |-> Nobody,
          delivered |-> FALSE, waiter |-> FALSE, held |-> Nobody, closed |-> FALSE]

Carriers(b) == {b.connecting, b.prepared, b.current, b.held} \ {Nobody}

Revoke(b, c) ==
    [b EXCEPT !.connecting = Unless(@, c), !.prepared = Unless(@, c),
              !.current = Unless(@, c)]

\* The role's acquire is answered with a carrier that nobody had yet.
Deliver(b) ==
    IF b.waiter /\ b.current # Nobody /\ ~b.delivered
    THEN [b EXCEPT !.waiter = FALSE, !.delivered = TRUE, !.held = b.current] ELSE b

Commit(b, c) == Deliver([b EXCEPT !.prepared = Nobody, !.current = c, !.delivered = FALSE])

-----------------------------------------------------------------------------
\* The Runtime is ready, has asked for its end, and the broker has its provisioner
\* and the binding of the first Window.
Init ==
    /\ host = [renderer |-> Nobody, runtime |-> "ready", attached |-> {1},
               scheduled |-> FALSE, current |-> Nobody, pending |-> Nobody, tail |-> <<>>,
               candidate |-> <<>>, unreachable |-> {}, settling |-> [r \in Renderers |-> Nobody],
               provisioner |-> [preparing |-> Nobody, prepared |-> Nobody, committing |-> Nobody],
               down |-> [e \in Ends |-> <<>>]]
    /\ end = [e \in Ends |-> [Empty EXCEPT !.waiter = (e = Runner)]]
    /\ up = [e \in Ends |-> <<>>]
    /\ lost = {}
    /\ faults = 0

Host(h) == host' = h /\ UNCHANGED <<end, up, lost, faults>>
Spare == Len(host.candidate) < MaxCandidates

\* Main publishes another view: a new Renderer, none, or the Runtime's fate.
MainReplaces ==
    \E r \in {Nobody} \cup {x \in host.attached : \A old \in host.unreachable : x > old},
       runtime \in {"ready", "gone"} :
        /\ <<r, runtime>> # <<host.renderer, host.runtime>>
        /\ r # Nobody => r >= host.renderer
        /\ host.runtime = "gone" => runtime = "gone"
        /\ Spare
        /\ Host(Replace(host, r, runtime))

\* The Window of a Renderer opens: its binding is attached before the Renderer
\* can tell Main that it is there, and the one of any other that is not current
\* is closed.
AttachRenderer(r) ==
    /\ r \notin host.attached \cup host.unreachable
    /\ \A old \in host.attached : old < r
    /\ LET h == CloseRenderers(host, host.attached \ {host.renderer})
       IN  Host(Schedule([h EXCEPT !.attached = @ \cup {r}]))

\* The microtask of scheduleReconcile(); the product may also ask for a fresh
\* candidate beside the current one.
Reconcile ==
    /\ host.scheduled
    /\ HasEntry(host) /\ host.current = Nobody => Spare
    /\ LET h == [host EXCEPT !.scheduled = FALSE]
       IN  Host(IF h.current = Nobody THEN RequestCandidate(h, FALSE) ELSE h)

Supersede ==
    /\ host.current # Nobody /\ host.pending = Nobody /\ Spare /\ faults < MaxFaults
    /\ host' = RequestCandidate(host, TRUE)
    /\ faults' = faults + 1
    /\ UNCHANGED <<end, up, lost>>

\* prepareCandidate() after its first await: the pair of sockets exists.
PairCreated(c) ==
    /\ Of(host, c).physical = "none" /\ ~Of(host, c).settled
    /\ Host(IF host.pending # c \/ ~Authorized(host, c) \/ Of(host, c).state = "retired"
            THEN DisposePending([host EXCEPT !.candidate[c].physical = "retired",
                                             !.candidate[c].settled = TRUE], c)
            ELSE PrepareRunner(PrepareRenderer(
                    [host EXCEPT !.candidate[c].physical = "preparing"], c), c))

\* The preparations settle, well or not; the state is set whatever it was.
Settle(c) ==
    /\ Of(host, c).physical # "none" /\ ~Of(host, c).settled
    /\ \/ /\ Of(host, c).confirmed = {"runner", "renderer"}
          /\ Host(Enqueue([host EXCEPT !.candidate[c].settled = TRUE,
                                       !.candidate[c].state = "prepared"], "install", c))
       \/ /\ Of(host, c).refused
          /\ Host(Enqueue([host EXCEPT !.candidate[c].settled = TRUE], "dispose", c))

TailStep ==
    /\ host.tail # <<>>
    /\ Host(Run([host EXCEPT !.tail = Tail(@)], Head(host.tail)))

\* fail() of the pair: a socket of it is closed.
PhysicalFails(c) ==
    /\ Of(host, c).physical \in {"preparing", "installed"}
    /\ \E e \in Ends : <<c, e>> \in lost
    /\ Host(Enqueue([host EXCEPT !.candidate[c].physical = "retired"], "failed", c))

\* The Runner's answers, seen by the provisioner.
RunnerAnswers ==
    /\ up[Runner] # <<>>
    /\ LET m == Head(up[Runner])
           p == host.provisioner
       IN  host' =
             CASE m.type = "prepared" /\ p.preparing = m.c ->
                    [host EXCEPT !.provisioner.preparing = Nobody, !.provisioner.prepared = m.c,
                                 !.candidate[m.c].confirmed = @ \cup {"runner"}]
               [] m.type = "refused" /\ p.preparing = m.c ->
                    [Refused(host, m.c) EXCEPT !.provisioner.preparing = Nobody]
               [] m.type = "committed" /\ p.committing = m.c ->
                    [host EXCEPT !.provisioner.committing = Nobody, !.provisioner.prepared = Nobody]
               [] m.type = "uncommitted" /\ p.committing = m.c ->
                    [Enqueue(host, "undelivered", m.c) EXCEPT
                        !.provisioner.committing = Nobody,
                        !.provisioner.prepared = Unless(@, m.c)]
               [] OTHER -> host
    /\ up' = [up EXCEPT ![Runner] = Tail(@)]
    /\ UNCHANGED <<end, lost, faults>>

\* The Renderer's answers, seen by its settlement.
RendererAnswers(r) ==
    /\ up[r] # <<>>
    /\ LET m == Head(up[r])
           waits == host.settling[r] = m.c
       IN  host' =
             CASE waits /\ m.type = "prepared" ->
                    [host EXCEPT !.settling[r] = Nobody,
                                 !.candidate[m.c].confirmed = @ \cup {"renderer"}]
               [] waits /\ m.type = "refused" ->
                    [Refused(host, m.c) EXCEPT !.settling[r] = Nobody]
               [] OTHER -> host
    /\ up' = [up EXCEPT ![r] = Tail(@)]
    /\ UNCHANGED <<end, lost, faults>>

\* The Runner's process ends: its IPC is gone and its sockets are closed.
RunnerExits ==
    /\ Runner \notin host.unreachable /\ Spare /\ faults < MaxFaults
    /\ LET p == host.provisioner
           h == [host EXCEPT !.unreachable = @ \cup {Runner}, !.down[Runner] = <<>>,
                    !.provisioner = [preparing |-> Nobody, prepared |-> Nobody, committing |-> Nobody]]
           r == IF p.preparing = Nobody THEN h ELSE Refused(h, p.preparing)
       IN  host' = IF p.committing = Nobody THEN r ELSE Enqueue(r, "undelivered", p.committing)
    /\ lost' = lost \cup {<<c, Runner>> : c \in Carriers(end[Runner])}
    /\ end' = [end EXCEPT ![Runner] = [Empty EXCEPT !.closed = TRUE]]
    /\ up' = [up EXCEPT ![Runner] = <<>>]
    /\ faults' = faults + 1

(***************************************************************************)
(* The bindings in their processes.                                        *)
(***************************************************************************)
Dead(c, e) == <<c, e>> \in lost \/ Of(host, c).physical = "retired"
Answer(e, type, c) ==
    up' = IF e \in host.unreachable THEN up
          ELSE [up EXCEPT ![e] = Append(@, [type |-> type, c |-> c])]
Closes(e, cs) == lost' = lost \cup {<<c, e>> : c \in cs \ {Nobody}}

\* One message of the host.  The Runner refuses a commit of what it does not
\* have, the Renderer ignores it; the Runner closes the carrier it replaces.
Receive(e) ==
    /\ host.down[e] # <<>> /\ ~end[e].closed
    /\ host' = [host EXCEPT !.down[e] = Tail(@)]
    /\ LET m == Head(host.down[e])
           b == end[e]
       IN  \/ /\ m.type = "prepare" /\ b.prepared = Nobody /\ b.connecting = Nobody
              /\ end' = [end EXCEPT ![e].connecting = m.c]
              /\ UNCHANGED <<up, lost>>
           \/ /\ m.type = "prepare" /\ (b.prepared # Nobody \/ b.connecting # Nobody)
              /\ Answer(e, "refused", m.c)
              /\ UNCHANGED <<end, lost>>
           \/ /\ m.type = "commit" /\ b.prepared = m.c
              /\ end' = [end EXCEPT ![e] = Commit(b, m.c)]
              /\ Closes(e, IF e = Runner THEN {b.current} ELSE {})
              /\ IF e = Runner THEN Answer(e, "committed", m.c) ELSE UNCHANGED up
           \/ /\ m.type = "commit" /\ b.prepared # m.c
              /\ IF e = Runner THEN Answer(e, "uncommitted", m.c) ELSE UNCHANGED up
              /\ UNCHANGED <<end, lost>>
           \/ /\ m.type = "revoke"
              /\ end' = [end EXCEPT ![e] = Revoke(b, m.c)]
              /\ Closes(e, {m.c} \cap {b.connecting, b.prepared, b.current})
              /\ UNCHANGED up
           \/ /\ m.type = "close"
              /\ end' = [end EXCEPT ![e] = [Empty EXCEPT !.closed = TRUE]]
              /\ Closes(e, {b.prepared, b.current, b.connecting, b.held})
              /\ UNCHANGED up
    /\ UNCHANGED faults

\* The socket of the candidate opens, or its server is gone already.
Connects(e) ==
    LET c == end[e].connecting IN
    /\ c # Nobody
    /\ IF Dead(c, e)
       THEN /\ end' = [end EXCEPT ![e].connecting = Nobody]
            /\ Answer(e, "refused", c)
       ELSE /\ end' = [end EXCEPT ![e].connecting = Nobody, ![e].prepared = c]
            /\ Answer(e, "prepared", c)
    /\ UNCHANGED <<host, lost, faults>>

\* An end observes that a carrier it has is closed.
Observes(e) ==
    LET dead == {c \in Carriers(end[e]) \ {end[e].connecting} : Dead(c, e)}
        alive(x) == IF x \in dead THEN Nobody ELSE x
    IN  /\ dead # {}
        /\ end' = [end EXCEPT ![e].prepared = alive(@), ![e].current = alive(@), ![e].held = alive(@)]
        /\ Closes(e, dead)
        /\ UNCHANGED <<host, up, faults>>

\* The role, Runtime or Renderer, asks for a carrier whenever it has none.
Acquire(e) ==
    /\ end[e].held = Nobody /\ ~end[e].waiter /\ ~end[e].closed
    /\ e \in Renderers => e \in host.attached
    /\ end' = [end EXCEPT ![e] = Deliver([@ EXCEPT !.waiter = TRUE])]
    /\ UNCHANGED <<host, up, lost, faults>>

\* A socket is lost for no reason of the program.
Fault(c, e) ==
    /\ faults < MaxFaults /\ Spare
    /\ Of(host, c).physical \in {"preparing", "installed"} /\ c \in Carriers(end[e])
    /\ <<c, e>> \notin lost
    /\ lost' = lost \cup {<<c, e>>}
    /\ faults' = faults + 1
    /\ host' = [host EXCEPT !.candidate[c].hit = Of(host, c).state # "current"]
    /\ UNCHANGED <<end, up>>

Environment ==
    \/ MainReplaces \/ Supersede \/ RunnerExits
    \/ \E c \in Candidates(host), e \in Ends : Fault(c, e)

System ==
    \/ Reconcile \/ TailStep \/ RunnerAnswers
    \/ \E r \in Renderers : AttachRenderer(r) \/ RendererAnswers(r)
    \/ \E c \in Candidates(host) : PairCreated(c) \/ Settle(c) \/ PhysicalFails(c)
    \/ \E e \in Ends : Receive(e) \/ Connects(e) \/ Observes(e) \/ Acquire(e)

Next == Environment \/ System

\* When a step of System is possible.
Busy ==
    \/ host.scheduled /\ (HasEntry(host) /\ host.current = Nobody => Spare)
    \/ host.tail # <<>>
    \/ \E r \in Renderers :
        /\ r \notin host.attached \cup host.unreachable
        /\ \A old \in host.attached : old < r
    \/ \E c \in Candidates(host) : LET k == Of(host, c) IN
        \/ ~k.settled /\ (k.physical = "none" \/ k.refused \/ k.confirmed = {"runner", "renderer"})
        \/ k.physical \in {"preparing", "installed"} /\ \E e \in Ends : <<c, e>> \in lost
    \/ \E e \in Ends :
        \/ up[e] # <<>> \/ end[e].connecting # Nobody
        \/ \E c \in Carriers(end[e]) : Dead(c, e)
        \/ ~end[e].closed /\ host.down[e] # <<>>
        \/ /\ ~end[e].closed /\ end[e].held = Nobody /\ ~end[e].waiter
           /\ e \in Renderers => e \in host.attached

\* Tasks, microtasks and messages are all run in the end.  This is
\* WF_vars(System), its ENABLED written out.
Fairness == []<>~Busy \/ []<><<System>>_vars

Spec == Init /\ [][Next]_vars /\ Fairness

(***************************************************************************)
(* Properties.                                                             *)
(***************************************************************************)
Installed == {c \in Candidates(host) : Of(host, c).physical = "installed"}
InUse == {host.current, host.pending} \ {Nobody}

\* The shape of the state: an operation of the provisioner is about one
\* candidate, and what is current was prepared on both sides.
TypeOK ==
    /\ InUse \subseteq Candidates(host)
    /\ host.current # Nobody => host.current # host.pending
    /\ host.attached \cap host.unreachable = {}
    /\ \A c \in Candidates(host) : Of(host, c).state \in {"preparing", "prepared", "current", "retired"}
    /\ host.current # Nobody =>
         Of(host, host.current).confirmed = {"runner", "renderer"}
    /\ \A e \in Ends : Carriers(end[e]) \subseteq Candidates(host)

\* At most one Data connection relays, and it is the one that Main authorizes
\* now, prepared on both sides: not one Main has withdrawn, superseded or given
\* to another Renderer.
OneConnection ==
    \A c \in Installed : /\ c = host.current /\ Authorized(host, c)
                         /\ Of(host, c).confirmed = {"runner", "renderer"}

\* A role never has its end before the relay is open: what it sends at once
\* would be "pre-install traffic" and cost the connection.
NeverTooEarly ==
    \A e \in Ends : end[e].held # Nobody => Of(host, end[e].held).physical # "preparing"

\* When Main's view is at rest and wants a connection, both roles come to hold
\* the two ends of one.  The broker never retries a preparation, so not when the
\* last candidate lost a socket while it was prepared, nor when it was one the
\* product asked for: while that is pending a lost connection is not replaced.
Connected ==
    /\ host.current # Nobody
    /\ end[Runner].held = host.current /\ end[host.renderer].held = host.current
Stranded ==
    Len(host.candidate) > 0 /\ (Last(host.candidate).hit \/ Last(host.candidate).asked)
Recovers ==
    <>[](~HasEntry(host) \/ Runner \in host.unreachable \/ Connected \/ Stranded)
=============================================================================
