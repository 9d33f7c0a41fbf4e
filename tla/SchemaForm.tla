------------------------------ MODULE SchemaForm ------------------------------
(***************************************************************************)
(* openSchemaForm() (game-libs/schema-form/src/internal/session.ts): a form *)
(* that a Subsystem shows in a Frame until it is submitted, cancelled or    *)
(* the Frame is aborted.  Its events come over a Session Event subscription *)
(* that is made after the form's Domain is shown, and may be delivered      *)
(* before subscribe() has returned to the form.  With onSubmit, a submit    *)
(* starts an attempt that the caller ends whenever it likes, through a      *)
(* control object that it may keep and use long after.                     *)
(*                                                                         *)
(* The data of all fields is one value; what the validators say of it is a  *)
(* choice.  Field rendering is left out.                                    *)
(***************************************************************************)
EXTENDS Naturals, Sequences, FiniteSets

CONSTANTS Data,          \* the snapshots of the fields
          FormOptions,   \* what a form may be opened with
          MaxForms,      \* bound: forms opened in the Frame
          MaxAttempts,   \* bound: submit attempts of one form
          MaxFormEvents  \* bound: events on their way

Options == [cancelable : BOOLEAN, onSubmit : BOOLEAN, restorable : BOOLEAN, initial : Data]

ASSUME SchemaFormAssumption ==
    /\ FormOptions \subseteq Options
    /\ {MaxForms, MaxAttempts, MaxFormEvents} \subseteq Nat \ {0}

VARIABLES forms,         \* the Sessions, oldest first
          activeForm,    \* activeForms.get(frame), 0 for none
          frameAborted,  \* frame.signal.aborted
          events         \* presentation events on their way, oldest first

formVars == <<forms, activeForm, frameAborted, events>>

IsPending(f) == forms[f].result.type = "pending"
NoResult == [type |-> "pending"]

(***************************************************************************)
(* Settlement: the first one wins and cleans up.  A subscription that has   *)
(* not been returned yet is not known to cleanup().                         *)
(***************************************************************************)
Cleaned(form, result) ==
    [form EXCEPT !.result = result, !.attempt = 0, !.abortListener = FALSE,
                 !.subscription = IF @ = "held" THEN "closed" ELSE @,
                 !.domain = IF @ = "shown" THEN "closed" ELSE @]

Finish(f, form, result) ==
    /\ forms' = [forms EXCEPT ![f] = Cleaned(form, result)]
    /\ activeForm' = IF activeForm = f THEN 0 ELSE activeForm

Rejected == [type |-> "rejected"]
Keep(f, form) == forms' = [forms EXCEPT ![f] = form] /\ UNCHANGED activeForm

(***************************************************************************)
(* Opening, and the abort of the Frame.                                    *)
(***************************************************************************)
\* The Domain is created at once, or that fails and so does the form.
OpenSchemaForm(options) ==
    /\ activeForm = 0 /\ Len(forms) < MaxForms
    /\ LET form == [options |-> options, result |-> NoResult, canonical |-> options.initial,
                    restorePending |-> options.restorable, domain |-> "shown", loading |-> FALSE,
                    subscription |-> "asked", abortListener |-> FALSE,
                    attempt |-> 0, state |-> "none", snapshots |-> <<>>, running |-> {}]
       IN  \/ forms' = Append(forms, form) /\ activeForm' = Len(forms) + 1
           \/ /\ forms' = Append(forms, [form EXCEPT !.domain = "none", !.subscription = "none",
                                                     !.result = Rejected])
              /\ UNCHANGED activeForm
    /\ UNCHANGED <<frameAborted, events>>

\* The hub delivers from here on.
HubSubscribes(f) ==
    /\ forms[f].subscription = "asked"
    /\ Keep(f, [forms[f] EXCEPT !.subscription = "delivering"])
    /\ UNCHANGED <<frameAborted, events>>

SubscribeFails(f) ==
    /\ forms[f].subscription = "asked"
    /\ Finish(f, [forms[f] EXCEPT !.subscription = "none"], Rejected)
    /\ UNCHANGED <<frameAborted, events>>

\* initialize() after its await.
SubscribeReturns(f) ==
    /\ forms[f].subscription = "delivering"
    /\ LET held == [forms[f] EXCEPT !.subscription = "held"]
       IN  IF ~IsPending(f) THEN Keep(f, [held EXCEPT !.subscription = "closed"])
           ELSE IF frameAborted THEN Finish(f, held, Rejected)
           ELSE Keep(f, [held EXCEPT !.abortListener = TRUE])
    /\ UNCHANGED <<frameAborted, events>>

AbortFrame ==
    /\ ~frameAborted /\ frameAborted' = TRUE
    /\ IF \E f \in DOMAIN forms : forms[f].abortListener
       THEN LET f == CHOOSE g \in DOMAIN forms : forms[g].abortListener
            IN  Finish(f, forms[f], Rejected)
       ELSE UNCHANGED <<forms, activeForm>>
    /\ UNCHANGED events

(***************************************************************************)
(* The events of the player.  The element sends none while it shows that    *)
(* it is loading.                                                          *)
(***************************************************************************)
SendFormEvent(f) ==
    /\ Len(events) < MaxFormEvents /\ forms[f].domain = "shown" /\ ~forms[f].loading
    /\ \E type \in {"change", "submit", "cancel", "restore"}, data \in Data :
         events' = Append(events, [form |-> f, type |-> type, data |-> data])
    /\ UNCHANGED <<forms, activeForm, frameAborted>>

Loading(form) == form.attempt # 0 /\ form.state = "LOADING"

\* submitCandidate() without errors.
Submitted(f, form, data) ==
    IF ~form.options.onSubmit THEN Finish(f, form, [type |-> "submitted", value |-> data, by |-> 0])
    ELSE LET attempt == Len(form.snapshots) + 1
         IN  /\ attempt <= MaxAttempts
             /\ Keep(f, [form EXCEPT !.attempt = attempt, !.state = "CALLBACK_ACTIVE",
                                     !.snapshots = Append(@, data), !.running = @ \cup {attempt}])

Cancel(f) ==
    IF forms[f].options.cancelable THEN Finish(f, forms[f], [type |-> "cancelled"])
    ELSE UNCHANGED <<forms, activeForm>>

Restore(f, data) ==
    \/ ~forms[f].restorePending /\ UNCHANGED <<forms, activeForm>>
    \/ /\ forms[f].restorePending
       /\ \/ Keep(f, [forms[f] EXCEPT !.restorePending = FALSE, !.canonical = data])
          \/ Finish(f, forms[f], Rejected)

\* A validator or the projection may throw; errors keep the form open.
Candidate(f, e) ==
    LET form == [forms[f] EXCEPT !.restorePending = FALSE, !.canonical = e.data]
    IN  \/ Keep(f, form)
        \/ Finish(f, forms[f], Rejected)
        \/ e.type = "submit" /\ Submitted(f, form, e.data)

ReceiveFormEvent(f, e) ==
    IF ~IsPending(f) \/ forms[f].subscription \notin {"delivering", "held"} \/ Loading(forms[f])
    THEN UNCHANGED <<forms, activeForm>>
    ELSE CASE e.type = "cancel"  -> Cancel(f)
           [] e.type = "restore" -> Restore(f, e.data)
           [] e.type = "submit" /\ forms[f].attempt # 0 -> UNCHANGED <<forms, activeForm>>
           [] OTHER -> Candidate(f, e)

DeliverEvent ==
    /\ events # <<>> /\ events' = Tail(events)
    /\ ReceiveFormEvent(Head(events).form, Head(events))
    /\ UNCHANGED frameAborted

(***************************************************************************)
(* The caller's side of an attempt.                                        *)
(***************************************************************************)
\* Seeded bug: a control works as long as its form does.
IsOpenStill(f, attempt) == IsPending(f) /\ forms[f].attempt # 0

IsCurrentAttempt(f, attempt) == IsPending(f) /\ forms[f].attempt = attempt

SetLoading(f, attempt) ==
    /\ IsCurrentAttempt(f, attempt) /\ forms[f].state # "LOADING"
    /\ Keep(f, [forms[f] EXCEPT !.loading = TRUE, !.state = "LOADING"])
    /\ UNCHANGED <<frameAborted, events>>

CancelLoading(f, attempt) ==
    /\ IsCurrentAttempt(f, attempt) /\ forms[f].state = "LOADING"
    /\ Keep(f, [forms[f] EXCEPT !.loading = FALSE, !.state = "CALLBACK_ACTIVE"])
    /\ UNCHANGED <<frameAborted, events>>

CloseAttempt(f, attempt) ==
    /\ IsCurrentAttempt(f, attempt)
    /\ Finish(f, forms[f], [type |-> "submitted", value |-> forms[f].snapshots[attempt], by |-> attempt])
    /\ UNCHANGED <<frameAborted, events>>

WithoutAttempt(f, attempt) == [forms[f] EXCEPT !.running = @ \ {attempt}]

\* completeAttempt() of the current attempt.
Completed(form) == [form EXCEPT !.attempt = 0, !.loading = FALSE]

\* The callback ends: returns, or throws, which rejects the form when the
\* attempt is still current; removing the attribute may throw as well.
CallbackEnds(f, attempt) ==
    /\ attempt \in forms[f].running
    /\ IF ~IsCurrentAttempt(f, attempt) THEN Keep(f, WithoutAttempt(f, attempt))
       ELSE Keep(f, Completed(WithoutAttempt(f, attempt))) \/ Finish(f, WithoutAttempt(f, attempt), Rejected)
    /\ UNCHANGED <<frameAborted, events>>

-----------------------------------------------------------------------------
InitForm == forms = <<>> /\ activeForm = 0 /\ frameAborted = FALSE /\ events = <<>>

Attempts(f) == DOMAIN forms[f].snapshots

NextForm ==
    \/ \E options \in FormOptions : OpenSchemaForm(options)
    \/ \E f \in DOMAIN forms :
         HubSubscribes(f) \/ SubscribeFails(f) \/ SubscribeReturns(f) \/ SendFormEvent(f)
    \/ AbortFrame \/ DeliverEvent
    \/ \E f \in DOMAIN forms : \E attempt \in Attempts(f) :
         \/ SetLoading(f, attempt) \/ CancelLoading(f, attempt)
         \/ CloseAttempt(f, attempt) \/ CallbackEnds(f, attempt)

SpecForm == InitForm /\ [][NextForm]_formVars

(***************************************************************************)
(* Properties.                                                             *)
(***************************************************************************)
\* A form that has settled shows nothing, is registered for nothing, and
\* keeps no subscription once subscribe() has returned, even when it settled
\* before that (session.ts:224, 437).
SettledHoldsNothing ==
    \A f \in DOMAIN forms : ~IsPending(f) =>
        /\ forms[f].domain # "shown" /\ forms[f].subscription # "held"
        /\ ~forms[f].abortListener /\ activeForm # f

\* What onSubmit closes the form with is the snapshot of the newest attempt:
\* a control kept from an earlier one no longer works (session.ts:386, 416).
OnlyTheNewestAttempt ==
    \A f \in DOMAIN forms : LET r == forms[f].result IN
        r.type = "submitted" /\ r.by # 0 =>
            r.by = Len(forms[f].snapshots) /\ r.value = forms[f].snapshots[r.by]

\* The element shows that it is loading exactly while the lock is on.
LoadingIsLocked ==
    \A f \in DOMAIN forms : forms[f].domain = "shown" => forms[f].loading = Loading(forms[f])

\* An aborted Frame leaves no form open, but one that still waits for the hub:
\* that one sees the abort when it resumes (session.ts:225-226).
AbortSettles ==
    frameAborted => \A f \in DOMAIN forms :
        IsPending(f) => forms[f].subscription \in {"asked", "delivering"}
=============================================================================
