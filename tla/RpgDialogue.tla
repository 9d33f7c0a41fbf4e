----------------------------- MODULE RpgDialogue -----------------------------
(***************************************************************************)
(* RPGDialogue (game-libs/rpg-dialogue/src/runtime.ts): one object that     *)
(* leads a Subsystem through Conversations, one at a time, in one Render    *)
(* Domain.  A Conversation is opened from a microtask, and the first one    *)
(* waits for a Session Event subscription before the object is ACTIVE; the  *)
(* player's answers arrive as events, some time after they were given.      *)
(*                                                                         *)
(* Node keys are the numbers of allocateKey(); a Domain refuses a key that  *)
(* an earlier projection dropped.  Key 0 is a key that the projection looks *)
(* up and does not find.  The five control hints share one key; texts and   *)
(* caller data are left out.                                               *)
(***************************************************************************)
EXTENDS Naturals, Sequences, FiniteSets, SequencesExt

CONSTANTS Characters, ChoiceIds, Entries,   \* business identities
          MaxCalls,       \* bound: calls of openConversation()
          MaxEdits,       \* bound: changes of the History
          MaxPosted       \* bound: answers on their way

ASSUME RpgDialogueAssumption == {MaxCalls, MaxEdits, MaxPosted} \subseteq Nat

VARIABLES dialogue,       \* the RPGDialogue
          calls,          \* the Promises of openConversation(), oldest first
                          \* beside: history, the other calls then being opened
          domains,        \* the Render Domains it created
          listening,      \* its subscriptions: open or not
          submits,         \* the submit events on their way, oldest first
          scopeEnded,     \* the Subsystem's own signal is aborted
          ended,          \* history: the dialogue was closed or aborted
          edits           \* changes of the History so far

dialogueVars == <<dialogue, calls, domains, listening, submits, scopeEnded, ended, edits>>

NoKeys == [x \in {} |-> 0]
Requests == [characters : SUBSET Characters, choices : SUBSET ChoiceIds]
Key(keys, x) == IF x \in DOMAIN keys THEN keys[x] ELSE 0
OpeningCalls == {i \in DOMAIN calls : calls[i].phase = "opening"}

(***************************************************************************)
(* Projections and the Domain that takes them.                             *)
(***************************************************************************)
\* allocateKey() for every member in turn.
Allocate(members, serial) ==
    LET order == SetToSeq(members)
    IN  [x \in members |-> serial + (CHOOSE i \in DOMAIN order : order[i] = x) - 1]

\* Characters and History keep their keys, the choices of every Conversation
\* get fresh ones, and the controls are allocated once.
Plan(d, request) ==
    LET newCharacters == request.characters \ DOMAIN d.characterKeys
        newEntries == d.history \ DOMAIN d.historyKeys
        afterCharacters == d.nextNode + Cardinality(newCharacters)
        afterChoices == afterCharacters + Cardinality(request.choices)
        afterHistory == afterChoices + Cardinality(newEntries)
    IN  [conversation |-> d.nextConversation,
         characterKeys |-> [c \in request.characters |->
            IF c \in newCharacters THEN Allocate(newCharacters, d.nextNode)[c] ELSE d.characterKeys[c]],
         choiceKeys |-> Allocate(request.choices, afterCharacters),
         history |-> d.history,
         historyKeys |-> [e \in DOMAIN d.historyKeys \cup newEntries |->
            IF e \in newEntries THEN Allocate(newEntries, afterChoices)[e] ELSE d.historyKeys[e]],
         controls |-> IF d.controls = 0 THEN afterHistory ELSE d.controls,
         next |-> IF d.controls = 0 THEN afterHistory + 1 ELSE afterHistory]

\* The keys of buildState().
Projection(p, history, historyKeys) ==
    {p.characterKeys[c] : c \in DOMAIN p.characterKeys}
    \cup {p.choiceKeys[c] : c \in DOMAIN p.choiceKeys}
    \cup {Key(historyKeys, e) : e \in history} \cup {p.controls}

CurrentState(d, history, historyKeys) == Projection(d, history, historyKeys)

Acceptable(domain, keys) == 0 \notin keys /\ keys \cap domain.consumed = {}

\* replace(): it may throw in any case, and does for keys it cannot accept.
\* The projection shows the Conversation of a call.
ReplaceSucceeds(keys, call) ==
    LET domain == domains[dialogue.domain]
    IN  /\ Acceptable(domain, keys)
        /\ domains' = [domains EXCEPT ![dialogue.domain] =
             [domain EXCEPT !.live = keys, !.shows = call,
                            !.consumed = domain.consumed \cup (domain.live \ keys)]]

(***************************************************************************)
(* The end of the dialogue.                                                *)
(***************************************************************************)
\* terminate(): cleanupSession() closes what the object holds.
TerminateDialogue(settled) ==
    /\ dialogue' = [dialogue EXCEPT
         !.lifecycle = "CLOSED", !.active = 0, !.subscription = 0, !.domain = 0, !.retained = 0,
         !.characterKeys = NoKeys, !.choiceKeys = NoKeys, !.history = {}, !.historyKeys = NoKeys,
         !.controls = 0]
    /\ calls' = IF dialogue.active = 0 THEN settled
                ELSE [settled EXCEPT ![dialogue.active].phase = "rejected"]
    /\ domains' = [i \in DOMAIN domains |->
                     IF i = dialogue.domain THEN [domains[i] EXCEPT !.open = FALSE] ELSE domains[i]]
    /\ listening' = [i \in DOMAIN listening |-> listening[i] /\ i # dialogue.subscription]
    /\ ended' = TRUE

\* close(), or the signal of the Frame or of the Subsystem.
CloseDialogue ==
    /\ dialogue.lifecycle # "CLOSED"
    /\ TerminateDialogue(calls)
    /\ UNCHANGED <<submits, scopeEnded, edits>>

FrameAbort ==
    /\ ~ended /\ TerminateDialogue(calls)
    /\ UNCHANGED <<submits, scopeEnded, edits>>

ScopeAbort ==
    /\ ~scopeEnded /\ scopeEnded' = TRUE
    /\ IF ended THEN UNCHANGED <<dialogue, calls, domains, listening, ended>> ELSE TerminateDialogue(calls)
    /\ UNCHANGED <<submits, edits>>

(***************************************************************************)
(* openConversation().                                                     *)
(***************************************************************************)
OpenConversation(request) ==
    /\ Len(calls) < MaxCalls
    /\ calls' = Append(calls, [phase |-> "queued", request |-> request, plan |-> 0, by |-> 0, beside |-> {}])
    /\ UNCHANGED <<dialogue, domains, listening, submits, scopeEnded, ended, edits>>

Activate(i, p, domain, subscription) ==
    /\ dialogue' = [dialogue EXCEPT
         !.lifecycle = "ACTIVE", !.mode = "CONVERSATION", !.active = i, !.retained = p.conversation,
         !.characterKeys = p.characterKeys, !.choiceKeys = p.choiceKeys,
         !.historyKeys = p.historyKeys, !.controls = p.controls, !.nextNode = p.next,
         !.nextConversation = @ + 1, !.domain = domain, !.subscription = subscription]
    /\ calls' = [calls EXCEPT ![i].phase = "active", ![i].plan = p]

Reject(i) == calls' = [calls EXCEPT ![i].phase = "rejected"] /\ UNCHANGED dialogue

\* beginConversation() up to its await.
BeginRefused(i) ==
    /\ dialogue.lifecycle # "READY" /\ Reject(i)
    /\ UNCHANGED <<domains, listening>>

BeginFirst(i) ==
    /\ dialogue.lifecycle = "READY" /\ dialogue.domain = 0
    /\ calls' = [calls EXCEPT ![i].phase = "opening", ![i].plan = Plan(dialogue, calls[i].request),
                              ![i].beside = OpeningCalls]
    /\ UNCHANGED <<dialogue, domains, listening>>

BeginNext(i) ==
    /\ dialogue.lifecycle = "READY" /\ dialogue.domain # 0
    /\ LET p == Plan(dialogue, calls[i].request)
           keys == Projection(p, p.history, p.historyKeys)
       IN  \/ ReplaceSucceeds(keys, i) /\ Activate(i, p, dialogue.domain, dialogue.subscription)
           \/ Reject(i) /\ UNCHANGED domains
    /\ UNCHANGED listening

\* The microtasks run in the order of the calls.
BeginConversation(i) ==
    /\ calls[i].phase = "queued" /\ \A j \in 1 .. i - 1 : calls[j].phase # "queued"
    /\ BeginRefused(i) \/ BeginFirst(i) \/ BeginNext(i)
    /\ UNCHANGED <<submits, scopeEnded, ended, edits>>

\* After the await: the Domain is created and the object becomes ACTIVE.
ContinueConversation(i) ==
    /\ calls[i].phase = "opening" /\ ~scopeEnded
    /\ LET p == calls[i].plan
           keys == Projection(p, p.history, p.historyKeys)
       IN  /\ domains' = Append(domains, [open |-> TRUE, live |-> keys, consumed |-> {}, shows |-> i])
           /\ listening' = Append(listening, TRUE)
           /\ Activate(i, p, Len(domains) + 1, Len(listening) + 1)
    /\ UNCHANGED <<submits, scopeEnded, ended, edits>>

\* The subscription or the Domain fails; what was subscribed is closed.
OpeningFails(i) ==
    /\ calls[i].phase = "opening" /\ Reject(i)
    /\ UNCHANGED <<domains, listening, submits, scopeEnded, ended, edits>>

(***************************************************************************)
(* The player.                                                             *)
(***************************************************************************)
\* An answer to the Conversation that an open Domain shows.
Answers(i) == IF calls[i].request.choices = {} THEN {"none"} ELSE calls[i].request.choices

PostSubmit ==
    /\ Len(submits) < MaxPosted
    /\ \E d \in DOMAIN domains : domains[d].open /\
         \E answer \in Answers(domains[d].shows) :
           submits' = Append(submits, [conversation |-> calls[domains[d].shows].plan.conversation,
                                     answer |-> answer, by |-> domains[d].shows])
    /\ UNCHANGED <<dialogue, calls, domains, listening, scopeEnded, ended, edits>>

\* resolveActive(): the projection of the READY state first.
ResolveActive(settled) ==
    LET keys == CurrentState(dialogue, dialogue.history, dialogue.historyKeys)
        shown == domains[dialogue.domain].shows
    IN  \/ /\ ReplaceSucceeds(keys, shown)
           /\ dialogue' = [dialogue EXCEPT !.lifecycle = "READY", !.mode = "CONVERSATION", !.active = 0]
           /\ calls' = settled /\ UNCHANGED <<listening, ended>>
        \/ TerminateDialogue(calls)

Talking == dialogue.lifecycle = "ACTIVE" /\ dialogue.active # 0 /\ dialogue.domain # 0

\* Seeded bug: whatever is submitted answers the Conversation at hand.
AcceptsAnySubmit(s) ==
    /\ Talking /\ dialogue.mode = "CONVERSATION"
    /\ s.answer \in Answers(dialogue.active)

AcceptsSubmit(s) ==
    /\ Talking /\ dialogue.mode = "CONVERSATION"
    /\ s.conversation = calls[dialogue.active].plan.conversation
    /\ s.answer \in Answers(dialogue.active)

ReceivePresentationEvent ==
    /\ submits # <<>> /\ submits' = Tail(submits)
    /\ IF (\E i \in DOMAIN listening : listening[i]) /\ AcceptsSubmit(Head(submits))
       THEN ResolveActive([calls EXCEPT ![dialogue.active].phase = "submitted",
                                        ![dialogue.active].by = Head(submits).by])
       ELSE UNCHANGED <<dialogue, calls, domains, listening, ended>>
    /\ UNCHANGED <<scopeEnded, edits>>

\* setMode(): the projection is replaced by one of the same keys.
SetMode(mode) ==
    LET keys == CurrentState(dialogue, dialogue.history, dialogue.historyKeys)
        shown == domains[dialogue.domain].shows
    IN  \/ /\ ReplaceSucceeds(keys, shown) /\ dialogue' = [dialogue EXCEPT !.mode = mode]
           /\ UNCHANGED <<calls, listening, ended>>
        \/ TerminateDialogue(calls)

\* A semantic command; confirm, previous and next only emit Render Events,
\* and an emit that throws closes the dialogue.
Command(action) ==
    /\ Talking
    /\ CASE action = "history" ->
              SetMode(IF dialogue.mode = "CONVERSATION" THEN "HISTORY" ELSE "CONVERSATION")
         [] action = "cancel" /\ dialogue.mode = "HISTORY" -> SetMode("CONVERSATION")
         [] action = "cancel" /\ dialogue.mode = "CONVERSATION" ->
              ResolveActive([calls EXCEPT ![dialogue.active].phase = "cancelled"])
         [] OTHER -> TerminateDialogue(calls)
    /\ UNCHANGED <<submits, scopeEnded, edits>>

(***************************************************************************)
(* The History.                                                            *)
(***************************************************************************)

PlanHistoryKeys(entries) ==
    LET fresh == entries \ DOMAIN dialogue.historyKeys
    IN  [keys |-> [e \in entries |->
           IF e \in fresh THEN Allocate(fresh, dialogue.nextNode)[e] ELSE dialogue.historyKeys[e]],
         next |-> dialogue.nextNode + Cardinality(fresh)]

\* setHistory(), and appendHistory() for one more entry: a replace that
\* throws leaves everything as it was.
SetHistory(entries) ==
    /\ dialogue.lifecycle = "READY" /\ edits < MaxEdits /\ edits' = edits + 1
    /\ LET p == PlanHistoryKeys(entries)
           keys == CurrentState(dialogue, entries, p.keys)
           changed == [dialogue EXCEPT !.history = entries, !.historyKeys = p.keys, !.nextNode = p.next]
       IN  IF dialogue.domain = 0
           THEN dialogue' = changed /\ UNCHANGED domains
           ELSE \/ ReplaceSucceeds(keys, domains[dialogue.domain].shows) /\ dialogue' = changed
                \/ UNCHANGED <<dialogue, domains>>
    /\ UNCHANGED <<calls, listening, submits, scopeEnded, ended>>

-----------------------------------------------------------------------------
InitDialogue ==
    /\ dialogue = [lifecycle |-> "READY", mode |-> "CONVERSATION", active |-> 0, retained |-> 0,
                   domain |-> 0, subscription |-> 0, characterKeys |-> NoKeys, choiceKeys |-> NoKeys,
                   history |-> {}, historyKeys |-> NoKeys, controls |-> 0,
                   nextNode |-> 1, nextConversation |-> 1]
    /\ calls = <<>> /\ domains = <<>> /\ listening = <<>> /\ submits = <<>>
    /\ scopeEnded = FALSE /\ ended = FALSE /\ edits = 0

NextDialogue ==
    \/ \E request \in Requests : OpenConversation(request)
    \/ \E i \in DOMAIN calls : BeginConversation(i) \/ ContinueConversation(i) \/ OpeningFails(i)
    \/ CloseDialogue \/ FrameAbort \/ ScopeAbort
    \/ PostSubmit \/ ReceivePresentationEvent
    \/ \E action \in {"history", "cancel", "other"} : Command(action)
    \/ \E entries \in SUBSET Entries : SetHistory(entries)

SpecDialogue == InitDialogue /\ [][NextDialogue]_dialogueVars

(***************************************************************************)
(* Properties.                                                             *)
(***************************************************************************)
\* The two calls were being opened at the same time.
Together(i, j) == j \in calls[i].beside \/ i \in calls[j].beside

\* A Conversation is answered by what the player answered to it, never by an
\* answer to another one that was still on its way; unless the two were being
\* opened at the same time, the calls of openConversation() overlapping before
\* the object has its Domain (runtime.ts:198, 250, 298).
AnswersItsOwn ==
    \A i \in DOMAIN calls : calls[i].phase = "submitted" =>
        calls[i].by = i \/ Together(i, calls[i].by)

\* The API says it without the exception: the number of a Conversation is never
\* used again, a second concurrent call fails, and an answer is held against the
\* active Conversation (RPG_DIALOGUE_V0_API.md:131, 250, 312).
OnlyItsOwnAnswer ==
    \A i \in DOMAIN calls : calls[i].phase = "submitted" => calls[i].by = i

\* A dialogue that was closed or aborted stays CLOSED, and no Domain of it
\* stays open.
ClosedIsFinal ==
    ended => dialogue.lifecycle = "CLOSED" /\ \A d \in DOMAIN domains : ~domains[d].open
=============================================================================
