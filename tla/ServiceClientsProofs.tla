------------------------ MODULE ServiceClientsProofs ------------------------
(***************************************************************************)
(* What the author is told of a commit is true and no update is lost, for  *)
(* any Records, any number of commits and of bindings, and any bound on    *)
(* revisions; and what the author is told of a publish is true, for any    *)
(* number of carriers, subscriptions and publishes, and any limits.        *)
(*                                                                         *)
(* EvidenceSound and HonestOutcome speak of what the author was told.      *)
(* They are inductive only together with what is still under way: a        *)
(* request that has not been served has not taken effect and is the only   *)
(* one, an answer tells what became of it, and one that failed on the way  *)
(* or was refused can never be served.  NoLostUpdate rests on versions     *)
(* that only grow: past the version that a commit has used up, no other    *)
(* commit conditioned on it succeeds.                                      *)
(***************************************************************************)
EXTENDS SharedStateCommits, SessionEvents, FiniteSetTheorems, SequenceTheorems, TLAPS

Uncalled(c) ==
    via[c] = 0 => /\ place[c] = "none" /\ applied[c] = 0
                  /\ dispatched[c] = "pending" /\ result[c] = "pending"

\* What the place of a request says of its effect.
PlaceTells(c) ==
    /\ place[c] \in {"none", "lane", "carrier"} \cup Refusals => applied[c] = 0
    /\ place[c] = "committed" => applied[c] # 0

\* What its promises say of it.
PromisesTell(c) ==
    /\ dispatched[c] = "rejected" => applied[c] = 0 /\ place[c] = "gone"
    /\ result[c] \in Refusals => applied[c] = 0 /\ place[c] = "gone"
    /\ result[c] = "committed" => applied[c] # 0

OutcomeTells(c) ==
    /\ outcome[c] = "committed" => applied[c] # 0
    /\ outcome[c] \in KnownNoCommit =>
        applied[c] = 0 /\ place[c] \notin {"lane", "carrier", "committed"}

\* A commit that has taken effect has used up the versions it asked for.
UsedUp(c) ==
    applied[c] # 0 => \A k \in writes[c] : conditions[c][k] # NoCondition => conditions[c][k] < version[k]

CommitInv(c) == Uncalled(c) /\ PlaceTells(c) /\ PromisesTell(c) /\ OutcomeTells(c) /\ UsedUp(c)

IndInv == TypeOK /\ (\A c \in Commits : CommitInv(c)) /\ NoLostUpdate

----------------------------------------------------------------------------
\* What the author is told is the refusal or success that the promises carry.
LEMMA ConclusionTells ==
    ASSUME NEW c \in Commits, NEW d \in {"pending", "resolved", "rejected"},
           NEW r \in {"pending", "lost"} \cup Answers, NEW cur
    PROVE  /\ Conclusion(c, d, r, cur)
                \in {"none", "OUTCOME_UNKNOWN", "BINDING_UNAVAILABLE"} \cup Answers
           /\ Conclusion(c, d, r, cur) = "committed" => r = "committed"
           /\ Conclusion(c, d, r, cur) \in KnownNoCommit => d = "rejected" \/ r \in Refusals
BY DEF Conclusion, KnownNoCommit, Refusals, Answers

LEMMA InitInv == Init => IndInv
<1> SUFFICES ASSUME Init PROVE IndInv
  OBVIOUS
<1>1. TypeOK
  <2>1. conditions \in [Commits -> Wanted]
    BY DEF Init, Wanted
  <2>2. version \in [Keys -> 0..MaxRevision] /\ revision \in 0..MaxRevision
    BY MaxRevisionAssumption DEF Init
  <2>3. current \in 0..Bindings /\ attachments \in 0..Bindings /\ via \in [Commits -> 0..Bindings]
    BY BindingsAssumption DEF Init
  <2>4. applied \in [Commits -> 0..MaxRevision]
    BY MaxRevisionAssumption DEF Init
  <2>5. link \in [1..Bindings -> BOOLEAN] /\ authorityTerminal \in BOOLEAN /\ clientTerminal \in BOOLEAN
    BY DEF Init
  <2> QED
    BY <2>1, <2>2, <2>3, <2>4, <2>5 DEF Init, TypeOK, Places
<1>2. \A c \in Commits : CommitInv(c)
  BY DEF Init, CommitInv, Uncalled, PlaceTells, PromisesTell, OutcomeTells, UsedUp, KnownNoCommit,
         Refusals
<1>3. NoLostUpdate
  BY DEF Init, NoLostUpdate
<1> QED
  BY <1>1, <1>2, <1>3 DEF IndInv

\* A step that leaves a commit and its effect alone keeps what is known of it,
\* as long as versions do not shrink.
LEMMA UntouchedKeeps ==
    ASSUME NEW c \in Commits, TypeOK, TypeOK', CommitInv(c),
           via'[c] = via[c], place'[c] = place[c], dispatched'[c] = dispatched[c],
           result'[c] = result[c], outcome'[c] = outcome[c], applied'[c] = applied[c],
           writes'[c] = writes[c], conditions'[c] = conditions[c],
           \A k \in Keys : version[k] <= version'[k]
    PROVE  CommitInv(c)'
<1>1. Uncalled(c)' /\ PlaceTells(c)' /\ PromisesTell(c)' /\ OutcomeTells(c)'
  BY DEF CommitInv, Uncalled, PlaceTells, PromisesTell, OutcomeTells
<1>2. UsedUp(c)'
  <2> SUFFICES ASSUME applied'[c] # 0, NEW k \in writes'[c], conditions'[c][k] # NoCondition
               PROVE  conditions'[c][k] < version'[k]
    BY DEF UsedUp
  <2>1. k \in Keys /\ conditions[c][k] < version[k]
    BY DEF CommitInv, UsedUp, TypeOK
  <2>2. version[k] \in Nat /\ version'[k] \in Nat /\ conditions[c][k] \in Int
    BY <2>1, MaxRevisionAssumption DEF TypeOK, Wanted, NoCondition
  <2> QED
    BY <2>1, <2>2
<1> QED
  BY <1>1, <1>2 DEF CommitInv

\* The loss of a binding concludes the commits it had under way.
LEMMA BindingGoneKeeps ==
    ASSUME NEW d, d \in [Commits -> {"pending", "resolved", "rejected"}], dispatched' = d,
           TypeOK, BindingGone(d), UNCHANGED <<txVars, applied>>,
           \A k \in Keys : version[k] = version'[k],
           \A e \in Commits : CommitInv(e),
           \A e \in Commits : d[e] = "rejected" => applied[e] = 0 /\ place'[e] = "gone",
           \A e \in Commits : place'[e] = place[e] \/ place'[e] = "gone",
           \A e \in Commits : via[e] = 0 => place'[e] = place[e] /\ d[e] = dispatched[e]
    PROVE  /\ current' = 0
           /\ result' \in [Commits -> {"pending", "lost"} \cup Answers]
           /\ outcome' \in [Commits -> {"none", "OUTCOME_UNKNOWN", "BINDING_UNAVAILABLE"}
                                        \cup Answers]
           /\ \A c \in Commits : CommitInv(c)'
<1>1. current' = 0 /\ result' \in [Commits -> {"pending", "lost"} \cup Answers]
  BY DEF BindingGone, TypeOK
<1>2. ASSUME NEW c \in Commits
      PROVE /\ outcome'[c] \in {"none", "OUTCOME_UNKNOWN", "BINDING_UNAVAILABLE"} \cup Answers
            /\ \/ outcome'[c] = outcome[c]
               \/ outcome'[c] = Conclusion(c, d[c], "lost", 0)
            /\ result'[c] = result[c] \/ result'[c] = "lost"
            /\ via[c] = 0 => result'[c] = result[c]
  <2>1. d[c] \in {"pending", "resolved", "rejected"}
    OBVIOUS
  <2>2. Conclusion(c, d[c], "lost", 0)
            \in {"none", "OUTCOME_UNKNOWN", "BINDING_UNAVAILABLE"} \cup Answers
    BY <2>1, ConclusionTells
  <2> QED
    BY <2>2 DEF BindingGone, TypeOK, Same
<1>3. ASSUME NEW c \in Commits PROVE CommitInv(c)'
  <2>1. Uncalled(c)'
    BY <1>2 DEF CommitInv, Uncalled, txVars
  <2>2. PlaceTells(c)'
    BY DEF CommitInv, PlaceTells, Refusals
  <2>3. PromisesTell(c)'
    BY <1>2 DEF CommitInv, PromisesTell, Refusals
  <2>4. OutcomeTells(c)'
    <3>1. d[c] \in {"pending", "resolved", "rejected"}
      OBVIOUS
    <3>2. Conclusion(c, d[c], "lost", 0) # "committed"
      BY <3>1, ConclusionTells
    <3>3. Conclusion(c, d[c], "lost", 0) \in KnownNoCommit => d[c] = "rejected"
      BY <3>1, ConclusionTells DEF Refusals
    <3> QED
      BY <1>2, <3>2, <3>3 DEF CommitInv, OutcomeTells
  <2>5. UsedUp(c)'
    BY DEF CommitInv, UsedUp, txVars, TypeOK
  <2> QED
    BY <2>1, <2>2, <2>3, <2>4, <2>5 DEF CommitInv
<1>4. outcome' \in [Commits -> {"none", "OUTCOME_UNKNOWN", "BINDING_UNAVAILABLE"} \cup Answers]
  BY <1>2 DEF BindingGone
<1> QED
  BY <1>1, <1>3, <1>4

\* Rivals are a matter of what was asked for and what has taken effect.
LEMMA NoLostUpdateKept ==
    ASSUME NoLostUpdate, UNCHANGED <<conditions, writes, applied>>
    PROVE  NoLostUpdate'
BY DEF NoLostUpdate, Rivals

----------------------------------------------------------------------------
\* Steps that do not touch the commits of the author.
LEMMA ElsewhereInv ==
    ASSUME IndInv,
           \/ Attach
           \/ \E b \in 1..Bindings : LinkBreaks(b)
           \/ \E W \in WriteSets : OtherCommit(W)
           \/ AuthorityTerminates
    PROVE  IndInv'
<1>1. UNCHANGED <<txVars, attemptVars, applied>>
  BY DEF Attach, LinkBreaks, OtherCommit, AuthorityTerminates
<1>2. TypeOK' /\ \A k \in Keys : version[k] <= version'[k]
  <2>1. CASE Attach
    BY <2>1, BindingsAssumption, MaxRevisionAssumption
    DEF Attach, IndInv, TypeOK, storeVars, txVars, attemptVars
  <2>2. CASE \E b \in 1..Bindings : LinkBreaks(b)
    BY <2>2, MaxRevisionAssumption DEF LinkBreaks, IndInv, TypeOK, storeVars, clientVars, txVars, attemptVars
  <2>3. CASE \E W \in WriteSets : OtherCommit(W)
    <3>1. PICK W \in WriteSets : OtherCommit(W)
      BY <2>3
    <3>2. /\ version' \in [Keys -> 0..MaxRevision] /\ revision' \in 0..MaxRevision
          /\ \A k \in Keys : version[k] <= version'[k]
      BY <3>1, MaxRevisionAssumption DEF OtherCommit, Exhausted, Apply, IndInv, TypeOK
    <3> QED
      BY <3>1, <3>2 DEF OtherCommit, IndInv, TypeOK, clientVars, txVars, attemptVars
  <2>4. CASE AuthorityTerminates
    BY <2>4, MaxRevisionAssumption DEF AuthorityTerminates, IndInv, TypeOK, clientVars, txVars, attemptVars
  <2> QED
    BY <2>1, <2>2, <2>3, <2>4
<1>3. ASSUME NEW c \in Commits PROVE CommitInv(c)'
  <2>1. /\ via'[c] = via[c] /\ place'[c] = place[c] /\ dispatched'[c] = dispatched[c]
        /\ result'[c] = result[c] /\ outcome'[c] = outcome[c] /\ applied'[c] = applied[c]
        /\ writes'[c] = writes[c] /\ conditions'[c] = conditions[c]
    BY <1>1 DEF txVars, attemptVars
  <2> QED
    BY <1>2, <2>1, UntouchedKeeps DEF IndInv
<1>4. NoLostUpdate'
  BY <1>1, NoLostUpdateKept DEF IndInv, txVars
<1> QED
  BY <1>2, <1>3, <1>4 DEF IndInv

\* The ways a client loses its binding without a request being in its hands.
LEMMA BindingLostInv ==
    ASSUME IndInv, Detach \/ Terminate \/ BindingFails
    PROVE  IndInv'
<1>1. /\ UNCHANGED <<storeVars, attachments, txVars, place, dispatched, applied>>
      /\ clientTerminal' \in BOOLEAN /\ link' \in [1..Bindings -> BOOLEAN]
  BY DEF Detach, Terminate, BindingFails, IndInv, TypeOK
<1>2. CASE BindingGone(dispatched)
  <2>1. /\ current' = 0
        /\ result' \in [Commits -> {"pending", "lost"} \cup Answers]
        /\ outcome' \in [Commits -> {"none", "OUTCOME_UNKNOWN", "BINDING_UNAVAILABLE"} \cup Answers]
        /\ \A c \in Commits : CommitInv(c)'
    <3>1. \A e \in Commits : dispatched[e] = "rejected" => applied[e] = 0 /\ place'[e] = "gone"
      BY <1>1 DEF IndInv, CommitInv, PromisesTell
    <3>2. dispatched \in [Commits -> {"pending", "resolved", "rejected"}] /\ TypeOK
      BY DEF IndInv, TypeOK
    <3>3. /\ dispatched' = dispatched /\ UNCHANGED <<txVars, applied>>
          /\ \A k \in Keys : version[k] = version'[k]
          /\ \A e \in Commits : place'[e] = place[e]
      BY <1>1 DEF storeVars
    <3> QED
      BY <1>2, <3>1, <3>2, <3>3, BindingGoneKeeps DEF IndInv
  <2>2. TypeOK'
    BY <1>1, <2>1, BindingsAssumption DEF IndInv, TypeOK, storeVars, txVars
  <2>3. NoLostUpdate'
    BY <1>1, NoLostUpdateKept DEF IndInv, txVars
  <2> QED
    BY <2>1, <2>2, <2>3 DEF IndInv
<1>3. CASE UNCHANGED <<current, link, result, outcome>>
  <2>1. TypeOK'
    BY <1>1, <1>3 DEF IndInv, TypeOK, storeVars, txVars
  <2>2. ASSUME NEW c \in Commits PROVE CommitInv(c)'
    <3>1. /\ via'[c] = via[c] /\ place'[c] = place[c] /\ dispatched'[c] = dispatched[c]
          /\ result'[c] = result[c] /\ outcome'[c] = outcome[c] /\ applied'[c] = applied[c]
          /\ writes'[c] = writes[c] /\ conditions'[c] = conditions[c]
      BY <1>1, <1>3 DEF txVars
    <3>2. \A k \in Keys : version[k] <= version'[k]
      BY <1>1, MaxRevisionAssumption DEF storeVars, IndInv, TypeOK
    <3> QED
      BY <2>1, <3>1, <3>2, UntouchedKeeps DEF IndInv
  <2>3. NoLostUpdate'
    BY <1>1, NoLostUpdateKept DEF IndInv, txVars
  <2> QED
    BY <2>1, <2>2, <2>3 DEF IndInv
<1> QED
  BY <1>2, <1>3 DEF Detach, Terminate, BindingFails

----------------------------------------------------------------------------
\* A step that touches one commit only, and neither the store nor its effect.
LEMMA OneCommitInv ==
    ASSUME IndInv, TypeOK', NEW c \in Commits, CommitInv(c)',
           UNCHANGED <<version, applied>>,
           \A e \in Commits \ {c} :
                /\ via'[e] = via[e] /\ place'[e] = place[e] /\ dispatched'[e] = dispatched[e]
                /\ result'[e] = result[e] /\ outcome'[e] = outcome[e]
                /\ writes'[e] = writes[e] /\ conditions'[e] = conditions[e],
           applied[c] = 0 \/ UNCHANGED <<conditions, writes>>
    PROVE  IndInv'
<1>1. \A k \in Keys : version[k] <= version'[k]
  BY MaxRevisionAssumption DEF IndInv, TypeOK
<1>2. ASSUME NEW e \in Commits PROVE CommitInv(e)'
  <2>1. CASE e = c
    BY <2>1
  <2>2. CASE e # c
    BY <1>1, <2>2, UntouchedKeeps DEF IndInv
  <2> QED
    BY <2>1, <2>2
<1>3. NoLostUpdate'
  <2>1. CASE UNCHANGED <<conditions, writes>>
    BY <2>1, NoLostUpdateKept DEF IndInv
  <2>2. CASE applied[c] = 0
    BY <2>2 DEF IndInv, NoLostUpdate, Rivals
  <2> QED
    BY <2>1, <2>2
<1> QED
  BY <1>2, <1>3 DEF IndInv

\* The call of commit(), accepted or refused.
LEMMA CallInv ==
    ASSUME IndInv, NEW c \in Commits,
           \/ CommitRefused(c)
           \/ \E wanted \in Wanted, W \in WriteSets : Commit(c, wanted, W)
    PROVE  IndInv'
<1>1. CASE CommitRefused(c)
  <2>1. TypeOK'
    BY <1>1 DEF CommitRefused, IndInv, TypeOK, Answers, Refusals, storeVars, clientVars, txVars
  <2>2. CommitInv(c)'
    BY <1>1 DEF CommitRefused, IndInv, TypeOK, CommitInv, Uncalled, PlaceTells, PromisesTell,
                OutcomeTells, UsedUp, storeVars, txVars, KnownNoCommit
  <2> QED
    BY <1>1, <2>1, <2>2, OneCommitInv
    DEF CommitRefused, IndInv, TypeOK, storeVars, txVars
<1>2. CASE \E wanted \in Wanted, W \in WriteSets : Commit(c, wanted, W)
  <2>1. PICK wanted \in Wanted, W \in WriteSets : Commit(c, wanted, W)
    BY <1>2
  <2>2. TypeOK'
    BY <2>1, BindingsAssumption
    DEF Commit, WriteSets, IndInv, TypeOK, Places, storeVars, clientVars
  <2>3. CommitInv(c)'
    BY <2>1 DEF Commit, IndInv, TypeOK, CommitInv, Uncalled, PlaceTells, PromisesTell,
                OutcomeTells, UsedUp, KnownNoCommit, Refusals
  <2>4. applied[c] = 0
    BY <2>1 DEF Commit, IndInv, CommitInv, Uncalled
  <2> QED
    BY <2>1, <2>2, <2>3, <2>4, OneCommitInv DEF Commit, IndInv, TypeOK, storeVars
<1> QED
  BY <1>1, <1>2

\* The way of a request and of its answer, as long as nothing is lost with it.
LEMMA TransitInv ==
    ASSUME IndInv, NEW c \in Commits, Send(c) \/ RequestLost(c) \/ AnswerLost(c)
    PROVE  IndInv'
<1>1. TypeOK'
  BY DEF Send, RequestLost, AnswerLost, IndInv, TypeOK, Places, storeVars, clientVars, txVars
<1>2. CommitInv(c)'
  BY DEF Send, RequestLost, AnswerLost, IndInv, TypeOK, CommitInv, Uncalled, PlaceTells,
         PromisesTell, OutcomeTells, UsedUp, KnownNoCommit, Refusals, Answers, storeVars, txVars
<1> QED
  BY <1>1, <1>2, OneCommitInv
  DEF Send, RequestLost, AnswerLost, IndInv, TypeOK, storeVars, txVars

\* One of the promises of the request settles.
LEMMA LearnInv ==
    ASSUME IndInv, NEW c \in Commits, SendAccepted(c) \/ AnswerArrives(c)
    PROVE  IndInv'
<1>1. PICK d \in {"pending", "resolved", "rejected"}, r \in {"pending", "lost"} \cup Answers :
        /\ Learn(c, d, r)
        /\ d = dispatched[c] \/ d = "resolved"
        /\ \/ r = result[c] /\ place'[c] = place[c]
           \/ place[c] \in Answers /\ r = place[c] /\ place'[c] = "gone"
  <2>1. /\ dispatched[c] \in {"pending", "resolved", "rejected"}
        /\ result[c] \in {"pending", "lost"} \cup Answers
    BY DEF IndInv, TypeOK
  <2>2. CASE SendAccepted(c)
    BY <2>1, <2>2 DEF SendAccepted
  <2>3. CASE AnswerArrives(c)
    <3>1. place'[c] = "gone"
      BY <2>3 DEF AnswerArrives, IndInv, TypeOK
    <3> QED
      BY <2>1, <2>3, <3>1 DEF AnswerArrives
  <2> QED
    BY <2>2, <2>3
<1>2. /\ UNCHANGED <<storeVars, clientVars, link, txVars, applied>>
      /\ place[c] # "none"
      /\ place' \in [Commits -> Places]
      /\ \A e \in Commits \ {c} : place'[e] = place[e]
  BY DEF SendAccepted, AnswerArrives, IndInv, TypeOK, Places, Answers, Refusals
<1>3. /\ outcome'[c] = outcome[c] \/ outcome'[c] = Conclusion(c, d, r, current)
      /\ dispatched'[c] = d /\ result'[c] = r
      /\ \A e \in Commits \ {c} : /\ dispatched'[e] = dispatched[e] /\ result'[e] = result[e]
                                  /\ outcome'[e] = outcome[e]
  BY <1>1 DEF Learn, IndInv, TypeOK
<1>4. TypeOK'
  <2>1. /\ Conclusion(c, d, r, current)
            \in {"none", "OUTCOME_UNKNOWN", "BINDING_UNAVAILABLE"} \cup Answers
    BY ConclusionTells
  <2>2. outcome' \in [Commits -> {"none", "OUTCOME_UNKNOWN", "BINDING_UNAVAILABLE"} \cup Answers]
    BY <1>1, <2>1 DEF Learn, IndInv, TypeOK
  <2>3. /\ dispatched' \in [Commits -> {"pending", "resolved", "rejected"}]
        /\ result' \in [Commits -> {"pending", "lost"} \cup Answers]
    BY <1>1 DEF Learn, IndInv, TypeOK
  <2> QED
    BY <1>2, <2>2, <2>3 DEF IndInv, TypeOK, storeVars, clientVars, txVars
<1>5. CommitInv(c)'
  <2>1. UNCHANGED <<applied, version, via, writes, conditions>>
    BY <1>2 DEF storeVars, txVars
  <2>2. Uncalled(c)'
    BY <1>2, <2>1 DEF IndInv, CommitInv, Uncalled
  <2>3. PlaceTells(c)' /\ UsedUp(c)'
    BY <1>1, <2>1 DEF IndInv, CommitInv, PlaceTells, UsedUp, Refusals
  <2>4. PromisesTell(c)'
    BY <1>1, <1>3, <2>1 DEF IndInv, CommitInv, PlaceTells, PromisesTell, Refusals
  <2>5. OutcomeTells(c)'
    <3>1. Conclusion(c, d, r, current) = "committed" => applied[c] # 0
      BY <1>1, ConclusionTells DEF IndInv, CommitInv, PlaceTells, PromisesTell
    <3>2. Conclusion(c, d, r, current) \in KnownNoCommit => applied[c] = 0 /\ place'[c] = "gone"
      BY <1>1, <1>3, <2>4, <2>1, ConclusionTells DEF PromisesTell
    <3>3. outcome[c] \in KnownNoCommit => place'[c] \notin {"lane", "carrier", "committed"}
      BY <1>1 DEF IndInv, CommitInv, OutcomeTells
    <3> QED
      BY <1>3, <2>1, <3>1, <3>2, <3>3 DEF IndInv, CommitInv, OutcomeTells
  <2> QED
    BY <2>2, <2>3, <2>4, <2>5 DEF CommitInv
<1> QED
  BY <1>2, <1>3, <1>4, <1>5, OneCommitInv DEF storeVars, txVars

\* A rejected send: the request has not been served and never will be.
LEMMA SendFailsInv ==
    ASSUME IndInv, NEW c \in Commits, SendRefused(c) \/ SendRejected(c)
    PROVE  IndInv'
<1>1. place[c] \in {"lane", "carrier"} /\ SendFails(c)
  BY DEF SendRefused, SendRejected
<1>2. /\ UNCHANGED <<storeVars, attachments, clientTerminal, txVars, applied>>
      /\ dispatched' = [dispatched EXCEPT ![c] = "rejected"]
      /\ place' = [place EXCEPT ![c] = "gone"]
      /\ link' = [link EXCEPT ![via[c]] = FALSE]
  BY <1>1 DEF SendFails
<1>3. applied[c] = 0 /\ via[c] # 0
  BY <1>1 DEF IndInv, CommitInv, PlaceTells, Uncalled
<1>4. /\ dispatched' \in [Commits -> {"pending", "resolved", "rejected"}]
      /\ place' \in [Commits -> Places]
      /\ link' \in [1..Bindings -> BOOLEAN]
  BY <1>2 DEF IndInv, TypeOK, Places
<1>5. CASE BindingGone(dispatched')
  <2>1. /\ current' = 0
        /\ result' \in [Commits -> {"pending", "lost"} \cup Answers]
        /\ outcome' \in [Commits -> {"none", "OUTCOME_UNKNOWN", "BINDING_UNAVAILABLE"} \cup Answers]
        /\ \A e \in Commits : CommitInv(e)'
    <3>1. \A e \in Commits :
            /\ dispatched'[e] = "rejected" => applied[e] = 0 /\ place'[e] = "gone"
            /\ place'[e] = place[e] \/ place'[e] = "gone"
            /\ via[e] = 0 => place'[e] = place[e] /\ dispatched'[e] = dispatched[e]
      BY <1>2, <1>3 DEF IndInv, TypeOK, CommitInv, PromisesTell
    <3>2. /\ UNCHANGED <<txVars, applied>>
          /\ \A k \in Keys : version[k] = version'[k]
      BY <1>2 DEF storeVars
    <3>3. TypeOK /\ \A e \in Commits : CommitInv(e)
      BY DEF IndInv
    <3> DEFINE d == dispatched'
    <3>4. d \in [Commits -> {"pending", "resolved", "rejected"}] /\ dispatched' = d /\ BindingGone(d)
      BY <1>4, <1>5
    <3> HIDE DEF d
    <3> QED
      BY <3>1, <3>2, <3>3, <3>4, BindingGoneKeeps
  <2>2. TypeOK'
    BY <1>2, <1>4, <2>1, BindingsAssumption DEF IndInv, TypeOK, storeVars, txVars
  <2>3. NoLostUpdate'
    BY <1>2, NoLostUpdateKept DEF IndInv, txVars
  <2> QED
    BY <2>1, <2>2, <2>3 DEF IndInv
<1>6. CASE /\ outcome' = [outcome EXCEPT ![c] = Conclusion(c, "rejected", result[c], current)]
           /\ UNCHANGED <<current, result>>
  <2>1. Conclusion(c, "rejected", result[c], current) = "BINDING_UNAVAILABLE"
    BY DEF Conclusion
  <2>2. TypeOK'
    BY <1>2, <1>4, <1>6, <2>1 DEF IndInv, TypeOK, storeVars, txVars
  <2>3. CommitInv(c)'
    BY <1>2, <1>3, <1>6, <2>1
    DEF IndInv, TypeOK, CommitInv, Uncalled, PlaceTells, PromisesTell, OutcomeTells, UsedUp,
        KnownNoCommit, Refusals, storeVars, txVars
  <2> QED
    BY <1>2, <1>3, <1>6, <2>2, <2>3, OneCommitInv DEF IndInv, TypeOK, storeVars, txVars
<1> QED
  BY <1>1, <1>5, <1>6 DEF SendFails

----------------------------------------------------------------------------
\* The Authority's answer to a request: where versions and effects change.
LEMMA ServeInv ==
    ASSUME IndInv, NEW c \in Commits, Serve(c)
    PROVE  IndInv'
<1>1. UNCHANGED <<authorityTerminal, clientVars, link, txVars, dispatched, result, outcome>>
  BY DEF Serve
<1>2. place[c] = "carrier" /\ applied[c] = 0
  BY DEF Serve, IndInv, CommitInv, PlaceTells
<1>3. \/ \E why \in Refusals : /\ place' = [place EXCEPT ![c] = why]
                               /\ UNCHANGED <<revision, version, applied>>
      \/ /\ place' = [place EXCEPT ![c] = "committed"]
         /\ ConditionsHold(conditions[c]) /\ ~Exhausted(writes[c])
         /\ Apply(writes[c]) /\ applied' = [applied EXCEPT ![c] = revision']
  BY DEF Serve, Refusals
<1>4. dispatched[c] # "rejected" /\ result[c] \in {"pending", "lost"}
      /\ outcome[c] \notin KnownNoCommit \cup {"committed"}
  BY <1>2 DEF IndInv, TypeOK, CommitInv, PromisesTell, OutcomeTells, Answers
<1>5. CASE \E why \in Refusals : /\ place' = [place EXCEPT ![c] = why]
                                 /\ UNCHANGED <<revision, version, applied>>
  <2>1. PICK why \in Refusals : /\ place' = [place EXCEPT ![c] = why]
                                /\ UNCHANGED <<revision, version, applied>>
    BY <1>5
  <2>2. TypeOK'
    BY <1>1, <2>1 DEF IndInv, TypeOK, Places, Answers, clientVars, txVars
  <2>3. CommitInv(c)'
    BY <1>1, <1>2, <1>4, <2>1
    DEF IndInv, TypeOK, CommitInv, Uncalled, PlaceTells, PromisesTell, OutcomeTells, UsedUp,
        KnownNoCommit, Refusals, txVars
  <2> QED
    BY <1>1, <1>2, <2>1, <2>2, <2>3, OneCommitInv DEF IndInv, TypeOK, txVars
<1>6. CASE /\ place' = [place EXCEPT ![c] = "committed"]
           /\ ConditionsHold(conditions[c]) /\ ~Exhausted(writes[c])
           /\ Apply(writes[c]) /\ applied' = [applied EXCEPT ![c] = revision']
  <2>1. /\ revision' \in 0..MaxRevision /\ revision' # 0
        /\ version' \in [Keys -> 0..MaxRevision]
        /\ \A k \in Keys : version[k] <= version'[k]
        /\ \A k \in writes[c] : version'[k] = version[k] + 1
    BY <1>6, MaxRevisionAssumption DEF Exhausted, Apply, IndInv, TypeOK
  <2>2. TypeOK'
    BY <1>1, <1>6, <2>1 DEF IndInv, TypeOK, Places, Answers, clientVars, txVars
  <2>3. UsedUp(c)'
    <3> SUFFICES ASSUME NEW k \in writes[c], conditions[c][k] # NoCondition
                 PROVE  conditions[c][k] < version'[k]
      BY <1>1 DEF UsedUp, txVars
    <3>1. k \in Keys /\ version[k] \in Nat
      BY MaxRevisionAssumption DEF IndInv, TypeOK
    <3>2. conditions[c][k] = version[k]
      BY <1>6, <3>1 DEF ConditionsHold
    <3> QED
      BY <2>1, <3>1, <3>2
  <2>4. CommitInv(c)'
    BY <1>1, <1>2, <1>4, <1>6, <2>1, <2>3
    DEF IndInv, TypeOK, CommitInv, Uncalled, PlaceTells, PromisesTell, OutcomeTells,
        Refusals, txVars
  <2>5. ASSUME NEW e \in Commits PROVE CommitInv(e)'
    <3>1. CASE e = c
      BY <2>4, <3>1
    <3>2. CASE e # c
      <4>1. /\ via'[e] = via[e] /\ place'[e] = place[e] /\ dispatched'[e] = dispatched[e]
            /\ result'[e] = result[e] /\ outcome'[e] = outcome[e] /\ applied'[e] = applied[e]
            /\ writes'[e] = writes[e] /\ conditions'[e] = conditions[e]
        BY <1>1, <1>6, <3>2 DEF IndInv, TypeOK, txVars
      <4> QED
        BY <2>1, <2>2, <4>1, UntouchedKeeps DEF IndInv
    <3> QED
      BY <3>1, <3>2
  <2>6. \* A rival that has taken effect has used up the version c asks for.
        ASSUME NEW e \in Commits, e # c, applied[e] # 0
        PROVE  ~Rivals(c, e) /\ ~Rivals(e, c)
    <3> SUFFICES ASSUME NEW k \in writes[c] \cap writes[e], conditions[c][k] # NoCondition,
                        conditions[c][k] = conditions[e][k]
                 PROVE  FALSE
      BY DEF Rivals
    <3>1. k \in Keys /\ version[k] \in Nat
      BY MaxRevisionAssumption DEF IndInv, TypeOK
    <3>2. conditions[e][k] < version[k]
      BY <2>6 DEF IndInv, CommitInv, UsedUp
    <3>3. conditions[c][k] = version[k]
      BY <1>6, <3>1 DEF ConditionsHold
    <3> QED
      BY <3>1, <3>2, <3>3
  <2>7. NoLostUpdate'
    <3> SUFFICES ASSUME NEW a \in Commits, NEW b \in Commits, a # b,
                        applied'[a] # 0, applied'[b] # 0
                 PROVE  ~Rivals(a, b)
      BY <1>1 DEF NoLostUpdate, Rivals, txVars
    <3>1. (a # c => applied[a] # 0) /\ (b # c => applied[b] # 0)
      BY <1>6 DEF IndInv, TypeOK
    <3> QED
      BY <2>6, <3>1 DEF IndInv, NoLostUpdate
  <2> QED
    BY <2>2, <2>5, <2>7 DEF IndInv
<1> QED
  BY <1>3, <1>5, <1>6

LEMMA StutterInv ==
    ASSUME IndInv, UNCHANGED vars
    PROVE  IndInv'
BY DEF IndInv, TypeOK, CommitInv, Uncalled, PlaceTells, PromisesTell, OutcomeTells, UsedUp,
       NoLostUpdate, Rivals, vars, storeVars, clientVars, txVars, attemptVars

LEMMA NextInv == IndInv /\ [Next]_vars => IndInv'
<1> SUFFICES ASSUME IndInv, [Next]_vars PROVE IndInv'
  OBVIOUS
<1>1. CASE Environment
  BY <1>1, ElsewhereInv, BindingLostInv, CallInv DEF Environment
<1>2. CASE BindingFails
  BY <1>2, BindingLostInv
<1>3. CASE \E c \in Commits : \/ Send(c) \/ SendRefused(c) \/ SendAccepted(c) \/ SendRejected(c)
                              \/ RequestLost(c) \/ Serve(c) \/ AnswerArrives(c) \/ AnswerLost(c)
  BY <1>3, TransitInv, SendFailsInv, LearnInv, ServeInv
<1>4. CASE UNCHANGED vars
  BY <1>4, StutterInv
<1> QED
  BY <1>1, <1>2, <1>3, <1>4 DEF Next

----------------------------------------------------------------------------
\* What is under way tells the truth at every moment, for any number of
\* commits, Records and bindings (client.ts, carrier.ts, authority.ts).
THEOREM InvariantHolds == Spec => []IndInv
<1>1. Init => IndInv
  BY InitInv
<1>2. IndInv /\ [Next]_vars => IndInv'
  BY NextInv
<1> QED
  BY <1>1, <1>2, PTL DEF Spec

\* Every variable keeps its type: in particular, revision and versions stay
\* within their limit (the checks of Authority.commit).
THEOREM TypeCorrect == Spec => []TypeOK
<1>1. IndInv => TypeOK
  BY DEF IndInv
<1> QED
  BY <1>1, InvariantHolds, PTL

\* An author is never told that a commit succeeded which did not, nor that it
\* had no effect when it had one or still may get one (client.commit).
THEOREM EvidenceIsSound == Spec => []EvidenceSound
<1>1. IndInv => EvidenceSound
  BY DEF IndInv, CommitInv, OutcomeTells, EvidenceSound
<1> QED
  BY <1>1, InvariantHolds, PTL

\* Of commits that are conditioned on the same version of a Record they write,
\* at most one takes effect (Authority.commit).
THEOREM NoUpdateIsLost == Spec => []NoLostUpdate
<1>1. IndInv => NoLostUpdate
  BY DEF IndInv
<1> QED
  BY <1>1, InvariantHolds, PTL

----------------------------------------------------------------------------
(* Session Events: what publish() answers is true.  A publish is in at     *)
(* most one place: its request on the way up, or its answer on the way     *)
(* down, on the carrier it was sent through.                               *)

IsSeq(s) == \E S : s \in Seq(S)

\* What a step that is not about messages of a kind does to a channel: what
\* there is of the kind afterwards was there before, one place behind or not.
Quiet(s, t, kind) ==
  /\ IsSeq(t)
  /\ \E d \in {0, 1} : \A i \in 1 .. Len(t) :
       t[i][1] = kind => i + d \in 1 .. Len(s) /\ t[i] = s[i + d]

\* What steps do to a channel is quiet when they leave it, empty it, take its
\* head, or send what is not of the kind.
LEMMA QuietSame ==
  ASSUME NEW s, NEW kind, IsSeq(s)
  PROVE  Quiet(s, s, kind)
<1>1. Len(s) \in Nat
  BY LenProperties DEF IsSeq
<1>2. \A i \in 1 .. Len(s) : i + 0 = i
  BY <1>1
<1> QED BY <1>2 DEF Quiet

LEMMA QuietEmpty ==
  ASSUME NEW s, NEW kind
  PROVE  Quiet(s, <<>>, kind)
<1>1. <<>> \in Seq({}) /\ Len(<<>>) = 0
  OBVIOUS
<1> QED BY <1>1 DEF Quiet, IsSeq

LEMMA QuietTail ==
  ASSUME NEW s, NEW kind, IsSeq(s), s # <<>>
  PROVE  Quiet(s, Tail(s), kind)
<1>1. PICK S : s \in Seq(S)
  BY DEF IsSeq
<1>2. /\ Tail(s) \in Seq(S) /\ Len(Tail(s)) = Len(s) - 1 /\ Len(s) \in Nat
      /\ \A i \in 1 .. Len(Tail(s)) : Tail(s)[i] = s[i + 1]
  BY <1>1, HeadTailProperties, LenProperties
<1>3. \A i \in 1 .. Len(Tail(s)) : i + 1 \in 1 .. Len(s)
  BY <1>2
<1> QED BY <1>2, <1>3 DEF Quiet, IsSeq

LEMMA QuietConcat ==
  ASSUME NEW s, NEW T, NEW t \in Seq(T), NEW kind, IsSeq(s), \A m \in T : m[1] # kind
  PROVE  Quiet(s, s \o t, kind)
<1>1. PICK S : s \in Seq(S)
  BY DEF IsSeq
<1>2. s \in Seq(S \cup T) /\ t \in Seq(S \cup T)
  BY <1>1, SeqMonotonic
<1>3. /\ s \o t \in Seq(S \cup T) /\ Len(s) \in Nat /\ Len(t) \in Nat
      /\ Len(s \o t) = Len(s) + Len(t)
      /\ \A i \in 1 .. Len(s) + Len(t) :
           (s \o t)[i] = IF i <= Len(s) THEN s[i] ELSE t[i - Len(s)]
  BY <1>2, ConcatProperties, LenProperties
<1>4. \A j \in 1 .. Len(t) : t[j] \in T
  BY ElementOfSeq
<1>5. ASSUME NEW i \in 1 .. Len(s \o t), (s \o t)[i][1] = kind
      PROVE  i + 0 \in 1 .. Len(s) /\ (s \o t)[i] = s[i + 0]
  <2>1. i \in 1 .. Len(s) + Len(t)
    BY <1>3
  <2>2. CASE i <= Len(s)
    BY <1>3, <2>1, <2>2
  <2>3. CASE ~(i <= Len(s))
    <3>1. i - Len(s) \in 1 .. Len(t)
      BY <1>3, <2>1, <2>3
    <3>2. (s \o t)[i] = t[i - Len(s)]
      BY <1>3, <2>1, <2>3
    <3> QED BY <1>4, <1>5, <3>1, <3>2
  <2> QED BY <2>2, <2>3
<1> QED BY <1>3, <1>5 DEF Quiet, IsSeq

LEMMA QuietAppend ==
  ASSUME NEW s, NEW m, NEW kind, IsSeq(s), m[1] # kind
  PROVE  Quiet(s, Append(s, m), kind)
<1>1. PICK S : s \in Seq(S)
  BY DEF IsSeq
<1>2. s \in Seq(S \cup {m})
  BY <1>1, SeqMonotonic
<1>3. /\ Append(s, m) \in Seq(S \cup {m}) /\ Len(s) \in Nat
      /\ Len(Append(s, m)) = Len(s) + 1
      /\ \A i \in 1 .. Len(s) : Append(s, m)[i] = s[i]
      /\ Append(s, m)[Len(s) + 1] = m
  BY <1>2, AppendProperties, LenProperties
<1>4. ASSUME NEW i \in 1 .. Len(Append(s, m)), Append(s, m)[i][1] = kind
      PROVE  i + 0 \in 1 .. Len(s) /\ Append(s, m)[i] = s[i + 0]
  <2>1. i # Len(s) + 1
    BY <1>3, <1>4
  <2> QED BY <1>3, <2>1
<1> QED BY <1>3, <1>4 DEF Quiet, IsSeq

----------------------------------------------------------------------------
CarrierFields == {"up", "down", "cut", "serving", "installing"}

\* What a carrier is, and whom its messages about publishes name.
ConnShape(c) ==
  /\ DOMAIN c = CarrierBindings
  /\ \A g \in CarrierBindings :
       /\ CarrierFields \subseteq DOMAIN c[g]
       /\ IsSeq(c[g].up) /\ IsSeq(c[g].down)
       /\ \A i \in 1 .. Len(c[g].up) : c[g].up[i][1] = "publish" => c[g].up[i][2] \in Publishes
       /\ \A i \in 1 .. Len(c[g].down) :
            c[g].down[i][1] = "published" => c[g].down[i][2] \in Publishes

Outcomes == {"none", "dispatched", "fulfilled", "refused", "unknown"}
PublishRecords == [gen : CarrierBindings \cup {None}, outcome : Outcomes]

Shape ==
  /\ ConnShape(conn)
  /\ hub \in [terminal : BOOLEAN, log : Seq(Publishes \cup {Host})]
  /\ pub \in [Publishes -> PublishRecords]
  /\ client \in [current : CarrierBindings \cup {None}, attached : 0 .. MaxBindings,
                 terminal : BOOLEAN]

In(p, L) == \E i \in 1 .. Len(L) : L[i] = p
Asks(c, g, i, p) == c[g].up[i][1] = "publish" /\ c[g].up[i][2] = p
Tells(c, g, i, p) == c[g].down[i][1] = "published" /\ c[g].down[i][2] = p

\* What an outcome says of the log, and that it is routed once.
OutcomeHonest(p, y, L) ==
  /\ y.outcome \in {"none", "refused"} => ~In(p, L)
  /\ y.outcome = "fulfilled" => In(p, L)
  /\ \A i, j \in 1 .. Len(L) : L[i] = p /\ L[j] = p => i = j

\* A request under way: not served, asked once, not answered.
RequestHonest(p, y, L, c) ==
  \A g \in CarrierBindings : \A i \in 1 .. Len(c[g].up) : Asks(c, g, i, p) =>
    /\ y.outcome \in {"dispatched", "unknown"} /\ y.gen = g /\ ~In(p, L)
    /\ \A j \in 1 .. Len(c[g].up) : Asks(c, g, j, p) => i = j
    /\ \A j \in 1 .. Len(c[g].down) : ~Tells(c, g, j, p)

\* An answer under way: true, and the only one.
AnswerHonest(p, y, L, c) ==
  \A g \in CarrierBindings : \A i \in 1 .. Len(c[g].down) : Tells(c, g, i, p) =>
    /\ y.outcome \in {"dispatched", "unknown"} /\ y.gen = g
    /\ \/ c[g].down[i][3] = TRUE /\ In(p, L)
       \/ c[g].down[i][3] = FALSE /\ ~In(p, L)
    /\ \A j \in 1 .. Len(c[g].down) : Tells(c, g, j, p) => i = j

Honest(p, y, L, c) == OutcomeHonest(p, y, L) /\ RequestHonest(p, y, L, c) /\ AnswerHonest(p, y, L, c)

HonestInv == Shape /\ \A p \in Publishes : Honest(p, pub[p], hub.log, conn)

----------------------------------------------------------------------------
QuietConn(c, d) ==
  /\ DOMAIN d = CarrierBindings
  /\ \A g \in CarrierBindings : /\ CarrierFields \subseteq DOMAIN d[g]
                                /\ Quiet(c[g].up, d[g].up, "publish")
                                /\ Quiet(c[g].down, d[g].down, "published")

\* Quiet steps keep the shape of the carriers, and what is known of a publish.
LEMMA QuietShape ==
  ASSUME NEW c, NEW d, ConnShape(c), QuietConn(c, d)
  PROVE  ConnShape(d)
<1> SUFFICES ASSUME NEW g \in CarrierBindings
    PROVE  /\ CarrierFields \subseteq DOMAIN d[g]
           /\ IsSeq(d[g].up) /\ IsSeq(d[g].down)
           /\ \A i \in 1 .. Len(d[g].up) : d[g].up[i][1] = "publish" => d[g].up[i][2] \in Publishes
           /\ \A i \in 1 .. Len(d[g].down) :
                d[g].down[i][1] = "published" => d[g].down[i][2] \in Publishes
  BY DEF ConnShape, QuietConn
<1>1. /\ CarrierFields \subseteq DOMAIN d[g]
      /\ Quiet(c[g].up, d[g].up, "publish") /\ Quiet(c[g].down, d[g].down, "published")
  BY DEF QuietConn
<1>2. /\ \A i \in 1 .. Len(c[g].up) : c[g].up[i][1] = "publish" => c[g].up[i][2] \in Publishes
      /\ \A i \in 1 .. Len(c[g].down) :
           c[g].down[i][1] = "published" => c[g].down[i][2] \in Publishes
  BY DEF ConnShape
<1>3. \A i \in 1 .. Len(d[g].up) : d[g].up[i][1] = "publish" => d[g].up[i][2] \in Publishes
  BY <1>1, <1>2 DEF Quiet
<1>4. \A i \in 1 .. Len(d[g].down) :
           d[g].down[i][1] = "published" => d[g].down[i][2] \in Publishes
  BY <1>1, <1>2 DEF Quiet
<1> QED BY <1>1, <1>3, <1>4 DEF Quiet

LEMMA HonestQuiet ==
  ASSUME NEW p, NEW y, NEW L, NEW c, NEW d, QuietConn(c, d), Honest(p, y, L, c)
  PROVE  Honest(p, y, L, d)
<1>1. ASSUME NEW g \in CarrierBindings, NEW i \in 1 .. Len(d[g].up), Asks(d, g, i, p)
      PROVE  /\ y.outcome \in {"dispatched", "unknown"} /\ y.gen = g /\ ~In(p, L)
             /\ \A j \in 1 .. Len(d[g].up) : Asks(d, g, j, p) => i = j
             /\ \A j \in 1 .. Len(d[g].down) : ~Tells(d, g, j, p)
  <2>1. PICK e \in {0, 1} : \A k \in 1 .. Len(d[g].up) :
          d[g].up[k][1] = "publish" => k + e \in 1 .. Len(c[g].up) /\ d[g].up[k] = c[g].up[k + e]
    BY DEF QuietConn, Quiet
  <2>2. PICK f \in {0, 1} : \A k \in 1 .. Len(d[g].down) :
          d[g].down[k][1] = "published" => /\ k + f \in 1 .. Len(c[g].down)
                                           /\ d[g].down[k] = c[g].down[k + f]
    BY DEF QuietConn, Quiet
  <2>3. i + e \in 1 .. Len(c[g].up) /\ Asks(c, g, i + e, p)
    BY <1>1, <2>1 DEF Asks
  <2>4. /\ y.outcome \in {"dispatched", "unknown"} /\ y.gen = g /\ ~In(p, L)
        /\ \A j \in 1 .. Len(c[g].up) : Asks(c, g, j, p) => i + e = j
        /\ \A j \in 1 .. Len(c[g].down) : ~Tells(c, g, j, p)
    BY <2>3 DEF Honest, RequestHonest
  <2>5. ASSUME NEW j \in 1 .. Len(d[g].up), Asks(d, g, j, p) PROVE i = j
    <3>1. j + e \in 1 .. Len(c[g].up) /\ Asks(c, g, j + e, p)
      BY <2>5, <2>1 DEF Asks
    <3>2. i + e = j + e
      BY <3>1, <2>4
    <3> QED BY <3>2
  <2>6. ASSUME NEW j \in 1 .. Len(d[g].down) PROVE ~Tells(d, g, j, p)
    BY <2>2, <2>4 DEF Tells
  <2> QED BY <2>4, <2>5, <2>6
<1>2. ASSUME NEW g \in CarrierBindings, NEW i \in 1 .. Len(d[g].down), Tells(d, g, i, p)
      PROVE  /\ y.outcome \in {"dispatched", "unknown"} /\ y.gen = g
             /\ \/ d[g].down[i][3] = TRUE /\ In(p, L)
                \/ d[g].down[i][3] = FALSE /\ ~In(p, L)
             /\ \A j \in 1 .. Len(d[g].down) : Tells(d, g, j, p) => i = j
  <2>1. PICK f \in {0, 1} : \A k \in 1 .. Len(d[g].down) :
          d[g].down[k][1] = "published" => /\ k + f \in 1 .. Len(c[g].down)
                                           /\ d[g].down[k] = c[g].down[k + f]
    BY DEF QuietConn, Quiet
  <2>2. /\ i + f \in 1 .. Len(c[g].down) /\ Tells(c, g, i + f, p)
        /\ d[g].down[i] = c[g].down[i + f]
    BY <1>2, <2>1 DEF Tells
  <2>3. /\ y.outcome \in {"dispatched", "unknown"} /\ y.gen = g
        /\ \/ c[g].down[i + f][3] = TRUE /\ In(p, L)
           \/ c[g].down[i + f][3] = FALSE /\ ~In(p, L)
        /\ \A j \in 1 .. Len(c[g].down) : Tells(c, g, j, p) => i + f = j
    BY <2>2 DEF Honest, AnswerHonest
  <2>4. ASSUME NEW j \in 1 .. Len(d[g].down), Tells(d, g, j, p) PROVE i = j
    <3>1. j + f \in 1 .. Len(c[g].down) /\ Tells(c, g, j + f, p)
      BY <2>4, <2>1 DEF Tells
    <3>2. i + f = j + f
      BY <3>1, <2>3
    <3> QED BY <3>2
  <2> QED BY <2>2, <2>3, <2>4
<1>3. RequestHonest(p, y, L, d)
  BY <1>1 DEF RequestHonest
<1>4. AnswerHonest(p, y, L, d)
  BY <1>2 DEF AnswerHonest
<1> QED BY <1>3, <1>4 DEF Honest

\* The loss of a binding makes an outcome unknown, which is always honest.
LEMMA HonestUnknown ==
  ASSUME NEW p, NEW y \in PublishRecords, NEW L, NEW c, NEW g, Honest(p, y, L, c)
  PROVE  /\ Honest(p, Unknown(y, g), L, c)
         /\ Unknown(y, g) \in PublishRecords
<1>1. /\ Unknown(y, g) \in PublishRecords
      /\ Unknown(y, g).gen = y.gen
      /\ \/ Unknown(y, g).outcome = y.outcome
         \/ y.outcome = "dispatched" /\ Unknown(y, g).outcome = "unknown"
  BY DEF Unknown, PublishRecords, Outcomes
<1>2. OutcomeHonest(p, Unknown(y, g), L)
  BY <1>1 DEF Honest, OutcomeHonest
<1>3. RequestHonest(p, Unknown(y, g), L, c)
  BY <1>1 DEF Honest, RequestHonest
<1>4. AnswerHonest(p, Unknown(y, g), L, c)
  BY <1>1 DEF Honest, AnswerHonest
<1> QED BY <1>1, <1>2, <1>3, <1>4 DEF Honest

\* What the log holds after an event more.
LEMMA LogAppend ==
  ASSUME NEW S, NEW L \in Seq(S), NEW q \in S
  PROVE  /\ Append(L, q) \in Seq(S)
         /\ In(q, Append(L, q))
         /\ \A p : p # q => (In(p, Append(L, q)) <=> In(p, L))
         /\ \A i \in 1 .. Len(Append(L, q)) :
              \/ i \in 1 .. Len(L) /\ Append(L, q)[i] = L[i]
              \/ i = Len(L) + 1 /\ Append(L, q)[i] = q
<1>1. /\ Append(L, q) \in Seq(S) /\ Len(L) \in Nat /\ Len(Append(L, q)) = Len(L) + 1
      /\ \A i \in 1 .. Len(L) : Append(L, q)[i] = L[i]
      /\ Append(L, q)[Len(L) + 1] = q
  BY AppendProperties, LenProperties
<1>2. Len(L) + 1 \in 1 .. Len(Append(L, q))
  BY <1>1
<1>3. \A i \in 1 .. Len(L) : i \in 1 .. Len(Append(L, q))
  BY <1>1
<1>4. \A i \in 1 .. Len(Append(L, q)) : i \in 1 .. Len(L) \/ i = Len(L) + 1
  BY <1>1
<1>5. \A p : p # q => (In(p, Append(L, q)) <=> In(p, L))
  BY <1>1, <1>3, <1>4 DEF In
<1> QED BY <1>1, <1>2, <1>4, <1>5 DEF In

\* The event of another says nothing of p.
LEMMA HonestHost ==
  ASSUME NEW S, NEW L \in Seq(S), NEW q \in S, NEW p, p # q, NEW y, NEW c, Honest(p, y, L, c)
  PROVE  Honest(p, y, Append(L, q), c)
<1>1. In(p, Append(L, q)) <=> In(p, L)
  BY LogAppend
<1>2. \A i, j \in 1 .. Len(Append(L, q)) : Append(L, q)[i] = p /\ Append(L, q)[j] = p => i = j
  <2>1. \A i \in 1 .. Len(Append(L, q)) :
          Append(L, q)[i] = p => i \in 1 .. Len(L) /\ L[i] = p
    BY LogAppend
  <2> QED BY <2>1 DEF Honest, OutcomeHonest
<1> QED BY <1>1, <1>2 DEF Honest, OutcomeHonest, RequestHonest, AnswerHonest

\* The head of what comes up is a publish p: with the answer a that is sent
\* down, c becomes d, and the log L becomes M.
Serves(c, d, g, p, a, L, M) ==
  /\ g \in CarrierBindings /\ p \in Publishes /\ L \in Seq(Publishes \cup {Host})
  /\ ConnShape(c) /\ ConnShape(d)
  /\ c[g].up # <<>> /\ Head(c[g].up)[1] = "publish" /\ Head(c[g].up)[2] = p
  /\ a[1] = "published" /\ a[2] = p
  /\ \/ a[3] = TRUE /\ M = Append(L, p)
     \/ a[3] = FALSE /\ M = L
  /\ \A h \in CarrierBindings : h # g => d[h] = c[h]
  /\ d[g].up = Tail(c[g].up) /\ d[g].down = Append(c[g].down, a)

LEMMA HonestServed ==
  ASSUME NEW c, NEW d, NEW g, NEW p, NEW a, NEW L, NEW M, Serves(c, d, g, p, a, L, M),
         NEW q \in Publishes, NEW y, Honest(q, y, L, c)
  PROVE  Honest(q, y, M, d)
<1> USE DEF Serves
<1> DEFINE up == c[g].up
           dn == c[g].down
<1>1. PICK S : up \in Seq(S)
  BY DEF ConnShape, IsSeq
<1>2. PICK T : dn \in Seq(T)
  BY DEF ConnShape, IsSeq
<1>3. /\ Len(up) \in Nat /\ Len(up) > 0 /\ Head(up) = up[1] /\ Len(d[g].up) = Len(up) - 1
      /\ \A i \in 1 .. Len(d[g].up) : d[g].up[i] = up[i + 1]
  BY <1>1, HeadTailProperties, LenProperties, EmptySeq
<1>4. /\ Len(dn) \in Nat /\ Len(d[g].down) = Len(dn) + 1
      /\ \A i \in 1 .. Len(dn) : d[g].down[i] = dn[i]
      /\ d[g].down[Len(dn) + 1] = a
  <2>1. dn \in Seq(T \cup {a})
    BY <1>2, SeqMonotonic
  <2>2. d[g].down = Append(dn, a)
    OBVIOUS
  <2> HIDE DEF dn
  <2>3. /\ Len(dn) \in Nat /\ Len(Append(dn, a)) = Len(dn) + 1
        /\ \A i \in 1 .. Len(dn) : Append(dn, a)[i] = dn[i]
        /\ Append(dn, a)[Len(dn) + 1] = a
    BY <2>1, AppendProperties, LenProperties
  <2> QED BY <2>2, <2>3
<1>5. a[1] = "published" /\ a[2] = p
  OBVIOUS
<1>6. 1 \in 1 .. Len(up) /\ Asks(c, g, 1, p)
  BY <1>3 DEF Asks
<1>7. \A r : \A i \in 1 .. Len(d[g].up) :
        Asks(d, g, i, r) => i + 1 \in 1 .. Len(up) /\ Asks(c, g, i + 1, r)
  <2> TAKE r
  <2> TAKE i \in 1 .. Len(d[g].up)
  <2>1. i + 1 \in 1 .. Len(up) /\ d[g].up[i] = up[i + 1]
    BY <1>3
  <2> QED BY <2>1 DEF Asks
<1>8. \A r, h : \A i : h \in CarrierBindings /\ h # g =>
        /\ Asks(d, h, i, r) = Asks(c, h, i, r) /\ Tells(d, h, i, r) = Tells(c, h, i, r)
        /\ d[h] = c[h]
  BY DEF Asks, Tells
<1>9. CASE q # p
  <2>1. /\ In(q, Append(L, p)) <=> In(q, L)
        /\ Honest(q, y, Append(L, p), c)
    <3>1. p \in Publishes \cup {Host}
      OBVIOUS
    <3> QED BY <1>9, <3>1, LogAppend, HonestHost
  <2>2. Honest(q, y, M, c)
    BY <2>1
  <2>4. ASSUME NEW h \in CarrierBindings, NEW i \in 1 .. Len(d[h].up), Asks(d, h, i, q)
        PROVE  /\ y.outcome \in {"dispatched", "unknown"} /\ y.gen = h /\ ~In(q, M)
               /\ \A j \in 1 .. Len(d[h].up) : Asks(d, h, j, q) => i = j
               /\ \A j \in 1 .. Len(d[h].down) : ~Tells(d, h, j, q)
    <3>1. CASE h # g
      BY <1>8, <2>2, <2>4, <3>1 DEF Honest, RequestHonest
    <3>2. CASE h = g
      <4>1. i + 1 \in 1 .. Len(up) /\ Asks(c, g, i + 1, q)
        BY <1>7, <2>4, <3>2
      <4>2. /\ y.outcome \in {"dispatched", "unknown"} /\ y.gen = g /\ ~In(q, M)
            /\ \A j \in 1 .. Len(up) : Asks(c, g, j, q) => i + 1 = j
            /\ \A j \in 1 .. Len(dn) : ~Tells(c, g, j, q)
        BY <2>2, <4>1 DEF Honest, RequestHonest
      <4>3. ASSUME NEW j \in 1 .. Len(d[g].up), Asks(d, g, j, q) PROVE i = j
        <5>1. j + 1 \in 1 .. Len(up) /\ Asks(c, g, j + 1, q)
          BY <1>7, <4>3
        <5>2. i + 1 = j + 1
          BY <5>1, <4>2
        <5> QED BY <3>2, <5>2
      <4>4. ASSUME NEW j \in 1 .. Len(d[g].down) PROVE ~Tells(d, g, j, q)
        <5>1. CASE j \in 1 .. Len(dn)
          BY <1>4, <4>2, <5>1 DEF Tells
        <5>2. CASE j = Len(dn) + 1
          BY <1>4, <1>5, <1>9, <5>2 DEF Tells
        <5> QED BY <1>4, <5>1, <5>2
      <4> QED BY <3>2, <4>2, <4>3, <4>4
    <3> QED BY <3>1, <3>2
  <2>5. ASSUME NEW h \in CarrierBindings, NEW i \in 1 .. Len(d[h].down), Tells(d, h, i, q)
        PROVE  /\ y.outcome \in {"dispatched", "unknown"} /\ y.gen = h
               /\ \/ d[h].down[i][3] = TRUE /\ In(q, M)
                  \/ d[h].down[i][3] = FALSE /\ ~In(q, M)
               /\ \A j \in 1 .. Len(d[h].down) : Tells(d, h, j, q) => i = j
    <3>1. CASE h # g
      BY <1>8, <2>2, <2>5, <3>1 DEF Honest, AnswerHonest
    <3>2. CASE h = g
      <4>1. \A j \in 1 .. Len(d[g].down) :
              Tells(d, g, j, q) => /\ j \in 1 .. Len(dn) /\ Tells(c, g, j, q)
                                   /\ d[g].down[j] = dn[j]
        <5> TAKE j \in 1 .. Len(d[g].down)
        <5>1. CASE j \in 1 .. Len(dn)
          BY <1>4, <5>1 DEF Tells
        <5>2. CASE j = Len(dn) + 1
          BY <1>4, <1>5, <1>9, <5>2 DEF Tells
        <5> QED BY <1>4, <5>1, <5>2
      <4>2. i \in 1 .. Len(dn) /\ Tells(c, g, i, q) /\ d[g].down[i] = dn[i]
        BY <2>5, <3>2, <4>1
      <4>3. /\ y.outcome \in {"dispatched", "unknown"} /\ y.gen = g
            /\ \/ dn[i][3] = TRUE /\ In(q, M)
               \/ dn[i][3] = FALSE /\ ~In(q, M)
            /\ \A j \in 1 .. Len(dn) : Tells(c, g, j, q) => i = j
        BY <2>2, <4>2 DEF Honest, AnswerHonest
      <4>4. \A j \in 1 .. Len(d[g].down) : Tells(d, g, j, q) => i = j
        BY <4>1, <4>3
      <4>5. d[g].down[i][3] = dn[i][3]
        BY <4>2
      <4> HIDE DEF dn
      <4> QED BY <3>2, <4>3, <4>4, <4>5
    <3> QED BY <3>1, <3>2
  <2> QED BY <2>2, <2>4, <2>5 DEF Honest, RequestHonest, AnswerHonest
<1>10. CASE q = p
  <2>1. /\ y.outcome \in {"dispatched", "unknown"} /\ y.gen = g /\ ~In(p, L)
        /\ \A j \in 1 .. Len(up) : Asks(c, g, j, p) => 1 = j
        /\ \A j \in 1 .. Len(dn) : ~Tells(c, g, j, p)
    BY <1>6, <1>10 DEF Honest, RequestHonest
  <2>2. /\ \A h \in CarrierBindings : \A i \in 1 .. Len(c[h].up) : Asks(c, h, i, p) => h = g
        /\ \A h \in CarrierBindings : \A i \in 1 .. Len(c[h].down) : Tells(c, h, i, p) => h = g
    BY <1>10, <2>1 DEF Honest, RequestHonest, AnswerHonest
  <2>3. (a[3] = TRUE /\ In(p, M)) \/ (a[3] = FALSE /\ ~In(p, M))
    <3>1. In(p, Append(L, p))
      BY LogAppend
    <3> QED BY <2>1, <3>1
  <2>4. \A i, j \in 1 .. Len(M) : M[i] = p /\ M[j] = p => i = j
    <3>1. CASE M = L
      BY <2>1, <3>1 DEF In
    <3>2. CASE M = Append(L, p)
      <4>1. \A i \in 1 .. Len(M) : M[i] = p => i = Len(L) + 1
        BY <2>1, <3>2, LogAppend DEF In
      <4> QED BY <4>1
    <3> QED BY <3>1, <3>2
  <2>5. \A h \in CarrierBindings : \A i \in 1 .. Len(d[h].up) : ~Asks(d, h, i, p)
    <3> SUFFICES ASSUME NEW h \in CarrierBindings, NEW i \in 1 .. Len(d[h].up), Asks(d, h, i, p)
        PROVE FALSE
      OBVIOUS
    <3>1. CASE h # g
      BY <2>2, <3>1 DEF Asks
    <3>2. CASE h = g
      <4>1. i + 1 \in 1 .. Len(up) /\ Asks(c, g, i + 1, p)
        BY <1>7, <3>2
      <4>2. 1 = i + 1
        BY <2>1, <4>1
      <4>3. i \in Int /\ i >= 1
        BY <1>3, <3>2
      <4> QED BY <4>2, <4>3
    <3> QED BY <3>1, <3>2
  <2>6. \A h \in CarrierBindings : \A i \in 1 .. Len(d[h].down) :
          Tells(d, h, i, p) => h = g /\ i = Len(dn) + 1
    <3> SUFFICES ASSUME NEW h \in CarrierBindings, NEW i \in 1 .. Len(d[h].down), Tells(d, h, i, p)
        PROVE h = g /\ i = Len(dn) + 1
      OBVIOUS
    <3>1. h = g
      <4>1. CASE h # g
        BY <1>8, <2>2, <4>1
      <4> QED BY <4>1
    <3>2. i \notin 1 .. Len(dn)
      BY <1>4, <2>1, <3>1 DEF Tells
    <3> QED BY <1>4, <3>1, <3>2
  <2>7. d[g].down[Len(dn) + 1][3] = a[3]
    BY <1>4, <1>5
  <2>8. OutcomeHonest(q, y, M)
    BY <1>10, <2>1, <2>4 DEF OutcomeHonest
  <2>9. RequestHonest(q, y, M, d)
    BY <1>10, <2>5 DEF RequestHonest
  <2>10. AnswerHonest(q, y, M, d)
    BY <1>10, <2>1, <2>3, <2>6, <2>7 DEF AnswerHonest
  <2> QED BY <2>8, <2>9, <2>10 DEF Honest
<1> QED BY <1>9, <1>10

----------------------------------------------------------------------------
(* The steps.                                                              *)
\* SetToSeq gives a sequence of members of the set.
LEMMA SequenceOfSet ==
  ASSUME NEW S, IsFiniteSet(S)
  PROVE  SetToSeq(S) \in Seq(S)
<1>1. Cardinality(S) \in Nat /\ ExistsBijection(1 .. Cardinality(S), S)
  BY FS_CardinalityType
<1>2. PICK f : f \in Bijection(1 .. Cardinality(S), S)
  BY <1>1 DEF ExistsBijection
<1>3. f \in [1 .. Cardinality(S) -> S] /\ IsInjective(f)
  BY <1>2 DEF Bijection, Injection
<1> DEFINE n == Cardinality(S)
           F == [1 .. n -> S]
<1>4. SetToSeq(S) \in F
  <2>1. \E h \in F : IsInjective(h)
    BY <1>3
  <2>2. SetToSeq(S) = CHOOSE h \in F : IsInjective(h)
    BY DEF SetToSeq
  <2> HIDE DEF F
  <2> QED BY <2>1, <2>2, Zenon
<1> HIDE DEF n
<1>5. \A h \in [1 .. n -> S] : h \in Seq(S)
  BY <1>1 DEF n
<1> QED BY <1>4, <1>5

\* A server sends terminals only, when subscriptions end.
LEMMA TerminalsElements ==
  ASSUME NEW S \in SUBSET Subscriptions, NEW g
  PROVE  TerminalsOf(S, g) \in Seq({<<"terminal", s>> : s \in Subscriptions})
<1> DEFINE X == {t \in S : sub[t].gen = g}
           T == {<<"terminal", s>> : s \in X}
           A == {<<"terminal", s>> : s \in Subscriptions}
<1>1. MaxSubscriptions \in Nat
  BY SessionEventsAssumption
<1>2. IsFiniteSet(Subscriptions)
  BY <1>1, FS_Interval DEF Subscriptions
<1>3. IsFiniteSet(X)
  <2>1. X \subseteq Subscriptions
    OBVIOUS
  <2> QED BY <1>2, <2>1, FS_Subset
<1>4. IsFiniteSet(T)
  <2> DEFINE f == [s \in X |-> <<"terminal", s>>]
  <2>1. f \in Surjection(X, T)
    BY DEF Surjection
  <2> HIDE DEF f, T, X
  <2> QED BY <1>3, <2>1, FS_Surjection
<1>5. T \subseteq A
  OBVIOUS
<1>6. TerminalsOf(S, g) = SetToSeq(T)
  BY DEF TerminalsOf
<1> HIDE DEF T, A, X
<1>7. SetToSeq(T) \in Seq(T)
  BY <1>4, SequenceOfSet
<1>8. SetToSeq(T) \in Seq(A)
  BY <1>5, <1>7, SeqMonotonic
<1> QED BY <1>6, <1>8 DEF A

\* A step of one carrier.
LEMMA OneCarrierQuiet ==
  ASSUME NEW c, NEW d, NEW g, ConnShape(c), DOMAIN d = DOMAIN c,
         \A h \in CarrierBindings : h # g => d[h] = c[h],
         g \in CarrierBindings => /\ CarrierFields \subseteq DOMAIN d[g]
                                  /\ Quiet(c[g].up, d[g].up, "publish")
                                  /\ Quiet(c[g].down, d[g].down, "published")
  PROVE  QuietConn(c, d)
<1>1. DOMAIN d = CarrierBindings
  BY DEF ConnShape
<1> SUFFICES ASSUME NEW h \in CarrierBindings
             PROVE  /\ CarrierFields \subseteq DOMAIN d[h]
                    /\ Quiet(c[h].up, d[h].up, "publish")
                    /\ Quiet(c[h].down, d[h].down, "published")
  BY <1>1 DEF QuietConn
<1>2. CASE h = g
  BY <1>2
<1>3. CASE h # g
  <2>1. /\ CarrierFields \subseteq DOMAIN c[h]
        /\ Quiet(c[h].up, c[h].up, "publish") /\ Quiet(c[h].down, c[h].down, "published")
    BY QuietSame DEF ConnShape
  <2> QED BY <1>3, <2>1
<1> QED BY <1>2, <1>3

LEMMA SameQuiet ==
  ASSUME NEW c, ConnShape(c)
  PROVE  QuietConn(c, c)
BY QuietSame DEF ConnShape, QuietConn

\* Telling the other end of subscriptions that they ended.
LEMMA ToldQuiet ==
  ASSUME NEW S \in SUBSET Subscriptions, ConnShape(conn)
  PROVE  /\ QuietConn(conn, Told(S))
         /\ \A g \in CarrierBindings : Told(S)[g].up = conn[g].up
<1> DEFINE A == {<<"terminal", s>> : s \in Subscriptions}
<1>1. \A m \in A : m[1] # "published"
  OBVIOUS
<1>2. \A g : TerminalsOf(S, g) \in Seq(A)
  BY TerminalsElements
<1> HIDE DEF A
<1> SUFFICES ASSUME NEW g \in CarrierBindings
             PROVE  /\ CarrierFields \subseteq DOMAIN Told(S)[g]
                    /\ Quiet(conn[g].up, Told(S)[g].up, "publish")
                    /\ Quiet(conn[g].down, Told(S)[g].down, "published")
                    /\ Told(S)[g].up = conn[g].up
  BY DEF QuietConn, Told
<1>3. CarrierFields \subseteq DOMAIN conn[g] /\ IsSeq(conn[g].up) /\ IsSeq(conn[g].down)
  BY DEF ConnShape
<1>4. /\ Quiet(conn[g].up, conn[g].up, "publish") /\ Quiet(conn[g].down, conn[g].down, "published")
  BY <1>3, QuietSame
<1>5. Quiet(conn[g].down, conn[g].down \o TerminalsOf(S, g), "published")
  BY <1>1, <1>2, <1>3, QuietConcat
<1>6. Told(S)[g] = IF conn[g].serving
                   THEN [conn[g] EXCEPT !.down = conn[g].down \o TerminalsOf(S, g)] ELSE conn[g]
  BY DEF Told
<1>7. CASE conn[g].serving
  <2>1. /\ DOMAIN Told(S)[g] = DOMAIN conn[g] /\ Told(S)[g].up = conn[g].up
        /\ Told(S)[g].down = conn[g].down \o TerminalsOf(S, g)
    BY <1>3, <1>6, <1>7 DEF CarrierFields
  <2> QED BY <1>3, <1>4, <1>5, <2>1
<1>8. CASE ~conn[g].serving
  BY <1>3, <1>4, <1>6, <1>8
<1> QED BY <1>7, <1>8

----------------------------------------------------------------------------
\* A step that says nothing of a publish, except that a binding may be lost.
LEMMA QuietStep ==
  ASSUME HonestInv, QuietConn(conn, conn'), client' \in [current : CarrierBindings \cup {None},
           attached : 0 .. MaxBindings, terminal : BOOLEAN],
         hub' \in [terminal : BOOLEAN, log : Seq(Publishes \cup {Host})],
         hub'.log = hub.log \/ hub'.log = Append(hub.log, Host),
         pub' = pub \/ \E g : pub' = LostPubs(g)
  PROVE  HonestInv'
<1>1. /\ ConnShape(conn) /\ hub.log \in Seq(Publishes \cup {Host})
      /\ pub \in [Publishes -> PublishRecords]
      /\ \A p \in Publishes : Honest(p, pub[p], hub.log, conn)
  BY DEF HonestInv, Shape
<1>2. ConnShape(conn')
  BY <1>1, QuietShape
<1>3. /\ pub' \in [Publishes -> PublishRecords]
      /\ \A p \in Publishes : Honest(p, pub'[p], hub.log, conn)
  <2>1. CASE pub' = pub
    BY <1>1, <2>1
  <2>2. ASSUME NEW g, pub' = LostPubs(g) PROVE <1>3!1 /\ <1>3!2
    <3>1. \A p \in Publishes : /\ Honest(p, Unknown(pub[p], g), hub.log, conn)
                               /\ Unknown(pub[p], g) \in PublishRecords
      BY <1>1, HonestUnknown
    <3> QED BY <2>2, <3>1 DEF LostPubs
  <2> QED BY <2>1, <2>2
<1>4. \A p \in Publishes : Honest(p, pub'[p], hub'.log, conn)
  <2> TAKE p \in Publishes
  <2>1. CASE hub'.log = hub.log
    BY <1>3, <2>1
  <2>2. CASE hub'.log = Append(hub.log, Host)
    <3>1. p # Host
      BY DEF Publishes, Host
    <3>2. Honest(p, pub'[p], Append(hub.log, Host), conn)
      BY <1>1, <1>3, <3>1, HonestHost
    <3> QED BY <2>2, <3>2
  <2> QED BY <2>1, <2>2
<1>5. \A p \in Publishes : Honest(p, pub'[p], hub'.log, conn')
  BY <1>4, HonestQuiet
<1>6. ConnShape(conn)'
  BY <1>2 DEF ConnShape
<1>7. Shape'
  BY <1>3, <1>6 DEF Shape
<1>8. \A p \in Publishes : Honest(p, pub[p], hub.log, conn)'
  BY <1>5
<1> QED BY <1>7, <1>8 DEF HonestInv

Clients == [current : CarrierBindings \cup {None}, attached : 0 .. MaxBindings, terminal : BOOLEAN]

\* What a quiet step may do to one carrier.
QuietUp(s, t) ==
  \/ t = s \/ t = <<>> \/ (s # <<>> /\ t = Tail(s))
  \/ \E m : m[1] # "publish" /\ t = Append(s, m)
QuietDown(s, t) ==
  t = s \/ (s # <<>> /\ t = Tail(s)) \/ \E m : m[1] # "published" /\ t = Append(s, m)

\* A step of one carrier that says nothing of a publish.
LEMMA CarrierStep ==
  ASSUME ConnShape(conn), NEW g, NEW r, conn' = [conn EXCEPT ![g] = r],
         g \in CarrierBindings => /\ DOMAIN r = DOMAIN conn[g]
                                  /\ QuietUp(conn[g].up, r.up) /\ QuietDown(conn[g].down, r.down)
  PROVE  QuietConn(conn, conn')
<1>1. /\ DOMAIN conn' = DOMAIN conn
      /\ \A h \in CarrierBindings : h # g => conn'[h] = conn[h]
      /\ g \in CarrierBindings => conn'[g] = r
  BY DEF ConnShape
<1>2. ASSUME g \in CarrierBindings
      PROVE  /\ CarrierFields \subseteq DOMAIN r
             /\ Quiet(conn[g].up, r.up, "publish") /\ Quiet(conn[g].down, r.down, "published")
  <2>1. CarrierFields \subseteq DOMAIN conn[g] /\ IsSeq(conn[g].up) /\ IsSeq(conn[g].down)
    BY <1>2 DEF ConnShape
  <2>2. Quiet(conn[g].up, r.up, "publish")
    BY <1>2, <2>1, QuietSame, QuietEmpty, QuietTail, QuietAppend DEF QuietUp
  <2>3. Quiet(conn[g].down, r.down, "published")
    BY <1>2, <2>1, QuietSame, QuietTail, QuietAppend DEF QuietDown
  <2> QED BY <1>2, <2>1, <2>2, <2>3
<1> QED BY <1>1, <1>2, OneCarrierQuiet

\* The client that loses its binding is a client.
LEMMA LostClient ==
  ASSUME NEW g, Shape
  PROVE  Unbound(g) \in Clients
BY DEF Unbound, Shape, Clients

\* The steps of the Hub, and those of a carrier's server but for a publish.
LEMMA HubSteps ==
  ASSUME HonestInv,
         \/ HostPublishes \/ HubEnds \/ \E s \in Subscriptions : HubDelivers(s)
         \/ \E g \in CarrierBindings :
              ServeSubscribe(g) \/ Reveal(g) \/ ServeUnsubscribe(g) \/ ServerStops(g)
  PROVE  HonestInv'
<1>1. /\ ConnShape(conn) /\ client \in Clients
      /\ hub \in [terminal : BOOLEAN, log : Seq(Publishes \cup {Host})]
  BY DEF HonestInv, Shape, Clients
<1>2. CASE HostPublishes
  <2>1. QuietConn(conn, Told(Overflown(NextEvent)))
    <3>1. Overflown(NextEvent) \in SUBSET Subscriptions
      BY DEF Overflown, Installed
    <3> QED BY <1>1, <3>1, ToldQuiet
  <2>2. Append(hub.log, Host) \in Seq(Publishes \cup {Host})
    BY <1>1
  <2>3. /\ hub' \in [terminal : BOOLEAN, log : Seq(Publishes \cup {Host})]
        /\ hub'.log = Append(hub.log, Host)
    BY <1>1, <1>2, <2>2 DEF HostPublishes
  <2> QED BY <1>1, <1>2, <2>1, <2>3, QuietStep DEF HostPublishes, Clients
<1>3. CASE HubEnds
  <2>1. QuietConn(conn, conn')
    BY <1>1, <1>3, ToldQuiet DEF HubEnds, Installed
  <2>2. /\ hub' \in [terminal : BOOLEAN, log : Seq(Publishes \cup {Host})]
        /\ hub'.log = hub.log
    BY <1>1, <1>3 DEF HubEnds
  <2> QED BY <1>1, <1>3, <2>1, <2>2, QuietStep DEF HubEnds, Clients
<1>4. ASSUME QuietConn(conn, conn'), UNCHANGED <<client, hub, pub>>
      PROVE  HonestInv'
  BY <1>1, <1>4, QuietStep DEF Clients
<1>5. ASSUME NEW s \in Subscriptions, HubDelivers(s)
      PROVE  HonestInv'
  <2> DEFINE g == sub[s].gen
             m == <<"event", s, Head(sub[s].hubQueue)>>
             r == [conn[g] EXCEPT !.down = Append(conn[g].down, m)]
  <2>1. m[1] # "published"
    OBVIOUS
  <2> HIDE DEF m, g
  <2>2. conn' = [conn EXCEPT ![g] = r]
    BY <1>5 DEF HubDelivers, m, g
  <2>3. g \in CarrierBindings =>
          /\ DOMAIN r = DOMAIN conn[g] /\ r.up = conn[g].up /\ r.down = Append(conn[g].down, m)
    BY <1>1 DEF ConnShape, CarrierFields
  <2> HIDE DEF r
  <2>4. QuietConn(conn, conn')
    BY <1>1, <2>1, <2>2, <2>3, CarrierStep DEF QuietUp, QuietDown
  <2> QED BY <1>4, <1>5, <2>4 DEF HubDelivers
<1>6. ASSUME NEW g \in CarrierBindings, NEW r, conn' = [conn EXCEPT ![g] = r],
             UNCHANGED <<client, hub, pub>>, DOMAIN r = DOMAIN conn[g],
             QuietUp(conn[g].up, r.up), QuietDown(conn[g].down, r.down)
      PROVE  HonestInv'
  <2>1. QuietConn(conn, conn')
    BY <1>1, <1>6, CarrierStep
  <2> QED BY <1>4, <1>6, <2>1
<1>7. ASSUME NEW g \in CarrierBindings, ServeSubscribe(g)
      PROVE  HonestInv'
  <2>1. CarrierFields \subseteq DOMAIN conn[g]
    BY <1>1 DEF ConnShape
  <2> DEFINE s == Head(conn[g].up)[2]
             m == <<"subscribed", s, FALSE>>
             r == [conn[g] EXCEPT !.up = Tail(conn[g].up), !.down = Append(conn[g].down, m)]
             w == [conn[g] EXCEPT !.up = Tail(conn[g].up), !.installing = s]
  <2>2. m[1] # "published"
    OBVIOUS
  <2>3. conn[g].up # <<>> /\ UNCHANGED <<client, hub, pub>>
    BY <1>7 DEF ServeSubscribe, Request
  <2> HIDE DEF m, s
  <2>4. /\ DOMAIN r = DOMAIN conn[g] /\ r.up = Tail(conn[g].up) /\ r.down = Append(conn[g].down, m)
        /\ DOMAIN w = DOMAIN conn[g] /\ w.up = Tail(conn[g].up) /\ w.down = conn[g].down
    BY <2>1 DEF CarrierFields
  <2>5. conn' = [conn EXCEPT ![g] = r] \/ conn' = [conn EXCEPT ![g] = w]
    BY <1>7, <2>1 DEF ServeSubscribe, Answer, Taken, m, s, CarrierFields
  <2> HIDE DEF r, w
  <2> QED BY <1>6, <2>2, <2>3, <2>4, <2>5 DEF QuietUp, QuietDown
<1>8. ASSUME NEW g \in CarrierBindings, Reveal(g)
      PROVE  HonestInv'
  <2>1. CarrierFields \subseteq DOMAIN conn[g]
    BY <1>1 DEF ConnShape
  <2> DEFINE m == <<"subscribed", conn[g].installing, sub[conn[g].installing].hub = "hidden">>
             r == [conn[g] EXCEPT !.installing = None, !.down = Append(conn[g].down, m)]
  <2>2. m[1] # "published"
    OBVIOUS
  <2> HIDE DEF m
  <2>3. /\ DOMAIN r = DOMAIN conn[g] /\ r.up = conn[g].up /\ r.down = Append(conn[g].down, m)
    BY <2>1 DEF CarrierFields
  <2>4. conn' = [conn EXCEPT ![g] = r] /\ UNCHANGED <<client, hub, pub>>
    BY <1>8, <2>1 DEF Reveal, Answer, m, CarrierFields
  <2> HIDE DEF r
  <2> QED BY <1>6, <2>2, <2>3, <2>4 DEF QuietUp, QuietDown
<1>9. ASSUME NEW g \in CarrierBindings, ServeUnsubscribe(g)
      PROVE  HonestInv'
  <2>1. CarrierFields \subseteq DOMAIN conn[g]
    BY <1>1 DEF ConnShape
  <2> DEFINE m == <<"unsubscribed", Head(conn[g].up)[2], TRUE>>
             r == [conn[g] EXCEPT !.up = Tail(conn[g].up), !.down = Append(conn[g].down, m)]
  <2>2. m[1] # "published"
    OBVIOUS
  <2> HIDE DEF m
  <2>3. /\ DOMAIN r = DOMAIN conn[g] /\ r.up = Tail(conn[g].up) /\ r.down = Append(conn[g].down, m)
    BY <2>1 DEF CarrierFields
  <2>4. /\ conn' = [conn EXCEPT ![g] = r] /\ UNCHANGED <<client, hub, pub>>
        /\ conn[g].up # <<>>
    BY <1>9, <2>1 DEF ServeUnsubscribe, Request, Answer, Taken, m, CarrierFields
  <2> HIDE DEF r
  <2> QED BY <1>6, <2>2, <2>3, <2>4 DEF QuietUp, QuietDown
<1>10. ASSUME NEW g \in CarrierBindings, ServerStops(g)
      PROVE  HonestInv'
  <2>1. CarrierFields \subseteq DOMAIN conn[g]
    BY <1>1 DEF ConnShape
  <2> DEFINE c == [conn EXCEPT ![g] = [conn[g] EXCEPT !.serving = FALSE]]
             d == [c EXCEPT ![g] = [c[g] EXCEPT !.installing = None]]
  <2>2. /\ DOMAIN c = CarrierBindings /\ \A h \in CarrierBindings : h # g => c[h] = conn[h]
        /\ DOMAIN c[g] = DOMAIN conn[g] /\ c[g].up = conn[g].up /\ c[g].down = conn[g].down
    BY <1>1, <2>1 DEF CarrierFields, ConnShape
  <2>3. conn' = [d EXCEPT ![g] = [d[g] EXCEPT !.up = <<>>]] /\ UNCHANGED <<client, hub, pub>>
    BY <1>10 DEF ServerStops
  <2> HIDE DEF c
  <2>4. /\ DOMAIN d = CarrierBindings /\ \A h \in CarrierBindings : h # g => d[h] = conn[h]
        /\ DOMAIN d[g] = DOMAIN conn[g] /\ d[g].up = conn[g].up /\ d[g].down = conn[g].down
    BY <2>1, <2>2 DEF CarrierFields
  <2> HIDE DEF d
  <2>5. /\ DOMAIN conn' = CarrierBindings /\ \A h \in CarrierBindings : h # g => conn'[h] = conn[h]
        /\ DOMAIN conn'[g] = DOMAIN conn[g] /\ conn'[g].up = <<>> /\ conn'[g].down = conn[g].down
    BY <2>1, <2>3, <2>4 DEF CarrierFields
  <2>6. Quiet(conn[g].up, conn'[g].up, "publish") /\ Quiet(conn[g].down, conn'[g].down, "published")
    BY <1>1, <2>5, QuietEmpty, QuietSame DEF ConnShape
  <2>7. QuietConn(conn, conn')
    BY <1>1, <2>1, <2>5, <2>6, OneCarrierQuiet DEF ConnShape
  <2> QED BY <1>4, <2>3, <2>7
<1> QED BY <1>2, <1>3, <1>5, <1>7, <1>8, <1>9, <1>10

\* A step of the client's end: at most a binding is lost, one carrier is
\* written or read, and no publish is spoken of.
LEMMA ClientStep ==
  ASSUME HonestInv, client' \in Clients, hub' = hub,
         pub' = pub \/ \E g : pub' = LostPubs(g),
         \/ conn' = conn
         \/ \E g, r : /\ conn' = [conn EXCEPT ![g] = r]
                      /\ g \in CarrierBindings => /\ DOMAIN r = DOMAIN conn[g]
                                                  /\ QuietUp(conn[g].up, r.up)
                                                  /\ QuietDown(conn[g].down, r.down)
  PROVE  HonestInv'
<1>1. /\ ConnShape(conn)
      /\ hub \in [terminal : BOOLEAN, log : Seq(Publishes \cup {Host})]
  BY DEF HonestInv, Shape
<1>2. QuietConn(conn, conn')
  <2>1. CASE conn' = conn
    BY <1>1, <2>1, SameQuiet
  <2>2. ASSUME NEW g, NEW r, conn' = [conn EXCEPT ![g] = r],
               g \in CarrierBindings => /\ DOMAIN r = DOMAIN conn[g]
                                        /\ QuietUp(conn[g].up, r.up)
                                        /\ QuietDown(conn[g].down, r.down)
        PROVE  QuietConn(conn, conn')
    <3>1. CASE g \in CarrierBindings
      BY <1>1, <2>2, <3>1, CarrierStep
    <3>2. CASE g \notin CarrierBindings
      <4>1. /\ DOMAIN conn' = DOMAIN conn
            /\ \A h \in CarrierBindings : h # g => conn'[h] = conn[h]
        BY <1>1, <2>2 DEF ConnShape
      <4>2. QuietConn(conn, conn)
        BY <1>1, SameQuiet
      <4>3. \A h \in CarrierBindings : conn'[h] = conn[h]
        BY <3>2, <4>1
      <4> QED BY <4>1, <4>2, <4>3 DEF QuietConn
    <3> QED BY <3>1, <3>2
  <2> QED BY <2>1, <2>2
<1> QED BY <1>1, <1>2, QuietStep DEF Clients

\* What one field of a carrier's record becomes.
LEMMA SentUp ==
  ASSUME ConnShape(conn), NEW g, NEW m, m[1] # "publish"
  PROVE  LET r == [conn[g] EXCEPT !.up = Append(conn[g].up, m)]
         IN  g \in CarrierBindings => /\ DOMAIN r = DOMAIN conn[g]
                                      /\ QuietUp(conn[g].up, r.up)
                                      /\ QuietDown(conn[g].down, r.down)
<1> DEFINE r == [conn[g] EXCEPT !.up = Append(conn[g].up, m)]
<1>1. g \in CarrierBindings =>
        /\ DOMAIN r = DOMAIN conn[g] /\ r.up = Append(conn[g].up, m) /\ r.down = conn[g].down
  BY DEF ConnShape, CarrierFields
<1> HIDE DEF r
<1>2. g \in CarrierBindings => /\ DOMAIN r = DOMAIN conn[g]
                               /\ QuietUp(conn[g].up, r.up)
                               /\ QuietDown(conn[g].down, r.down)
  BY <1>1 DEF QuietUp, QuietDown
<1> QED BY <1>2 DEF r

LEMMA ReadDown ==
  ASSUME ConnShape(conn), NEW g, conn[g].down # <<>>
  PROVE  LET r == [conn[g] EXCEPT !.down = Tail(conn[g].down)]
         IN  g \in CarrierBindings => /\ DOMAIN r = DOMAIN conn[g]
                                      /\ QuietUp(conn[g].up, r.up)
                                      /\ QuietDown(conn[g].down, r.down)
<1> DEFINE r == [conn[g] EXCEPT !.down = Tail(conn[g].down)]
<1>1. g \in CarrierBindings =>
        /\ DOMAIN r = DOMAIN conn[g] /\ r.up = conn[g].up /\ r.down = Tail(conn[g].down)
  BY DEF ConnShape, CarrierFields
<1> HIDE DEF r
<1>2. g \in CarrierBindings => /\ DOMAIN r = DOMAIN conn[g]
                               /\ QuietUp(conn[g].up, r.up)
                               /\ QuietDown(conn[g].down, r.down)
  BY <1>1 DEF QuietUp, QuietDown
<1> QED BY <1>2 DEF r

\* The steps of the client and its carriers.
LEMMA ClientSteps ==
  ASSUME HonestInv,
         \/ AttachEvents \/ DetachEvents(FALSE) \/ DetachEvents(TRUE)
         \/ \E s \in Subscriptions : Subscribe(s) \/ Close(s) \/ Establish(s) \/ Deliver(s)
         \/ \E g \in CarrierBindings : CarrierLost(g) \/ ClientSeesLoss(g)
  PROVE  HonestInv'
<1>1. /\ ConnShape(conn) /\ client \in Clients /\ Shape
  BY DEF HonestInv, Shape, Clients
<1>2. MaxBindings \in Nat
  BY SessionEventsAssumption
<1>3. CASE AttachEvents
  <2> DEFINE g == client.attached + 1
             r == [conn[g] EXCEPT !.serving = TRUE]
  <2>1. g \in CarrierBindings
    BY <1>1, <1>2, <1>3 DEF AttachEvents, Clients, CarrierBindings
  <2>2. client' \in Clients
    <3>1. client' = [client EXCEPT !.current = g, !.attached = g]
      BY <1>3 DEF AttachEvents
    <3>2. g \in 0 .. MaxBindings
      BY <1>2, <2>1 DEF CarrierBindings
    <3> HIDE DEF g
    <3> QED BY <1>1, <2>1, <3>1, <3>2 DEF Clients
  <2>3. conn' = [conn EXCEPT ![g] = r] /\ UNCHANGED <<hub, pub>>
    BY <1>3 DEF AttachEvents
  <2> HIDE DEF g
  <2>4. DOMAIN r = DOMAIN conn[g] /\ r.up = conn[g].up /\ r.down = conn[g].down
    BY <1>1, <2>1 DEF ConnShape, CarrierFields
  <2> HIDE DEF r
  <2>5. QuietUp(conn[g].up, r.up) /\ QuietDown(conn[g].down, r.down)
    BY <2>4 DEF QuietUp, QuietDown
  <2> QED BY <2>2, <2>3, <2>4, <2>5, ClientStep
<1>4. ASSUME NEW g \in CarrierBindings, conn' = [conn EXCEPT ![g].cut = TRUE], client' \in Clients,
             hub' = hub, pub' = pub \/ pub' = LostPubs(g)
      PROVE  HonestInv'
  <2> DEFINE r == [conn[g] EXCEPT !.cut = TRUE]
  <2>1. DOMAIN r = DOMAIN conn[g] /\ r.up = conn[g].up /\ r.down = conn[g].down
    BY <1>1 DEF ConnShape, CarrierFields
  <2>2. conn' = [conn EXCEPT ![g] = r]
    BY <1>4
  <2> HIDE DEF r
  <2>3. QuietUp(conn[g].up, r.up) /\ QuietDown(conn[g].down, r.down)
    BY <2>1 DEF QuietUp, QuietDown
  <2> QED BY <1>4, <2>1, <2>2, <2>3, ClientStep
<1>5. ASSUME NEW ends \in BOOLEAN, DetachEvents(ends)
      PROVE  HonestInv'
  <2>1. client.current \in CarrierBindings /\ client' \in Clients
    BY <1>1, <1>5 DEF DetachEvents, Usable, Clients
  <2> QED BY <1>4, <1>5, <2>1 DEF DetachEvents
<1>6. ASSUME NEW s \in Subscriptions, Subscribe(s)
      PROVE  HonestInv'
  <2> DEFINE g == client.current
             m == <<"subscribe", s>>
             r == [conn[g] EXCEPT !.up = Append(conn[g].up, m)]
  <2>1. m[1] # "publish"
    OBVIOUS
  <2>2. UNCHANGED <<client, hub, pub>>
    BY <1>6 DEF Subscribe
  <2>3. conn' = conn \/ conn' = [conn EXCEPT ![g] = r]
    BY <1>6 DEF Subscribe
  <2> HIDE DEF g, m
  <2>4. g \in CarrierBindings => /\ DOMAIN r = DOMAIN conn[g]
                                 /\ QuietUp(conn[g].up, r.up) /\ QuietDown(conn[g].down, r.down)
    BY <1>1, <2>1, SentUp
  <2> HIDE DEF r
  <2> QED BY <1>1, <2>2, <2>3, <2>4, ClientStep
<1>7. ASSUME NEW s \in Subscriptions, Close(s)
      PROVE  HonestInv'
  <2> DEFINE g == sub[s].gen
             m == <<"unsubscribe", s>>
             r == [conn[g] EXCEPT !.up = Append(conn[g].up, m)]
  <2>1. m[1] # "publish"
    OBVIOUS
  <2>2. hub' = hub /\ (pub' = pub \/ pub' = LostPubs(g)) /\ (client' = client \/ client' = Unbound(g))
    BY <1>7 DEF Close, Unsubscribe
  <2>3. conn' = conn \/ conn' = [conn EXCEPT ![g] = r]
    BY <1>7 DEF Close, Unsubscribe
  <2> HIDE DEF g, m
  <2>4. g \in CarrierBindings => /\ DOMAIN r = DOMAIN conn[g]
                                 /\ QuietUp(conn[g].up, r.up) /\ QuietDown(conn[g].down, r.down)
    BY <1>1, <2>1, SentUp
  <2>5. client' \in Clients
    BY <1>1, <2>2, LostClient
  <2> HIDE DEF r
  <2> QED BY <2>2, <2>3, <2>4, <2>5, ClientStep
<1>8. ASSUME NEW s \in Subscriptions, Establish(s) \/ Deliver(s)
      PROVE  HonestInv'
  BY <1>1, <1>8, ClientStep DEF Establish, Deliver
<1>9. ASSUME NEW g \in CarrierBindings, CarrierLost(g)
      PROVE  HonestInv'
  BY <1>1, <1>4, <1>9 DEF CarrierLost
<1>10. ASSUME NEW g \in CarrierBindings, ClientSeesLoss(g)
      PROVE  HonestInv'
  <2>1. client' \in Clients
    BY <1>1, <1>10, LostClient DEF ClientSeesLoss, LoseBinding
  <2> QED BY <1>10, <2>1, ClientStep DEF ClientSeesLoss, LoseBinding
<1> QED BY <1>3, <1>5, <1>6, <1>7, <1>8, <1>9, <1>10

\* What the client reads, but for what became of a publish.
LEMMA ReadSteps ==
  ASSUME HonestInv, NEW g \in CarrierBindings,
         \/ ReadSubscribed(g) \/ ReadUnsubscribed(g) \/ ReadEvent(g) \/ ReadTerminal(g)
         \/ ReadOnDead(g)
  PROVE  HonestInv'
<1>1. /\ ConnShape(conn) /\ client \in Clients /\ Shape
  BY DEF HonestInv, Shape, Clients
<1> DEFINE r == [conn[g] EXCEPT !.down = Tail(conn[g].down)]
<1>2. ASSUME conn[g].down # <<>>
      PROVE  /\ DOMAIN r = DOMAIN conn[g]
             /\ QuietUp(conn[g].up, r.up) /\ QuietDown(conn[g].down, r.down)
  BY <1>1, <1>2, ReadDown
<1>3. ASSUME conn[g].down # <<>>, conn' = [conn EXCEPT ![g] = r], client' \in Clients, hub' = hub,
             pub' = pub \/ pub' = LostPubs(g)
      PROVE  HonestInv'
  <2> HIDE DEF r
  <2> QED BY <1>2, <1>3, ClientStep
<1>4. CASE ReadSubscribed(g) \/ ReadUnsubscribed(g) \/ ReadTerminal(g)
  <2>1. conn[g].down # <<>> /\ conn' = [conn EXCEPT ![g] = r] /\ UNCHANGED <<client, hub, pub>>
    BY <1>4 DEF ReadSubscribed, ReadUnsubscribed, ReadTerminal, Arrived, Drop
  <2> HIDE DEF r
  <2> QED BY <1>1, <1>3, <2>1
<1>5. CASE ReadOnDead(g)
  <2> DEFINE cut == Head(conn[g].down)[1] \notin {"event", "terminal"}
             w == [r EXCEPT !.cut = cut]
  <2>1. /\ conn[g].down # <<>> /\ conn' = [conn EXCEPT ![g] = w] /\ UNCHANGED <<client, hub, pub>>
    BY <1>1, <1>5 DEF ReadOnDead, ConnShape
  <2>2. CarrierFields \subseteq DOMAIN conn[g]
    BY <1>1 DEF ConnShape
  <2> HIDE DEF cut
  <2>3. DOMAIN w = DOMAIN conn[g] /\ w.up = r.up /\ w.down = r.down
    BY <2>2 DEF CarrierFields
  <2> HIDE DEF r, w
  <2>4. /\ DOMAIN w = DOMAIN conn[g]
        /\ QuietUp(conn[g].up, w.up) /\ QuietDown(conn[g].down, w.down)
    BY <1>2, <2>1, <2>3
  <2> QED BY <1>1, <2>1, <2>4, ClientStep
<1>6. CASE ReadEvent(g)
  <2> DEFINE s == Head(conn[g].down)[2]
             read == [conn EXCEPT ![g].down = Tail(@)]
             m == <<"unsubscribe", s>>
  <2>1. /\ conn[g].down # <<>> /\ hub' = hub
        /\ \/ conn' = read /\ pub' = LostPubs(g) /\ client' = Unbound(g)
           \/ /\ conn' = [read EXCEPT ![g].up = Append(@, m)]
              /\ UNCHANGED <<client, pub>>
           \/ conn' = read /\ UNCHANGED <<client, pub>>
    BY <1>6 DEF ReadEvent, Arrived
  <2>2. client' \in Clients /\ (pub' = pub \/ pub' = LostPubs(g))
    BY <1>1, <2>1, LostClient
  <2>3. read = [conn EXCEPT ![g] = r]
    OBVIOUS
  <2>4. CASE conn' = read
    <3> HIDE DEF r, read
    <3> QED BY <1>3, <2>1, <2>2, <2>3, <2>4
  <2>5. CASE conn' = [read EXCEPT ![g].up = Append(@, m)]
    <3> DEFINE w == [r EXCEPT !.up = Append(r.up, m)]
    <3>1. m[1] # "publish"
      OBVIOUS
    <3>2. CarrierFields \subseteq DOMAIN conn[g]
      BY <1>1 DEF ConnShape
    <3> HIDE DEF m
    <3>3. /\ DOMAIN w = DOMAIN conn[g]
          /\ w.up = Append(conn[g].up, m) /\ w.down = Tail(conn[g].down)
      BY <3>2 DEF CarrierFields
    <3>4. conn' = [conn EXCEPT ![g] = w]
      <4>1. DOMAIN conn = CarrierBindings
        BY <1>1 DEF ConnShape
      <4>2. read[g] = r
        BY <4>1
      <4>3. conn' = [read EXCEPT ![g] = [r EXCEPT !.up = Append(r.up, m)]]
        BY <2>5, <4>2
      <4> HIDE DEF r, w
      <4> QED BY <2>3, <4>1, <4>3 DEF w
    <3> HIDE DEF w
    <3>5. QuietUp(conn[g].up, w.up) /\ QuietDown(conn[g].down, w.down)
      BY <2>1, <3>1, <3>3 DEF QuietUp, QuietDown
    <3> QED BY <2>1, <2>2, <3>3, <3>4, <3>5, ClientStep
  <2> QED BY <2>1, <2>4, <2>5
<1> QED BY <1>4, <1>5, <1>6
----------------------------------------------------------------------------
\* A message at the end of a channel.
LEMMA Longer ==
  ASSUME NEW s, IsSeq(s), NEW m
  PROVE  /\ IsSeq(Append(s, m))
         /\ \A i \in 1 .. Len(Append(s, m)) :
              \/ i \in 1 .. Len(s) /\ Append(s, m)[i] = s[i]
              \/ i = Len(s) + 1 /\ Append(s, m)[i] = m
         /\ \A i \in 1 .. Len(s) : i # Len(s) + 1
<1>1. PICK S : s \in Seq(S)
  BY DEF IsSeq
<1>2. s \in Seq(S \cup {m})
  BY <1>1, SeqMonotonic
<1>3. /\ Append(s, m) \in Seq(S \cup {m}) /\ Len(s) \in Nat
      /\ Len(Append(s, m)) = Len(s) + 1
      /\ \A i \in 1 .. Len(s) : Append(s, m)[i] = s[i]
      /\ Append(s, m)[Len(s) + 1] = m
  BY <1>2, AppendProperties, LenProperties
<1> QED BY <1>3 DEF IsSeq

\* Serving a publish keeps the shape of the carriers.
LEMMA ServedShape ==
  ASSUME NEW c, NEW d, NEW g \in CarrierBindings, NEW a, a[2] \in Publishes,
         ConnShape(c), c[g].up # <<>>, DOMAIN d = DOMAIN c, DOMAIN d[g] = DOMAIN c[g],
         \A h \in CarrierBindings : h # g => d[h] = c[h],
         d[g].up = Tail(c[g].up), d[g].down = Append(c[g].down, a)
  PROVE  ConnShape(d)
<1> DEFINE dn == c[g].down
<1>1. d[g].down = Append(dn, a)
  OBVIOUS
<1>2. CarrierFields \subseteq DOMAIN d[g] /\ IsSeq(c[g].up) /\ IsSeq(dn)
  BY DEF ConnShape
<1>3. Quiet(c[g].up, d[g].up, "publish")
  BY <1>2, QuietTail
<1>4. \A i \in 1 .. Len(d[g].up) : d[g].up[i][1] = "publish" => d[g].up[i][2] \in Publishes
  <2>1. \A i \in 1 .. Len(c[g].up) : c[g].up[i][1] = "publish" => c[g].up[i][2] \in Publishes
    BY DEF ConnShape
  <2> QED BY <1>3, <2>1 DEF Quiet
<1>5. \A i \in 1 .. Len(dn) : dn[i][1] = "published" => dn[i][2] \in Publishes
  BY DEF ConnShape
<1> HIDE DEF dn
<1>6. /\ IsSeq(d[g].down)
      /\ \A i \in 1 .. Len(d[g].down) :
           d[g].down[i][1] = "published" => d[g].down[i][2] \in Publishes
  <2>1. /\ IsSeq(Append(dn, a))
        /\ \A i \in 1 .. Len(Append(dn, a)) :
             \/ i \in 1 .. Len(dn) /\ Append(dn, a)[i] = dn[i]
             \/ Append(dn, a)[i] = a
    BY <1>2, Longer
  <2> QED BY <1>1, <1>5, <2>1
<1>7. IsSeq(d[g].up)
  BY <1>3 DEF Quiet
<1> SUFFICES ASSUME NEW h \in CarrierBindings
    PROVE  /\ CarrierFields \subseteq DOMAIN d[h]
           /\ IsSeq(d[h].up) /\ IsSeq(d[h].down)
           /\ \A i \in 1 .. Len(d[h].up) : d[h].up[i][1] = "publish" => d[h].up[i][2] \in Publishes
           /\ \A i \in 1 .. Len(d[h].down) :
                d[h].down[i][1] = "published" => d[h].down[i][2] \in Publishes
  BY DEF ConnShape
<1>8. CASE h = g
  BY <1>2, <1>4, <1>6, <1>7, <1>8
<1>9. CASE h # g
  BY <1>9 DEF ConnShape
<1> QED BY <1>8, <1>9

\* The Hub routes a publish, or refuses it: its request becomes its answer.
LEMMA ServePublishStep ==
  ASSUME HonestInv, NEW g \in CarrierBindings, ServePublish(g)
  PROVE  HonestInv'
<1> DEFINE L == hub.log
           p == Head(conn[g].up)[2]
<1>1. /\ ConnShape(conn) /\ Shape /\ L \in Seq(Publishes \cup {Host})
      /\ hub \in [terminal : BOOLEAN, log : Seq(Publishes \cup {Host})]
      /\ \A q \in Publishes : Honest(q, pub[q], L, conn)
  BY DEF HonestInv, Shape
<1>2. /\ conn[g].up # <<>> /\ Head(conn[g].up)[1] = "publish"
      /\ UNCHANGED <<client, pub>>
  BY DEF ServePublish, Request
<1>3. p \in Publishes
  <2>1. IsSeq(conn[g].up)
    BY <1>1 DEF ConnShape
  <2>2. PICK S : conn[g].up \in Seq(S)
    BY <2>1 DEF IsSeq
  <2>3. 1 \in 1 .. Len(conn[g].up) /\ Head(conn[g].up) = conn[g].up[1]
    BY <1>2, <2>2, HeadTailProperties, LenProperties, EmptySeq
  <2> QED BY <1>1, <1>2, <2>3 DEF ConnShape
<1>4. ASSUME NEW c, NEW M \in Seq(Publishes \cup {Host}), QuietConn(conn, c),
             NEW a, a[1] = "published", a[2] = p,
             c[g].up = conn[g].up,
             (a[3] = TRUE /\ M = Append(L, p)) \/ (a[3] = FALSE /\ M = L),
             conn' = [c EXCEPT ![g] = [c[g] EXCEPT !.up = Tail(c[g].up), !.down = Append(c[g].down, a)]],
             hub' \in [terminal : BOOLEAN, log : Seq(Publishes \cup {Host})], hub'.log = M
      PROVE  HonestInv'
  <2>1. ConnShape(c) /\ \A q \in Publishes : Honest(q, pub[q], L, c)
    BY <1>1, <1>4, QuietShape, HonestQuiet
  <2> DEFINE d == conn'
  <2>2. /\ DOMAIN d = DOMAIN c /\ DOMAIN d[g] = DOMAIN c[g]
        /\ \A h \in CarrierBindings : h # g => d[h] = c[h]
        /\ d[g].up = Tail(c[g].up) /\ d[g].down = Append(c[g].down, a)
    <3>1. DOMAIN c = CarrierBindings /\ CarrierFields \subseteq DOMAIN c[g]
      BY <2>1 DEF ConnShape
    <3> QED BY <1>4, <3>1 DEF CarrierFields
  <2> HIDE DEF d
  <2>3. ConnShape(d)
    <3>1. c[g].up # <<>> /\ a[2] \in Publishes
      BY <1>2, <1>3, <1>4
    <3> HIDE DEF p
    <3> QED BY <2>1, <2>2, <3>1, ServedShape
  <2>4. Serves(c, d, g, p, a, L, M)
    <3>1. c[g].up # <<>> /\ Head(c[g].up)[1] = "publish" /\ Head(c[g].up)[2] = p
      BY <1>2, <1>4
    <3>2. L \in Seq(Publishes \cup {Host})
      BY <1>1
    <3> HIDE DEF p, L
    <3> QED BY <1>3, <1>4, <2>1, <2>2, <2>3, <3>1, <3>2 DEF Serves
  <2>5. \A q \in Publishes : Honest(q, pub[q], M, d)
    <3> HIDE DEF p, L
    <3> QED BY <2>1, <2>4, HonestServed
  <2>6. Shape'
    BY <1>1, <1>2, <1>4, <2>3 DEF Shape, ConnShape, d
  <2> QED BY <1>2, <1>4, <2>6, <2>5 DEF HonestInv, d
<1>5. CASE hub.terminal
  <2>1. hub' = hub /\ conn' = [conn EXCEPT ![g] = Answer(Taken(conn[g]), "published", p, FALSE)]
    BY <1>5 DEF ServePublish
  <2> DEFINE m == <<"published", p, FALSE>>
  <2>2. m[1] = "published" /\ m[2] = p /\ m[3] = FALSE
    OBVIOUS
  <2>3. conn' = [conn EXCEPT ![g] = [conn[g] EXCEPT !.up = Tail(conn[g].up),
                                                    !.down = Append(conn[g].down, m)]]
    <3>1. CarrierFields \subseteq DOMAIN conn[g]
      BY <1>1 DEF ConnShape
    <3>2. Answer(Taken(conn[g]), "published", p, FALSE) = [Taken(conn[g]) EXCEPT !.down = Append(@, m)]
      BY DEF Answer
    <3> HIDE DEF m, p
    <3>3. Answer(Taken(conn[g]), "published", p, FALSE)
            = [conn[g] EXCEPT !.up = Tail(conn[g].up), !.down = Append(conn[g].down, m)]
      BY <3>1, <3>2 DEF Taken, CarrierFields
    <3> QED BY <2>1, <3>3
  <2>4. QuietConn(conn, conn)
    BY <1>1, SameQuiet
  <2> HIDE DEF p, m
  <2> QED BY <1>1, <1>4, <2>1, <2>3, <2>4, <2>2
<1>6. CASE ~hub.terminal
  <2> DEFINE c == Told(Overflown(NextEvent))
             m == <<"published", p, TRUE>>
  <2>1. /\ conn' = [c EXCEPT ![g] = Answer(Taken(c[g]), "published", p, TRUE)]
        /\ hub' = [hub EXCEPT !.log = Append(@, p)]
    BY <1>6 DEF ServePublish
  <2>2. QuietConn(conn, c) /\ c[g].up = conn[g].up
    <3>1. Overflown(NextEvent) \in SUBSET Subscriptions
      BY DEF Overflown, Installed
    <3> QED BY <1>1, <3>1, ToldQuiet
  <2>3. ConnShape(c)
    BY <1>1, <2>2, QuietShape
  <2> HIDE DEF c
  <2>4. CarrierFields \subseteq DOMAIN c[g]
    BY <2>3 DEF ConnShape
  <2>5. conn' = [c EXCEPT ![g] = [c[g] EXCEPT !.up = Tail(c[g].up), !.down = Append(c[g].down, m)]]
    <3> HIDE DEF p
    <3>1. conn' = [c EXCEPT ![g] = [[c[g] EXCEPT !.up = Tail(c[g].up)] EXCEPT
                                      !.down = Append([c[g] EXCEPT !.up = Tail(c[g].up)].down, m)]]
      BY <2>1 DEF Answer, Taken
    <3> HIDE DEF m
    <3>2. [[c[g] EXCEPT !.up = Tail(c[g].up)] EXCEPT
             !.down = Append([c[g] EXCEPT !.up = Tail(c[g].up)].down, m)]
            = [c[g] EXCEPT !.up = Tail(c[g].up), !.down = Append(c[g].down, m)]
      BY <2>4 DEF CarrierFields
    <3> QED BY <3>1, <3>2
  <2> DEFINE M == Append(L, p)
  <2>6. M \in Seq(Publishes \cup {Host})
    <3> HIDE DEF p
    <3> QED BY <1>1, <1>3
  <2>7. hub' \in [terminal : BOOLEAN, log : Seq(Publishes \cup {Host})] /\ hub'.log = M
    <3> HIDE DEF p
    <3> QED BY <1>1, <2>1, <2>6
  <2>8. m[1] = "published" /\ m[2] = p /\ m[3] = TRUE
    OBVIOUS
  <2> HIDE DEF p, m
  <2> QED BY <1>4, <2>2, <2>5, <2>6, <2>7, <2>8
<1> QED BY <1>5, <1>6

\* A publish p is sent up carrier g for the first time.
LEMMA HonestSent ==
  ASSUME NEW c, NEW d, NEW g \in CarrierBindings, NEW p \in Publishes, NEW m,
         ConnShape(c), m[1] = "publish", m[2] = p, DOMAIN d = DOMAIN c, DOMAIN d[g] = DOMAIN c[g],
         \A h \in CarrierBindings : h # g => d[h] = c[h],
         d[g].up = Append(c[g].up, m), d[g].down = c[g].down
  PROVE  /\ ConnShape(d)
         /\ \A q, y, L : q # p /\ Honest(q, y, L, c) => Honest(q, y, L, d)
         /\ \A y, z, L : /\ Honest(p, y, L, c) /\ y.outcome = "none"
                         /\ z.outcome = "dispatched" /\ z.gen = g
                         => Honest(p, z, L, d)
<1> DEFINE up == c[g].up
<1>1. IsSeq(up) /\ d[g].up = Append(up, m)
  BY DEF ConnShape
<1>2. /\ IsSeq(d[g].up)
      /\ \A i \in 1 .. Len(d[g].up) : \/ i \in 1 .. Len(up) /\ d[g].up[i] = up[i]
                                      \/ i = Len(up) + 1 /\ d[g].up[i] = m
      /\ \A i \in 1 .. Len(up) : i # Len(up) + 1
  <2> HIDE DEF up
  <2>1. /\ IsSeq(Append(up, m))
        /\ \A i \in 1 .. Len(Append(up, m)) : \/ i \in 1 .. Len(up) /\ Append(up, m)[i] = up[i]
                                              \/ i = Len(up) + 1 /\ Append(up, m)[i] = m
        /\ \A i \in 1 .. Len(up) : i # Len(up) + 1
    BY <1>1, Longer
  <2> QED BY <1>1, <2>1
<1>3. \A h \in CarrierBindings : d[h].down = c[h].down /\ DOMAIN d[h] = DOMAIN c[h]
  OBVIOUS
<1>4. ConnShape(d)
  <2>1. ASSUME NEW h \in CarrierBindings
        PROVE  /\ IsSeq(d[h].up)
               /\ \A i \in 1 .. Len(d[h].up) : d[h].up[i][1] = "publish" => d[h].up[i][2] \in Publishes
    <3>1. CASE h = g
      <4>1. \A i \in 1 .. Len(up) : up[i][1] = "publish" => up[i][2] \in Publishes
        BY DEF ConnShape
      <4> HIDE DEF up
      <4> QED BY <1>2, <3>1, <4>1
    <3>2. CASE h # g
      BY <3>2 DEF ConnShape
    <3> QED BY <3>1, <3>2
  <2> QED BY <1>3, <2>1 DEF ConnShape
<1>5. \A h, i, r : h \in CarrierBindings => Tells(d, h, i, r) = Tells(c, h, i, r)
  BY <1>3 DEF Tells
<1>6. \A h, i, r : h \in CarrierBindings /\ h # g => Asks(d, h, i, r) = Asks(c, h, i, r)
  BY DEF Asks
<1>7. ASSUME NEW q, NEW y, NEW L, q # p, Honest(q, y, L, c)
      PROVE  Honest(q, y, L, d)
  <2>1. AnswerHonest(q, y, L, d)
    <3>1. AnswerHonest(q, y, L, c)
      BY <1>7 DEF Honest
    <3> QED BY <1>3, <1>5, <3>1 DEF AnswerHonest
  <2>2. \A h \in CarrierBindings : \A i \in 1 .. Len(d[h].up) :
          Asks(d, h, i, q) => i \in 1 .. Len(c[h].up) /\ Asks(c, h, i, q)
    <3> TAKE h \in CarrierBindings
    <3> TAKE i \in 1 .. Len(d[h].up)
    <3>1. CASE h # g
      BY <1>6, <3>1
    <3>2. CASE h = g
      <4>1. CASE i \in 1 .. Len(up) /\ d[g].up[i] = up[i]
        BY <3>2, <4>1 DEF Asks
      <4>2. CASE d[g].up[i] = m
        BY <1>7, <3>2, <4>2 DEF Asks
      <4> QED BY <1>2, <3>2, <4>1, <4>2
    <3> QED BY <3>1, <3>2
  <2>3. RequestHonest(q, y, L, c)
    BY <1>7 DEF Honest
  <2>4. RequestHonest(q, y, L, d)
    BY <1>3, <1>5, <2>2, <2>3 DEF RequestHonest
  <2> QED BY <1>7, <2>1, <2>4 DEF Honest
<1>8. ASSUME NEW y, NEW z, NEW L, Honest(p, y, L, c), y.outcome = "none",
             z.outcome = "dispatched", z.gen = g
      PROVE  Honest(p, z, L, d)
  <2>1. /\ ~In(p, L)
        /\ \A i, j \in 1 .. Len(L) : L[i] = p /\ L[j] = p => i = j
    BY <1>8 DEF Honest, OutcomeHonest
  <2>2. \A h \in CarrierBindings : \A i \in 1 .. Len(c[h].up) : ~Asks(c, h, i, p)
    BY <1>8 DEF Honest, RequestHonest
  <2>3. \A h \in CarrierBindings : \A i \in 1 .. Len(d[h].down) : ~Tells(d, h, i, p)
    <3>1. \A h \in CarrierBindings : \A i \in 1 .. Len(c[h].down) : ~Tells(c, h, i, p)
      BY <1>8 DEF Honest, AnswerHonest
    <3> QED BY <1>3, <1>5, <3>1
  <2>4. \A h \in CarrierBindings : \A i \in 1 .. Len(d[h].up) :
          Asks(d, h, i, p) => h = g /\ i = Len(up) + 1
    <3> TAKE h \in CarrierBindings
    <3> TAKE i \in 1 .. Len(d[h].up)
    <3>1. CASE h # g
      BY <1>6, <2>2, <3>1
    <3>2. CASE h = g
      <4>1. CASE i \in 1 .. Len(up) /\ d[g].up[i] = up[i]
        <5>1. Asks(d, h, i, p) => Asks(c, h, i, p)
          BY <3>2, <4>1 DEF Asks
        <5> QED BY <2>2, <3>2, <4>1, <5>1
      <4> QED BY <1>2, <3>2, <4>1
    <3> QED BY <3>1, <3>2
  <2>5. OutcomeHonest(p, z, L)
    BY <1>8, <2>1 DEF OutcomeHonest
  <2>6. RequestHonest(p, z, L, d)
    <3> HIDE DEF up
    <3> QED BY <1>8, <2>1, <2>3, <2>4 DEF RequestHonest
  <2>7. AnswerHonest(p, z, L, d)
    BY <2>3 DEF AnswerHonest
  <2> QED BY <2>5, <2>6, <2>7 DEF Honest
<1> QED BY <1>4, <1>7, <1>8

\* A publish is called: refused at once, or under way.
LEMMA PublishStep ==
  ASSUME HonestInv, NEW p \in Publishes, Publish(p)
  PROVE  HonestInv'
<1> DEFINE g == client.current
           L == hub.log
           refused == [gen |-> g, outcome |-> "refused"]
           sent == [gen |-> g, outcome |-> "dispatched"]
<1>1. /\ ConnShape(conn) /\ Shape /\ client \in Clients /\ pub \in [Publishes -> PublishRecords]
      /\ \A q \in Publishes : Honest(q, pub[q], L, conn)
  BY DEF HonestInv, Shape, Clients
<1>2. g \in CarrierBindings /\ pub[p].outcome = "none" /\ hub' = hub
  BY <1>1 DEF Publish, Usable, Clients
<1>3. Honest(p, refused, L, conn)
  <2>1. Honest(p, pub[p], L, conn)
    BY <1>1
  <2>2. refused.outcome = "refused"
    OBVIOUS
  <2> HIDE DEF refused, L
  <2>3. OutcomeHonest(p, refused, L)
    BY <1>2, <2>1, <2>2 DEF Honest, OutcomeHonest
  <2>4. RequestHonest(p, refused, L, conn)
    BY <1>2, <2>1 DEF Honest, RequestHonest
  <2>5. AnswerHonest(p, refused, L, conn)
    BY <1>2, <2>1 DEF Honest, AnswerHonest
  <2> QED BY <2>3, <2>4, <2>5 DEF Honest
<1>4. refused \in PublishRecords /\ sent \in PublishRecords
  BY <1>2 DEF PublishRecords, Outcomes
<1>5. ASSUME ConnShape(conn'), client' \in Clients, pub' \in [Publishes -> PublishRecords],
             \A q \in Publishes : Honest(q, pub'[q], L, conn')
      PROVE  HonestInv'
  <2>1. Shape'
    BY <1>1, <1>2, <1>5 DEF Shape, ConnShape, Clients
  <2> QED BY <1>2, <1>5, <2>1 DEF HonestInv
<1>6. CASE pub' = [pub EXCEPT ![p] = refused] /\ UNCHANGED <<client, conn>>
  <2> HIDE DEF refused, L
  <2> QED BY <1>1, <1>3, <1>4, <1>5, <1>6
<1>7. CASE pub' = [LostPubs(g) EXCEPT ![p] = refused] /\ client' = Unbound(g) /\ conn' = conn
  <2>1. \A q \in Publishes : /\ Honest(q, Unknown(pub[q], g), L, conn)
                             /\ Unknown(pub[q], g) \in PublishRecords
    <3> HIDE DEF L, g
    <3> QED BY <1>1, HonestUnknown
  <2>2. client' \in Clients
    BY <1>1, <1>7, LostClient
  <2>3. \A q \in Publishes : pub'[q] = IF q = p THEN refused ELSE Unknown(pub[q], g)
    BY <1>7 DEF LostPubs
  <2>4. pub' = [q \in Publishes |-> IF q = p THEN refused ELSE Unknown(pub[q], g)]
    BY <1>7 DEF LostPubs
  <2> HIDE DEF refused, L, g
  <2>5. pub' \in [Publishes -> PublishRecords]
    BY <1>4, <2>1, <2>4
  <2> QED BY <1>1, <1>3, <1>5, <1>7, <2>1, <2>2, <2>3, <2>5
<1>8. CASE /\ pub' = [pub EXCEPT ![p] = sent]
           /\ conn' = [conn EXCEPT ![g].up = Append(@, <<"publish", p>>)] /\ client' = client
  <2> DEFINE m == <<"publish", p>>
             d == conn'
  <2>1. m[1] = "publish" /\ m[2] = p
    OBVIOUS
  <2>2. CarrierFields \subseteq DOMAIN conn[g] /\ DOMAIN conn = CarrierBindings
    BY <1>1, <1>2 DEF ConnShape
  <2> HIDE DEF m
  <2>3. /\ DOMAIN d = DOMAIN conn /\ DOMAIN d[g] = DOMAIN conn[g]
        /\ \A h \in CarrierBindings : h # g => d[h] = conn[h]
        /\ d[g].up = Append(conn[g].up, m) /\ d[g].down = conn[g].down
    BY <1>2, <1>8, <2>2 DEF m, CarrierFields
  <2>4. sent.outcome = "dispatched" /\ sent.gen = g
    OBVIOUS
  <2>5. pub' \in [Publishes -> PublishRecords] /\ \A q \in Publishes : pub'[q] = IF q = p THEN sent ELSE pub[q]
    <3> HIDE DEF sent
    <3> QED BY <1>1, <1>4, <1>8
  <2> HIDE DEF d, g, L, sent
  <2>6. /\ ConnShape(d)
        /\ \A q, y : q # p /\ Honest(q, y, L, conn) => Honest(q, y, L, d)
        /\ \A y, z : /\ Honest(p, y, L, conn) /\ y.outcome = "none"
                     /\ z.outcome = "dispatched" /\ z.gen = g
                     => Honest(p, z, L, d)
    BY <1>1, <1>2, <2>1, <2>3, HonestSent
  <2>7. \A q \in Publishes : Honest(q, pub'[q], L, d)
    BY <1>1, <1>2, <2>4, <2>5, <2>6
  <2> QED BY <1>1, <1>5, <1>8, <2>5, <2>6, <2>7 DEF d
<1> QED BY <1>6, <1>7, <1>8 DEF Publish

\* The answer is read: after it, nothing of the publish is under way.
LEMMA ReadPublishedStep ==
  ASSUME HonestInv, NEW g \in CarrierBindings, ReadPublished(g)
  PROVE  HonestInv'
<1> DEFINE L == hub.log
           dn == conn[g].down
           m == Head(dn)
           p == m[2]
           r == [conn[g] EXCEPT !.down = Tail(dn)]
<1>1. /\ ConnShape(conn) /\ Shape /\ pub \in [Publishes -> PublishRecords]
      /\ \A q \in Publishes : Honest(q, pub[q], L, conn)
  BY DEF HonestInv, Shape
<1>2. /\ dn # <<>> /\ m[1] = "published"
      /\ conn' = [conn EXCEPT ![g] = r]
      /\ pub' = [pub EXCEPT ![p].outcome = IF m[3] THEN "fulfilled" ELSE "refused"]
      /\ UNCHANGED <<client, hub>>
  BY DEF ReadPublished, Arrived, Drop
<1>3. /\ 1 \in 1 .. Len(dn) /\ m = dn[1] /\ Len(Tail(dn)) = Len(dn) - 1 /\ Len(dn) \in Nat
      /\ \A i \in 1 .. Len(Tail(dn)) : Tail(dn)[i] = dn[i + 1]
  <2>1. PICK S : dn \in Seq(S)
    BY <1>1 DEF ConnShape, IsSeq
  <2> HIDE DEF dn
  <2> QED BY <1>2, <2>1, HeadTailProperties, LenProperties, EmptySeq
<1>4. p \in Publishes /\ Tells(conn, g, 1, p)
  BY <1>1, <1>2, <1>3 DEF ConnShape, Tells
<1>5. /\ pub[p].outcome \in {"dispatched", "unknown"} /\ pub[p].gen = g
      /\ (m[3] = TRUE /\ In(p, L)) \/ (m[3] = FALSE /\ ~In(p, L))
      /\ \A j \in 1 .. Len(dn) : Tells(conn, g, j, p) => 1 = j
  <2>1. AnswerHonest(p, pub[p], L, conn)
    BY <1>1, <1>4 DEF Honest
  <2> HIDE DEF p, L
  <2> QED BY <1>3, <1>4, <2>1 DEF AnswerHonest
<1>6. QuietConn(conn, conn')
  <2>1. DOMAIN r = DOMAIN conn[g] /\ QuietUp(conn[g].up, r.up) /\ QuietDown(conn[g].down, r.down)
    BY <1>1, <1>2, ReadDown
  <2> HIDE DEF r
  <2> QED BY <1>1, <1>2, <2>1, CarrierStep
<1>7. ConnShape(conn') /\ \A q \in Publishes : Honest(q, pub[q], L, conn')
  BY <1>1, <1>6, QuietShape, HonestQuiet
<1>8. conn'[g].up = conn[g].up /\ conn'[g].down = Tail(dn) /\ \A h \in CarrierBindings : h # g => conn'[h] = conn[h]
  BY <1>1, <1>2 DEF ConnShape, CarrierFields
<1>9. \A h \in CarrierBindings : \A i \in 1 .. Len(conn'[h].down) : ~Tells(conn', h, i, p)
  <2> SUFFICES ASSUME NEW h \in CarrierBindings, NEW i \in 1 .. Len(conn'[h].down),
                      Tells(conn', h, i, p)
               PROVE  FALSE
    OBVIOUS
  <2>1. h = g
    BY <1>4, <1>5, <1>7 DEF Honest, AnswerHonest
  <2>2. i + 1 \in 1 .. Len(dn) /\ Tells(conn, g, i + 1, p) /\ i \in Nat /\ i >= 1
    <3>1. i \in 1 .. Len(Tail(dn)) /\ Tells(conn', g, i, p)
      BY <1>8, <2>1
    <3>2. i + 1 \in 1 .. Len(dn) /\ Tail(dn)[i] = dn[i + 1] /\ i \in Nat /\ i >= 1
      <4> HIDE DEF dn
      <4> QED BY <1>3, <3>1
    <3> QED BY <1>8, <3>1, <3>2 DEF Tells
  <2>3. 1 = i + 1
    BY <1>5, <2>2
  <2> QED BY <2>2, <2>3
<1>10. \A h \in CarrierBindings : \A i \in 1 .. Len(conn'[h].up) : ~Asks(conn', h, i, p)
  <2> SUFFICES ASSUME NEW h \in CarrierBindings, NEW i \in 1 .. Len(conn'[h].up),
                      Asks(conn', h, i, p)
               PROVE  FALSE
    OBVIOUS
  <2>1. h = g
    BY <1>4, <1>5, <1>7 DEF Honest, RequestHonest
  <2>2. i \in 1 .. Len(conn[g].up) /\ Asks(conn, g, i, p)
    BY <1>8, <2>1 DEF Asks
  <2>3. RequestHonest(p, pub[p], L, conn)
    BY <1>1, <1>4 DEF Honest
  <2>4. \A j \in 1 .. Len(dn) : ~Tells(conn, g, j, p)
    <3> HIDE DEF p, L
    <3> QED BY <2>2, <2>3 DEF RequestHonest
  <2> QED BY <1>3, <1>4, <2>4
<1> DEFINE y == pub'[p]
<1>11. /\ pub' \in [Publishes -> PublishRecords]
       /\ \A q \in Publishes : q # p => pub'[q] = pub[q]
       /\ \/ y.outcome = "fulfilled" /\ In(p, L)
          \/ y.outcome = "refused" /\ ~In(p, L)
  <2> DEFINE o == IF m[3] THEN "fulfilled" ELSE "refused"
             n == [pub[p] EXCEPT !.outcome = o]
  <2>1. (o = "fulfilled" /\ In(p, L)) \/ (o = "refused" /\ ~In(p, L))
    BY <1>5
  <2>2. pub' = [pub EXCEPT ![p] = n]
    BY <1>2
  <2> HIDE DEF o, p, L
  <2>3. n \in PublishRecords /\ n.outcome = o
    <3>1. pub[p] \in PublishRecords /\ o \in Outcomes
      BY <1>1, <1>4, <2>1 DEF Outcomes
    <3> QED BY <3>1 DEF PublishRecords
  <2> HIDE DEF n
  <2> QED BY <1>1, <1>4, <2>1, <2>2, <2>3
<1>12. Honest(p, y, L, conn')
  <2>1. \A i, j \in 1 .. Len(L) : L[i] = p /\ L[j] = p => i = j
    BY <1>1, <1>4 DEF Honest, OutcomeHonest
  <2> HIDE DEF y, p, L
  <2>2. OutcomeHonest(p, y, L)
    BY <1>11, <2>1 DEF OutcomeHonest
  <2>3. RequestHonest(p, y, L, conn')
    BY <1>10 DEF RequestHonest
  <2>4. AnswerHonest(p, y, L, conn')
    BY <1>9 DEF AnswerHonest
  <2> QED BY <2>2, <2>3, <2>4 DEF Honest
<1>13. \A q \in Publishes : Honest(q, pub'[q], L, conn')
  <2> HIDE DEF p, L
  <2> QED BY <1>7, <1>11, <1>12
<1>14. Shape'
  BY <1>1, <1>2, <1>7, <1>11 DEF Shape, ConnShape
<1> QED BY <1>2, <1>13, <1>14 DEF HonestInv

\* Nothing is under way at first.
LEMMA HonestInit == InitEvents => HonestInv
<1> SUFFICES ASSUME InitEvents PROVE HonestInv
  OBVIOUS
<1>1. MaxBindings \in Nat
  BY SessionEventsAssumption
<1>2. <<>> \in Seq({}) /\ Len(<<>>) = 0
  OBVIOUS
<1>3. hub = [terminal |-> FALSE, log |-> <<>>] /\ <<>> \in Seq(Publishes \cup {Host})
  BY DEF InitEvents
<1>4. \A g \in CarrierBindings : /\ CarrierFields \subseteq DOMAIN conn[g]
                                 /\ conn[g].up = <<>> /\ conn[g].down = <<>>
  BY DEF InitEvents, CarrierFields
<1>5. ConnShape(conn)
  <2>1. DOMAIN conn = CarrierBindings
    BY DEF InitEvents
  <2>2. IsSeq(<<>>)
    BY <1>2 DEF IsSeq
  <2> QED BY <1>2, <1>4, <2>1, <2>2 DEF ConnShape
<1>6. client \in [current : CarrierBindings \cup {None}, attached : 0 .. MaxBindings,
                  terminal : BOOLEAN]
  BY <1>1 DEF InitEvents
<1>7. /\ pub \in [Publishes -> PublishRecords]
      /\ \A p \in Publishes : pub[p].outcome = "none"
  BY DEF InitEvents, PublishRecords, Outcomes
<1>8. Shape
  BY <1>3, <1>5, <1>6, <1>7 DEF Shape
<1>9. ASSUME NEW p \in Publishes PROVE Honest(p, pub[p], hub.log, conn)
  <2>1. OutcomeHonest(p, pub[p], hub.log)
    BY <1>2, <1>3, <1>7 DEF OutcomeHonest, In
  <2>2. RequestHonest(p, pub[p], hub.log, conn)
    BY <1>2, <1>4 DEF RequestHonest
  <2>3. AnswerHonest(p, pub[p], hub.log, conn)
    BY <1>2, <1>4 DEF AnswerHonest
  <2> QED BY <2>1, <2>2, <2>3 DEF Honest
<1> QED BY <1>8, <1>9 DEF HonestInv

\* One lemma per action, above.
LEMMA HonestStep == HonestInv /\ [NextEvents]_eventsVars => HonestInv'
<1> SUFFICES ASSUME HonestInv, [NextEvents]_eventsVars PROVE HonestInv'
  OBVIOUS
<1>1. CASE UNCHANGED eventsVars
  BY <1>1 DEF eventsVars, HonestInv, Shape, ConnShape, Honest, OutcomeHonest, RequestHonest,
              AnswerHonest, Asks, Tells
<1>2. CASE System
  BY <1>2, HubSteps, ClientSteps, ReadSteps, ServePublishStep, ReadPublishedStep DEF System
<1>3. CASE NextEvents /\ ~System
  BY <1>3, HubSteps, ClientSteps, PublishStep DEF NextEvents
<1> QED BY <1>1, <1>2, <1>3

\* In a log where p occurs once at most, Routings counts whether it does.
LEMMA RoutingsCount ==
  ASSUME HonestInv, NEW p \in Publishes
  PROVE  /\ In(p, hub.log) => Routings(p) = 1
         /\ ~In(p, hub.log) => Routings(p) = 0
<1> DEFINE L == hub.log
           R == {i \in DOMAIN L : L[i] = p}
<1>1. /\ L \in Seq(Publishes \cup {Host})
      /\ \A i, j \in 1 .. Len(L) : L[i] = p /\ L[j] = p => i = j
  BY DEF HonestInv, Shape, Honest, OutcomeHonest
<1>2. DOMAIN L = 1 .. Len(L)
  BY <1>1
<1>3. Routings(p) = Cardinality(R)
  BY DEF Routings
<1>4. CASE ~In(p, L)
  <2>1. R = {}
    BY <1>2, <1>4 DEF In
  <2> HIDE DEF R
  <2> QED BY <1>3, <1>4, <2>1, FS_EmptySet
<1>5. CASE In(p, L)
  <2>1. PICK k \in 1 .. Len(L) : L[k] = p
    BY <1>5 DEF In
  <2>2. R = {k}
    BY <1>1, <1>2, <2>1
  <2> HIDE DEF R
  <2> QED BY <1>3, <1>5, <2>2, FS_Singleton
<1> QED BY <1>4, <1>5

\* For any number of carriers, subscriptions, publishes and events, and any
\* limits: what publish() answers is true, whatever carriers were lost, and an
\* event is routed once (publish of ReplaceableSessionEventClient, route of
\* SessionEventHub).
THEOREM OutcomesAreHonest == SpecEvents => []HonestOutcome
<1>1. HonestInv => HonestOutcome
  <2> SUFFICES ASSUME HonestInv, NEW p \in Publishes
               PROVE  /\ pub[p].outcome = "fulfilled" => Routings(p) = 1
                      /\ pub[p].outcome \in {"none", "refused"} => Routings(p) = 0
                      /\ Routings(p) <= 1
    BY DEF HonestOutcome
  <2>1. OutcomeHonest(p, pub[p], hub.log)
    BY DEF HonestInv, Honest
  <2>2. Routings(p) = 0 \/ Routings(p) = 1
    BY RoutingsCount
  <2>3. /\ pub[p].outcome = "fulfilled" => Routings(p) = 1
        /\ pub[p].outcome \in {"none", "refused"} => Routings(p) = 0
    BY <2>1, RoutingsCount DEF OutcomeHonest
  <2> QED BY <2>2, <2>3
<1> QED BY <1>1, HonestInit, HonestStep, PTL DEF SpecEvents
=============================================================================
