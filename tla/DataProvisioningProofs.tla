----------------------- MODULE DataProvisioningProofs -----------------------
(***************************************************************************)
(* Proofs about DataProvisioning: at most one Data connection relays, and   *)
(* it is the one that Main authorizes now; and a role never has its end     *)
(* before the relay is open.                                               *)
(*                                                                         *)
(* The invariant is about the host alone, but for the clause that what a    *)
(* binding has committed was opened.  The operations of the broker are      *)
(* functions on the host's record, so that the proof is about the records   *)
(* they return: Thins(h, g, D) says that g is h but for the candidates D,   *)
(* which are out, and for what the invariant does not look at.             *)
(***************************************************************************)
EXTENDS DataProvisioning, SequenceTheorems, TLAPS

IsSeq(s) == \E S : s \in Seq(S)

HostFields ==
    {"renderer", "runtime", "attached", "scheduled", "current", "pending", "tail",
     "candidate", "unreachable", "settling", "provisioner", "down"}

CandidateFields ==
    {"renderer", "state", "physical", "confirmed", "refused", "settled", "asked", "hit"}

CandidateShape(k) ==
    /\ CandidateFields \subseteq DOMAIN k
    /\ k.renderer \in Renderers
    /\ k.confirmed \subseteq {"runner", "renderer"}

HostShape(h) ==
    /\ HostFields \subseteq DOMAIN h
    /\ h.renderer \in {Nobody} \cup Renderers /\ h.attached \subseteq Renderers
    /\ IsSeq(h.candidate)
    /\ \A c \in Candidates(h) : CandidateShape(Of(h, c))
    /\ IsSeq(h.tail)
    /\ DOMAIN h.down = Ends
    /\ \A e \in Ends : IsSeq(h.down[e])

\* The relay of the candidate is open, or was, or never will be.
Opened(h, c) == c \in Candidates(h) /\ Of(h, c).physical \in {"installed", "retired"}

\* What is current is in its place and authorized; only what is current relays;
\* and what was prepared was settled and confirmed on both sides.
Placed(h) ==
    /\ h.current # Nobody =>
         /\ h.current \in Candidates(h) /\ h.pending # h.current
         /\ Of(h, h.current).state = "current" /\ Authorized(h, h.current)
    /\ h.pending # Nobody => h.pending \in Candidates(h)
    /\ \A c \in Candidates(h) :
         /\ Of(h, c).physical = "installed" \/ Of(h, c).state = "current" => c = h.current
         /\ Of(h, c).state \in {"prepared", "current"} =>
              Of(h, c).settled /\ Of(h, c).confirmed = {"runner", "renderer"}

\* The outcome of a preparation is queued once, and finds the candidate as it
\* was left or retired.
Queued(h) ==
    \A i \in 1 .. Len(h.tail) :
        /\ h.tail[i].c # Nobody
        /\ h.tail[i].op \in {"install", "dispose"} =>
             h.tail[i].c \in Candidates(h) /\ Of(h, h.tail[i].c).settled
        /\ h.tail[i].op = "install" =>
             /\ Of(h, h.tail[i].c).state \in {"prepared", "retired"}
             /\ \A j \in 1 .. Len(h.tail) :
                  h.tail[j].op = "install" /\ h.tail[j].c = h.tail[i].c => j = i
        /\ h.tail[i].op = "dispose" => Of(h, h.tail[i].c).state \notin {"prepared", "current"}

\* A commit is sent when the relay is open.
CommitsOpened(h) ==
    \A e \in Ends : \A i \in DOMAIN h.down[e] :
        h.down[e][i].type = "commit" => Opened(h, h.down[e][i].c)

HostInv(h) == HostShape(h) /\ Placed(h) /\ Queued(h) /\ CommitsOpened(h)

BindingFields == {"connecting", "prepared", "current", "delivered", "waiter", "held", "closed"}

EndsOpened ==
    /\ DOMAIN end = Ends
    /\ \A e \in Ends :
         /\ BindingFields \subseteq DOMAIN end[e]
         /\ \A c \in {end[e].current, end[e].held} : c = Nobody \/ Opened(host, c)

\* The Runner refuses to commit what it was told to commit.
AnswersNamed ==
    /\ DOMAIN up = Ends
    /\ \A e \in Ends :
         /\ IsSeq(up[e])
         /\ \A i \in DOMAIN up[e] : up[e][i].type = "uncommitted" => up[e][i].c # Nobody

BrokerInv == HostInv(host) /\ EndsOpened /\ AnswersNamed

-----------------------------------------------------------------------------
(* Sequences.                                                              *)

LEMMA AppendIsSeq ==
  ASSUME NEW s, IsSeq(s), NEW x
  PROVE  /\ IsSeq(Append(s, x)) /\ Len(s) \in Nat /\ DOMAIN s = 1 .. Len(s)
         /\ Len(Append(s, x)) = Len(s) + 1 /\ DOMAIN Append(s, x) = 1 .. Len(s) + 1
         /\ \A i \in 1 .. Len(s) : Append(s, x)[i] = s[i]
         /\ Append(s, x)[Len(s) + 1] = x
<1>1. PICK S : s \in Seq(S)
  BY DEF IsSeq
<1>2. s \in Seq(S \cup {x})
  BY <1>1
<1>3. Append(s, x) \in Seq(S \cup {x})
  BY <1>2
<1> QED BY <1>2, <1>3 DEF IsSeq

LEMMA TailIsSeq ==
  ASSUME NEW s, IsSeq(s), s # <<>>
  PROVE  /\ IsSeq(Tail(s)) /\ Len(s) \in Nat /\ DOMAIN s = 1 .. Len(s) /\ 1 \in DOMAIN s
         /\ Len(Tail(s)) = Len(s) - 1 /\ DOMAIN Tail(s) = 1 .. Len(s) - 1
         /\ \A i \in 1 .. Len(s) - 1 : Tail(s)[i] = s[i + 1] /\ i + 1 \in DOMAIN s
         /\ Head(s) = s[1]
<1>1. PICK S : s \in Seq(S)
  BY DEF IsSeq
<1>2. Tail(s) \in Seq(S) /\ Len(s) \in Nat /\ Len(s) >= 1
  BY <1>1
<1> QED BY <1>1, <1>2 DEF IsSeq

LEMMA SeqDomain ==
  ASSUME NEW s, IsSeq(s)
  PROVE  Len(s) \in Nat /\ DOMAIN s = 1 .. Len(s) /\ Nobody \notin DOMAIN s
  BY DEF IsSeq, Nobody

\* Another value at one place.
LEMMA ExceptIsSeq ==
  ASSUME NEW s, IsSeq(s), NEW t, DOMAIN t = DOMAIN s, t = [i \in DOMAIN t |-> t[i]]
  PROVE  IsSeq(t)
<1>1. PICK S : s \in Seq(S)
  BY DEF IsSeq
<1> DEFINE T == {t[i] : i \in DOMAIN t}
<1>2. t \in [1 .. Len(s) -> T] /\ Len(s) \in Nat
  BY <1>1
<1>3. t \in Seq(T)
  <2> HIDE DEF T
  <2> QED BY <1>2
<1> QED BY <1>3 DEF IsSeq

-----------------------------------------------------------------------------
(* Thins.                                                                  *)

\* What no operation of the broker takes from a candidate.
Fixed(k, l) ==
    l.renderer = k.renderer /\ l.settled = k.settled /\ l.confirmed = k.confirmed

SamePlaces(h, g) ==
    /\ g.renderer = h.renderer /\ g.runtime = h.runtime /\ g.attached \subseteq h.attached
    /\ g.current = h.current /\ g.pending = h.pending /\ g.tail = h.tail

SameCommits(h, g) ==
    \A e \in Ends : \A i \in DOMAIN g.down[e] :
        g.down[e][i].type = "commit" => \E j \in DOMAIN h.down[e] : h.down[e][j] = g.down[e][i]

Out(k, l) ==
    /\ l.state = "retired"
    /\ l.physical = "retired" \/ (k.state = "retired" /\ l.physical = k.physical)

Thins(h, g, D) ==
    /\ HostShape(g) /\ SamePlaces(h, g) /\ SameCommits(h, g)
    /\ Candidates(g) = Candidates(h)
    /\ \A c \in Candidates(h) :
         /\ Fixed(Of(h, c), Of(g, c))
         /\ c \notin D => Of(g, c).state = Of(h, c).state /\ Of(g, c).physical = Of(h, c).physical
         /\ c \in D => Out(Of(h, c), Of(g, c))

LEMMA ThinsTransitive ==
  ASSUME NEW h, NEW g, NEW k, NEW D, NEW E, Thins(h, g, D), Thins(g, k, E)
  PROVE  Thins(h, k, D \cup E)
<1>1. HostShape(k) /\ SamePlaces(h, k) /\ Candidates(k) = Candidates(h)
  BY DEF Thins, SamePlaces
<1>2. SameCommits(h, k)
  BY DEF Thins, SameCommits
<1>3. ASSUME NEW c \in Candidates(h)
      PROVE  /\ Fixed(Of(h, c), Of(k, c))
             /\ c \notin D \cup E =>
                  Of(k, c).state = Of(h, c).state /\ Of(k, c).physical = Of(h, c).physical
             /\ c \in D \cup E => Out(Of(h, c), Of(k, c))
  BY DEF Thins, Fixed, Out
<1> QED BY <1>1, <1>2, <1>3 DEF Thins

\* What the invariant does not look at.
LEMMA AsideThins ==
  ASSUME NEW h, NEW g, HostShape(h), HostFields \subseteq DOMAIN g, SamePlaces(h, g),
         g.candidate = h.candidate, g.down = h.down
  PROVE  Thins(h, g, {})
<1>1. HostShape(g) /\ Candidates(g) = Candidates(h) /\ \A c : Of(g, c) = Of(h, c)
  BY DEF HostShape, SamePlaces, Candidates, Of
<1> QED BY <1>1 DEF Thins, SameCommits, Fixed

LEMMA SendThins ==
  ASSUME NEW h, HostShape(h), NEW e \in Ends, NEW type, type # "commit", NEW c
  PROVE  Thins(h, SendTo(h, e, type, c), {})
<1>1. CASE e \in h.unreachable
  BY <1>1, AsideThins DEF SendTo, SamePlaces, HostShape
<1>2. CASE e \notin h.unreachable
  <2> DEFINE m == [type |-> type, c |-> c]
             g == [h EXCEPT !.down[e] = Append(@, m)]
  <2>1. SendTo(h, e, type, c) = g
    BY <1>2 DEF SendTo
  <2>2. /\ HostFields \subseteq DOMAIN g /\ SamePlaces(h, g) /\ g.candidate = h.candidate
        /\ g.down = [h.down EXCEPT ![e] = Append(h.down[e], m)] /\ m.type # "commit"
    BY DEF HostShape, HostFields, SamePlaces
  <2> HIDE DEF g, m
  <2>3. /\ DOMAIN g.down = Ends /\ g.down[e] = Append(h.down[e], m)
        /\ \A x \in Ends : x # e => g.down[x] = h.down[x]
    BY <2>2 DEF HostShape
  <2>4. /\ IsSeq(g.down[e]) /\ Len(h.down[e]) \in Nat /\ DOMAIN h.down[e] = 1 .. Len(h.down[e])
        /\ DOMAIN g.down[e] = 1 .. Len(h.down[e]) + 1
        /\ \A i \in 1 .. Len(h.down[e]) : g.down[e][i] = h.down[e][i]
        /\ g.down[e][Len(h.down[e]) + 1] = m
    BY <2>3, AppendIsSeq DEF HostShape
  <2>5. HostShape(g) /\ Candidates(g) = Candidates(h) /\ \A x : Of(g, x) = Of(h, x)
    BY <2>2, <2>3, <2>4 DEF HostShape, SamePlaces, Candidates, Of
  <2>6. SameCommits(h, g)
    <3> SUFFICES ASSUME NEW x \in Ends, NEW i \in DOMAIN g.down[x], g.down[x][i].type = "commit"
                 PROVE  \E j \in DOMAIN h.down[x] : h.down[x][j] = g.down[x][i]
      BY DEF SameCommits
    <3>1. CASE x # e
      BY <2>3, <3>1
    <3>2. CASE x = e
      <4>1. i \in 1 .. Len(h.down[e])
        BY <2>2, <2>4, <3>2
      <4> QED BY <2>4, <3>2, <4>1
    <3> QED BY <3>1, <3>2
  <2> QED BY <2>1, <2>2, <2>5, <2>6 DEF Thins, Fixed
<1> QED BY <1>1, <1>2

\* The candidates in other words, in what the invariant does not look at or out.
LEMMA CandidateThins ==
  ASSUME NEW h, HostShape(h), NEW g, HostFields \subseteq DOMAIN g, SamePlaces(h, g), g.down = h.down,
         Candidates(g) = Candidates(h), g.candidate = [c \in Candidates(g) |-> Of(g, c)],
         NEW D,
         \A c \in Candidates(h) :
            /\ CandidateFields \subseteq DOMAIN Of(g, c) /\ Fixed(Of(h, c), Of(g, c))
            /\ c \notin D => Of(g, c).state = Of(h, c).state /\ Of(g, c).physical = Of(h, c).physical
            /\ c \in D => Out(Of(h, c), Of(g, c))
  PROVE  Thins(h, g, D)
<1>1. IsSeq(g.candidate)
  BY ExceptIsSeq DEF HostShape, Candidates, Of
<1>2. \A c \in Candidates(g) : CandidateShape(Of(g, c))
  BY DEF HostShape, CandidateShape, Fixed
<1>3. HostShape(g)
  BY <1>1, <1>2 DEF HostShape, SamePlaces
<1> QED BY <1>3 DEF Thins, SameCommits

LEMMA RefusedThins ==
  ASSUME NEW h, HostShape(h), NEW c
  PROVE  Thins(h, Refused(h, c), {})
<1> DEFINE g == Refused(h, c)
<1>1. /\ HostFields \subseteq DOMAIN g /\ SamePlaces(h, g) /\ g.down = h.down
      /\ g.candidate = [h.candidate EXCEPT ![c].refused = TRUE]
  BY DEF HostShape, HostFields, SamePlaces, Refused
<1> HIDE DEF g
<1>2. /\ Candidates(g) = Candidates(h) /\ g.candidate = [x \in Candidates(g) |-> Of(g, x)]
      /\ \A x \in Candidates(h) : Of(g, x) = IF x = c THEN [Of(h, x) EXCEPT !.refused = TRUE] ELSE Of(h, x)
  BY <1>1 DEF Candidates, Of
<1>3. \A x \in Candidates(h) :
         /\ CandidateFields \subseteq DOMAIN Of(g, x) /\ Fixed(Of(h, x), Of(g, x))
         /\ Of(g, x).state = Of(h, x).state /\ Of(g, x).physical = Of(h, x).physical
  BY <1>2 DEF HostShape, CandidateShape, CandidateFields, Fixed
<1>4. Thins(h, g, {})
  BY <1>1, <1>2, <1>3, CandidateThins
<1> QED BY <1>4 DEF g

-----------------------------------------------------------------------------
(* The operations of the broker that only send, wait and reject.           *)

LEMMA RevokeRunnerThins ==
  ASSUME NEW h, HostShape(h), NEW c
  PROVE  Thins(h, RevokeRunner(h, c), {})
<1> DEFINE p == h.provisioner
           r == IF p.preparing = c THEN Refused(h, c) ELSE h
           q == [preparing |-> Unless(p.preparing, c), prepared |-> Unless(p.prepared, c),
                 committing |-> Unless(p.committing, c)]
           g == [r EXCEPT !.provisioner = q]
<1>1. Thins(h, r, {}) /\ HostShape(r)
  <2>1. Thins(h, Refused(h, c), {}) /\ Thins(h, h, {})
    BY RefusedThins, AsideThins DEF SamePlaces, HostShape
  <2> QED BY <2>1 DEF Thins
<1> HIDE DEF q
<1>2. Thins(r, g, {})
  <2> HIDE DEF r
  <2>1. HostFields \subseteq DOMAIN g /\ SamePlaces(r, g) /\ g.candidate = r.candidate /\ g.down = r.down
    BY <1>1 DEF HostShape, HostFields, SamePlaces
  <2> QED BY <1>1, <2>1, AsideThins
<1>3. Runner \in Ends
  BY DEF Ends
<1> HIDE DEF r
<1>4. Thins(g, SendTo(g, Runner, "revoke", c), {})
  BY <1>2, <1>3, SendThins DEF Thins
<1> HIDE DEF g
<1>5. Thins(h, SendTo(g, Runner, "revoke", c), {} \cup {} \cup {})
  BY <1>1, <1>2, <1>4, ThinsTransitive
<1>6. RevokeRunner(h, c) = SendTo(g, Runner, "revoke", c)
  BY DEF RevokeRunner, g, r, q
<1> QED BY <1>5, <1>6

LEMMA RevokeRendererThins ==
  ASSUME NEW h, HostShape(h), NEW c \in Candidates(h)
  PROVE  Thins(h, RevokeRenderer(h, c), {})
<1> DEFINE r == Of(h, c).renderer
           f == Refused(h, c)
           k == [f EXCEPT !.settling[r] = Nobody]
           w == IF h.settling[r] = c THEN k ELSE h
<1>1. r \in Ends
  BY DEF HostShape, CandidateShape, Ends
<1>2. Thins(h, f, {}) /\ HostShape(f)
  BY RefusedThins DEF Thins
<1>3. Thins(f, k, {})
  <2> HIDE DEF f
  <2>1. HostFields \subseteq DOMAIN k /\ SamePlaces(f, k) /\ k.candidate = f.candidate /\ k.down = f.down
    BY <1>2 DEF HostShape, HostFields, SamePlaces
  <2> QED BY <1>2, <2>1, AsideThins
<1>4. Thins(h, h, {})
  BY AsideThins DEF SamePlaces, HostShape
<1> HIDE DEF f, k
<1>5. Thins(h, k, {} \cup {})
  BY <1>2, <1>3, ThinsTransitive
<1>6. Thins(h, w, {}) /\ HostShape(w)
  BY <1>4, <1>5 DEF Thins
<1> HIDE DEF w
<1>7. Thins(w, SendTo(w, r, "revoke", c), {})
  BY <1>1, <1>6, SendThins
<1>8. Thins(h, SendTo(w, r, "revoke", c), {} \cup {})
  BY <1>6, <1>7, ThinsTransitive
<1>9. RevokeRenderer(h, c) = SendTo(w, r, "revoke", c)
  BY DEF RevokeRenderer, w, k, f
<1> QED BY <1>8, <1>9

LEMMA AbortThins ==
  ASSUME NEW h, HostShape(h), NEW c \in Candidates(h)
  PROVE  Thins(h, Abort(h, c), {})
<1> DEFINE a == IF c \in {h.provisioner.preparing, h.provisioner.committing}
                THEN RevokeRunner(h, c) ELSE h
<1>1. Thins(h, a, {}) /\ HostShape(a) /\ c \in Candidates(a)
  <2>1. Thins(h, h, {}) /\ Thins(h, RevokeRunner(h, c), {})
    BY AsideThins, RevokeRunnerThins DEF SamePlaces, HostShape
  <2> QED BY <2>1 DEF Thins
<1>2. Abort(h, c) = IF a.settling[Of(a, c).renderer] = c THEN RevokeRenderer(a, c) ELSE a
  BY DEF Abort
<1> HIDE DEF a
<1>3. Thins(a, RevokeRenderer(a, c), {})
  BY <1>1, RevokeRendererThins
<1>4. Thins(h, RevokeRenderer(a, c), {} \cup {})
  BY <1>1, <1>3, ThinsTransitive
<1> QED BY <1>1, <1>2, <1>4

LEMMA PrepareThins ==
  ASSUME NEW h, HostShape(h), NEW c \in Candidates(h)
  PROVE  Thins(h, PrepareRunner(h, c), {}) /\ Thins(h, PrepareRenderer(h, c), {})
<1> DEFINE r == Of(h, c).renderer
           g == [h EXCEPT !.provisioner.preparing = c]
           k == [h EXCEPT !.settling[r] = c]
<1>1. r \in Ends /\ Runner \in Ends
  BY DEF HostShape, CandidateShape, Ends
<1>2. Thins(h, g, {}) /\ Thins(h, k, {})
  <2>1. HostFields \subseteq DOMAIN g /\ SamePlaces(h, g) /\ g.candidate = h.candidate /\ g.down = h.down
    BY DEF HostShape, HostFields, SamePlaces
  <2>2. HostFields \subseteq DOMAIN k /\ SamePlaces(h, k) /\ k.candidate = h.candidate /\ k.down = h.down
    BY DEF HostShape, HostFields, SamePlaces
  <2> HIDE DEF g, k
  <2> QED BY <2>1, <2>2, AsideThins
<1> HIDE DEF r, g, k
<1>3. Thins(g, SendTo(g, Runner, "prepare", c), {}) /\ Thins(k, SendTo(k, r, "prepare", c), {})
  BY <1>1, <1>2, SendThins DEF Thins
<1>4. Thins(h, SendTo(g, Runner, "prepare", c), {}) /\ Thins(h, SendTo(k, r, "prepare", c), {})
  <2>1. {} \cup {} = {}
    OBVIOUS
  <2> QED BY <1>2, <1>3, <2>1, ThinsTransitive
<1>5. PrepareRunner(h, c) \in {Refused(h, c), SendTo(g, Runner, "prepare", c)}
  BY DEF PrepareRunner, g
<1>6. PrepareRenderer(h, c) \in {Refused(h, c), SendTo(k, r, "prepare", c)}
  BY DEF PrepareRenderer, k, r
<1> QED BY <1>4, <1>5, <1>6, RefusedThins

\* The candidate's field is set.
LEMMA CandidateSet ==
  ASSUME NEW h, HostShape(h), NEW c \in Candidates(h), NEW g, HostFields \subseteq DOMAIN g,
         NEW k, CandidateShape(k), Fixed(Of(h, c), k),
         g.candidate = [h.candidate EXCEPT ![c] = k],
         g.renderer = h.renderer, g.attached \subseteq h.attached, g.tail = h.tail, g.down = h.down
  PROVE  /\ HostShape(g) /\ Candidates(g) = Candidates(h)
         /\ Of(g, c) = k /\ \A x \in Candidates(h) : x # c => Of(g, x) = Of(h, x)
<1>1. /\ Candidates(g) = Candidates(h)
      /\ Of(g, c) = k /\ \A x \in Candidates(h) : x # c => Of(g, x) = Of(h, x)
      /\ g.candidate = [x \in DOMAIN g.candidate |-> g.candidate[x]]
  BY DEF Candidates, Of
<1>2. IsSeq(g.candidate)
  BY <1>1, ExceptIsSeq DEF HostShape, Candidates
<1>3. \A x \in Candidates(g) : CandidateShape(Of(g, x))
  BY <1>1 DEF HostShape
<1> QED BY <1>1, <1>2, <1>3 DEF HostShape

WithState(h, c, state) == [h EXCEPT !.candidate[c].state = state]
WithPhysical(h, c, physical) == [h EXCEPT !.candidate[c].physical = physical]

LEMMA StateSet ==
  ASSUME NEW h, HostShape(h), NEW c \in Candidates(h), NEW state
  PROVE  LET g == WithState(h, c, state)
         IN  /\ HostShape(g) /\ Candidates(g) = Candidates(h) /\ SamePlaces(h, g) /\ g.down = h.down
             /\ \A x \in Candidates(h) : Fixed(Of(h, x), Of(g, x)) /\ Of(g, x).physical = Of(h, x).physical
             /\ \A x \in Candidates(h) : Of(g, x).state = IF x = c THEN state ELSE Of(h, x).state
<1> DEFINE g == WithState(h, c, state)
           k == [Of(h, c) EXCEPT !.state = state]
<1>1. /\ HostFields \subseteq DOMAIN g /\ SamePlaces(h, g) /\ g.down = h.down
      /\ g.candidate = [h.candidate EXCEPT ![c] = k]
  BY DEF HostShape, HostFields, SamePlaces, Of, WithState
<1>2. CandidateShape(k) /\ Fixed(Of(h, c), k) /\ k.state = state /\ k.physical = Of(h, c).physical
  BY DEF HostShape, CandidateShape, CandidateFields, Fixed
<1> HIDE DEF g, k
<1>3. /\ HostShape(g) /\ Candidates(g) = Candidates(h)
      /\ Of(g, c) = k /\ \A x \in Candidates(h) : x # c => Of(g, x) = Of(h, x)
  BY <1>1, <1>2, CandidateSet DEF SamePlaces
<1>4. \A x \in Candidates(h) : /\ Fixed(Of(h, x), Of(g, x)) /\ Of(g, x).physical = Of(h, x).physical
                               /\ Of(g, x).state = IF x = c THEN state ELSE Of(h, x).state
  BY <1>2, <1>3 DEF Fixed
<1>5. /\ HostShape(g) /\ Candidates(g) = Candidates(h) /\ SamePlaces(h, g) /\ g.down = h.down
      /\ \A x \in Candidates(h) : Fixed(Of(h, x), Of(g, x)) /\ Of(g, x).physical = Of(h, x).physical
      /\ \A x \in Candidates(h) : Of(g, x).state = IF x = c THEN state ELSE Of(h, x).state
  BY <1>1, <1>3, <1>4
<1> QED BY <1>5 DEF g

LEMMA PhysicalSet ==
  ASSUME NEW h, HostShape(h), NEW c \in Candidates(h), NEW physical
  PROVE  LET g == WithPhysical(h, c, physical)
         IN  /\ HostShape(g) /\ Candidates(g) = Candidates(h) /\ SamePlaces(h, g) /\ g.down = h.down
             /\ \A x \in Candidates(h) : Fixed(Of(h, x), Of(g, x)) /\ Of(g, x).state = Of(h, x).state
             /\ \A x \in Candidates(h) : Of(g, x).physical = IF x = c THEN physical ELSE Of(h, x).physical
<1> DEFINE g == WithPhysical(h, c, physical)
           k == [Of(h, c) EXCEPT !.physical = physical]
<1>1. /\ HostFields \subseteq DOMAIN g /\ SamePlaces(h, g) /\ g.down = h.down
      /\ g.candidate = [h.candidate EXCEPT ![c] = k]
  BY DEF HostShape, HostFields, SamePlaces, Of, WithPhysical
<1>2. CandidateShape(k) /\ Fixed(Of(h, c), k) /\ k.physical = physical /\ k.state = Of(h, c).state
  BY DEF HostShape, CandidateShape, CandidateFields, Fixed
<1> HIDE DEF g, k
<1>3. /\ HostShape(g) /\ Candidates(g) = Candidates(h)
      /\ Of(g, c) = k /\ \A x \in Candidates(h) : x # c => Of(g, x) = Of(h, x)
  BY <1>1, <1>2, CandidateSet DEF SamePlaces
<1>4. \A x \in Candidates(h) : /\ Fixed(Of(h, x), Of(g, x)) /\ Of(g, x).state = Of(h, x).state
                               /\ Of(g, x).physical = IF x = c THEN physical ELSE Of(h, x).physical
  BY <1>2, <1>3 DEF Fixed
<1>5. /\ HostShape(g) /\ Candidates(g) = Candidates(h) /\ SamePlaces(h, g) /\ g.down = h.down
      /\ \A x \in Candidates(h) : Fixed(Of(h, x), Of(g, x)) /\ Of(g, x).state = Of(h, x).state
      /\ \A x \in Candidates(h) : Of(g, x).physical = IF x = c THEN physical ELSE Of(h, x).physical
  BY <1>1, <1>3, <1>4
<1> QED BY <1>5 DEF g

\* What was retired has its sockets closed.
LEMMA CleanupThins ==
  ASSUME NEW h, HostShape(h), NEW c \in Candidates(h), Of(h, c).state = "retired"
  PROVE  Thins(h, CleanupRetired(h, c), {c}) /\ Of(CleanupRetired(h, c), c).physical = "retired"
<1> DEFINE b == RevokeRunner(h, c)
           k == WithPhysical(b, c, "retired")
           g == RevokeRenderer(k, c)
<1>0. g = CleanupRetired(h, c)
  BY DEF CleanupRetired, WithPhysical
<1>1. Thins(h, b, {}) /\ HostShape(b) /\ c \in Candidates(b) /\ Of(b, c).state = "retired"
  BY RevokeRunnerThins DEF Thins
<1> HIDE DEF b
<1>2. /\ HostShape(k) /\ Candidates(k) = Candidates(b) /\ SamePlaces(b, k) /\ k.down = b.down
      /\ \A x \in Candidates(b) : Fixed(Of(b, x), Of(k, x)) /\ Of(k, x).state = Of(b, x).state
      /\ \A x \in Candidates(b) : Of(k, x).physical = IF x = c THEN "retired" ELSE Of(b, x).physical
  BY <1>1, PhysicalSet
<1> HIDE DEF k
<1>3. Thins(b, k, {c})
  <2>1. SameCommits(b, k)
    BY <1>2 DEF SameCommits
  <2> QED BY <1>1, <1>2, <2>1 DEF Thins, Out
<1>4. Thins(k, g, {}) /\ Of(g, c).physical = "retired"
  BY <1>1, <1>2, RevokeRendererThins DEF Thins
<1> HIDE DEF g
<1>5. Thins(h, g, {c})
  <2>1. {} \cup {c} = {c} /\ {c} \cup {} = {c}
    OBVIOUS
  <2>2. Thins(h, k, {c})
    BY <1>1, <1>3, <2>1, ThinsTransitive
  <2> QED BY <1>4, <2>1, <2>2, ThinsTransitive
<1> QED BY <1>0, <1>4, <1>5

\* The candidate is out, whatever it was.
LEMMA RetireThins ==
  ASSUME NEW h, HostShape(h), NEW c \in Candidates(h)
  PROVE  Thins(h, Retire(h, c), {c})
<1>1. CASE Of(h, c).state = "retired"
  <2>1. Thins(h, h, {})
    BY AsideThins DEF SamePlaces, HostShape
  <2>2. Thins(h, h, {c})
    BY <1>1, <2>1 DEF Thins, Out
  <2> QED BY <1>1, <2>2 DEF Retire
<1>2. CASE Of(h, c).state # "retired"
  <2> DEFINE g == WithState(h, c, "retired")
             a == Abort(g, c)
             k == CleanupRetired(a, c)
  <2>1. /\ HostShape(g) /\ Candidates(g) = Candidates(h) /\ SamePlaces(h, g) /\ g.down = h.down
        /\ \A x \in Candidates(h) : Fixed(Of(h, x), Of(g, x)) /\ Of(g, x).physical = Of(h, x).physical
        /\ \A x \in Candidates(h) : Of(g, x).state = IF x = c THEN "retired" ELSE Of(h, x).state
    BY StateSet
  <2>2. k = Retire(h, c)
    BY <1>2 DEF Retire, WithState
  <2> HIDE DEF g
  <2>3. Thins(g, a, {})
    BY <2>1, AbortThins
  <2> HIDE DEF a
  <2>4. HostShape(a) /\ c \in Candidates(a) /\ Of(a, c).state = "retired"
    BY <2>1, <2>3 DEF Thins
  <2>5. Thins(a, k, {c}) /\ Of(k, c).physical = "retired"
    BY <2>4, CleanupThins
  <2> HIDE DEF k
  <2>6. Thins(g, k, {c})
    <3>1. {} \cup {c} = {c}
      OBVIOUS
    <3> QED BY <2>3, <2>5, <3>1, ThinsTransitive
  <2>7. /\ HostShape(k) /\ SamePlaces(g, k) /\ SameCommits(g, k) /\ Candidates(k) = Candidates(g)
        /\ \A x \in Candidates(h) : Fixed(Of(g, x), Of(k, x))
        /\ \A x \in Candidates(h) : x # c =>
             Of(k, x).state = Of(g, x).state /\ Of(k, x).physical = Of(g, x).physical
        /\ Of(k, c).state = "retired"
    BY <2>1, <2>6 DEF Thins, Out
  <2>8. SamePlaces(h, k) /\ SameCommits(h, k)
    BY <2>1, <2>7 DEF SamePlaces, SameCommits
  <2>9. \A x \in Candidates(h) : Fixed(Of(h, x), Of(k, x))
    BY <2>1, <2>7 DEF Fixed
  <2>10. \A x \in Candidates(h) : x # c =>
           Of(k, x).state = Of(h, x).state /\ Of(k, x).physical = Of(h, x).physical
    BY <2>1, <2>7
  <2>11. Thins(h, k, {c})
    BY <2>1, <2>5, <2>7, <2>8, <2>9, <2>10 DEF Thins, Out
  <2> QED BY <2>2, <2>11
<1> QED BY <1>1, <1>2

\* Another Renderer's settlement is closed.
LEMMA CloseThins ==
  ASSUME NEW h, HostShape(h), NEW rs
  PROVE  Thins(h, CloseRenderers(h, rs), {})
<1> DEFINE here == rs \cap h.attached
           waiting == {h.settling[r] : r \in here}
           g == CloseRenderers(h, rs)
           m == [type |-> "close", c |-> Nobody]
<1>1. /\ HostFields \subseteq DOMAIN g /\ SamePlaces(h, g)
      /\ g.candidate = [c \in Candidates(h) |->
            IF c \in waiting THEN [Of(h, c) EXCEPT !.refused = TRUE] ELSE Of(h, c)]
      /\ g.down = [e \in Ends |-> IF e \in here THEN Append(h.down[e], m) ELSE h.down[e]]
  BY DEF HostShape, HostFields, SamePlaces, CloseRenderers
<1> HIDE DEF waiting, here, g
<1>2. /\ Candidates(g) = Candidates(h) /\ g.candidate = [x \in DOMAIN g.candidate |-> g.candidate[x]]
      /\ \A c \in Candidates(h) : Of(g, c) \in {Of(h, c), [Of(h, c) EXCEPT !.refused = TRUE]}
  BY <1>1 DEF Candidates, Of
<1>3. \A c \in Candidates(h) :
         /\ CandidateShape(Of(g, c)) /\ Fixed(Of(h, c), Of(g, c))
         /\ Of(g, c).state = Of(h, c).state /\ Of(g, c).physical = Of(h, c).physical
  BY <1>2 DEF HostShape, CandidateShape, CandidateFields, Fixed
<1>4. IsSeq(g.candidate)
  BY <1>2, ExceptIsSeq DEF HostShape, Candidates
<1>5. ASSUME NEW e \in Ends
      PROVE  /\ IsSeq(g.down[e])
             /\ \A i \in DOMAIN g.down[e] : g.down[e][i].type = "commit"
                  => \E j \in DOMAIN h.down[e] : h.down[e][j] = g.down[e][i]
  <2>1. CASE e \in here
    <3>1. g.down[e] = Append(h.down[e], m) /\ IsSeq(h.down[e])
      BY <1>1, <2>1 DEF HostShape
    <3>2. /\ IsSeq(g.down[e]) /\ Len(h.down[e]) \in Nat /\ DOMAIN h.down[e] = 1 .. Len(h.down[e])
          /\ DOMAIN g.down[e] = 1 .. Len(h.down[e]) + 1
          /\ \A i \in 1 .. Len(h.down[e]) : g.down[e][i] = h.down[e][i]
          /\ g.down[e][Len(h.down[e]) + 1] = m /\ m.type # "commit"
      BY <3>1, AppendIsSeq
    <3> HIDE DEF m
    <3>3. ASSUME NEW i \in DOMAIN g.down[e], g.down[e][i].type = "commit"
          PROVE  i \in DOMAIN h.down[e] /\ h.down[e][i] = g.down[e][i]
      <4>1. i \in 1 .. Len(h.down[e]) \/ i = Len(h.down[e]) + 1
        BY <3>2
      <4>2. i # Len(h.down[e]) + 1
        BY <3>2, <3>3
      <4> QED BY <3>2, <4>1, <4>2
    <3> QED BY <3>2, <3>3
  <2>2. CASE e \notin here
    BY <1>1, <2>2 DEF HostShape
  <2> QED BY <2>1, <2>2
<1>6. HostShape(g)
  BY <1>1, <1>2, <1>3, <1>4, <1>5 DEF HostShape, SamePlaces
<1>7. SameCommits(h, g)
  BY <1>5 DEF SameCommits
<1>8. Thins(h, g, {})
  BY <1>1, <1>2, <1>3, <1>6, <1>7 DEF Thins
<1> QED BY <1>8 DEF g

-----------------------------------------------------------------------------
(* The invariant along the operations.                                     *)

Grows(h, g) == \A c \in Candidates(h) : Opened(h, c) => Opened(g, c)

HostKeeps(h, g) == HostInv(g) /\ Grows(h, g)

\* Candidates are out, and what was current may be one of them.
LEMMA WithdrawalKeeps ==
  ASSUME NEW h, HostInv(h), NEW k, NEW g, NEW D, Thins(k, g, D),
         k.candidate = h.candidate, k.tail = h.tail, k.down = h.down,
         k.current \in {h.current, Nobody}, k.pending \in {h.pending, Nobody},
         k.current # Nobody => k.current \notin D /\ Authorized(k, k.current),
         h.current # Nobody /\ k.current = Nobody => h.current \in D
  PROVE  HostKeeps(h, g)
<1>0. HostShape(h) /\ Placed(h) /\ Queued(h) /\ CommitsOpened(h)
  BY DEF HostInv
<1>1. /\ Candidates(k) = Candidates(h) /\ \A c : Of(k, c) = Of(h, c)
      /\ HostShape(g) /\ Candidates(g) = Candidates(h) /\ SamePlaces(k, g) /\ SameCommits(k, g)
  BY DEF Thins, Candidates, Of
<1>2. ASSUME NEW c \in Candidates(h)
      PROVE  /\ Fixed(Of(h, c), Of(g, c))
             /\ c \notin D => Of(g, c).state = Of(h, c).state /\ Of(g, c).physical = Of(h, c).physical
             /\ c \in D => Out(Of(h, c), Of(g, c))
  BY <1>1 DEF Thins
<1>3. Grows(h, g)
  BY <1>1, <1>2 DEF Grows, Opened, Out
<1>4. Placed(g)
  <2>1. g.current = k.current /\ g.pending = k.pending
    BY <1>1 DEF SamePlaces
  <2>2. ASSUME g.current # Nobody
        PROVE  /\ g.current \in Candidates(g) /\ g.pending # g.current
               /\ Of(g, g.current).state = "current" /\ Authorized(g, g.current)
    <3>1. g.current = h.current /\ h.current \in Candidates(h) /\ h.current \notin D
      BY <1>0, <2>1, <2>2 DEF Placed
    <3>2. Authorized(k, h.current)
      BY <2>1, <2>2, <3>1
    <3>3. Authorized(g, h.current)
      BY <1>1, <1>2, <3>1, <3>2 DEF Authorized, HasEntry, SamePlaces, Fixed
    <3> QED BY <1>0, <1>1, <1>2, <2>1, <2>2, <3>1, <3>3 DEF Placed
  <2>3. g.pending # Nobody => g.pending \in Candidates(g)
    BY <1>0, <1>1, <2>1 DEF Placed
  <2>4. ASSUME NEW c \in Candidates(g)
        PROVE  /\ Of(g, c).physical = "installed" \/ Of(g, c).state = "current" => c = g.current
               /\ Of(g, c).state \in {"prepared", "current"} =>
                    Of(g, c).settled /\ Of(g, c).confirmed = {"runner", "renderer"}
    <3>1. CASE c \in D
      <4>1. Of(g, c).state = "retired" /\ c \in Candidates(h) /\ Out(Of(h, c), Of(g, c))
        BY <1>1, <1>2, <3>1 DEF Out
      <4>2. Of(g, c).physical # "installed"
        <5> SUFFICES ASSUME Of(g, c).physical = "installed" PROVE FALSE
          OBVIOUS
        <5>1. Of(h, c).state = "retired" /\ Of(h, c).physical = "installed"
          BY <4>1 DEF Out
        <5>2. c = h.current /\ h.current # Nobody
          BY <1>0, <4>1, <5>1, SeqDomain DEF Placed, HostShape, Candidates
        <5> QED BY <1>0, <5>1, <5>2 DEF Placed
      <4> QED BY <4>1, <4>2
    <3>2. CASE c \notin D
      BY <1>0, <1>1, <1>2, <2>1, <3>2 DEF Placed, Fixed
    <3> QED BY <3>1, <3>2
  <2> QED BY <2>2, <2>3, <2>4 DEF Placed
<1>5. Queued(g)
  <2>1. g.tail = h.tail
    BY <1>1 DEF SamePlaces
  <2>2. \A c \in Candidates(h) : /\ Of(g, c).settled = Of(h, c).settled
                                 /\ Of(g, c).state \in {Of(h, c).state, "retired"}
    BY <1>2 DEF Fixed, Out
  <2> QED BY <1>0, <1>1, <2>1, <2>2 DEF Queued
<1>6. CommitsOpened(g)
  <2> SUFFICES ASSUME NEW e \in Ends, NEW i \in DOMAIN g.down[e], g.down[e][i].type = "commit"
               PROVE  Opened(g, g.down[e][i].c)
    BY DEF CommitsOpened
  <2>1. PICK j \in DOMAIN h.down[e] : h.down[e][j] = g.down[e][i]
    BY <1>1 DEF SameCommits
  <2>2. Opened(h, g.down[e][i].c)
    BY <1>0, <2>1 DEF CommitsOpened
  <2> QED BY <1>3, <2>2 DEF Grows, Opened
<1> QED BY <1>1, <1>3, <1>4, <1>5, <1>6 DEF HostKeeps, HostInv

\* What only sends, waits or rejects.
LEMMA ThinsKeeps ==
  ASSUME NEW h, HostInv(h), NEW g, Thins(h, g, {})
  PROVE  HostKeeps(h, g)
<1>1. h.current # Nobody => h.current \notin {} /\ Authorized(h, h.current)
  BY DEF HostInv, Placed
<1> QED BY <1>1, WithdrawalKeeps

LEMMA GrowsTransitive ==
  ASSUME NEW h, NEW g, NEW k, Grows(h, g), HostKeeps(g, k)
  PROVE  HostKeeps(h, k)
  BY DEF HostKeeps, Grows, Opened

\* A candidate that is not current is out.
LEMMA DisposeKeeps ==
  ASSUME NEW h, HostInv(h), NEW c \in Candidates(h), c # h.current
  PROVE  HostKeeps(h, DisposePending(h, c))
<1> DEFINE k == [h EXCEPT !.pending = Unless(@, c)]
           g == Retire(k, c)
<1>0. g = DisposePending(h, c)
  BY DEF DisposePending
<1>1. /\ HostFields \subseteq DOMAIN k /\ k.candidate = h.candidate /\ k.tail = h.tail /\ k.down = h.down
      /\ k.current = h.current /\ k.pending \in {h.pending, Nobody}
      /\ k.renderer = h.renderer /\ k.runtime = h.runtime /\ k.attached = h.attached
  BY DEF HostInv, HostShape, HostFields, Unless
<1> HIDE DEF k
<1>2. HostShape(k) /\ c \in Candidates(k)
  BY <1>1 DEF HostInv, HostShape, Candidates, Of
<1>3. Thins(k, g, {c})
  BY <1>2, RetireThins
<1>4. k.current # Nobody => k.current \notin {c} /\ Authorized(k, k.current)
  BY <1>1 DEF HostInv, Placed, Authorized, HasEntry, Of
<1> HIDE DEF g
<1>5. HostKeeps(h, g)
  BY <1>1, <1>3, <1>4, WithdrawalKeeps
<1> QED BY <1>0, <1>5

\* A connection that was current is lost.
LEMMA DiscardKeeps ==
  ASSUME NEW h, HostInv(h), h.current # Nobody
  PROVE  HostKeeps(h, Discard(h, h.current))
<1> DEFINE c == h.current
           k == [h EXCEPT !.current = Nobody]
           r == Retire(k, c)
           g == Schedule(r)
<1>0. g = Discard(h, h.current)
  BY DEF Discard
<1>1. /\ HostFields \subseteq DOMAIN k /\ k.candidate = h.candidate /\ k.tail = h.tail /\ k.down = h.down
      /\ k.current = Nobody /\ k.pending = h.pending
      /\ k.renderer = h.renderer /\ k.runtime = h.runtime /\ k.attached = h.attached
  BY DEF HostInv, HostShape, HostFields
<1>2. c \in Candidates(h)
  BY DEF HostInv, Placed
<1> HIDE DEF k, c
<1>3. HostShape(k) /\ c \in Candidates(k)
  BY <1>1, <1>2 DEF HostInv, HostShape, Candidates, Of
<1>4. Thins(k, r, {c})
  BY <1>3, RetireThins
<1> HIDE DEF r
<1>5. Thins(r, g, {})
  <2>1. HostFields \subseteq DOMAIN g /\ SamePlaces(r, g) /\ g.candidate = r.candidate /\ g.down = r.down
    BY <1>4 DEF Thins, HostShape, HostFields, SamePlaces, Schedule
  <2> HIDE DEF g
  <2> QED BY <1>4, <2>1, AsideThins DEF Thins
<1> HIDE DEF g
<1>6. Thins(k, g, {c})
  <2>1. {c} \cup {} = {c}
    OBVIOUS
  <2> QED BY <1>4, <1>5, <2>1, ThinsTransitive
<1>7. HostKeeps(h, g)
  BY <1>1, <1>6, WithdrawalKeeps DEF c
<1> QED BY <1>0, <1>7

-----------------------------------------------------------------------------
(* The tail of the operations.                                             *)

\* What the host looks like outside its tail.
SameBut(h, g) ==
    /\ HostFields \subseteq DOMAIN g
    /\ g.renderer = h.renderer /\ g.runtime = h.runtime /\ g.current = h.current
    /\ g.attached = h.attached /\ g.pending = h.pending /\ g.candidate = h.candidate /\ g.down = h.down

LEMMA SameButKeeps ==
  ASSUME NEW h, HostInv(h), NEW g, SameBut(h, g), IsSeq(g.tail), Queued(g)
  PROVE  HostKeeps(h, g)
<1>1. Candidates(g) = Candidates(h) /\ \A c : Of(g, c) = Of(h, c)
  BY DEF SameBut, Candidates, Of
<1>2. HostShape(g) /\ Grows(h, g)
  BY <1>1 DEF HostInv, HostShape, SameBut, Grows, Opened
<1>3. Placed(g)
  BY <1>1 DEF HostInv, Placed, SameBut, Authorized, HasEntry
<1>4. CommitsOpened(g)
  BY <1>1 DEF HostInv, CommitsOpened, SameBut, Opened
<1> QED BY <1>2, <1>3, <1>4 DEF HostKeeps, HostInv

\* A failure is queued behind what is there.
LEMMA EnqueueKeeps ==
  ASSUME NEW h, HostInv(h), NEW op, op \notin {"install", "dispose"}, NEW c, c # Nobody
  PROVE  HostKeeps(h, Enqueue(h, op, c)) /\ SameBut(h, Enqueue(h, op, c))
<1> DEFINE t == [op |-> op, c |-> c]
           g == Enqueue(h, op, c)
<1>1. SameBut(h, g) /\ g.tail = Append(h.tail, t) /\ t.op \notin {"install", "dispose"}
  BY DEF HostInv, HostShape, HostFields, SameBut, Enqueue
<1> HIDE DEF t, g
<1>2. /\ IsSeq(g.tail) /\ Len(h.tail) \in Nat /\ Len(g.tail) = Len(h.tail) + 1
      /\ \A i \in 1 .. Len(h.tail) : g.tail[i] = h.tail[i]
      /\ g.tail[Len(h.tail) + 1] = t
  BY <1>1, AppendIsSeq DEF HostInv, HostShape
<1>3. Candidates(g) = Candidates(h) /\ \A x : Of(g, x) = Of(h, x)
  BY <1>1 DEF SameBut, Candidates, Of
<1>4. Queued(g)
  <2>1. \A i \in 1 .. Len(g.tail) : g.tail[i].op \in {"install", "dispose"} => i \in 1 .. Len(h.tail)
    BY <1>1, <1>2
  <2>2. ASSUME NEW i \in 1 .. Len(g.tail)
        PROVE  g.tail[i].c # Nobody
    <3>1. CASE i \in 1 .. Len(h.tail)
      <4>1. g.tail[i] = h.tail[i]
        BY <1>2, <3>1
      <4> QED BY <3>1, <4>1 DEF HostInv, Queued
    <3>2. CASE i = Len(h.tail) + 1
      <4>1. g.tail[i] = t
        BY <1>2, <3>2
      <4> QED BY <4>1 DEF t
    <3>3. i \in 1 .. Len(h.tail) \/ i = Len(h.tail) + 1
      BY <1>2
    <3> QED BY <3>1, <3>2, <3>3
  <2>3. ASSUME NEW i \in 1 .. Len(g.tail), g.tail[i].op \in {"install", "dispose"}
        PROVE  /\ g.tail[i].c \in Candidates(g) /\ Of(g, g.tail[i].c).settled
               /\ g.tail[i].op = "install" => Of(g, g.tail[i].c).state \in {"prepared", "retired"}
               /\ g.tail[i].op = "dispose" => Of(g, g.tail[i].c).state \notin {"prepared", "current"}
    <3>1. i \in 1 .. Len(h.tail) /\ g.tail[i] = h.tail[i]
      BY <1>2, <2>1, <2>3
    <3> QED BY <1>3, <2>3, <3>1 DEF HostInv, Queued
  <2>4. ASSUME NEW i \in 1 .. Len(g.tail), g.tail[i].op = "install",
               NEW j \in 1 .. Len(g.tail), g.tail[j].op = "install", g.tail[j].c = g.tail[i].c
        PROVE  j = i
    <3>1. /\ i \in 1 .. Len(h.tail) /\ g.tail[i] = h.tail[i]
          /\ j \in 1 .. Len(h.tail) /\ g.tail[j] = h.tail[j]
      BY <1>2, <2>1, <2>4
    <3> QED BY <2>4, <3>1 DEF HostInv, Queued
  <2> QED BY <2>2, <2>3, <2>4 DEF Queued
<1>5. HostKeeps(h, g)
  BY <1>1, <1>2, <1>4, SameButKeeps
<1> QED BY <1>1, <1>5 DEF g

LEMMA HeadInTail ==
  ASSUME NEW h, HostInv(h), h.tail # <<>>
  PROVE  /\ Len(h.tail) \in Nat /\ 1 \in 1 .. Len(h.tail) /\ Head(h.tail) = h.tail[1]
         /\ IsSeq(Tail(h.tail)) /\ Len(Tail(h.tail)) = Len(h.tail) - 1
         /\ \A i \in 1 .. Len(h.tail) - 1 : Tail(h.tail)[i] = h.tail[i + 1] /\ i + 1 \in 1 .. Len(h.tail)
  BY TailIsSeq DEF HostInv, HostShape

\* The head of the tail is taken: what it is about is as it was left or retired,
\* and nothing else in the tail installs it.
LEMMA DequeueKeeps ==
  ASSUME NEW h, HostInv(h), h.tail # <<>>
  PROVE  LET g == [h EXCEPT !.tail = Tail(@)]
             t == Head(h.tail)
         IN  /\ HostKeeps(h, g) /\ SameBut(h, g)
             /\ t.c # Nobody
             /\ t.op \in {"install", "dispose"} => t.c \in Candidates(g) /\ t.c # g.current
             /\ t.op = "install" => \A i \in 1 .. Len(g.tail) : g.tail[i].op = "install" => g.tail[i].c # t.c
<1> DEFINE g == [h EXCEPT !.tail = Tail(h.tail)]
           t == Head(h.tail)
<1>1. SameBut(h, g) /\ g.tail = Tail(h.tail)
  BY DEF HostInv, HostShape, HostFields, SameBut
<1> HIDE DEF g
<1>2. /\ Len(h.tail) \in Nat /\ 1 \in 1 .. Len(h.tail) /\ t = h.tail[1] /\ IsSeq(g.tail)
      /\ Len(g.tail) = Len(h.tail) - 1
      /\ \A i \in 1 .. Len(g.tail) : g.tail[i] = h.tail[i + 1] /\ i + 1 \in 1 .. Len(h.tail)
  BY <1>1, HeadInTail
<1> HIDE DEF t
<1>3. Candidates(g) = Candidates(h) /\ \A x : Of(g, x) = Of(h, x)
  BY <1>1 DEF SameBut, Candidates, Of
<1>4. Queued(g)
  <2> SUFFICES ASSUME NEW i \in 1 .. Len(g.tail)
               PROVE  /\ g.tail[i].c # Nobody
                      /\ g.tail[i].op \in {"install", "dispose"} =>
                           g.tail[i].c \in Candidates(g) /\ Of(g, g.tail[i].c).settled
                      /\ g.tail[i].op = "install" =>
                           /\ Of(g, g.tail[i].c).state \in {"prepared", "retired"}
                           /\ \A j \in 1 .. Len(g.tail) :
                                g.tail[j].op = "install" /\ g.tail[j].c = g.tail[i].c => j = i
                      /\ g.tail[i].op = "dispose" =>
                           Of(g, g.tail[i].c).state \notin {"prepared", "current"}
    BY DEF Queued
  <2>1. g.tail[i] = h.tail[i + 1] /\ i + 1 \in 1 .. Len(h.tail)
    BY <1>2
  <2>2. ASSUME g.tail[i].op = "install", NEW j \in 1 .. Len(g.tail),
               g.tail[j].op = "install", g.tail[j].c = g.tail[i].c
        PROVE  j = i
    <3>1. g.tail[j] = h.tail[j + 1] /\ j + 1 \in 1 .. Len(h.tail)
      BY <1>2
    <3>2. j + 1 = i + 1
      BY <2>1, <2>2, <3>1 DEF HostInv, Queued
    <3> QED BY <1>2, <3>2
  <2> QED BY <1>3, <2>1, <2>2 DEF HostInv, Queued
<1>5. HostKeeps(h, g)
  BY <1>1, <1>2, <1>4, SameButKeeps
<1>6. ASSUME t.op \in {"install", "dispose"}
      PROVE  t.c \in Candidates(g) /\ t.c # g.current
  <2>1. t.c \in Candidates(h) /\ Of(h, t.c).state # "current"
    BY <1>2, <1>6 DEF HostInv, Queued
  <2>2. t.c # Nobody
    BY <2>1, SeqDomain DEF HostInv, HostShape, Candidates
  <2> QED BY <1>1, <1>3, <2>1, <2>2 DEF HostInv, Placed, SameBut
<1>7. ASSUME t.op = "install", NEW i \in 1 .. Len(g.tail), g.tail[i].op = "install"
      PROVE  g.tail[i].c # t.c
  <2>1. g.tail[i] = h.tail[i + 1] /\ i + 1 \in 1 .. Len(h.tail) /\ i + 1 # 1
    BY <1>2
  <2> QED BY <1>2, <1>7, <2>1 DEF HostInv, Queued
<1>8. g = [h EXCEPT !.tail = Tail(@)]
  BY DEF g
<1>9. t.c # Nobody
  BY <1>2 DEF HostInv, Queued
<1> QED BY <1>1, <1>5, <1>6, <1>7, <1>8, <1>9 DEF t

-----------------------------------------------------------------------------
(* Install.                                                                *)

CommitsFrom(h, g, c) ==
    \A e \in Ends : \A i \in DOMAIN g.down[e] :
        g.down[e][i].type = "commit" =>
            g.down[e][i].c = c \/ \E j \in DOMAIN h.down[e] : h.down[e][j] = g.down[e][i]

\* A commit is sent, or nothing.
LEMMA CommitSends ==
  ASSUME NEW h, HostShape(h), NEW e \in Ends, NEW c
  PROVE  LET g == SendTo(h, e, "commit", c)
         IN  /\ HostShape(g) /\ SamePlaces(h, g) /\ g.candidate = h.candidate /\ CommitsFrom(h, g, c)
<1>1. CASE e \in h.unreachable
  BY <1>1 DEF SendTo, SamePlaces, CommitsFrom
<1>2. CASE e \notin h.unreachable
  <2> DEFINE m == [type |-> "commit", c |-> c]
             g == [h EXCEPT !.down[e] = Append(@, m)]
  <2>1. SendTo(h, e, "commit", c) = g
    BY <1>2 DEF SendTo
  <2>2. /\ HostFields \subseteq DOMAIN g /\ SamePlaces(h, g) /\ g.candidate = h.candidate
        /\ g.down = [h.down EXCEPT ![e] = Append(h.down[e], m)] /\ m.c = c
    BY DEF HostShape, HostFields, SamePlaces
  <2> HIDE DEF g, m
  <2>3. /\ DOMAIN g.down = Ends /\ g.down[e] = Append(h.down[e], m)
        /\ \A x \in Ends : x # e => g.down[x] = h.down[x]
    BY <2>2 DEF HostShape
  <2>4. /\ IsSeq(g.down[e]) /\ Len(h.down[e]) \in Nat /\ DOMAIN h.down[e] = 1 .. Len(h.down[e])
        /\ DOMAIN g.down[e] = 1 .. Len(h.down[e]) + 1
        /\ \A i \in 1 .. Len(h.down[e]) : g.down[e][i] = h.down[e][i]
        /\ g.down[e][Len(h.down[e]) + 1] = m
    BY <2>3, AppendIsSeq DEF HostShape
  <2>5. HostShape(g)
    BY <2>2, <2>3, <2>4 DEF HostShape, SamePlaces, Candidates, Of
  <2>6. CommitsFrom(h, g, c)
    <3> SUFFICES ASSUME NEW x \in Ends, NEW i \in DOMAIN g.down[x]
                 PROVE  g.down[x][i].c = c \/ \E j \in DOMAIN h.down[x] : h.down[x][j] = g.down[x][i]
      BY DEF CommitsFrom
    <3>1. CASE x # e
      BY <2>3, <3>1
    <3>2. CASE x = e
      BY <2>2, <2>4, <3>2
    <3> QED BY <3>1, <3>2
  <2> QED BY <2>1, <2>2, <2>5, <2>6
<1> QED BY <1>1, <1>2

\* What a rejection of the commit leaves in the tail.
Undelivered(s, c) == {s, Append(s, [op |-> "undelivered", c |-> c])}

LEMMA CommitRunnerSends ==
  ASSUME NEW h, HostShape(h), NEW c
  PROVE  LET g == CommitRunner(h, c)
         IN  /\ HostShape(g) /\ g.renderer = h.renderer /\ g.runtime = h.runtime
             /\ g.current = h.current /\ g.pending = h.pending /\ g.candidate = h.candidate
             /\ g.tail \in Undelivered(h.tail, c) /\ CommitsFrom(h, g, c)
<1> DEFINE t == [op |-> "undelivered", c |-> c]
           u == Enqueue(h, "undelivered", c)
           k == [h EXCEPT !.provisioner.committing = c]
           g == SendTo(k, Runner, "commit", c)
<1>1. CommitRunner(h, c) \in {u, g}
  BY DEF CommitRunner
<1>2. /\ HostFields \subseteq DOMAIN u /\ u.attached = h.attached /\ u.renderer = h.renderer /\ u.runtime = h.runtime
      /\ u.current = h.current /\ u.pending = h.pending /\ u.candidate = h.candidate
      /\ u.tail = Append(h.tail, t) /\ u.down = h.down
  BY DEF HostShape, HostFields, Enqueue
<1>3. /\ HostFields \subseteq DOMAIN k /\ SamePlaces(h, k) /\ k.candidate = h.candidate /\ k.down = h.down
  BY DEF HostShape, HostFields, SamePlaces
<1> HIDE DEF u, k, t
<1>4. HostShape(u) /\ CommitsFrom(h, u, c)
  <2>1. IsSeq(u.tail)
    BY <1>2, AppendIsSeq DEF HostShape
  <2> QED BY <1>2, <2>1 DEF HostShape, CommitsFrom, Candidates, Of
<1>5. HostShape(k)
  BY <1>3 DEF HostShape, SamePlaces, Candidates, Of
<1>6. Runner \in Ends
  BY DEF Ends
<1>7. HostShape(g) /\ SamePlaces(k, g) /\ g.candidate = k.candidate /\ CommitsFrom(k, g, c)
  BY <1>5, <1>6, CommitSends
<1> HIDE DEF g
<1>8. SamePlaces(h, g) /\ g.candidate = h.candidate /\ CommitsFrom(h, g, c)
  BY <1>3, <1>7 DEF SamePlaces, CommitsFrom
<1>9. u.tail \in Undelivered(h.tail, c) /\ h.tail \in Undelivered(h.tail, c)
  BY <1>2 DEF Undelivered, t
<1> QED BY <1>1, <1>2, <1>4, <1>7, <1>8, <1>9 DEF SamePlaces

\* The candidate takes the place of what was current, which is retired.
Cleared(h) ==
    IF h.current = Nobody THEN h ELSE Abort(WithState(h, h.current, "retired"), h.current)

Installing(h, c) ==
    [Cleared(h) EXCEPT !.pending = Nobody, !.current = c, !.candidate[c].state = "current"]

Succession(h, g, c) ==
    /\ HostShape(g) /\ SameCommits(h, g) /\ Candidates(g) = Candidates(h)
    /\ g.renderer = h.renderer /\ g.runtime = h.runtime /\ g.tail = h.tail
    /\ g.attached \subseteq h.attached /\ g.current = c /\ g.pending = Nobody
    /\ \A x \in Candidates(h) :
         /\ Fixed(Of(h, x), Of(g, x)) /\ Of(g, x).physical = Of(h, x).physical
         /\ Of(g, x).state = IF x = c THEN "current"
                             ELSE IF x = h.current THEN "retired" ELSE Of(h, x).state

LEMMA ClearedEffect ==
  ASSUME NEW h, HostInv(h)
  PROVE  LET g == Cleared(h)
         IN  /\ HostShape(g) /\ SamePlaces(h, g) /\ SameCommits(h, g) /\ Candidates(g) = Candidates(h)
             /\ \A x \in Candidates(h) :
                  /\ Fixed(Of(h, x), Of(g, x)) /\ Of(g, x).physical = Of(h, x).physical
                  /\ Of(g, x).state = IF x = h.current THEN "retired" ELSE Of(h, x).state
<1>0. HostShape(h) /\ Nobody \notin Candidates(h)
  BY SeqDomain DEF HostInv, HostShape, Candidates
<1>1. CASE h.current = Nobody
  BY <1>0, <1>1 DEF Cleared, SamePlaces, SameCommits, Fixed
<1>2. CASE h.current # Nobody
  <2> DEFINE old == h.current
             k == WithState(h, old, "retired")
             g == Abort(k, old)
  <2>1. old \in Candidates(h)
    BY <1>2 DEF HostInv, Placed
  <2>2. /\ HostShape(k) /\ Candidates(k) = Candidates(h) /\ SamePlaces(h, k) /\ k.down = h.down
        /\ \A x \in Candidates(h) : Fixed(Of(h, x), Of(k, x)) /\ Of(k, x).physical = Of(h, x).physical
        /\ \A x \in Candidates(h) : Of(k, x).state = IF x = old THEN "retired" ELSE Of(h, x).state
    BY <1>0, <2>1, StateSet
  <2>3. g = Cleared(h)
    BY <1>2 DEF Cleared
  <2> HIDE DEF k
  <2>4. Thins(k, g, {})
    BY <2>1, <2>2, AbortThins
  <2> HIDE DEF g
  <2>5. SamePlaces(h, g) /\ SameCommits(h, g) /\ HostShape(g) /\ Candidates(g) = Candidates(h)
    BY <2>2, <2>4 DEF Thins, SamePlaces, SameCommits
  <2>6. \A x \in Candidates(h) :
           /\ Fixed(Of(h, x), Of(g, x)) /\ Of(g, x).physical = Of(h, x).physical
           /\ Of(g, x).state = IF x = old THEN "retired" ELSE Of(h, x).state
    BY <2>2, <2>4 DEF Thins, Fixed
  <2> QED BY <2>3, <2>5, <2>6
<1> QED BY <1>1, <1>2

LEMMA InstallingEffect ==
  ASSUME NEW h, HostInv(h), NEW c \in Candidates(h)
  PROVE  Succession(h, Installing(h, c), c)
<1> DEFINE k == Cleared(h)
           j == WithState(k, c, "current")
           g == Installing(h, c)
<1>1. /\ HostShape(k) /\ SamePlaces(h, k) /\ SameCommits(h, k) /\ Candidates(k) = Candidates(h)
      /\ \A x \in Candidates(h) :
           /\ Fixed(Of(h, x), Of(k, x)) /\ Of(k, x).physical = Of(h, x).physical
           /\ Of(k, x).state = IF x = h.current THEN "retired" ELSE Of(h, x).state
  BY ClearedEffect
<1>2. /\ HostFields \subseteq DOMAIN g /\ g.attached = k.attached /\ g.renderer = k.renderer /\ g.runtime = k.runtime
      /\ g.tail = k.tail /\ g.down = k.down /\ g.current = c /\ g.pending = Nobody
      /\ g.candidate = j.candidate
  <2> HIDE DEF k
  <2>1. g = [k EXCEPT !.pending = Nobody, !.current = c, !.candidate[c].state = "current"]
    BY DEF Installing, k
  <2> QED BY <1>1, <2>1 DEF HostShape, HostFields, WithState
<1> HIDE DEF k
<1>3. /\ HostShape(j) /\ Candidates(j) = Candidates(k)
      /\ \A x \in Candidates(k) : Fixed(Of(k, x), Of(j, x)) /\ Of(j, x).physical = Of(k, x).physical
      /\ \A x \in Candidates(k) : Of(j, x).state = IF x = c THEN "current" ELSE Of(k, x).state
  BY <1>1, StateSet
<1> HIDE DEF j, g
<1>4. Candidates(g) = Candidates(h) /\ \A x : Of(g, x) = Of(j, x)
  BY <1>1, <1>2, <1>3 DEF Candidates, Of
<1>5. HostShape(g)
  BY <1>1, <1>2, <1>3, <1>4 DEF HostShape
<1>6. SameCommits(h, g)
  BY <1>1, <1>2 DEF SameCommits
<1>7. ASSUME NEW x \in Candidates(h)
      PROVE  /\ Fixed(Of(h, x), Of(g, x)) /\ Of(g, x).physical = Of(h, x).physical
             /\ Of(g, x).state = IF x = c THEN "current"
                                 ELSE IF x = h.current THEN "retired" ELSE Of(h, x).state
  BY <1>1, <1>3, <1>4 DEF Fixed
<1>8. Succession(h, g, c)
  BY <1>1, <1>2, <1>4, <1>5, <1>6, <1>7 DEF Succession, SamePlaces
<1> QED BY <1>8 DEF g

\* The relay of the candidate is open, both ends are told, and the old connection
\* is cleaned up or was not there.
LEMMA InstalledKeeps ==
  ASSUME NEW h, HostInv(h), NEW c \in Candidates(h), c # h.current, Authorized(h, c),
         Of(h, c).state = "prepared",
         \A i \in 1 .. Len(h.tail) : h.tail[i].op = "install" => h.tail[i].c # c,
         NEW g, HostShape(g), Candidates(g) = Candidates(h), CommitsFrom(h, g, c),
         g.renderer = h.renderer, g.runtime = h.runtime, g.tail \in Undelivered(h.tail, c),
         g.current = c, g.pending = Nobody,
         \A x \in Candidates(h) :
            /\ Fixed(Of(h, x), Of(g, x))
            /\ Of(g, x).state = IF x = c THEN "current"
                                ELSE IF x = h.current THEN "retired" ELSE Of(h, x).state
            /\ Of(g, x).physical = IF x = c THEN "installed"
                                   ELSE IF x = h.current THEN "retired" ELSE Of(h, x).physical
  PROVE  HostKeeps(h, g)
<1>0. HostShape(h) /\ Placed(h) /\ Queued(h) /\ CommitsOpened(h) /\ Nobody \notin Candidates(h)
  BY SeqDomain DEF HostInv, HostShape, Candidates
<1>1. Grows(h, g)
  BY DEF Grows, Opened
<1>2. Opened(g, c)
  BY DEF Opened
<1>3. Placed(g)
  <2>1. Authorized(g, c)
    BY DEF Authorized, HasEntry, Fixed
  <2>2. ASSUME NEW x \in Candidates(g)
        PROVE  /\ Of(g, x).physical = "installed" \/ Of(g, x).state = "current" => x = c
               /\ Of(g, x).state \in {"prepared", "current"} =>
                    Of(g, x).settled /\ Of(g, x).confirmed = {"runner", "renderer"}
    BY <1>0 DEF Placed, Fixed
  <2> QED BY <1>0, <2>1, <2>2 DEF Placed
<1>4. Queued(g)
  <2>1. ASSUME NEW i \in 1 .. Len(g.tail), g.tail[i].op \in {"install", "dispose"}
        PROVE  i \in 1 .. Len(h.tail) /\ g.tail[i] = h.tail[i]
    <3> DEFINE t == [op |-> "undelivered", c |-> c]
    <3>1. t.op \notin {"install", "dispose"} /\ (g.tail = h.tail \/ g.tail = Append(h.tail, t))
      BY DEF Undelivered
    <3> HIDE DEF t
    <3>2. /\ Len(h.tail) \in Nat /\ Len(Append(h.tail, t)) = Len(h.tail) + 1
          /\ \A j \in 1 .. Len(h.tail) : Append(h.tail, t)[j] = h.tail[j]
          /\ Append(h.tail, t)[Len(h.tail) + 1] = t
      BY <1>0, AppendIsSeq DEF HostShape
    <3>3. CASE g.tail = h.tail
      BY <2>1, <3>3
    <3>4. CASE g.tail = Append(h.tail, t)
      <4>1. i \in 1 .. Len(h.tail) \/ i = Len(h.tail) + 1
        BY <3>2, <3>4
      <4>2. i # Len(h.tail) + 1
        BY <2>1, <3>1, <3>2, <3>4
      <4> QED BY <3>2, <3>4, <4>1, <4>2
    <3> QED BY <3>1, <3>3, <3>4
  <2>2. ASSUME NEW i \in 1 .. Len(h.tail), h.tail[i].op \in {"install", "dispose"}
        PROVE  h.tail[i].c \in Candidates(h) /\ h.tail[i].c # c
    BY <1>0, <2>2 DEF Queued
  <2>3. \A i \in 1 .. Len(g.tail) : g.tail[i].c # Nobody
    <3>1. c # Nobody
      BY <1>0
    <3>2. /\ Len(h.tail) \in Nat /\ Len(Append(h.tail, [op |-> "undelivered", c |-> c])) = Len(h.tail) + 1
          /\ \A j \in 1 .. Len(h.tail) : Append(h.tail, [op |-> "undelivered", c |-> c])[j] = h.tail[j]
          /\ Append(h.tail, [op |-> "undelivered", c |-> c])[Len(h.tail) + 1].c = c
      BY <1>0, AppendIsSeq DEF HostShape
    <3>3. \A j \in 1 .. Len(h.tail) : h.tail[j].c # Nobody
      BY <1>0 DEF Queued
    <3>4. CASE g.tail = h.tail
      BY <3>3, <3>4
    <3>5. CASE g.tail = Append(h.tail, [op |-> "undelivered", c |-> c])
      <4>1. \A i \in 1 .. Len(g.tail) : i \in 1 .. Len(h.tail) \/ i = Len(h.tail) + 1
        BY <3>2, <3>5
      <4> QED BY <3>1, <3>2, <3>3, <3>5, <4>1
    <3> QED BY <3>4, <3>5 DEF Undelivered
  <2>4. ASSUME NEW x \in Candidates(h), x # c
        PROVE  /\ Of(h, x).settled => Of(g, x).settled
               /\ Of(g, x).state \in {Of(h, x).state, "retired"}
    BY <2>4 DEF Fixed
  <2>5. ASSUME NEW i \in 1 .. Len(g.tail), g.tail[i].op \in {"install", "dispose"}
        PROVE  /\ g.tail[i].c \in Candidates(g) /\ Of(g, g.tail[i].c).settled
               /\ g.tail[i].op = "install" => Of(g, g.tail[i].c).state \in {"prepared", "retired"}
               /\ g.tail[i].op = "dispose" => Of(g, g.tail[i].c).state \notin {"prepared", "current"}
    <3>1. i \in 1 .. Len(h.tail) /\ g.tail[i] = h.tail[i] /\ g.tail[i].c \in Candidates(h) /\ g.tail[i].c # c
      BY <2>1, <2>2, <2>5
    <3> QED BY <1>0, <2>4, <2>5, <3>1 DEF Queued
  <2>6. ASSUME NEW i \in 1 .. Len(g.tail), g.tail[i].op = "install",
               NEW j \in 1 .. Len(g.tail), g.tail[j].op = "install", g.tail[j].c = g.tail[i].c
        PROVE  j = i
    BY <1>0, <2>1, <2>6 DEF Queued
  <2> QED BY <2>3, <2>5, <2>6 DEF Queued
<1>5. CommitsOpened(g)
  <2> SUFFICES ASSUME NEW e \in Ends, NEW i \in DOMAIN g.down[e], g.down[e][i].type = "commit"
               PROVE  Opened(g, g.down[e][i].c)
    BY DEF CommitsOpened
  <2>1. CASE g.down[e][i].c = c
    BY <1>2, <2>1
  <2>2. CASE g.down[e][i].c # c
    <3>1. PICK j \in DOMAIN h.down[e] : h.down[e][j] = g.down[e][i]
      BY <2>2 DEF CommitsFrom
    <3>2. Opened(h, g.down[e][i].c)
      BY <1>0, <3>1 DEF CommitsOpened
    <3> QED BY <1>1, <3>2 DEF Grows, Opened
  <2> QED BY <2>1, <2>2
<1> QED BY <1>1, <1>3, <1>4, <1>5 DEF HostKeeps, HostInv

\* The old connection is cleaned up, if there was one.
LEMMA OldCleaned ==
  ASSUME NEW h, HostInv(h), NEW g, HostShape(g), Candidates(g) = Candidates(h),
         h.current # Nobody => Of(g, h.current).state = "retired"
  PROVE  LET z == IF h.current = Nobody THEN g ELSE CleanupRetired(g, h.current)
         IN  /\ HostShape(z) /\ SamePlaces(g, z) /\ SameCommits(g, z) /\ Candidates(z) = Candidates(h)
             /\ \A x \in Candidates(h) :
                  /\ Fixed(Of(g, x), Of(z, x)) /\ Of(z, x).state = Of(g, x).state
                  /\ Of(z, x).physical = IF x = h.current THEN "retired" ELSE Of(g, x).physical
<1>1. CASE h.current = Nobody
  <2>1. Nobody \notin Candidates(h)
    BY SeqDomain DEF HostInv, HostShape, Candidates
  <2> QED BY <1>1, <2>1 DEF SamePlaces, SameCommits, Fixed
<1>2. CASE h.current # Nobody
  <2> DEFINE z == CleanupRetired(g, h.current)
  <2>1. h.current \in Candidates(g)
    BY <1>2 DEF HostInv, Placed
  <2>2. Thins(g, z, {h.current}) /\ Of(z, h.current).physical = "retired"
    BY <1>2, <2>1, CleanupThins
  <2> HIDE DEF z
  <2>3. HostShape(z) /\ SamePlaces(g, z) /\ SameCommits(g, z) /\ Candidates(z) = Candidates(h)
    BY <2>2 DEF Thins
  <2>4. \A x \in Candidates(h) :
           /\ Fixed(Of(g, x), Of(z, x)) /\ Of(z, x).state = Of(g, x).state
           /\ Of(z, x).physical = IF x = h.current THEN "retired" ELSE Of(g, x).physical
    BY <1>2, <2>2 DEF Thins, Out
  <2> QED BY <1>2, <2>3, <2>4 DEF z
<1> QED BY <1>1, <1>2

LEMMA InstallKeeps ==
  ASSUME NEW h, HostInv(h), NEW c \in Candidates(h), c # h.current,
         \A i \in 1 .. Len(h.tail) : h.tail[i].op = "install" => h.tail[i].c # c
  PROVE  HostKeeps(h, Install(h, c))
<1> DEFINE old == h.current
           placed == Installing(h, c)
           opened == WithPhysical(placed, c, "installed")
           told == CommitRunner(SendTo(opened, h.renderer, "commit", c), c)
           off == [placed EXCEPT !.current = Nobody]
           failed == Retire(off, c)
           last(g) == IF old = Nobody THEN g ELSE CleanupRetired(g, old)
<1>0. HostShape(h) /\ Nobody \notin Candidates(h)
  BY SeqDomain DEF HostInv, HostShape, Candidates
<1>1. /\ Succession(h, placed, c)
      /\ HostShape(placed) /\ SameCommits(h, placed) /\ Candidates(placed) = Candidates(h)
      /\ placed.renderer = h.renderer /\ placed.runtime = h.runtime /\ placed.tail = h.tail
      /\ placed.attached \subseteq h.attached /\ placed.current = c /\ placed.pending = Nobody
      /\ \A x \in Candidates(h) :
           /\ Fixed(Of(h, x), Of(placed, x)) /\ Of(placed, x).physical = Of(h, x).physical
           /\ Of(placed, x).state = IF x = c THEN "current"
                                    ELSE IF x = old THEN "retired" ELSE Of(h, x).state
  BY InstallingEffect DEF Succession
<1>2. CASE h.pending # c \/ Of(h, c).state # "prepared" \/ ~Authorized(h, c)
  <2>1. Install(h, c) = DisposePending(h, c)
    BY <1>2 DEF Install
  <2> QED BY <2>1, DisposeKeeps
<1>3. CASE ~(h.pending # c \/ Of(h, c).state # "prepared" \/ ~Authorized(h, c))
  <2>1. Install(h, c) = last(told) \/ Install(h, c) = last(failed)
    <3>1. Installing(h, c) = [(IF old = Nobody THEN h ELSE Abort([h EXCEPT !.candidate[old].state = "retired"], old))
                                EXCEPT !.pending = Nobody, !.current = c, !.candidate[c].state = "current"]
      BY DEF Installing, Cleared, WithState
    <3>2. CASE Of(h, c).physical = "preparing" /\ h.renderer \notin h.unreachable
      <4>1. Install(h, c) = last(told)
        BY <1>3, <3>1, <3>2, SMTT(20) DEF Install, WithPhysical
      <4> QED BY <4>1
    <3>3. CASE ~(Of(h, c).physical = "preparing" /\ h.renderer \notin h.unreachable)
      <4>1. Install(h, c) = last(failed)
        BY <1>3, <3>1, <3>3, SMTT(20) DEF Install
      <4> QED BY <4>1
    <3> QED BY <3>2, <3>3
  <2>2. HostKeeps(h, last(told))
    <3> DEFINE sent == SendTo(opened, h.renderer, "commit", c)
               z == last(told)
    <3>1. /\ HostShape(opened) /\ Candidates(opened) = Candidates(h) /\ SamePlaces(placed, opened)
          /\ opened.down = placed.down
          /\ \A x \in Candidates(h) : Fixed(Of(placed, x), Of(opened, x)) /\ Of(opened, x).state = Of(placed, x).state
          /\ \A x \in Candidates(h) : Of(opened, x).physical = IF x = c THEN "installed" ELSE Of(placed, x).physical
      BY <1>1, PhysicalSet
    <3>2. h.renderer \in Ends
      BY <1>0, <1>3 DEF Authorized, HasEntry, HostShape, Ends
    <3> HIDE DEF opened, placed
    <3>3. HostShape(sent) /\ SamePlaces(opened, sent) /\ sent.candidate = opened.candidate /\ CommitsFrom(opened, sent, c)
      BY <3>1, <3>2, CommitSends
    <3> HIDE DEF sent
    <3>4. /\ HostShape(told) /\ told.renderer = sent.renderer /\ told.runtime = sent.runtime
          /\ told.current = sent.current /\ told.pending = sent.pending /\ told.candidate = sent.candidate
          /\ told.tail \in Undelivered(sent.tail, c) /\ CommitsFrom(sent, told, c)
      BY <3>3, CommitRunnerSends DEF sent
    <3> HIDE DEF told
    <3>5. Candidates(told) = Candidates(h) /\ \A x : Of(told, x) = Of(opened, x)
      BY <3>1, <3>3, <3>4 DEF Candidates, Of
    <3>6. old # Nobody => Of(told, old).state = "retired"
      BY <1>1, <3>1, <3>5 DEF HostInv, Placed
    <3>7. /\ HostShape(z) /\ SamePlaces(told, z) /\ SameCommits(told, z) /\ Candidates(z) = Candidates(h)
          /\ \A x \in Candidates(h) :
               /\ Fixed(Of(told, x), Of(z, x)) /\ Of(z, x).state = Of(told, x).state
               /\ Of(z, x).physical = IF x = old THEN "retired" ELSE Of(told, x).physical
      BY <3>4, <3>5, <3>6, OldCleaned
    <3> HIDE DEF z
    <3>8. /\ z.renderer = h.renderer /\ z.runtime = h.runtime /\ z.tail \in Undelivered(h.tail, c)
          /\ z.current = c /\ z.pending = Nobody
      BY <1>1, <3>1, <3>3, <3>4, <3>7 DEF SamePlaces
    <3>9. CommitsFrom(h, z, c)
      <4>1. CommitsFrom(h, opened, c)
        BY <1>1, <3>1 DEF SameCommits, CommitsFrom
      <4>2. CommitsFrom(h, sent, c)
        BY <3>3, <4>1 DEF CommitsFrom
      <4>3. CommitsFrom(h, told, c)
        BY <3>4, <4>2 DEF CommitsFrom
      <4> QED BY <3>7, <4>3 DEF CommitsFrom, SameCommits
    <3>10. ASSUME NEW x \in Candidates(h)
           PROVE  /\ Fixed(Of(h, x), Of(z, x))
                  /\ Of(z, x).state = IF x = c THEN "current"
                                      ELSE IF x = old THEN "retired" ELSE Of(h, x).state
                  /\ Of(z, x).physical = IF x = c THEN "installed"
                                         ELSE IF x = old THEN "retired" ELSE Of(h, x).physical
      BY <1>1, <3>1, <3>5, <3>7 DEF Fixed
    <3>11. HostKeeps(h, z)
      BY <1>3, <3>7, <3>8, <3>9, <3>10, InstalledKeeps
    <3> QED BY <3>11 DEF z
  <2>3. HostKeeps(h, last(failed))
    <3> DEFINE z == last(failed)
               k == [h EXCEPT !.current = Nobody, !.pending = Nobody]
               D == {c, old}
    <3> HIDE DEF placed
    <3>1. /\ HostFields \subseteq DOMAIN off /\ off.attached = placed.attached
          /\ off.renderer = h.renderer /\ off.runtime = h.runtime
          /\ off.tail = h.tail /\ off.current = Nobody /\ off.pending = Nobody
          /\ off.candidate = placed.candidate /\ off.down = placed.down
      BY <1>1 DEF HostShape, HostFields
    <3>2. /\ k.renderer = h.renderer /\ k.runtime = h.runtime /\ k.tail = h.tail /\ k.down = h.down
          /\ k.current = Nobody /\ k.pending = Nobody /\ k.candidate = h.candidate
          /\ k.attached = h.attached
      BY <1>0 DEF HostShape, HostFields
    <3> HIDE DEF off, k
    <3>3. HostShape(off) /\ Candidates(off) = Candidates(h) /\ \A x : Of(off, x) = Of(placed, x)
      BY <1>1, <3>1 DEF HostShape, Candidates, Of
    <3>4. Thins(off, failed, {c})
      BY <3>3, RetireThins
    <3> HIDE DEF failed
    <3>5. /\ HostShape(failed) /\ SamePlaces(off, failed) /\ SameCommits(off, failed)
          /\ Candidates(failed) = Candidates(h)
          /\ \A x \in Candidates(h) :
               /\ Fixed(Of(off, x), Of(failed, x))
               /\ Of(failed, x).state = IF x = c THEN "retired" ELSE Of(off, x).state
               /\ Of(failed, x).physical = IF x = c THEN "retired" ELSE Of(off, x).physical
      <4>1. Of(off, c).state # "retired"
        BY <1>1, <3>3
      <4> QED BY <3>3, <3>4, <4>1 DEF Thins, Out
    <3>6. old # Nobody => Of(failed, old).state = "retired"
      BY <1>1, <3>3, <3>5 DEF HostInv, Placed
    <3>7. /\ HostShape(z) /\ SamePlaces(failed, z) /\ SameCommits(failed, z) /\ Candidates(z) = Candidates(h)
          /\ \A x \in Candidates(h) :
               /\ Fixed(Of(failed, x), Of(z, x)) /\ Of(z, x).state = Of(failed, x).state
               /\ Of(z, x).physical = IF x = old THEN "retired" ELSE Of(failed, x).physical
      BY <3>5, <3>6, OldCleaned
    <3> HIDE DEF z
    <3>8. SamePlaces(k, z) /\ SameCommits(k, z)
      <4>1. SamePlaces(k, z)
        BY <1>1, <3>1, <3>2, <3>5, <3>7 DEF SamePlaces
      <4>2. SameCommits(h, failed)
        BY <1>1, <3>1, <3>5 DEF SameCommits
      <4>3. SameCommits(h, z)
        BY <3>7, <4>2 DEF SameCommits
      <4> QED BY <3>2, <4>1, <4>3 DEF SameCommits
    <3>9. Candidates(k) = Candidates(h) /\ \A x : Of(k, x) = Of(h, x)
      BY <3>2 DEF Candidates, Of
    <3>10. ASSUME NEW x \in Candidates(k)
           PROVE  /\ Fixed(Of(k, x), Of(z, x))
                  /\ x \notin D => Of(z, x).state = Of(k, x).state /\ Of(z, x).physical = Of(k, x).physical
                  /\ x \in D => Out(Of(k, x), Of(z, x))
      <4>1. Fixed(Of(k, x), Of(z, x))
        BY <1>1, <3>3, <3>5, <3>7, <3>9 DEF Fixed
      <4>2. x \notin D => Of(z, x).state = Of(k, x).state /\ Of(z, x).physical = Of(k, x).physical
        BY <1>1, <3>3, <3>5, <3>7, <3>9
      <4>3. x \in D => Of(z, x).state = "retired" /\ Of(z, x).physical = "retired"
        BY <1>1, <3>3, <3>5, <3>7, <3>9
      <4> QED BY <4>1, <4>2, <4>3 DEF Out
    <3>11. Thins(k, z, D)
      BY <3>7, <3>8, <3>9, <3>10 DEF Thins
    <3>12. HostKeeps(h, z)
      BY <3>2, <3>11, WithdrawalKeeps
    <3> QED BY <3>12 DEF z
  <2> HIDE DEF told, failed, placed
  <2> QED BY <2>1, <2>2, <2>3
<1> QED BY <1>2, <1>3

-----------------------------------------------------------------------------
(* One operation of the tail.                                              *)

LEMMA RunKeeps ==
  ASSUME NEW h, HostInv(h), h.tail # <<>>
  PROVE  HostKeeps(h, Run([h EXCEPT !.tail = Tail(@)], Head(h.tail)))
<1> DEFINE g == [h EXCEPT !.tail = Tail(@)]
           t == Head(h.tail)
<1>1. /\ HostKeeps(h, g) /\ HostInv(g) /\ Grows(h, g) /\ t.c # Nobody
      /\ t.op \in {"install", "dispose"} => t.c \in Candidates(g) /\ t.c # g.current
      /\ t.op = "install" => \A i \in 1 .. Len(g.tail) : g.tail[i].op = "install" => g.tail[i].c # t.c
  BY DequeueKeeps DEF HostKeeps
<1> HIDE DEF g, t
<1>2. HostKeeps(g, Run(g, t))
  <2>1. CASE t.op = "install"
    BY <1>1, <2>1, InstallKeeps DEF Run
  <2>2. CASE t.op = "dispose"
    BY <1>1, <2>2, DisposeKeeps DEF Run
  <2>3. CASE t.op = "failed" /\ g.pending = t.c
    <3>1. t.c \in Candidates(g) /\ t.c # g.current
      BY <1>1, <2>3 DEF HostInv, Placed
    <3>2. Run(g, t) = DisposePending(g, t.c)
      BY <2>3, <3>1 DEF Run
    <3> QED BY <1>1, <3>1, <3>2, DisposeKeeps
  <2>4. CASE t.op \notin {"install", "dispose"} /\ ~(t.op = "failed" /\ g.pending = t.c)
    <3>1. CASE t.op \in {"failed", "undelivered"} /\ g.current = t.c
      BY <1>1, <2>4, <3>1, DiscardKeeps DEF Run
    <3>2. CASE ~(t.op \in {"failed", "undelivered"} /\ g.current = t.c)
      <4>1. Run(g, t) = g
        BY <2>4, <3>2 DEF Run
      <4> QED BY <1>1, <4>1 DEF HostKeeps, Grows
    <3> QED BY <3>1, <3>2
  <2> QED BY <2>1, <2>2, <2>3, <2>4
<1>3. HostKeeps(h, Run(g, t))
  BY <1>1, <1>2, GrowsTransitive
<1> QED BY <1>3 DEF g, t

-----------------------------------------------------------------------------
(* The other operations.                                                   *)

LEMMA ScheduleThins ==
  ASSUME NEW h, HostShape(h)
  PROVE  Thins(h, Schedule(h), {})
<1>1. /\ HostFields \subseteq DOMAIN Schedule(h) /\ SamePlaces(h, Schedule(h))
      /\ Schedule(h).candidate = h.candidate /\ Schedule(h).down = h.down
  BY DEF HostShape, HostFields, SamePlaces, Schedule
<1> QED BY <1>1, AsideThins

LEMMA ReplaceKeeps ==
  ASSUME NEW h, HostInv(h), NEW r \in {Nobody} \cup Renderers, NEW runtime
  PROVE  HostKeeps(h, Replace(h, r, runtime))
<1> DEFINE view == [h EXCEPT !.renderer = r, !.runtime = runtime]
           out(x) == x # Nobody /\ ~Authorized(view, x)
           k == [view EXCEPT !.pending = IF out(view.pending) THEN Nobody ELSE view.pending,
                             !.current = IF out(view.current) THEN Nobody ELSE view.current]
           g1 == IF out(h.pending) THEN Retire(k, h.pending) ELSE k
           g2 == IF out(h.current) THEN Retire(g1, h.current) ELSE g1
           g3 == IF h.renderer \in {Nobody, r} THEN g2 ELSE CloseRenderers(g2, {h.renderer})
           z == Schedule(g3)
           D1 == IF out(h.pending) THEN {h.pending} ELSE {}
           D2 == IF out(h.current) THEN {h.current} ELSE {}
<1>0. z = Replace(h, r, runtime)
  BY DEF Replace
<1>1. /\ HostFields \subseteq DOMAIN view /\ view.attached = h.attached /\ view.renderer = r /\ view.runtime = runtime
      /\ view.candidate = h.candidate /\ view.tail = h.tail /\ view.down = h.down
      /\ view.current = h.current /\ view.pending = h.pending
  BY DEF HostInv, HostShape, HostFields
<1> HIDE DEF view
<1>2. /\ HostFields \subseteq DOMAIN k /\ k.attached = h.attached /\ k.renderer = r /\ k.runtime = runtime
      /\ k.candidate = h.candidate /\ k.tail = h.tail /\ k.down = h.down
      /\ k.pending = IF out(h.pending) THEN Nobody ELSE h.pending
      /\ k.current = IF out(h.current) THEN Nobody ELSE h.current
  <2> HIDE DEF out
  <2> QED BY <1>1 DEF HostFields
<1>3. \A x : Authorized(k, x) <=> Authorized(view, x)
  BY <1>1, <1>2 DEF Authorized, HasEntry, Of
<1> HIDE DEF k, out
<1>4. HostShape(k) /\ Candidates(k) = Candidates(h)
  BY <1>2 DEF HostInv, HostShape, Candidates, Of
<1>5. /\ out(h.pending) => h.pending \in Candidates(k)
      /\ out(h.current) => h.current \in Candidates(k)
  BY <1>4 DEF HostInv, Placed, out
<1>6. Thins(k, k, {})
  BY <1>4, AsideThins DEF HostShape, SamePlaces
<1>7. Thins(k, g1, D1) /\ HostShape(g1) /\ Candidates(g1) = Candidates(k)
  <2>1. Thins(k, g1, D1)
    BY <1>4, <1>5, <1>6, RetireThins
  <2> HIDE DEF g1
  <2> QED BY <2>1 DEF Thins
<1> HIDE DEF g1
<1>8. Thins(g1, g2, D2)
  <2>1. Thins(g1, g1, {})
    BY <1>7, AsideThins DEF HostShape, SamePlaces
  <2> QED BY <1>5, <1>7, <2>1, RetireThins
<1> HIDE DEF g2
<1>9. HostShape(g2)
  BY <1>8 DEF Thins
<1>10. Thins(g2, g3, {})
  <2>1. Thins(g2, g2, {})
    BY <1>9, AsideThins DEF HostShape, SamePlaces
  <2> QED BY <1>9, <2>1, CloseThins
<1> HIDE DEF g3
<1>11. Thins(g3, z, {})
  BY <1>10, ScheduleThins DEF Thins
<1> HIDE DEF z, D1, D2
<1>12. Thins(k, z, D1 \cup D2 \cup {} \cup {})
  BY <1>7, <1>8, <1>10, <1>11, ThinsTransitive
<1>13. k.current # Nobody => k.current \notin D1 \cup D2 \cup {} \cup {} /\ Authorized(k, k.current)
  BY <1>2, <1>3 DEF HostInv, Placed, out, D1, D2
<1>14. h.current # Nobody /\ k.current = Nobody => h.current \in D1 \cup D2 \cup {} \cup {}
  BY <1>2 DEF D2
<1>15. k.current \in {h.current, Nobody} /\ k.pending \in {h.pending, Nobody}
  BY <1>2
<1>16. HostKeeps(h, z)
  BY <1>2, <1>12, <1>13, <1>14, <1>15, WithdrawalKeeps
<1> QED BY <1>0, <1>16

\* A candidate is appended, and is what is prepared now.
LEMMA RequestKeeps ==
  ASSUME NEW h, HostInv(h), NEW asked
  PROVE  HostKeeps(h, RequestCandidate(h, asked))
<1>1. CASE ~HasEntry(h) \/ h.pending # Nobody \/ h.renderer \notin h.attached
  BY <1>1 DEF RequestCandidate, HostKeeps, Grows
<1>2. CASE ~(~HasEntry(h) \/ h.pending # Nobody \/ h.renderer \notin h.attached)
  <2> DEFINE l == [renderer |-> h.renderer, state |-> "preparing", physical |-> "none",
                   confirmed |-> {}, refused |-> FALSE, settled |-> FALSE,
                   asked |-> asked, hit |-> FALSE]
             g == [h EXCEPT !.pending = Len(h.candidate) + 1, !.candidate = Append(@, l)]
             n == Len(h.candidate)
  <2>1. RequestCandidate(h, asked) = g
    BY <1>2 DEF RequestCandidate
  <2>2. /\ HostFields \subseteq DOMAIN g /\ g.renderer = h.renderer /\ g.runtime = h.runtime
        /\ g.attached = h.attached /\ g.current = h.current /\ g.pending = n + 1 /\ g.tail = h.tail /\ g.down = h.down
        /\ g.candidate = Append(h.candidate, l)
    BY DEF HostInv, HostShape, HostFields
  <2>3. CandidateShape(l) /\ l.physical = "none" /\ l.state = "preparing"
    <3>1. h.renderer \in Renderers
      BY <1>2 DEF HasEntry, HostInv, HostShape
    <3> QED BY <3>1 DEF CandidateShape, CandidateFields
  <2> HIDE DEF g, l
  <2>4. /\ n \in Nat /\ Candidates(h) = 1 .. n /\ Candidates(g) = 1 .. n + 1 /\ IsSeq(g.candidate)
        /\ \A x \in 1 .. n : Of(g, x) = Of(h, x)
        /\ Of(g, n + 1) = l
    BY <2>2, AppendIsSeq DEF HostInv, HostShape, Candidates, Of
  <2> HIDE DEF n
  <2>5. Candidates(g) = Candidates(h) \cup {n + 1} /\ n + 1 \notin Candidates(h) /\ n + 1 # Nobody
    BY <2>4 DEF Nobody
  <2>6. HostShape(g)
    BY <2>2, <2>3, <2>4, <2>5 DEF HostInv, HostShape
  <2>7. Grows(h, g)
    BY <2>4, <2>5 DEF Grows, Opened
  <2>8. Placed(g)
    <3>1. g.current # Nobody => /\ g.current \in Candidates(g) /\ g.pending # g.current
                                /\ Of(g, g.current).state = "current" /\ Authorized(g, g.current)
      BY <2>2, <2>4, <2>5 DEF HostInv, Placed, Authorized, HasEntry
    <3>2. \A c \in Candidates(g) :
            /\ Of(g, c).physical = "installed" \/ Of(g, c).state = "current" => c = g.current
            /\ Of(g, c).state \in {"prepared", "current"} =>
                 Of(g, c).settled /\ Of(g, c).confirmed = {"runner", "renderer"}
      BY <2>2, <2>3, <2>4, <2>5 DEF HostInv, Placed
    <3> QED BY <2>2, <2>5, <3>1, <3>2 DEF Placed
  <2>9. Queued(g)
    BY <2>2, <2>4, <2>5 DEF HostInv, Queued
  <2>10. CommitsOpened(g)
    BY <2>2, <2>7 DEF HostInv, CommitsOpened, Grows, Opened
  <2> QED BY <2>1, <2>6, <2>7, <2>8, <2>9, <2>10 DEF HostKeeps, HostInv
<1> QED BY <1>1, <1>2

\* One candidate is another: settled, confirmed or closed, but where it was.
LEMMA CandidateKeeps ==
  ASSUME NEW h, HostInv(h), NEW c \in Candidates(h), NEW g, HostFields \subseteq DOMAIN g, NEW l,
         CandidateShape(l), l.renderer = Of(h, c).renderer, l.state = Of(h, c).state,
         Of(h, c).settled => l.settled, Of(h, c).confirmed \subseteq l.confirmed,
         l.physical \in {Of(h, c).physical, "retired"}
           \/ (Of(h, c).physical \notin {"installed", "retired"} /\ l.physical # "installed"),
         g.candidate = [h.candidate EXCEPT ![c] = l],
         SamePlaces(h, g), g.down = h.down
  PROVE  HostKeeps(h, g) /\ Candidates(g) = Candidates(h) /\ Of(g, c) = l
<1>1. /\ Candidates(g) = Candidates(h)
      /\ Of(g, c) = l /\ \A x \in Candidates(h) : x # c => Of(g, x) = Of(h, x)
      /\ g.candidate = [x \in DOMAIN g.candidate |-> g.candidate[x]]
  BY DEF Candidates, Of
<1>2. IsSeq(g.candidate)
  BY <1>1, ExceptIsSeq DEF HostInv, HostShape, Candidates
<1>3. HostShape(g)
  BY <1>1, <1>2 DEF HostInv, HostShape, SamePlaces
<1>4. Grows(h, g)
  BY <1>1 DEF Grows, Opened
<1>5. \A x \in Candidates(h) : Of(g, x).state = Of(h, x).state /\ Of(g, x).renderer = Of(h, x).renderer
  BY <1>1
<1>6. Placed(g)
  <2>1. g.current # Nobody => /\ g.current \in Candidates(g) /\ g.pending # g.current
                              /\ Of(g, g.current).state = "current" /\ Authorized(g, g.current)
    BY <1>1, <1>5 DEF HostInv, Placed, SamePlaces, Authorized, HasEntry
  <2>2. ASSUME NEW x \in Candidates(g)
        PROVE  /\ Of(g, x).physical = "installed" \/ Of(g, x).state = "current" => x = g.current
               /\ Of(g, x).state \in {"prepared", "current"} =>
                    Of(g, x).settled /\ Of(g, x).confirmed = {"runner", "renderer"}
    <3>1. CASE x # c
      BY <1>1, <3>1 DEF HostInv, Placed, SamePlaces
    <3>2. CASE x = c
      BY <1>1, <3>2 DEF HostInv, Placed, SamePlaces, CandidateShape
    <3> QED BY <3>1, <3>2
  <2> QED BY <1>1, <2>1, <2>2 DEF HostInv, Placed, SamePlaces
<1>7. Queued(g)
  <2>1. \A x \in Candidates(h) : Of(h, x).settled => Of(g, x).settled
    BY <1>1
  <2> QED BY <1>1, <1>5, <2>1 DEF HostInv, Queued, SamePlaces
<1>8. CommitsOpened(g)
  BY <1>4 DEF HostInv, CommitsOpened, Grows, Opened
<1> QED BY <1>1, <1>3, <1>4, <1>6, <1>7, <1>8 DEF HostKeeps, HostInv

LEMMA UnsettledIsNotCurrent ==
  ASSUME NEW h, HostInv(h), NEW c \in Candidates(h), ~Of(h, c).settled
  PROVE  c # h.current /\ Of(h, c).state \notin {"prepared", "current"}
<1>1. c # Nobody
  BY SeqDomain DEF HostInv, HostShape, Candidates
<1> QED BY <1>1 DEF HostInv, Placed

\* Messages are taken, and nothing else that the invariant looks at.
LEMMA TakenThins ==
  ASSUME NEW h, HostShape(h), NEW g, HostFields \subseteq DOMAIN g, SamePlaces(h, g),
         g.candidate = h.candidate, DOMAIN g.down = Ends, \A e \in Ends : IsSeq(g.down[e]),
         SameCommits(h, g)
  PROVE  Thins(h, g, {})
<1>1. HostShape(g) /\ Candidates(g) = Candidates(h) /\ \A c : Of(g, c) = Of(h, c)
  BY DEF HostShape, SamePlaces, Candidates, Of
<1> QED BY <1>1 DEF Thins, Fixed

LEMMA KeepsThins ==
  ASSUME NEW h, HostInv(h), NEW g, HostKeeps(h, g), NEW k, Thins(g, k, {})
  PROVE  HostKeeps(h, k)
<1>1. HostKeeps(g, k)
  BY ThinsKeeps DEF HostKeeps
<1> QED BY <1>1, GrowsTransitive DEF HostKeeps

\* An answer that confirms a preparation.
LEMMA ConfirmKeeps ==
  ASSUME NEW h, HostInv(h), NEW c, NEW who \in {"runner", "renderer"}, NEW g,
         HostFields \subseteq DOMAIN g, SamePlaces(h, g), g.down = h.down,
         g.candidate = [h.candidate EXCEPT ![c].confirmed = @ \cup {who}]
  PROVE  HostKeeps(h, g)
<1>1. CASE c \in Candidates(h)
  <2> DEFINE l == [Of(h, c) EXCEPT !.confirmed = @ \cup {who}]
  <2>1. CandidateShape(Of(h, c))
    BY <1>1 DEF HostInv, HostShape
  <2>2. g.candidate = [h.candidate EXCEPT ![c] = l]
    BY DEF Of
  <2>3. /\ CandidateShape(l) /\ l.renderer = Of(h, c).renderer /\ l.state = Of(h, c).state
        /\ l.settled = Of(h, c).settled /\ Of(h, c).confirmed \subseteq l.confirmed
        /\ l.physical = Of(h, c).physical
    BY <2>1 DEF CandidateShape, CandidateFields
  <2> HIDE DEF l
  <2> QED BY <1>1, <2>2, <2>3, CandidateKeeps
<1>2. CASE c \notin Candidates(h)
  <2>1. h.candidate = [x \in DOMAIN h.candidate |-> h.candidate[x]]
    BY DEF HostInv, HostShape, IsSeq
  <2>2. g.candidate = h.candidate
    BY <1>2, <2>1 DEF Candidates
  <2>3. Thins(h, g, {})
    BY <2>2, AsideThins DEF HostInv
  <2> QED BY <2>3, ThinsKeeps
<1> QED BY <1>1, <1>2

\* A candidate is rejected and the operation that waited for it is over.
LEMMA RejectKeeps ==
  ASSUME NEW h, HostInv(h), NEW c, NEW g, HostFields \subseteq DOMAIN g,
         SamePlaces(Refused(h, c), g), g.candidate = Refused(h, c).candidate,
         g.down = Refused(h, c).down
  PROVE  HostKeeps(h, g)
<1>1. Thins(h, Refused(h, c), {})
  BY RefusedThins DEF HostInv
<1>2. Thins(Refused(h, c), g, {})
  BY <1>1, AsideThins DEF Thins
<1>3. HostKeeps(h, Refused(h, c))
  BY <1>1, ThinsKeeps
<1> QED BY <1>2, <1>3, KeepsThins

\* The sockets of the pair exist: the candidate is out, or both ends prepare.
LEMMA PairKeeps ==
  ASSUME NEW h, HostInv(h), NEW c \in Candidates(h), Of(h, c).physical = "none", ~Of(h, c).settled
  PROVE  /\ HostKeeps(h, DisposePending([h EXCEPT !.candidate[c].physical = "retired",
                                                  !.candidate[c].settled = TRUE], c))
         /\ HostKeeps(h, PrepareRunner(PrepareRenderer(
                            [h EXCEPT !.candidate[c].physical = "preparing"], c), c))
<1>1. CandidateShape(Of(h, c))
  BY DEF HostInv, HostShape
<1>2. HostKeeps(h, DisposePending([h EXCEPT !.candidate[c].physical = "retired",
                                            !.candidate[c].settled = TRUE], c))
  <2> DEFINE g == [h EXCEPT !.candidate[c].physical = "retired", !.candidate[c].settled = TRUE]
             l == [Of(h, c) EXCEPT !.physical = "retired", !.settled = TRUE]
  <2>1. /\ HostFields \subseteq DOMAIN g /\ SamePlaces(h, g) /\ g.down = h.down
        /\ g.candidate = [h.candidate EXCEPT ![c] = l]
    BY DEF HostInv, HostShape, HostFields, SamePlaces, Of, Candidates
  <2>2. /\ CandidateShape(l) /\ l.renderer = Of(h, c).renderer /\ l.state = Of(h, c).state
        /\ l.settled /\ l.confirmed = Of(h, c).confirmed /\ l.physical = "retired"
    BY <1>1 DEF CandidateShape, CandidateFields
  <2> HIDE DEF g, l
  <2>3. HostKeeps(h, g) /\ HostInv(g) /\ Grows(h, g) /\ Candidates(g) = Candidates(h)
    BY <2>1, <2>2, CandidateKeeps DEF HostKeeps
  <2>4. c # g.current
    BY <2>1, UnsettledIsNotCurrent DEF SamePlaces
  <2>5. HostKeeps(g, DisposePending(g, c))
    BY <2>3, <2>4, DisposeKeeps
  <2>6. HostKeeps(h, DisposePending(g, c))
    BY <2>3, <2>5, GrowsTransitive
  <2> QED BY <2>6 DEF g
<1>3. HostKeeps(h, PrepareRunner(PrepareRenderer(
                      [h EXCEPT !.candidate[c].physical = "preparing"], c), c))
  <2> DEFINE g == [h EXCEPT !.candidate[c].physical = "preparing"]
             l == [Of(h, c) EXCEPT !.physical = "preparing"]
             p == PrepareRenderer(g, c)
             q == PrepareRunner(p, c)
  <2>1. /\ HostFields \subseteq DOMAIN g /\ SamePlaces(h, g) /\ g.down = h.down
        /\ g.candidate = [h.candidate EXCEPT ![c] = l]
    BY DEF HostInv, HostShape, HostFields, SamePlaces, Of
  <2>2. /\ CandidateShape(l) /\ l.renderer = Of(h, c).renderer /\ l.state = Of(h, c).state
        /\ l.settled = Of(h, c).settled /\ l.confirmed = Of(h, c).confirmed /\ l.physical = "preparing"
    BY <1>1 DEF CandidateShape, CandidateFields
  <2> HIDE DEF g, l
  <2>3. HostKeeps(h, g) /\ HostInv(g) /\ HostShape(g) /\ Candidates(g) = Candidates(h)
    BY <2>1, <2>2, CandidateKeeps DEF HostKeeps, HostInv
  <2>4. Thins(g, p, {})
    BY <2>3, PrepareThins
  <2> HIDE DEF p
  <2>5. HostShape(p) /\ c \in Candidates(p)
    BY <2>3, <2>4 DEF Thins
  <2>6. Thins(p, q, {})
    BY <2>5, PrepareThins
  <2> HIDE DEF q
  <2>7. HostKeeps(h, p)
    BY <2>3, <2>4, KeepsThins
  <2>8. HostKeeps(h, q)
    BY <2>6, <2>7, KeepsThins
  <2> QED BY <2>8 DEF q, p, g
<1> QED BY <1>2, <1>3

\* The preparations have settled, and what follows from them is queued.
LEMMA SettleKeeps ==
  ASSUME NEW h, HostInv(h), NEW c \in Candidates(h), ~Of(h, c).settled,
         NEW op \in {"install", "dispose"}, NEW g, HostFields \subseteq DOMAIN g, NEW l, CandidateShape(l),
         l.renderer = Of(h, c).renderer, l.settled, l.confirmed = Of(h, c).confirmed,
         l.physical = Of(h, c).physical,
         op = "install" => l.state = "prepared" /\ l.confirmed = {"runner", "renderer"},
         op = "dispose" => l.state = Of(h, c).state,
         g.candidate = [h.candidate EXCEPT ![c] = l],
         g.tail = Append(h.tail, [op |-> op, c |-> c]),
         g.renderer = h.renderer, g.runtime = h.runtime, g.attached = h.attached,
         g.current = h.current, g.pending = h.pending, g.down = h.down
  PROVE  HostKeeps(h, g)
<1> DEFINE t == [op |-> op, c |-> c]
<1>1. /\ Candidates(g) = Candidates(h)
      /\ Of(g, c) = l /\ \A x \in Candidates(h) : x # c => Of(g, x) = Of(h, x)
      /\ g.candidate = [x \in DOMAIN g.candidate |-> g.candidate[x]]
  BY DEF Candidates, Of
<1>2. IsSeq(g.candidate)
  BY <1>1, ExceptIsSeq DEF HostInv, HostShape, Candidates
<1>3. /\ IsSeq(g.tail) /\ Len(h.tail) \in Nat /\ Len(g.tail) = Len(h.tail) + 1
      /\ \A i \in 1 .. Len(h.tail) : g.tail[i] = h.tail[i]
      /\ g.tail[Len(h.tail) + 1] = t
  BY AppendIsSeq DEF HostInv, HostShape
<1>4. HostShape(g)
  BY <1>1, <1>2, <1>3 DEF HostInv, HostShape
<1>5. Grows(h, g)
  BY <1>1 DEF Grows, Opened
<1>6. /\ c # h.current /\ c # Nobody /\ Of(h, c).state \notin {"prepared", "current"}
      /\ Of(h, c).physical # "installed" /\ l.state # "current"
  <2>1. c # h.current /\ Of(h, c).state \notin {"prepared", "current"} /\ c # Nobody
    BY UnsettledIsNotCurrent, SeqDomain DEF HostInv, HostShape, Candidates
  <2> QED BY <2>1 DEF HostInv, Placed
<1>7. Placed(g)
  <2>1. g.current # Nobody => /\ g.current \in Candidates(g) /\ g.pending # g.current
                              /\ Of(g, g.current).state = "current" /\ Authorized(g, g.current)
    BY <1>1, <1>6 DEF HostInv, Placed, Authorized, HasEntry
  <2>2. ASSUME NEW x \in Candidates(g)
        PROVE  /\ Of(g, x).physical = "installed" \/ Of(g, x).state = "current" => x = g.current
               /\ Of(g, x).state \in {"prepared", "current"} =>
                    Of(g, x).settled /\ Of(g, x).confirmed = {"runner", "renderer"}
    <3>1. CASE x # c
      BY <1>1, <3>1 DEF HostInv, Placed
    <3>2. CASE x = c
      BY <1>1, <1>6, <3>2
    <3> QED BY <3>1, <3>2
  <2> QED BY <1>1, <2>1, <2>2 DEF HostInv, Placed
<1>8. Queued(g)
  <2>1. \A i \in 1 .. Len(g.tail) : i \in 1 .. Len(h.tail) \/ i = Len(h.tail) + 1
    BY <1>3
  <2>2. ASSUME NEW i \in 1 .. Len(h.tail), h.tail[i].op \in {"install", "dispose"}
        PROVE  h.tail[i].c \in Candidates(h) /\ h.tail[i].c # c
    BY <2>2 DEF HostInv, Queued
  <2>3. ASSUME NEW i \in 1 .. Len(h.tail)
        PROVE  /\ g.tail[i].c # Nobody
               /\ g.tail[i].op \in {"install", "dispose"} =>
                    g.tail[i].c \in Candidates(g) /\ Of(g, g.tail[i].c).settled
               /\ g.tail[i].op = "install" => Of(g, g.tail[i].c).state \in {"prepared", "retired"}
               /\ g.tail[i].op = "dispose" => Of(g, g.tail[i].c).state \notin {"prepared", "current"}
    BY <1>1, <1>3, <2>2 DEF HostInv, Queued
  <2>4. t.op = op /\ t.c = c
    OBVIOUS
  <2> HIDE DEF t
  <2>5. ASSUME NEW i \in 1 .. Len(g.tail), g.tail[i].op = "install",
               NEW j \in 1 .. Len(g.tail), g.tail[j].op = "install", g.tail[j].c = g.tail[i].c
        PROVE  j = i
    <3>1. CASE i \in 1 .. Len(h.tail) /\ j \in 1 .. Len(h.tail)
      BY <1>3, <2>5, <3>1 DEF HostInv, Queued
    <3>2. CASE i = Len(h.tail) + 1 /\ j \in 1 .. Len(h.tail)
      BY <1>3, <2>2, <2>4, <2>5, <3>2
    <3>3. CASE i \in 1 .. Len(h.tail) /\ j = Len(h.tail) + 1
      BY <1>3, <2>2, <2>4, <2>5, <3>3
    <3> QED BY <2>1, <2>5, <3>1, <3>2, <3>3
  <2>6. LET i == Len(h.tail) + 1
        IN  /\ g.tail[i].c # Nobody /\ g.tail[i].c \in Candidates(g) /\ Of(g, g.tail[i].c).settled
            /\ g.tail[i].op = "install" => Of(g, g.tail[i].c).state \in {"prepared", "retired"}
            /\ g.tail[i].op = "dispose" => Of(g, g.tail[i].c).state \notin {"prepared", "current"}
    BY <1>1, <1>3, <1>6, <2>4
  <2> QED BY <2>1, <2>3, <2>5, <2>6 DEF Queued
<1>9. CommitsOpened(g)
  BY <1>5 DEF HostInv, CommitsOpened, Grows, Opened
<1> QED BY <1>4, <1>5, <1>7, <1>8, <1>9 DEF HostKeeps, HostInv

-----------------------------------------------------------------------------
(* The steps.                                                              *)

LEMMA EndsFollow ==
  ASSUME EndsOpened, Grows(host, host'), DOMAIN end' = Ends,
         \A e \in Ends :
            /\ BindingFields \subseteq DOMAIN end'[e]
            /\ \A c \in {end'[e].current, end'[e].held} :
                 c \in {Nobody, end[e].current, end[e].held} \/ Opened(host', c)
  PROVE  EndsOpened'
<1>1. ASSUME NEW e \in Ends, NEW c \in {end'[e].current, end'[e].held}
      PROVE  c = Nobody \/ Opened(host', c)
  <2>1. \A x \in {end[e].current, end[e].held} : x = Nobody \/ Opened(host', x)
    BY DEF EndsOpened, Grows, Opened
  <2> QED BY <2>1
<1> QED BY <1>1 DEF EndsOpened

\* The host alone, and its answers taken.
LEMMA HostStep ==
  ASSUME BrokerInv, HostKeeps(host, host'), end' = end, AnswersNamed'
  PROVE  BrokerInv'
<1>1. EndsOpened'
  BY EndsFollow DEF BrokerInv, EndsOpened, HostKeeps
<1> QED BY <1>1 DEF BrokerInv, HostKeeps

\* One end alone.
LEMMA EndStep ==
  ASSUME BrokerInv, HostKeeps(host, host'), NEW e \in Ends, NEW b, end' = [end EXCEPT ![e] = b],
         BindingFields \subseteq DOMAIN b,
         \A c \in {b.current, b.held} :
            c \in {Nobody, end[e].current, end[e].held} \/ Opened(host', c),
         AnswersNamed'
  PROVE  BrokerInv'
<1>1. EndsOpened'
  <2>1. DOMAIN end' = Ends /\ end'[e] = b /\ \A x \in Ends : x # e => end'[x] = end[x]
    BY DEF BrokerInv, EndsOpened
  <2>2. ASSUME NEW x \in Ends
        PROVE  /\ BindingFields \subseteq DOMAIN end'[x]
               /\ \A c \in {end'[x].current, end'[x].held} :
                    c \in {Nobody, end[x].current, end[x].held} \/ Opened(host', c)
    <3>1. CASE x = e
      BY <2>1, <3>1
    <3>2. CASE x # e
      BY <2>1, <3>2 DEF BrokerInv, EndsOpened
    <3> QED BY <3>1, <3>2
  <2> QED BY <2>1, <2>2, EndsFollow DEF BrokerInv, HostKeeps
<1> QED BY <1>1 DEF BrokerInv, HostKeeps

LEMMA HostStays ==
  ASSUME BrokerInv, host' = host
  PROVE  HostKeeps(host, host')
  BY DEF BrokerInv, HostKeeps, Grows

LEMMA AnswerNamed ==
  ASSUME AnswersNamed, NEW e \in Ends, NEW type, NEW c, type = "uncommitted" => c # Nobody,
         up' = IF e \in host.unreachable THEN up
               ELSE [up EXCEPT ![e] = Append(@, [type |-> type, c |-> c])]
  PROVE  AnswersNamed'
<1> DEFINE m == [type |-> type, c |-> c]
<1>1. CASE e \in host.unreachable
  BY <1>1 DEF AnswersNamed
<1>2. CASE e \notin host.unreachable
  <2>1. m.type = "uncommitted" => m.c # Nobody
    OBVIOUS
  <2>2. up' = [up EXCEPT ![e] = Append(up[e], m)]
    BY <1>2
  <2> HIDE DEF m
  <2>3. /\ DOMAIN up' = Ends /\ up'[e] = Append(up[e], m) /\ IsSeq(up[e])
        /\ \A x \in Ends : x # e => up'[x] = up[x]
    BY <2>2 DEF AnswersNamed
  <2>4. /\ IsSeq(up'[e]) /\ Len(up[e]) \in Nat /\ DOMAIN up[e] = 1 .. Len(up[e])
        /\ DOMAIN up'[e] = 1 .. Len(up[e]) + 1
        /\ \A i \in 1 .. Len(up[e]) : up'[e][i] = up[e][i]
        /\ up'[e][Len(up[e]) + 1] = m
    BY <2>3, AppendIsSeq
  <2>5. \A i \in DOMAIN up'[e] : up'[e][i].type = "uncommitted" => up'[e][i].c # Nobody
    BY <2>1, <2>4 DEF AnswersNamed
  <2> QED BY <2>3, <2>4, <2>5 DEF AnswersNamed
<1> QED BY <1>1, <1>2

LEMMA AnswerTaken ==
  ASSUME AnswersNamed, NEW e \in Ends, up[e] # <<>>, up' = [up EXCEPT ![e] = Tail(@)]
  PROVE  AnswersNamed' /\ (Head(up[e]).type = "uncommitted" => Head(up[e]).c # Nobody)
<1>1. /\ DOMAIN up' = Ends /\ up'[e] = Tail(up[e]) /\ IsSeq(up[e])
      /\ \A x \in Ends : x # e => up'[x] = up[x]
  BY DEF AnswersNamed
<1>2. /\ IsSeq(up'[e]) /\ DOMAIN up[e] = 1 .. Len(up[e]) /\ 1 \in DOMAIN up[e]
      /\ DOMAIN up'[e] = 1 .. Len(up[e]) - 1
      /\ \A i \in 1 .. Len(up[e]) - 1 : up'[e][i] = up[e][i + 1] /\ i + 1 \in DOMAIN up[e]
      /\ Head(up[e]) = up[e][1]
  BY <1>1, TailIsSeq
<1>3. \A i \in DOMAIN up'[e] : up'[e][i].type = "uncommitted" => up'[e][i].c # Nobody
  BY <1>2 DEF AnswersNamed
<1> QED BY <1>1, <1>2, <1>3 DEF AnswersNamed

LEMMA StateKept ==
  ASSUME BrokerInv
  PROVE  /\ HostInv(host) /\ HostShape(host) /\ HostFields \subseteq DOMAIN host
         /\ AnswersNamed /\ EndsOpened /\ Thins(host, host, {})
<1>1. HostInv(host) /\ HostShape(host) /\ AnswersNamed /\ EndsOpened
  BY DEF BrokerInv, HostInv
<1> QED BY <1>1, AsideThins DEF HostShape, SamePlaces

LEMMA HostAlone ==
  ASSUME BrokerInv, NEW h, Host(h), HostKeeps(host, h)
  PROVE  BrokerInv'
<1>1. AnswersNamed'
  BY DEF BrokerInv, AnswersNamed, Host
<1> QED BY <1>1, HostStep DEF Host

LEMMA ReplaceStep ==
  ASSUME BrokerInv, MainReplaces
  PROVE  BrokerInv'
<1>1. PICK r \in {Nobody} \cup {x \in host.attached : \A old \in host.unreachable : x > old},
           runtime \in {"ready", "gone"} : Host(Replace(host, r, runtime))
  BY DEF MainReplaces
<1>2. HostInv(host) /\ r \in {Nobody} \cup Renderers
  BY StateKept DEF HostShape
<1>3. HostKeeps(host, Replace(host, r, runtime))
  BY <1>2, ReplaceKeeps
<1> QED BY <1>1, <1>3, HostAlone

LEMMA AttachStep ==
  ASSUME BrokerInv, NEW r \in Renderers, AttachRenderer(r)
  PROVE  BrokerInv'
<1> DEFINE h == CloseRenderers(host, host.attached \ {host.renderer})
           k == [h EXCEPT !.attached = @ \cup {r}]
<1>1. Host(Schedule(k))
  BY DEF AttachRenderer
<1>2. Thins(host, h, {}) /\ HostInv(host)
  BY StateKept, CloseThins
<1> HIDE DEF h
<1>3. HostKeeps(host, h) /\ HostInv(h) /\ Grows(host, h)
  BY <1>2, ThinsKeeps DEF HostKeeps
<1>4. HostKeeps(h, k)
  <2>1. /\ HostFields \subseteq DOMAIN k /\ k.renderer = h.renderer /\ k.runtime = h.runtime
        /\ k.current = h.current /\ k.pending = h.pending /\ k.tail = h.tail
        /\ k.candidate = h.candidate /\ k.down = h.down /\ k.attached = h.attached \cup {r}
    BY <1>3 DEF HostInv, HostShape, HostFields
  <2> HIDE DEF k
  <2>2. Candidates(k) = Candidates(h) /\ \A x : Of(k, x) = Of(h, x)
    BY <2>1 DEF Candidates, Of
  <2>3. HostShape(k)
    BY <1>3, <2>1, <2>2 DEF HostInv, HostShape
  <2>4. Placed(k) /\ Queued(k) /\ CommitsOpened(k) /\ Grows(h, k)
    <3>1. Placed(k)
      BY <1>3, <2>1, <2>2 DEF HostInv, Placed, Authorized, HasEntry
    <3>2. Queued(k)
      BY <1>3, <2>1, <2>2 DEF HostInv, Queued
    <3>3. CommitsOpened(k) /\ Grows(h, k)
      BY <1>3, <2>1, <2>2 DEF HostInv, CommitsOpened, Opened, Grows
    <3> QED BY <3>1, <3>2, <3>3
  <2> QED BY <2>3, <2>4 DEF HostKeeps, HostInv
<1> HIDE DEF k
<1>5. HostKeeps(host, k)
  BY <1>3, <1>4, GrowsTransitive
<1>6. Thins(k, Schedule(k), {})
  BY <1>5, ScheduleThins DEF HostKeeps, HostInv
<1>7. HostKeeps(host, Schedule(k))
  BY <1>2, <1>5, <1>6, KeepsThins
<1> QED BY <1>1, <1>7, HostAlone

LEMMA ReconcileStep ==
  ASSUME BrokerInv, Reconcile \/ Supersede
  PROVE  BrokerInv'
<1>0. HostInv(host) /\ HostShape(host) /\ HostFields \subseteq DOMAIN host
  BY StateKept
<1>1. CASE Reconcile
  <2> DEFINE h == [host EXCEPT !.scheduled = FALSE]
             g == IF h.current = Nobody THEN RequestCandidate(h, FALSE) ELSE h
  <2>1. Host(g)
    BY <1>1 DEF Reconcile
  <2>2. HostFields \subseteq DOMAIN h /\ SamePlaces(host, h) /\ h.candidate = host.candidate /\ h.down = host.down
    BY <1>0 DEF HostFields, SamePlaces
  <2> HIDE DEF h
  <2>3. HostKeeps(host, h) /\ HostInv(h) /\ Grows(host, h)
    BY <1>0, <2>2, AsideThins, ThinsKeeps DEF HostKeeps
  <2>4. HostKeeps(h, RequestCandidate(h, FALSE))
    BY <2>3, RequestKeeps
  <2>5. HostKeeps(host, RequestCandidate(h, FALSE))
    BY <2>3, <2>4, GrowsTransitive
  <2>6. HostKeeps(host, g)
    BY <2>3, <2>5
  <2> QED BY <2>1, <2>6, HostAlone
<1>2. CASE Supersede
  <2>1. HostKeeps(host, host') /\ end' = end /\ up' = up
    BY <1>0, <1>2, RequestKeeps DEF Supersede
  <2>2. AnswersNamed'
    BY <2>1 DEF BrokerInv, AnswersNamed
  <2> QED BY <2>1, <2>2, HostStep
<1> QED BY <1>1, <1>2

LEMMA PairStep ==
  ASSUME BrokerInv, NEW c \in Candidates(host), PairCreated(c)
  PROVE  BrokerInv'
<1>1. HostInv(host) /\ Of(host, c).physical = "none" /\ ~Of(host, c).settled
  BY StateKept DEF PairCreated
<1> DEFINE a == DisposePending([host EXCEPT !.candidate[c].physical = "retired",
                                            !.candidate[c].settled = TRUE], c)
           b == PrepareRunner(PrepareRenderer([host EXCEPT !.candidate[c].physical = "preparing"], c), c)
<1>2. HostKeeps(host, a) /\ HostKeeps(host, b)
  BY <1>1, PairKeeps
<1>3. Host(a) \/ Host(b)
  BY DEF PairCreated
<1> HIDE DEF a, b
<1> QED BY <1>2, <1>3, HostAlone

LEMMA SettleStep ==
  ASSUME BrokerInv, NEW c \in Candidates(host), Settle(c)
  PROVE  BrokerInv'
<1>0. /\ HostInv(host) /\ HostFields \subseteq DOMAIN host /\ CandidateShape(Of(host, c))
      /\ ~Of(host, c).settled
  BY StateKept DEF HostShape, Settle
<1>1. ASSUME Of(host, c).confirmed = {"runner", "renderer"},
             Host(Enqueue([host EXCEPT !.candidate[c].settled = TRUE,
                                       !.candidate[c].state = "prepared"], "install", c))
      PROVE  BrokerInv'
  <2> DEFINE l == [Of(host, c) EXCEPT !.settled = TRUE, !.state = "prepared"]
             g == Enqueue([host EXCEPT !.candidate[c].settled = TRUE,
                                       !.candidate[c].state = "prepared"], "install", c)
  <2>1. /\ HostFields \subseteq DOMAIN g /\ g.candidate = [host.candidate EXCEPT ![c] = l]
        /\ g.tail = Append(host.tail, [op |-> "install", c |-> c])
        /\ g.renderer = host.renderer /\ g.runtime = host.runtime /\ g.attached = host.attached
        /\ g.current = host.current /\ g.pending = host.pending /\ g.down = host.down
    BY <1>0 DEF HostFields, Enqueue, Of, Candidates
  <2>2. /\ CandidateShape(l) /\ l.renderer = Of(host, c).renderer /\ l.settled
        /\ l.confirmed = Of(host, c).confirmed /\ l.physical = Of(host, c).physical /\ l.state = "prepared"
    BY <1>0 DEF CandidateShape, CandidateFields
  <2> HIDE DEF l, g
  <2>3. l.confirmed = {"runner", "renderer"}
    BY <1>1, <2>2
  <2>4. HostKeeps(host, g)
    BY <1>0, <2>1, <2>2, <2>3, SettleKeeps
  <2> QED BY <1>1, <2>4, HostAlone DEF g
<1>2. ASSUME Host(Enqueue([host EXCEPT !.candidate[c].settled = TRUE], "dispose", c))
      PROVE  BrokerInv'
  <2> DEFINE l == [Of(host, c) EXCEPT !.settled = TRUE]
             g == Enqueue([host EXCEPT !.candidate[c].settled = TRUE], "dispose", c)
  <2>1. /\ HostFields \subseteq DOMAIN g /\ g.candidate = [host.candidate EXCEPT ![c] = l]
        /\ g.tail = Append(host.tail, [op |-> "dispose", c |-> c])
        /\ g.renderer = host.renderer /\ g.runtime = host.runtime /\ g.attached = host.attached
        /\ g.current = host.current /\ g.pending = host.pending /\ g.down = host.down
    BY <1>0 DEF HostFields, Enqueue, Of
  <2>2. /\ CandidateShape(l) /\ l.renderer = Of(host, c).renderer /\ l.settled
        /\ l.confirmed = Of(host, c).confirmed /\ l.physical = Of(host, c).physical
        /\ l.state = Of(host, c).state
    BY <1>0 DEF CandidateShape, CandidateFields
  <2> HIDE DEF l, g
  <2>3. HostKeeps(host, g)
    BY <1>0, <2>1, <2>2, SettleKeeps
  <2> QED BY <1>2, <2>3, HostAlone DEF g
<1> QED BY <1>1, <1>2 DEF Settle

LEMMA TailAndFailure ==
  ASSUME BrokerInv, TailStep \/ \E c \in Candidates(host) : PhysicalFails(c)
  PROVE  BrokerInv'
<1>0. HostInv(host) /\ HostShape(host) /\ HostFields \subseteq DOMAIN host
  BY StateKept
<1>1. CASE TailStep
  <2>1. HostKeeps(host, Run([host EXCEPT !.tail = Tail(@)], Head(host.tail)))
    BY <1>0, <1>1, RunKeeps DEF TailStep
  <2> QED BY <1>1, <2>1, HostAlone DEF TailStep
<1>2. ASSUME NEW c \in Candidates(host), PhysicalFails(c)
      PROVE  BrokerInv'
  <2> DEFINE l == [Of(host, c) EXCEPT !.physical = "retired"]
             g == [host EXCEPT !.candidate[c].physical = "retired"]
  <2>1. CandidateShape(Of(host, c)) /\ c # Nobody
    BY <1>0, SeqDomain DEF HostShape, Candidates
  <2>2. /\ HostFields \subseteq DOMAIN g /\ SamePlaces(host, g) /\ g.down = host.down
        /\ g.candidate = [host.candidate EXCEPT ![c] = l]
    BY <1>0 DEF HostFields, SamePlaces, Of
  <2>3. /\ CandidateShape(l) /\ l.renderer = Of(host, c).renderer /\ l.state = Of(host, c).state
        /\ l.settled = Of(host, c).settled /\ l.confirmed = Of(host, c).confirmed /\ l.physical = "retired"
    BY <2>1 DEF CandidateShape, CandidateFields
  <2>4. Host(Enqueue(g, "failed", c))
    BY <1>2 DEF PhysicalFails
  <2> HIDE DEF l, g
  <2>5. HostKeeps(host, g) /\ HostInv(g) /\ Grows(host, g)
    BY <1>0, <2>2, <2>3, CandidateKeeps DEF HostKeeps
  <2>6. HostKeeps(g, Enqueue(g, "failed", c))
    BY <2>1, <2>5, EnqueueKeeps
  <2>7. HostKeeps(host, Enqueue(g, "failed", c))
    BY <2>5, <2>6, GrowsTransitive
  <2> QED BY <2>4, <2>7, HostAlone
<1> QED BY <1>1, <1>2

LEMMA RunnerAnswersStep ==
  ASSUME BrokerInv, RunnerAnswers
  PROVE  BrokerInv'
<1>0. HostInv(host) /\ HostShape(host) /\ HostFields \subseteq DOMAIN host /\ AnswersNamed /\ Runner \in Ends
  BY StateKept DEF Ends
<1> DEFINE m == Head(up[Runner])
           p == host.provisioner
           a == [host EXCEPT !.provisioner.preparing = Nobody, !.provisioner.prepared = m.c,
                             !.candidate[m.c].confirmed = @ \cup {"runner"}]
           b == [Refused(host, m.c) EXCEPT !.provisioner.preparing = Nobody]
           d == [host EXCEPT !.provisioner.committing = Nobody, !.provisioner.prepared = Nobody]
           u == Enqueue(host, "undelivered", m.c)
           q == [u EXCEPT !.provisioner.committing = Nobody, !.provisioner.prepared = Unless(@, m.c)]
<1>1. AnswersNamed' /\ (m.type = "uncommitted" => m.c # Nobody) /\ end' = end
  BY <1>0, AnswerTaken DEF RunnerAnswers
<1>2. host' \in {a, b, d, host} \/ (host' = q /\ m.type = "uncommitted")
  BY DEF RunnerAnswers
<1>3. HostKeeps(host, a)
  <2>1. /\ HostFields \subseteq DOMAIN a /\ SamePlaces(host, a) /\ a.down = host.down
        /\ a.candidate = [host.candidate EXCEPT ![m.c].confirmed = @ \cup {"runner"}]
    BY <1>0 DEF HostFields, SamePlaces
  <2> HIDE DEF a
  <2> QED BY <1>0, <2>1, ConfirmKeeps
<1>4. HostKeeps(host, b)
  <2> DEFINE f == Refused(host, m.c)
  <2>1. Thins(host, f, {})
    BY <1>0, RefusedThins
  <2>2. b = [f EXCEPT !.provisioner.preparing = Nobody]
    OBVIOUS
  <2> HIDE DEF f
  <2>3. HostFields \subseteq DOMAIN b /\ SamePlaces(f, b) /\ b.down = f.down /\ b.candidate = f.candidate
    BY <2>1, <2>2 DEF Thins, HostShape, HostFields, SamePlaces
  <2> HIDE DEF b
  <2> QED BY <1>0, <2>3, RejectKeeps DEF f
<1>5. HostKeeps(host, d)
  <2>1. HostFields \subseteq DOMAIN d /\ SamePlaces(host, d) /\ d.down = host.down /\ d.candidate = host.candidate
    BY <1>0 DEF HostFields, SamePlaces
  <2> HIDE DEF d
  <2> QED BY <1>0, <2>1, AsideThins, ThinsKeeps
<1>6. ASSUME m.type = "uncommitted"
      PROVE  HostKeeps(host, q)
  <2>1. HostKeeps(host, u) /\ HostShape(u)
    BY <1>0, <1>1, <1>6, EnqueueKeeps DEF HostKeeps, HostInv
  <2> HIDE DEF u
  <2>2. HostFields \subseteq DOMAIN q /\ SamePlaces(u, q) /\ q.down = u.down /\ q.candidate = u.candidate
    BY <2>1 DEF HostShape, HostFields, SamePlaces
  <2> HIDE DEF q
  <2>3. Thins(u, q, {})
    BY <2>1, <2>2, AsideThins
  <2> QED BY <1>0, <2>1, <2>3, KeepsThins
<1>7. HostKeeps(host, host)
  BY <1>0 DEF HostKeeps, Grows
<1> HIDE DEF a, b, d, q
<1> QED BY <1>1, <1>2, <1>3, <1>4, <1>5, <1>6, <1>7, HostStep

LEMMA RendererAnswersStep ==
  ASSUME BrokerInv, NEW r \in Renderers, RendererAnswers(r)
  PROVE  BrokerInv'
<1>0. HostInv(host) /\ HostShape(host) /\ HostFields \subseteq DOMAIN host /\ AnswersNamed /\ r \in Ends
  BY StateKept DEF Ends
<1> DEFINE m == Head(up[r])
           a == [host EXCEPT !.settling[r] = Nobody, !.candidate[m.c].confirmed = @ \cup {"renderer"}]
           f == Refused(host, m.c)
           b == [f EXCEPT !.settling[r] = Nobody]
<1>1. AnswersNamed' /\ end' = end
  BY <1>0, AnswerTaken DEF RendererAnswers
<1>2. host' \in {a, b, host}
  BY DEF RendererAnswers
<1>3. HostKeeps(host, a)
  <2>1. /\ HostFields \subseteq DOMAIN a /\ SamePlaces(host, a) /\ a.down = host.down
        /\ a.candidate = [host.candidate EXCEPT ![m.c].confirmed = @ \cup {"renderer"}]
    BY <1>0 DEF HostFields, SamePlaces
  <2> HIDE DEF a
  <2> QED BY <1>0, <2>1, ConfirmKeeps
<1>4. HostKeeps(host, b)
  <2>1. Thins(host, f, {})
    BY <1>0, RefusedThins
  <2> HIDE DEF f
  <2>2. HostFields \subseteq DOMAIN b /\ SamePlaces(f, b) /\ b.down = f.down /\ b.candidate = f.candidate
    BY <2>1 DEF Thins, HostShape, HostFields, SamePlaces
  <2> HIDE DEF b
  <2> QED BY <1>0, <2>2, RejectKeeps DEF f
<1>5. HostKeeps(host, host)
  BY <1>0 DEF HostKeeps, Grows
<1> HIDE DEF a, b
<1> QED BY <1>1, <1>2, <1>3, <1>4, <1>5, HostStep

\* The messages for the Runner are gone with its IPC.
LEMMA RunnerExitsStep ==
  ASSUME BrokerInv, RunnerExits
  PROVE  BrokerInv'
<1>0. HostInv(host) /\ HostShape(host) /\ HostFields \subseteq DOMAIN host /\ AnswersNamed /\ Runner \in Ends
  BY StateKept DEF Ends
<1> DEFINE p == host.provisioner
           h == [host EXCEPT !.unreachable = @ \cup {Runner}, !.down[Runner] = <<>>,
                    !.provisioner = [preparing |-> Nobody, prepared |-> Nobody, committing |-> Nobody]]
           r == IF p.preparing = Nobody THEN h ELSE Refused(h, p.preparing)
           b == [Empty EXCEPT !.closed = TRUE]
<1>1. /\ host' = (IF p.committing = Nobody THEN r ELSE Enqueue(r, "undelivered", p.committing))
      /\ end' = [end EXCEPT ![Runner] = b] /\ up' = [up EXCEPT ![Runner] = <<>>]
  BY DEF RunnerExits
<1>2. HostKeeps(host, h) /\ HostInv(h) /\ HostShape(h) /\ Grows(host, h)
  <2>1. /\ HostFields \subseteq DOMAIN h /\ SamePlaces(host, h) /\ h.candidate = host.candidate
        /\ h.down = [host.down EXCEPT ![Runner] = <<>>]
    BY <1>0 DEF HostFields, SamePlaces
  <2> HIDE DEF h
  <2>2. IsSeq(<<>>) /\ DOMAIN <<>> = {}
    <3>1. <<>> \in Seq({})
      OBVIOUS
    <3> QED BY <3>1 DEF IsSeq
  <2>3. DOMAIN h.down = Ends /\ \A e \in Ends : h.down[e] = host.down[e] \/ h.down[e] = <<>>
    BY <1>0, <2>1 DEF HostShape
  <2>4. (\A e \in Ends : IsSeq(h.down[e])) /\ SameCommits(host, h)
    BY <1>0, <2>2, <2>3 DEF HostShape, SameCommits
  <2>5. Thins(host, h, {})
    BY <1>0, <2>1, <2>3, <2>4, TakenThins
  <2> QED BY <1>0, <2>5, ThinsKeeps DEF HostKeeps, HostInv
<1> HIDE DEF h
<1>3. HostKeeps(host, r) /\ HostInv(r) /\ Grows(host, r)
  <2>1. Thins(h, Refused(h, p.preparing), {})
    BY <1>2, RefusedThins
  <2>2. HostKeeps(host, Refused(h, p.preparing))
    BY <1>0, <1>2, <2>1, KeepsThins
  <2> QED BY <1>2, <2>2 DEF HostKeeps
<1> HIDE DEF r
<1>4. HostKeeps(host, host')
  <2>1. CASE p.committing = Nobody
    BY <1>1, <1>3, <2>1
  <2>2. CASE p.committing # Nobody
    <3>1. HostKeeps(r, Enqueue(r, "undelivered", p.committing))
      BY <1>3, <2>2, EnqueueKeeps
    <3>2. HostKeeps(host, Enqueue(r, "undelivered", p.committing))
      BY <1>3, <3>1, GrowsTransitive
    <3> QED BY <1>1, <2>2, <3>2
  <2> QED BY <2>1, <2>2
<1>5. AnswersNamed'
  <2>1. IsSeq(<<>>) /\ DOMAIN <<>> = {}
    <3>1. <<>> \in Seq({})
      OBVIOUS
    <3> QED BY <3>1 DEF IsSeq
  <2>2. DOMAIN up' = Ends /\ \A e \in Ends : up'[e] = up[e] \/ up'[e] = <<>>
    BY <1>0, <1>1 DEF AnswersNamed
  <2> QED BY <1>0, <2>1, <2>2 DEF AnswersNamed
<1>6. BindingFields \subseteq DOMAIN b /\ b.current = Nobody /\ b.held = Nobody
  BY DEF BindingFields, Empty
<1> HIDE DEF b
<1> QED BY <1>0, <1>1, <1>4, <1>5, <1>6, EndStep

\* A socket that is lost says nothing yet.
LEMMA FaultStep ==
  ASSUME BrokerInv, NEW c \in Candidates(host), NEW e \in Ends, Fault(c, e)
  PROVE  BrokerInv'
<1> DEFINE was == Of(host, c).state # "current"
           l == [Of(host, c) EXCEPT !.hit = was]
<1>0. HostInv(host) /\ HostFields \subseteq DOMAIN host /\ CandidateShape(Of(host, c)) /\ AnswersNamed
  BY StateKept DEF HostShape
<1>1. /\ HostFields \subseteq DOMAIN host' /\ SamePlaces(host, host') /\ host'.down = host.down
      /\ host'.candidate = [host.candidate EXCEPT ![c] = l] /\ end' = end /\ up' = up
  BY <1>0 DEF Fault, HostFields, SamePlaces, Of
<1>2. /\ CandidateShape(l) /\ l.renderer = Of(host, c).renderer /\ l.state = Of(host, c).state
      /\ l.settled = Of(host, c).settled /\ l.confirmed = Of(host, c).confirmed
      /\ l.physical = Of(host, c).physical
  BY <1>0 DEF CandidateShape, CandidateFields
<1> HIDE DEF l
<1>3. HostKeeps(host, host')
  BY <1>0, <1>1, <1>2, CandidateKeeps
<1>4. AnswersNamed'
  BY <1>0, <1>1 DEF AnswersNamed
<1> QED BY <1>1, <1>3, <1>4, HostStep

\* What an end delivers to its role is what is current.
LEMMA DeliverKeeps ==
  ASSUME NEW b, BindingFields \subseteq DOMAIN b
  PROVE  /\ BindingFields \subseteq DOMAIN Deliver(b) /\ Deliver(b).current = b.current
         /\ Deliver(b).held \in {b.held, b.current}
  BY DEF BindingFields, Deliver

\* An end takes a message: what it commits was opened.
LEMMA ReceiveStep ==
  ASSUME BrokerInv, NEW e \in Ends, Receive(e)
  PROVE  BrokerInv'
<1> DEFINE m == Head(host.down[e])
           b == end[e]
<1>0. /\ HostInv(host) /\ HostShape(host) /\ HostFields \subseteq DOMAIN host /\ AnswersNamed /\ EndsOpened
      /\ CommitsOpened(host) /\ BindingFields \subseteq DOMAIN b /\ host.down[e] # <<>>
  BY StateKept DEF HostInv, EndsOpened, Receive
<1>1. /\ IsSeq(Tail(host.down[e])) /\ DOMAIN host.down[e] = 1 .. Len(host.down[e]) /\ 1 \in DOMAIN host.down[e]
      /\ DOMAIN Tail(host.down[e]) = 1 .. Len(host.down[e]) - 1
      /\ \A i \in 1 .. Len(host.down[e]) - 1 :
           Tail(host.down[e])[i] = host.down[e][i + 1] /\ i + 1 \in DOMAIN host.down[e]
      /\ m = host.down[e][1]
  BY <1>0, TailIsSeq DEF HostShape
<1>2. HostKeeps(host, host')
  <2>1. /\ HostFields \subseteq DOMAIN host' /\ SamePlaces(host, host') /\ host'.candidate = host.candidate
        /\ host'.down = [host.down EXCEPT ![e] = Tail(host.down[e])]
    BY <1>0 DEF Receive, HostFields, SamePlaces
  <2>2. /\ DOMAIN host'.down = Ends /\ host'.down[e] = Tail(host.down[e])
        /\ \A x \in Ends : x # e => host'.down[x] = host.down[x]
    BY <1>0, <2>1 DEF HostShape
  <2>3. \A x \in Ends : IsSeq(host'.down[x])
    BY <1>0, <1>1, <2>2 DEF HostShape
  <2>4. SameCommits(host, host')
    <3> SUFFICES ASSUME NEW x \in Ends, NEW i \in DOMAIN host'.down[x]
                 PROVE  \E j \in DOMAIN host.down[x] : host.down[x][j] = host'.down[x][i]
      BY DEF SameCommits
    <3>1. CASE x = e
      BY <1>1, <2>2, <3>1
    <3>2. CASE x # e
      BY <2>2, <3>2
    <3> QED BY <3>1, <3>2
  <2>5. Thins(host, host', {})
    BY <1>0, <2>1, <2>2, <2>3, <2>4, TakenThins
  <2> QED BY <1>0, <2>5, ThinsKeeps
<1>3. m.type = "commit" => Opened(host', m.c) /\ m.c # Nobody
  <2>1. m.type = "commit" => Opened(host, m.c)
    BY <1>0, <1>1 DEF CommitsOpened
  <2>2. Opened(host, m.c) => m.c # Nobody
    BY <1>0, SeqDomain DEF HostShape, Opened, Candidates
  <2> QED BY <1>2, <2>1, <2>2 DEF HostKeeps, Grows, Opened
<1> HIDE DEF m
<1>4. AnswersNamed'
  <2>1. up' = up \/ \E type \in {"refused", "committed"} : Answer(e, type, m.c)
                 \/ (m.type = "commit" /\ Answer(e, "uncommitted", m.c))
    BY DEF Receive, m
  <2>2. CASE up' = up
    BY <1>0, <2>2 DEF AnswersNamed
  <2>3. ASSUME NEW type, type = "uncommitted" => m.c # Nobody, Answer(e, type, m.c)
        PROVE  AnswersNamed'
    BY <1>0, <2>3, AnswerNamed DEF Answer
  <2> QED BY <1>3, <2>1, <2>2, <2>3
<1>5. \/ end' = end
      \/ \E k : /\ end' = [end EXCEPT ![e] = k] /\ BindingFields \subseteq DOMAIN k
                /\ \A c \in {k.current, k.held} : c \in {Nobody, b.current, b.held} \/ Opened(host', c)
  <2>1. CASE end' = [end EXCEPT ![e].connecting = m.c]
    <3> DEFINE k == [b EXCEPT !.connecting = m.c]
    <3>1. end' = [end EXCEPT ![e] = k] /\ BindingFields \subseteq DOMAIN k /\ k.current = b.current /\ k.held = b.held
      BY <1>0, <2>1 DEF BindingFields
    <3> HIDE DEF k
    <3> QED BY <3>1
  <2>2. CASE m.type = "commit" /\ end' = [end EXCEPT ![e] = Commit(b, m.c)]
    <3> DEFINE a == [b EXCEPT !.prepared = Nobody, !.current = m.c, !.delivered = FALSE]
    <3>1. BindingFields \subseteq DOMAIN a /\ a.current = m.c /\ a.held = b.held /\ Commit(b, m.c) = Deliver(a)
      BY <1>0 DEF BindingFields, Commit
    <3> HIDE DEF a
    <3>2. /\ BindingFields \subseteq DOMAIN Deliver(a) /\ Deliver(a).current = m.c
          /\ Deliver(a).held \in {b.held, m.c}
      BY <3>1, DeliverKeeps
    <3> QED BY <1>3, <2>2, <3>1, <3>2
  <2>3. CASE end' = [end EXCEPT ![e] = Revoke(b, m.c)]
    <3>1. /\ BindingFields \subseteq DOMAIN Revoke(b, m.c) /\ Revoke(b, m.c).current \in {b.current, Nobody}
          /\ Revoke(b, m.c).held = b.held
      BY <1>0 DEF BindingFields, Revoke, Unless
    <3> QED BY <2>3, <3>1
  <2>4. CASE end' = [end EXCEPT ![e] = [Empty EXCEPT !.closed = TRUE]]
    <3>1. /\ BindingFields \subseteq DOMAIN [Empty EXCEPT !.closed = TRUE]
          /\ [Empty EXCEPT !.closed = TRUE].current = Nobody /\ [Empty EXCEPT !.closed = TRUE].held = Nobody
      BY DEF BindingFields, Empty
    <3> QED BY <2>4, <3>1
  <2> QED BY <2>1, <2>2, <2>3, <2>4 DEF Receive, m
<1> QED BY <1>2, <1>4, <1>5, EndStep, HostStep

LEMMA EndMoves ==
  ASSUME BrokerInv, NEW e \in Ends, Connects(e) \/ Observes(e) \/ Acquire(e)
  PROVE  BrokerInv'
<1> DEFINE b == end[e]
<1>0. AnswersNamed /\ EndsOpened /\ BindingFields \subseteq DOMAIN b /\ DOMAIN end = Ends /\ host' = host
  BY StateKept DEF EndsOpened, Connects, Observes, Acquire
<1>1. HostKeeps(host, host')
  BY <1>0, HostStays
<1>2. AnswersNamed'
  <2>1. up' = up \/ \E type \in {"refused", "prepared"} : Answer(e, type, b.connecting)
    BY DEF Connects, Observes, Acquire
  <2>2. CASE up' = up
    BY <1>0, <2>2 DEF AnswersNamed
  <2>3. ASSUME NEW type \in {"refused", "prepared"}, Answer(e, type, b.connecting)
        PROVE  AnswersNamed'
    BY <1>0, <2>3, AnswerNamed DEF Answer
  <2> QED BY <2>1, <2>2, <2>3
<1>3. \E k : /\ end' = [end EXCEPT ![e] = k] /\ BindingFields \subseteq DOMAIN k
             /\ \A c \in {k.current, k.held} : c \in {Nobody, b.current, b.held}
  <2>1. CASE Connects(e)
    <3> DEFINE k == [b EXCEPT !.connecting = Nobody]
               l == [b EXCEPT !.connecting = Nobody, !.prepared = b.connecting]
    <3>1. end' = [end EXCEPT ![e] = k] \/ end' = [end EXCEPT ![e] = l]
      BY <1>0, <2>1 DEF Connects
    <3>2. /\ BindingFields \subseteq DOMAIN k /\ k.current = b.current /\ k.held = b.held
          /\ BindingFields \subseteq DOMAIN l /\ l.current = b.current /\ l.held = b.held
      BY <1>0 DEF BindingFields
    <3> HIDE DEF k, l
    <3> QED BY <3>1, <3>2
  <2>2. CASE Observes(e)
    <3>1. PICK x, y, z : /\ end' = [end EXCEPT ![e].prepared = x, ![e].current = y, ![e].held = z]
                         /\ y \in {b.current, Nobody} /\ z \in {b.held, Nobody}
      BY <1>0, <2>2 DEF Observes, BindingFields
    <3> DEFINE k == [b EXCEPT !.prepared = x, !.current = y, !.held = z]
    <3>2. end' = [end EXCEPT ![e] = k]
      BY <1>0, <3>1
    <3>3. BindingFields \subseteq DOMAIN k /\ k.current = y /\ k.held = z
      BY <1>0 DEF BindingFields
    <3> HIDE DEF k
    <3> QED BY <3>1, <3>2, <3>3
  <2>3. CASE Acquire(e)
    <3> DEFINE a == [b EXCEPT !.waiter = TRUE]
    <3>1. BindingFields \subseteq DOMAIN a /\ a.current = b.current /\ a.held = b.held
      BY <1>0 DEF BindingFields
    <3>2. end' = [end EXCEPT ![e] = Deliver(a)]
      BY <2>3 DEF Acquire
    <3> HIDE DEF a
    <3>3. /\ BindingFields \subseteq DOMAIN Deliver(a) /\ Deliver(a).current = b.current
          /\ Deliver(a).held \in {b.held, b.current}
      BY <3>1, DeliverKeeps
    <3> QED BY <3>2, <3>3
  <2> QED BY <2>1, <2>2, <2>3
<1> QED BY <1>1, <1>2, <1>3, EndStep

-----------------------------------------------------------------------------
(* The theorems.                                                           *)

LEMMA InitHolds ==
  ASSUME Init
  PROVE  BrokerInv
<1>1. IsSeq(<<>>) /\ Len(<<>>) = 0 /\ DOMAIN <<>> = {}
  <2>1. <<>> \in Seq({})
    OBVIOUS
  <2> QED BY <2>1 DEF IsSeq
<1>2. 1 \in Renderers
  BY DataProvisioningAssumption DEF Renderers
<1>3. /\ HostFields \subseteq DOMAIN host /\ host.renderer = Nobody /\ host.attached = {1}
      /\ host.current = Nobody /\ host.pending = Nobody /\ host.tail = <<>> /\ host.candidate = <<>>
      /\ DOMAIN host.down = Ends /\ \A e \in Ends : host.down[e] = <<>>
  BY DEF Init, HostFields
<1>4. Candidates(host) = {}
  BY <1>1, <1>3 DEF Candidates
<1>5. HostInv(host)
  <2>1. HostShape(host)
    BY <1>1, <1>2, <1>3, <1>4 DEF HostShape
  <2>2. Placed(host) /\ CommitsOpened(host)
    BY <1>1, <1>3, <1>4 DEF Placed, CommitsOpened
  <2>3. Queued(host)
    BY <1>1, <1>3 DEF Queued
  <2> QED BY <2>1, <2>2, <2>3 DEF HostInv
<1>6. EndsOpened
  <2>1. ASSUME NEW e \in Ends
        PROVE  BindingFields \subseteq DOMAIN end[e] /\ end[e].current = Nobody /\ end[e].held = Nobody
    BY DEF Init, BindingFields, Empty
  <2>2. DOMAIN end = Ends
    BY DEF Init
  <2> QED BY <2>1, <2>2 DEF EndsOpened
<1>7. AnswersNamed
  BY <1>1 DEF Init, AnswersNamed
<1> QED BY <1>5, <1>6, <1>7 DEF BrokerInv

LEMMA StepHolds ==
  ASSUME BrokerInv, [Next]_vars
  PROVE  BrokerInv'
<1>1. CASE Environment
  BY <1>1, ReplaceStep, ReconcileStep, RunnerExitsStep, FaultStep DEF Environment
<1>2. CASE Reconcile \/ TailStep \/ RunnerAnswers
  BY <1>2, ReconcileStep, TailAndFailure, RunnerAnswersStep
<1>3. CASE \E r \in Renderers : AttachRenderer(r) \/ RendererAnswers(r)
  BY <1>3, AttachStep, RendererAnswersStep
<1>4. CASE \E c \in Candidates(host) : PairCreated(c) \/ Settle(c) \/ PhysicalFails(c)
  BY <1>4, PairStep, SettleStep, TailAndFailure
<1>5. CASE \E e \in Ends : Receive(e) \/ Connects(e) \/ Observes(e) \/ Acquire(e)
  BY <1>5, ReceiveStep, EndMoves
<1>6. CASE UNCHANGED vars
  BY <1>6 DEF vars, BrokerInv, EndsOpened, AnswersNamed
<1> QED BY <1>1, <1>2, <1>3, <1>4, <1>5, <1>6 DEF Next, System

\* What is current is in its place, prepared on both sides and authorized, nothing
\* else relays, an outcome is queued once, and a commit is of an open relay.
THEOREM BrokerInvariant == Spec => []BrokerInv
<1>1. Init => BrokerInv
  BY InitHolds
<1>2. BrokerInv /\ [Next]_vars => BrokerInv'
  BY StepHolds
<1> QED BY <1>1, <1>2, PTL DEF Spec

\* At most one Data connection relays, and it is the one that Main authorizes now,
\* prepared on both sides, whatever was queued, refused, retired or lost meanwhile.
THEOREM OneConnectionHolds == Spec => []OneConnection
<1>1. BrokerInv => OneConnection
  <2> SUFFICES ASSUME BrokerInv, NEW c \in Installed
               PROVE  /\ c = host.current /\ Authorized(host, c)
                      /\ Of(host, c).confirmed = {"runner", "renderer"}
    BY DEF OneConnection
  <2>1. c \in Candidates(host) /\ Of(host, c).physical = "installed" /\ c # Nobody
    BY StateKept, SeqDomain DEF Installed, HostShape, Candidates
  <2> QED BY <2>1 DEF BrokerInv, HostInv, Placed
<1> QED BY <1>1, BrokerInvariant, PTL

\* Neither role has its end of a connection before the relay of the connection is
\* open, however long an end waits and whatever the messages overtake.
THEOREM NeverTooEarlyHolds == Spec => []NeverTooEarly
<1>1. BrokerInv => NeverTooEarly
  BY DEF BrokerInv, EndsOpened, Opened, NeverTooEarly
<1> QED BY <1>1, BrokerInvariant, PTL
=============================================================================
