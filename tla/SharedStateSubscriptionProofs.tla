-------------------- MODULE SharedStateSubscriptionProofs --------------------
(***************************************************************************)
(* Proofs about SharedStateSubscription, for any limit of a lane and any   *)
(* number of commits: the binding never finds its peer in breach of the    *)
(* protocol, and what the listener is given is a SubscriptionFeed.         *)
(*                                                                         *)
(* An event passes the Authority's lane, the server's outbound lane, the   *)
(* carrier, and the lane of the binding, before the listener is given it.  *)
(* MayFollow(R, N, m, n) says when n may come right after m, with R the    *)
(* relevant revisions and N the Authority's; the invariant says that each  *)
(* of these queues continues the one before it, from what the listener was *)
(* given last to the commit that comes next.                               *)
(***************************************************************************)
EXTENDS SharedStateSubscription, SequenceTheorems, FiniteSetTheorems, TLAPS

IsNews(m) == m.type \in {"baseline", "change"}

\* "nothing" is what comes before the response to subscribe().
MayFollow(R, N, m, n) ==
    /\ n.type \in {"subscribed", "failure"} => m.type = "nothing"
    /\ n.type = "baseline" => m.type = "subscribed" /\ n.revision <= N
    /\ n.type = "change" =>
         /\ IsNews(m) /\ m.revision < n.revision /\ n.revision \in R
         /\ \A q \in R : q <= m.revision \/ n.revision <= q
    /\ IsTerminal(n) => IsNews(m) /\ n.revision = 0

\* q comes after p; and the last of both.
Continues(R, N, p, q) ==
    \A i \in 1 .. Len(q) : MayFollow(R, N, IF i = 1 THEN p ELSE q[i - 1], q[i])
Final(p, q) == IF q = <<>> THEN p ELSE q[Len(q)]

\* A lane, but for how much its count of changes may be.
LaneRecords ==
    [active : BOOLEAN, queue : Seq(Events), changes : Int, terminalQueued : BOOLEAN,
     scheduled : BOOLEAN, busy : Events \cup {NoEvent}]

LaneInOrder(l) ==
    /\ l \in LaneRecords
    /\ l.scheduled => ~Delivering(l)
    /\ ~l.active => l.queue = <<>>

-----------------------------------------------------------------------------
(* Sequences that continue one another.                                    *)

LEMMA EmptyContinues ==
  ASSUME NEW R, NEW N, NEW p
  PROVE  Continues(R, N, p, <<>>) /\ Final(p, <<>>) = p
BY DEF Continues, Final

LEMMA Grows ==
  ASSUME NEW S, NEW q \in Seq(S), NEW e \in S, NEW p, NEW R, NEW N
  PROVE  /\ Continues(R, N, p, Append(q, e)) <=> Continues(R, N, p, q) /\ MayFollow(R, N, Final(p, q), e)
         /\ Final(p, Append(q, e)) = e
<1> DEFINE t == Append(q, e)
           n == Len(q)
<1>1. /\ n \in Nat /\ Len(t) = n + 1 /\ t # <<>>
      /\ \A i \in 1 .. n : t[i] = q[i]
      /\ t[n + 1] = e
  BY AppendProperties, LenProperties
<1>2. Final(p, q) = IF n = 0 THEN p ELSE q[n]
  BY DEF Final
<1> HIDE DEF t, n
<1>3. Continues(R, N, p, t) <=>
        \A i \in 1 .. n + 1 : MayFollow(R, N, IF i = 1 THEN p ELSE t[i - 1], t[i])
  BY <1>1 DEF Continues
<1>4. \A i \in 1 .. n : /\ t[i] = q[i]
                        /\ (IF i = 1 THEN p ELSE t[i - 1]) = IF i = 1 THEN p ELSE q[i - 1]
  BY <1>1
<1>5. (IF n + 1 = 1 THEN p ELSE t[(n + 1) - 1]) = Final(p, q)
  BY <1>1, <1>2
<1>6. Continues(R, N, p, t) <=>
        /\ \A i \in 1 .. n : MayFollow(R, N, IF i = 1 THEN p ELSE t[i - 1], t[i])
        /\ MayFollow(R, N, IF n + 1 = 1 THEN p ELSE t[(n + 1) - 1], t[n + 1])
  <2>1. 1 .. n + 1 = (1 .. n) \cup {n + 1}
    BY <1>1
  <2> QED
    BY <1>3, <2>1, Zenon
<1>7. Continues(R, N, p, q) <=>
        \A i \in 1 .. n : MayFollow(R, N, IF i = 1 THEN p ELSE q[i - 1], q[i])
  BY DEF Continues, n
<1>8. Continues(R, N, p, t) <=> Continues(R, N, p, q) /\ MayFollow(R, N, Final(p, q), e)
  BY <1>1, <1>4, <1>5, <1>6, <1>7, Zenon
<1>9. Final(p, t) = e
  BY <1>1 DEF Final
<1> QED
  BY <1>8, <1>9 DEF t

LEMMA Shrinks ==
  ASSUME NEW S, NEW q \in Seq(S), q # <<>>, NEW p, NEW R, NEW N
  PROVE  /\ Continues(R, N, p, q) => MayFollow(R, N, p, Head(q)) /\ Continues(R, N, Head(q), Tail(q))
         /\ Final(p, q) = Final(Head(q), Tail(q))
<1>1. /\ Len(q) \in Nat /\ Len(q) >= 1 /\ Head(q) = q[1]
      /\ Tail(q) \in Seq(S) /\ Len(Tail(q)) = Len(q) - 1
      /\ \A i \in 1 .. Len(q) - 1 : Tail(q)[i] = q[i + 1]
  BY HeadTailProperties, LenProperties, EmptySeq
<1>2. ASSUME Continues(R, N, p, q) PROVE MayFollow(R, N, p, Head(q)) /\ Continues(R, N, Head(q), Tail(q))
  <2>1. MayFollow(R, N, p, Head(q))
    BY <1>1, <1>2 DEF Continues
  <2>2. ASSUME NEW i \in 1 .. Len(q) - 1
        PROVE  MayFollow(R, N, IF i = 1 THEN Head(q) ELSE Tail(q)[i - 1], Tail(q)[i])
    <3>1. i + 1 \in 1 .. Len(q) /\ i + 1 # 1 /\ (i + 1) - 1 = i
      BY <1>1
    <3>2. MayFollow(R, N, q[i], q[i + 1])
      BY <1>2, <3>1 DEF Continues
    <3>3. (IF i = 1 THEN Head(q) ELSE Tail(q)[i - 1]) = q[i]
      BY <1>1
    <3> QED
      BY <1>1, <3>2, <3>3
  <2> QED
    BY <1>1, <2>1, <2>2 DEF Continues
<1>3. Final(p, q) = Final(Head(q), Tail(q))
  <2>1. CASE Len(q) = 1
    <3>1. Tail(q) = <<>>
      <4>1. \A t \in Seq(S) : t # <<>> => Len(t) \in Nat \ {0}
        BY EmptySeq
      <4>2. Tail(q) \in Seq(S) /\ Len(Tail(q)) = 0
        BY <1>1, <2>1
      <4>3. ~(0 \in Nat \ {0})
        OBVIOUS
      <4> QED
        BY <4>1, <4>2, <4>3, Zenon
    <3>2. Final(p, q) = q[1] /\ Final(Head(q), Tail(q)) = Head(q)
      BY <2>1, <3>1 DEF Final
    <3> QED
      BY <1>1, <3>2
  <2>2. CASE Len(q) # 1
    <3>1. Tail(q) # <<>>
      BY <1>1, <2>2, EmptySeq
    <3>2. Final(p, q) = q[Len(q)] /\ Final(Head(q), Tail(q)) = Tail(q)[Len(q) - 1]
      BY <1>1, <3>1 DEF Final
    <3>3. Len(q) - 1 \in 1 .. Len(q) - 1 /\ (Len(q) - 1) + 1 = Len(q)
      BY <1>1, <2>2
    <3>4. Tail(q)[Len(q) - 1] = q[(Len(q) - 1) + 1]
      BY <1>1, <3>3
    <3> QED
      BY <3>2, <3>3, <3>4
  <2> QED
    BY <2>1, <2>2
<1> QED
  BY <1>2, <1>3

\* A link that ends leaves a prefix of what was on its way.
LEMMA Prefix ==
  ASSUME NEW S, NEW q \in Seq(S), NEW n \in 0 .. Len(q), NEW p, NEW R, NEW N, Continues(R, N, p, q)
  PROVE  SubSeq(q, 1, n) \in Seq(S) /\ Continues(R, N, p, SubSeq(q, 1, n))
<1>1. Len(q) \in Nat /\ n \in Nat /\ n <= Len(q)
  BY LenProperties
<1>2. \A i \in 1 .. n : q[i] \in S
  BY <1>1, ElementOfSeq
<1>3. /\ SubSeq(q, 1, n) \in Seq(S)
      /\ Len(SubSeq(q, 1, n)) = n
      /\ \A i \in 1 .. n : SubSeq(q, 1, n)[i] = q[i]
  BY <1>1, <1>2, SubSeqProperties
<1> QED
  BY <1>1, <1>3 DEF Continues

\* Later commits take nothing away from what may follow.
LEMMA CommitKeeps ==
  ASSUME NEW N \in Nat, NEW R \in SUBSET (1 .. N), NEW T, T = R \/ T = R \cup {N + 1}
  PROVE  /\ \A m, n : MayFollow(R, N, m, n) /\ n.revision \in Nat => MayFollow(T, N + 1, m, n)
         /\ \A q \in Seq(Messages) : \A p : Continues(R, N, p, q) => Continues(T, N + 1, p, q)
<1>1. ASSUME NEW m, NEW n, MayFollow(R, N, m, n), n.revision \in Nat
      PROVE  MayFollow(T, N + 1, m, n)
  <2>1. n.type = "baseline" => n.revision <= N + 1
    BY <1>1 DEF MayFollow
  <2>2. n.type = "change" => /\ n.revision \in T
                             /\ \A q \in T : q <= m.revision \/ n.revision <= q
    <3>1. n.type = "change" => n.revision <= N + 1
      BY <1>1 DEF MayFollow
    <3>2. n.type = "change" => n.revision \in R /\ \A q \in R : q <= m.revision \/ n.revision <= q
      BY <1>1 DEF MayFollow
    <3>3. \A q \in T : q \in R \/ q = N + 1
      OBVIOUS
    <3> QED
      BY <3>1, <3>2, <3>3
  <2>3. /\ n.type \in {"subscribed", "failure"} => m.type = "nothing"
        /\ n.type = "baseline" => m.type = "subscribed"
        /\ n.type = "change" => IsNews(m) /\ m.revision < n.revision
        /\ IsTerminal(n) => IsNews(m) /\ n.revision = 0
    BY <1>1 DEF MayFollow
  <2> QED
    BY <2>1, <2>2, <2>3 DEF MayFollow, IsTerminal, IsNews
<1>2. ASSUME NEW q \in Seq(Messages), NEW p, Continues(R, N, p, q)
      PROVE  Continues(T, N + 1, p, q)
  <2>1. \A m \in Messages : m.revision \in Nat
    BY DEF Messages, Events
  <2>2. \A i \in 1 .. Len(q) : q[i].revision \in Nat
    BY <2>1, ElementOfSeq
  <2> QED
    BY <1>1, <1>2, <2>2 DEF Continues
<1> QED
  BY <1>1, <1>2

-----------------------------------------------------------------------------
(* The methods of a lane.                                                  *)

\* What is queued behind news and ends in news is the baseline, if it has not
\* been delivered yet, and changes.
LEMMA OnlyChanges ==
  ASSUME NEW q \in Seq(Events), NEW p, NEW R, NEW N, Continues(R, N, p, q), IsNews(Final(p, q))
  PROVE  /\ \A i \in 1 .. Len(q) : ~IsChange(q[i]) => i = 1 /\ q[i].type = "baseline"
         /\ q = <<>> \/ IsChange(q[1]) => IsNews(p)
<1>1. Len(q) \in Nat /\ \A i \in 1 .. Len(q) : q[i] \in Events
  BY LenProperties, ElementOfSeq
<1>2. ASSUME NEW i \in 1 .. Len(q) PROVE ~IsTerminal(q[i])
  <2>1. CASE i = Len(q)
    BY <1>1, <1>2, <2>1 DEF Final, IsNews, IsTerminal, TerminalTypes
  <2>2. CASE i # Len(q)
    <3>1. i + 1 \in 1 .. Len(q) /\ i + 1 # 1 /\ (i + 1) - 1 = i
      BY <1>1, <2>2
    <3>2. MayFollow(R, N, q[i], q[i + 1]) /\ q[i + 1] \in Events
      BY <1>1, <3>1 DEF Continues
    <3> QED
      BY <3>2 DEF MayFollow, Events, IsNews, IsTerminal, TerminalTypes
  <2> QED
    BY <2>1, <2>2
<1>3. ASSUME NEW i \in 1 .. Len(q), ~IsChange(q[i]) PROVE i = 1 /\ q[i].type = "baseline"
  <2>1. q[i].type = "baseline"
    BY <1>1, <1>2, <1>3 DEF Events, IsChange, IsTerminal
  <2>2. MayFollow(R, N, IF i = 1 THEN p ELSE q[i - 1], q[i])
    BY DEF Continues
  <2>3. i # 1 => q[i - 1] \in Events
    BY <1>1
  <2> QED
    BY <2>1, <2>2, <2>3 DEF MayFollow, Events, TerminalTypes
<1>4. q = <<>> \/ IsChange(q[1]) => IsNews(p)
  <2>1. q = <<>> => IsNews(p)
    BY DEF Final
  <2>2. ASSUME IsChange(q[1]), q # <<>> PROVE IsNews(p)
    <3>1. 1 \in 1 .. Len(q)
      BY <1>1, <2>2, EmptySeq
    <3>2. MayFollow(R, N, p, q[1])
      BY <3>1 DEF Continues
    <3> QED
      BY <2>2, <3>2 DEF MayFollow, IsChange
  <2> QED
    BY <2>1, <2>2
<1> QED
  BY <1>3, <1>4

LEMMA StartKeeps ==
  ASSUME NEW l \in LaneRecords
  PROVE  /\ Start(l) \in LaneRecords
         /\ Start(l).queue = l.queue /\ Start(l).terminalQueued = l.terminalQueued
         /\ Start(l).active = l.active /\ Start(l).busy = l.busy
         /\ Start(l).scheduled => l.scheduled \/ ~Delivering(l)
<1> DEFINE b == l.scheduled \/ (l.active /\ ~Delivering(l))
<1>1. b \in BOOLEAN /\ (b => l.scheduled \/ ~Delivering(l))
  BY DEF Delivering, LaneRecords
<1>2. Start(l) = [l EXCEPT !.scheduled = b]
  BY DEF Start
<1> HIDE DEF b
<1>3. /\ Start(l) \in LaneRecords /\ Start(l).scheduled = b
      /\ Start(l).queue = l.queue /\ Start(l).terminalQueued = l.terminalQueued
      /\ Start(l).active = l.active /\ Start(l).busy = l.busy
  BY <1>1, <1>2 DEF LaneRecords
<1> QED
  BY <1>1, <1>3

\* discardQueuedChanges() leaves the baseline at most.
LEMMA KeptBaseline ==
  ASSUME NEW l, l.queue \in Seq(Events),
         \A i \in 1 .. Len(l.queue) : ~IsChange(l.queue[i]) => i = 1
  PROVE  Kept(l) = IF l.queue # <<>> /\ ~IsChange(l.queue[1]) THEN <<l.queue[1]>> ELSE <<>>
<1> DEFINE q == l.queue
           places == {i \in DOMAIN q : ~IsChange(q[i])}
           Places(f) == \A i, j \in DOMAIN f : i < j => f[i] < f[j]
           place == CHOOSE f \in [1 .. Cardinality(places) -> places] : Places(f)
<1>1. Kept(l) = [i \in 1 .. Cardinality(places) |-> q[place[i]]]
  BY DEF Kept
<1>2. Len(q) \in Nat /\ DOMAIN q = 1 .. Len(q)
  BY LenProperties
<1>3. CASE q # <<>> /\ ~IsChange(q[1])
  <2>1. places = {1}
    <3>1. 1 \in 1 .. Len(q)
      BY <1>2, <1>3, EmptySeq
    <3> QED
      BY <1>2, <1>3, <3>1
  <2>2. Cardinality(places) = 1
    BY <2>1, FS_Singleton
  <2>3. [i \in 1 .. 1 |-> 1] \in [1 .. Cardinality(places) -> places] /\ Places([i \in 1 .. 1 |-> 1])
    <3> HIDE DEF places
    <3> QED
      BY <2>1, <2>2
  <2>4. place \in [1 .. Cardinality(places) -> places]
    <3> HIDE DEF places, Places
    <3> QED
      BY <2>3
  <2> HIDE DEF place, places
  <2>5. place[1] = 1
    BY <2>1, <2>2, <2>4
  <2>6. Kept(l) = [i \in 1 .. 1 |-> q[1]]
    <3>1. \A i \in 1 .. 1 : q[place[i]] = q[1]
      BY <2>5
    <3> QED
      BY <1>1, <2>2, <3>1
  <2>7. [i \in 1 .. 1 |-> q[1]] = <<q[1]>>
    OBVIOUS
  <2> QED
    BY <1>3, <2>6, <2>7
<1>4. CASE ~(q # <<>> /\ ~IsChange(q[1]))
  <2>1. places = {}
    <3> SUFFICES ASSUME NEW i \in 1 .. Len(q), ~IsChange(q[i]) PROVE FALSE
      BY <1>2
    <3>1. i = 1 /\ q # <<>>
      BY <1>2, EmptySeq
    <3> QED
      BY <1>4, <3>1
  <2>2. Cardinality(places) = 0
    BY <2>1, FS_EmptySet
  <2> HIDE DEF place, places
  <2>3. Kept(l) = [i \in 1 .. 0 |-> q[place[i]]]
    BY <1>1, <2>2
  <2>4. [i \in 1 .. 0 |-> q[place[i]]] = <<>>
    OBVIOUS
  <2> QED
    BY <1>4, <2>3, <2>4
<1> QED
  BY <1>3, <1>4

LEMMA OverflowKeeps ==
  ASSUME NEW l, LaneInOrder(l), l.active, NEW p, NEW R, NEW N,
         Continues(R, N, p, l.queue), IsNews(Final(p, l.queue))
  PROVE  LET k == Overflow(l) IN
         /\ LaneInOrder(k) /\ k.active /\ k.terminalQueued /\ k.busy = l.busy
         /\ Continues(R, N, p, k.queue)
<1> DEFINE q == l.queue
           kept == Kept(l)
           k == Overflow(l)
<1>1. /\ q \in Seq(Events) /\ l \in LaneRecords
      /\ Terminal("overflow") \in Events /\ IsTerminal(Terminal("overflow"))
  BY DEF LaneInOrder, LaneRecords, Terminal, Event, Events, IsTerminal, TerminalTypes
<1>2. /\ \A i \in 1 .. Len(q) : ~IsChange(q[i]) => i = 1 /\ q[i].type = "baseline"
      /\ q = <<>> \/ IsChange(q[1]) => IsNews(p)
  BY <1>1, OnlyChanges
<1>3. kept = IF q # <<>> /\ ~IsChange(q[1]) THEN <<q[1]>> ELSE <<>>
  BY <1>1, <1>2, KeptBaseline
<1>4. /\ kept \in Seq(Events)
      /\ Continues(R, N, p, kept) /\ IsNews(Final(p, kept))
  <2>1. CASE kept = <<>>
    <3>1. IsNews(p)
      BY <1>2, <1>3, <2>1
    <3> QED
      BY <2>1, <3>1, EmptyContinues, EmptySeq
  <2>2. CASE q # <<>> /\ ~IsChange(q[1])
    <3>1. kept = <<q[1]>> /\ 1 \in 1 .. Len(q) /\ q[1] \in Events
      BY <1>1, <1>3, <2>2, LenProperties, EmptySeq, ElementOfSeq
    <3>2. q[1].type = "baseline" /\ MayFollow(R, N, p, q[1])
      BY <1>2, <2>2, <3>1 DEF Continues
    <3>3. kept \in Seq(Events) /\ Len(kept) = 1 /\ kept[1] = q[1] /\ kept # <<>>
      BY <3>1
    <3>4. Continues(R, N, p, kept)
      BY <3>2, <3>3 DEF Continues
    <3>5. IsNews(Final(p, kept))
      BY <3>2, <3>3 DEF Final, IsNews
    <3> QED
      BY <3>3, <3>4, <3>5
  <2> QED
    BY <1>3, <2>1, <2>2
<1>5. Continues(R, N, p, Append(kept, Terminal("overflow")))
  <2>1. MayFollow(R, N, Final(p, kept), Terminal("overflow"))
    BY <1>4 DEF MayFollow, Terminal, Event
  <2> QED
    BY <1>1, <1>4, <2>1, Grows
<1>6. /\ Append(kept, Terminal("overflow")) \in Seq(Events)
      /\ Len(q) - Len(kept) \in Int /\ l.changes \in Int
  BY <1>1, <1>4, LenProperties DEF LaneRecords
<1> HIDE DEF kept
<1>7. k = Start([l EXCEPT !.queue = Append(kept, Terminal("overflow")),
                         !.changes = @ - (Len(q) - Len(kept)), !.terminalQueued = TRUE])
  BY DEF Overflow, kept
<1> HIDE DEF k
<1>8. /\ k \in LaneRecords /\ k.queue = Append(kept, Terminal("overflow"))
      /\ k.active /\ k.terminalQueued /\ k.busy = l.busy
      /\ k.scheduled => l.scheduled \/ ~Delivering(l)
  <2> DEFINE t == Append(kept, Terminal("overflow"))
             c == l.changes - (Len(q) - Len(kept))
             m == [l EXCEPT !.queue = t, !.changes = c, !.terminalQueued = TRUE]
  <2>1. k = Start(m) /\ t \in Seq(Events) /\ c \in Int
    BY <1>6, <1>7
  <2> HIDE DEF t, c
  <2>2. /\ m \in LaneRecords /\ m.queue = t
        /\ m.active /\ m.terminalQueued /\ m.busy = l.busy /\ m.scheduled = l.scheduled
    BY <1>1, <2>1 DEF LaneRecords
  <2> HIDE DEF m
  <2> QED
    BY <2>1, <2>2, StartKeeps DEF Delivering, t
<1>9. LaneInOrder(k)
  BY <1>8 DEF LaneInOrder, Delivering
<1> QED
  BY <1>5, <1>8, <1>9 DEF k

LEMMA EnqueueKeeps ==
  ASSUME NEW l, LaneInOrder(l), NEW e \in Events, NEW p, NEW R, NEW N
  PROVE  LET k == Enqueue(l, e) IN
         /\ ~l.active \/ l.terminalQueued => k = l
         /\ l.active /\ ~l.terminalQueued /\ Continues(R, N, p, l.queue)
               /\ MayFollow(R, N, Final(p, l.queue), e) =>
               /\ LaneInOrder(k) /\ k.active /\ k.busy = l.busy
               /\ Continues(R, N, p, k.queue)
               /\ ~k.terminalQueued => Final(p, k.queue) = e /\ ~IsTerminal(e)
<1> DEFINE k == Enqueue(l, e)
<1>1. ~l.active \/ l.terminalQueued => k = l
  BY DEF Enqueue
<1>2. ASSUME l.active, ~l.terminalQueued, Continues(R, N, p, l.queue), MayFollow(R, N, Final(p, l.queue), e)
      PROVE  /\ LaneInOrder(k) /\ k.active /\ k.busy = l.busy
             /\ Continues(R, N, p, k.queue)
             /\ ~k.terminalQueued => Final(p, k.queue) = e /\ ~IsTerminal(e)
  <2>1. CASE IsChange(e) /\ l.changes + 1 > Limit
    <3>1. k = Overflow(l)
      BY <1>2, <2>1 DEF Enqueue
    <3>2. IsNews(Final(p, l.queue))
      BY <1>2, <2>1 DEF MayFollow, IsChange
    <3> QED
      BY <1>2, <3>1, <3>2, OverflowKeeps
  <2>2. CASE ~(IsChange(e) /\ l.changes + 1 > Limit)
    <3>1. k = Start([l EXCEPT !.queue = Append(@, e),
                              !.changes = IF IsChange(e) THEN @ + 1 ELSE @,
                              !.terminalQueued = IsTerminal(e)])
      BY <1>2, <2>2 DEF Enqueue
    <3>2. l \in LaneRecords /\ l.queue \in Seq(Events) /\ Append(l.queue, e) \in Seq(Events)
      BY DEF LaneInOrder, LaneRecords
    <3>3. /\ k \in LaneRecords /\ k.queue = Append(l.queue, e)
          /\ k.active /\ k.terminalQueued = IsTerminal(e) /\ k.busy = l.busy
          /\ k.scheduled => l.scheduled \/ ~Delivering(l)
      <4> DEFINE c == IF IsChange(e) THEN l.changes + 1 ELSE l.changes
                 t == IsTerminal(e)
                 m == [l EXCEPT !.queue = Append(l.queue, e), !.changes = c, !.terminalQueued = t]
      <4>1. c \in Int /\ t \in BOOLEAN
        BY <3>2 DEF IsTerminal, LaneRecords
      <4>2. k = Start(m)
        BY <3>1
      <4> HIDE DEF k, c, t
      <4>3. /\ m \in LaneRecords /\ m.queue = Append(l.queue, e) /\ m.terminalQueued = t
            /\ m.active = l.active /\ m.busy = l.busy /\ m.scheduled = l.scheduled
        BY <3>2, <4>1 DEF LaneRecords
      <4> HIDE DEF m
      <4>4. /\ k \in LaneRecords /\ k.queue = Append(l.queue, e) /\ k.terminalQueued = t
            /\ k.active = l.active /\ k.busy = l.busy
            /\ k.scheduled => l.scheduled \/ ~Delivering(l)
        BY <4>2, <4>3, StartKeeps DEF Delivering
      <4> QED
        BY <1>2, <4>4 DEF t
    <3>4. Continues(R, N, p, Append(l.queue, e)) /\ Final(p, Append(l.queue, e)) = e
      BY <1>2, <3>2, Grows
    <3>5. LaneInOrder(k)
      BY <3>3 DEF LaneInOrder, Delivering
    <3> QED
      BY <3>3, <3>4, <3>5
  <2> QED
    BY <2>1, <2>2
<1> QED
  BY <1>1, <1>2

\* m is of a revision that no relevant commit is past.
CaughtUp(R, N, m) == IsNews(m) /\ m.revision \in 0 .. N /\ \A q \in R : q <= m.revision

\* Lane l has what comes after p, and may go on from there.
Pending(R, N, p, l) ==
    /\ Continues(R, N, p, l.queue)
    /\ l.active /\ ~l.terminalQueued => CaughtUp(R, N, Final(p, l.queue))

\* A timer, or a promise that settles, takes the lane from l to k.
Advanced(l, k) ==
    /\ LaneInOrder(k)
    /\ k.terminalQueued = l.terminalQueued
    /\ k.active => l.active
    /\ \/ /\ Delivering(k) /\ k.active /\ l.queue # <<>>
          /\ k.busy = Head(l.queue) /\ k.queue = Tail(l.queue)
       \/ ~Delivering(k) /\ (k.active => k.queue = l.queue)

LEMMA Closes ==
  ASSUME NEW l, LaneInOrder(l)
  PROVE  /\ LaneInOrder(Close(l))
         /\ ~Close(l).active /\ Close(l).queue = <<>> /\ Close(l).busy = l.busy
         /\ \A R, N, p : Pending(R, N, p, Close(l))
<1>1. /\ LaneInOrder(Close(l))
      /\ ~Close(l).active /\ Close(l).queue = <<>> /\ Close(l).busy = l.busy
  <2> DEFINE none == <<>>
             zero == 0
             k == [l EXCEPT !.active = FALSE, !.queue = none, !.changes = zero]
  <2>1. none \in Seq(Events) /\ zero \in Int /\ l \in LaneRecords
    BY EmptySeq DEF LaneInOrder
  <2>2. Close(l) = k
    BY DEF Close
  <2> HIDE DEF none, zero
  <2>3. /\ k \in LaneRecords /\ k.scheduled = l.scheduled
        /\ ~k.active /\ k.queue = none /\ k.busy = l.busy
    BY <2>1 DEF LaneRecords
  <2> HIDE DEF k
  <2> QED
    BY <2>2, <2>3 DEF LaneInOrder, Delivering, none
<1>2. ASSUME NEW R, NEW N, NEW p PROVE Pending(R, N, p, Close(l))
  <2>1. Continues(R, N, p, <<>>)
    BY EmptyContinues
  <2> QED
    BY <1>1, <2>1 DEF Pending
<1> QED
  BY <1>1, <1>2

LEMMA Takes ==
  ASSUME NEW l, l \in LaneRecords, ~l.scheduled, ~l.active => l.queue = <<>>
  PROVE  Advanced(l, Take(l))
<1>1. CASE ~l.active \/ l.queue = <<>>
  <2>1. Take(l) = [l EXCEPT !.busy = NoEvent]
    BY <1>1 DEF Take
  <2> QED
    BY <2>1 DEF Advanced, LaneInOrder, LaneRecords, Delivering
<1>2. CASE ~(~l.active \/ l.queue = <<>>)
  <2> DEFINE h == Head(l.queue)
             t == Tail(l.queue)
  <2>1. Take(l) = [l EXCEPT !.busy = h, !.queue = t]
    BY <1>2 DEF Take
  <2>2. h \in Events /\ t \in Seq(Events) /\ h # NoEvent
    <3>1. h \in Events /\ t \in Seq(Events)
      BY <1>2, HeadTailProperties DEF LaneRecords
    <3> QED
      BY <3>1 DEF Events, NoEvent, TerminalTypes
  <2> HIDE DEF h, t
  <2>3. /\ Take(l) \in LaneRecords /\ Take(l).busy = h /\ Take(l).queue = t
        /\ Take(l).terminalQueued = l.terminalQueued
        /\ Take(l).active = l.active /\ Take(l).scheduled = l.scheduled
    BY <2>1, <2>2 DEF LaneRecords
  <2> QED
    BY <1>2, <2>2, <2>3 DEF Advanced, LaneInOrder, Delivering, h, t
<1> QED
  BY <1>1, <1>2

LEMMA Fires ==
  ASSUME NEW l, LaneInOrder(l), l.scheduled
  PROVE  Advanced(l, Fire(l))
<1> DEFINE fired == [l EXCEPT !.scheduled = FALSE]
<1>1. /\ fired \in LaneRecords /\ ~fired.scheduled /\ fired.active = l.active
      /\ fired.queue = l.queue /\ fired.terminalQueued = l.terminalQueued /\ fired.busy = l.busy
  BY DEF LaneInOrder, LaneRecords
<1>2. ~Delivering(l) /\ (~l.active => l.queue = <<>>)
  BY DEF LaneInOrder
<1>3. Fire(l) = IF ~l.active THEN fired ELSE Take(fired)
  BY <1>2 DEF Fire
<1> HIDE DEF fired
<1>4. Advanced(fired, Take(fired))
  BY <1>1, <1>2, Takes
<1> QED
  BY <1>1, <1>2, <1>3, <1>4 DEF Advanced, LaneInOrder, Delivering

LEMMA Settles ==
  ASSUME NEW l, LaneInOrder(l), Delivering(l)
  PROVE  Advanced(l, Settled(l)) /\ (IsTerminal(l.busy) => ~Settled(l).active)
<1> DEFINE done == [l EXCEPT !.busy = NoEvent]
           c == IF IsChange(l.busy) THEN done.changes - 1 ELSE done.changes
           less == [done EXCEPT !.changes = c]
<1>1. /\ LaneInOrder(done) /\ ~done.scheduled /\ done.active = l.active /\ ~Delivering(done)
      /\ done.queue = l.queue /\ done.terminalQueued = l.terminalQueued
  BY DEF LaneInOrder, LaneRecords, Delivering
<1>2. Settled(l) = IF ~l.active THEN done ELSE IF IsTerminal(l.busy) THEN Close(done) ELSE Take(less)
  BY DEF Settled
<1> HIDE DEF done
<1>3. c \in Int
  BY <1>1 DEF LaneInOrder, LaneRecords
<1> HIDE DEF c
<1>4. /\ less \in LaneRecords /\ ~less.scheduled /\ less.active = l.active
      /\ less.queue = l.queue /\ less.terminalQueued = l.terminalQueued
  BY <1>1, <1>3 DEF LaneInOrder, LaneRecords
<1> HIDE DEF less
<1>5. Advanced(less, Take(less))
  BY <1>1, <1>4, Takes DEF LaneInOrder
<1>6. Close(done).terminalQueued = done.terminalQueued /\ LaneInOrder(Close(done))
      /\ ~Close(done).active /\ Close(done).busy = done.busy
  BY <1>1, Closes DEF Close, LaneInOrder, LaneRecords
<1>7. CASE ~l.active
  BY <1>1, <1>2, <1>7 DEF Advanced
<1>8. CASE l.active /\ IsTerminal(l.busy)
  BY <1>1, <1>2, <1>6, <1>8 DEF Advanced, Delivering
<1>9. CASE l.active /\ ~IsTerminal(l.busy)
  BY <1>2, <1>4, <1>5, <1>9 DEF Advanced
<1> QED
  BY <1>7, <1>8, <1>9

\* What may follow m may follow p.
StandsFor(R, N, p, m) ==
    /\ \A n : MayFollow(R, N, m, n) => MayFollow(R, N, p, n)
    /\ IsNews(m) => IsNews(p) /\ p.revision = m.revision

LEMMA Replaced ==
  ASSUME NEW R, NEW N, NEW p, NEW m, StandsFor(R, N, p, m), NEW S, NEW q \in Seq(S), Continues(R, N, m, q)
  PROVE  Continues(R, N, p, q) /\ StandsFor(R, N, Final(p, q), Final(m, q))
<1>1. Continues(R, N, p, q)
  <2>1. \A i \in 1 .. Len(q) : i # 1 => MayFollow(R, N, q[i - 1], q[i])
    BY DEF Continues
  <2>2. 1 \in 1 .. Len(q) => MayFollow(R, N, m, q[1])
    BY DEF Continues
  <2>3. 1 \in 1 .. Len(q) => MayFollow(R, N, p, q[1])
    BY <2>2, Zenon DEF StandsFor
  <2> QED
    BY <2>1, <2>3 DEF Continues
<1>2. StandsFor(R, N, Final(p, q), Final(m, q))
  BY Zenon DEF Final, StandsFor
<1> QED
  BY <1>1, <1>2

LEMMA PendingReplaced ==
  ASSUME NEW R, NEW N, NEW p, NEW m, StandsFor(R, N, p, m), NEW l, LaneInOrder(l), Pending(R, N, m, l)
  PROVE  Pending(R, N, p, l)
<1>1. l.queue \in Seq(Events)
  BY DEF LaneInOrder, LaneRecords
<1>2. Continues(R, N, p, l.queue) /\ StandsFor(R, N, Final(p, l.queue), Final(m, l.queue))
  BY <1>1, Replaced DEF Pending
<1> QED
  BY <1>2, Zenon DEF Pending, StandsFor, CaughtUp

\* A lane that goes on hands over the first of what it has, and keeps the rest.
LEMMA SentOn ==
  ASSUME NEW R, NEW N, NEW p, NEW o \in Seq(Messages), NEW l, NEW k, LaneInOrder(l), Advanced(l, k),
         Continues(R, N, p, o), Pending(R, N, Final(p, o), l)
  PROVE  LET sent == IF Delivering(k) THEN Append(o, k.busy) ELSE o IN
         /\ sent \in Seq(Messages) /\ Continues(R, N, p, sent)
         /\ Pending(R, N, Final(p, sent), k)
<1>1. l.queue \in Seq(Events) /\ Events \subseteq Messages
  BY DEF LaneInOrder, LaneRecords, Messages
<1>2. CASE Delivering(k)
  <2>1. /\ k.active /\ l.queue # <<>> /\ k.busy = Head(l.queue) /\ k.queue = Tail(l.queue)
        /\ k.terminalQueued = l.terminalQueued /\ (k.active => l.active)
    BY <1>2 DEF Advanced
  <2>2. /\ MayFollow(R, N, Final(p, o), k.busy) /\ Continues(R, N, k.busy, k.queue)
        /\ Final(Final(p, o), l.queue) = Final(k.busy, k.queue)
    BY <1>1, <2>1, Shrinks DEF Pending
  <2>3. k.busy \in Messages
    BY <1>1, <2>1, HeadTailProperties
  <2>4. /\ Append(o, k.busy) \in Seq(Messages)
        /\ Continues(R, N, p, Append(o, k.busy))
        /\ Final(p, Append(o, k.busy)) = k.busy
    BY <2>2, <2>3, Grows, AppendProperties
  <2>5. Pending(R, N, k.busy, k)
    BY <2>1, <2>2 DEF Pending
  <2> QED
    BY <1>2, <2>4, <2>5
<1>3. CASE ~Delivering(k)
  <2>1. /\ k.terminalQueued = l.terminalQueued /\ (k.active => l.active /\ k.queue = l.queue)
        /\ ~k.active => k.queue = <<>>
    BY <1>3 DEF Advanced, LaneInOrder
  <2>2. Continues(R, N, Final(p, o), <<>>)
    BY EmptyContinues
  <2>3. Pending(R, N, Final(p, o), k)
    <3>1. CASE k.active
      BY <2>1, <3>1 DEF Pending
    <3>2. CASE ~k.active
      BY <2>1, <2>2, <3>2 DEF Pending
    <3> QED
      BY <3>1, <3>2
  <2> QED
    BY <1>3, <2>3
<1> QED
  BY <1>2, <1>3

LEMMA Committed ==
  ASSUME NEW N \in Nat, NEW R \in SUBSET (1 .. N), NEW l, LaneInOrder(l), NEW p, Pending(R, N, p, l)
  PROVE  LET k == Enqueue(l, Event("change", N + 1)) IN
         /\ Pending(R, N + 1, p, l)
         /\ LaneInOrder(k) /\ k.active = l.active /\ k.busy = l.busy
         /\ Pending(R \cup {N + 1}, N + 1, p, k)
<1> DEFINE e == Event("change", N + 1)
           k == Enqueue(l, e)
           T == R \cup {N + 1}
           f == Final(p, l.queue)
<1>1. /\ l.queue \in Seq(Events) /\ e \in Events /\ e.type = "change" /\ e.revision = N + 1 /\ IsChange(e)
      /\ l.queue \in Seq(Messages)
  <2>1. l.queue \in Seq(Events)
    BY DEF LaneInOrder, LaneRecords
  <2>2. N + 1 \in Nat
    OBVIOUS
  <2>3. e \in Events /\ e.type = "change" /\ e.revision = N + 1 /\ IsChange(e)
    BY <2>2 DEF Event, Events, IsChange
  <2>4. l.queue \in Seq(Messages)
    BY <2>1 DEF Messages
  <2> QED
    BY <2>1, <2>3, <2>4
<1>2. Continues(R, N + 1, p, l.queue) /\ Continues(T, N + 1, p, l.queue)
  <2>1. Continues(R, N, p, l.queue)
    BY DEF Pending
  <2>2. ASSUME NEW V, V = R \/ V = R \cup {N + 1} PROVE Continues(V, N + 1, p, l.queue)
    BY <1>1, <2>1, <2>2, CommitKeeps
  <2> QED
    BY <2>2
<1>3. ASSUME l.active, ~l.terminalQueued
      PROVE  /\ CaughtUp(R, N + 1, f)
             /\ MayFollow(T, N + 1, f, e)
  <2>1. CaughtUp(R, N, f)
    BY <1>3 DEF Pending
  <2> HIDE DEF e, f
  <2>2. f.revision \in 0 .. N + 1 /\ f.revision < N + 1 /\ \A q \in T : q <= f.revision \/ N + 1 <= q
    BY <2>1 DEF CaughtUp
  <2>3. ~IsTerminal(e) /\ N + 1 \in T
    BY <1>1 DEF IsTerminal, TerminalTypes
  <2> QED
    BY <1>1, <2>1, <2>2, <2>3 DEF CaughtUp, MayFollow
<1> HIDE DEF e, f, T
<1>4. Pending(R, N + 1, p, l)
  <2>1. l.active /\ ~l.terminalQueued => CaughtUp(R, N + 1, f)
    BY <1>3
  <2> QED
    BY <1>2, <2>1, Zenon DEF Pending, f
<1>5. CASE ~l.active \/ l.terminalQueued
  <2>1. k = l
    BY <1>1, <1>5, EnqueueKeeps
  <2> QED
    BY <1>2, <1>4, <1>5, <2>1 DEF Pending, T, e
<1>6. CASE l.active /\ ~l.terminalQueued
  <2>1. /\ LaneInOrder(k) /\ k.active /\ k.busy = l.busy /\ Continues(T, N + 1, p, k.queue)
        /\ ~k.terminalQueued => Final(p, k.queue) = e
    BY <1>1, <1>2, <1>3, <1>6, EnqueueKeeps DEF f
  <2>2. CaughtUp(T, N + 1, e)
    BY <1>1 DEF CaughtUp, IsNews, T
  <2>3. l.active \in BOOLEAN /\ k.active \in BOOLEAN
    BY <2>1 DEF LaneInOrder, LaneRecords
  <2> HIDE DEF k
  <2>4. Pending(T, N + 1, p, k)
    BY <2>1, <2>2 DEF Pending
  <2> QED
    BY <1>4, <1>6, <2>1, <2>3, <2>4 DEF T, k, e
<1> QED
  BY <1>5, <1>6

LEMMA Terminated ==
  ASSUME NEW R, NEW N, NEW l, LaneInOrder(l), NEW p, Pending(R, N, p, l), NEW reason \in TerminalTypes
  PROVE  LET k == Enqueue(l, Terminal(reason)) IN
         /\ LaneInOrder(k) /\ k.active = l.active /\ k.busy = l.busy
         /\ Pending(R, N, p, k)
<1> DEFINE e == Terminal(reason)
           k == Enqueue(l, e)
<1>1. e \in Events /\ IsTerminal(e) /\ e.type = reason /\ e.revision = 0
  BY DEF Terminal, Event, Events, IsTerminal
<1> HIDE DEF e
<1>2. CASE ~l.active \/ l.terminalQueued
  <2>1. k = l
    BY <1>1, <1>2, EnqueueKeeps
  <2> QED
    BY <2>1 DEF e
<1>3. CASE l.active /\ ~l.terminalQueued
  <2>1. Continues(R, N, p, l.queue) /\ IsNews(Final(p, l.queue))
    BY <1>3 DEF Pending, CaughtUp
  <2>2. MayFollow(R, N, Final(p, l.queue), e)
    BY <1>1, <2>1 DEF MayFollow, TerminalTypes
  <2>3. /\ LaneInOrder(k) /\ k.active /\ k.busy = l.busy /\ Continues(R, N, p, k.queue)
        /\ k.terminalQueued
    BY <1>1, <1>3, <2>1, <2>2, EnqueueKeeps
  <2>4. l.active \in BOOLEAN /\ k.active \in BOOLEAN
    BY <2>3 DEF LaneInOrder, LaneRecords
  <2> HIDE DEF k
  <2> QED
    BY <1>3, <2>3, <2>4 DEF Pending, k, e
<1> QED
  BY <1>2, <1>3

-----------------------------------------------------------------------------
(* The invariant.                                                          *)

\* What the binding has read last, as far as it tells what may come next.
Prior ==
    IF correlation = "none" THEN Response("nothing")
    ELSE IF correlation = "retired" THEN Response("unsubscribed")
    ELSE IF baselineSeen THEN Event("change", lastRevision)
    ELSE Response("subscribed")

\* The last message the server has handed out.
Wired == Final(Final(Prior, down), out)

\* The messages on their way continue what has been read,
StreamOrdered ==
    ~bindingClosed =>
        /\ Continues(relevant, revision, Prior, down)
        /\ Continues(relevant, revision, Final(Prior, down), out)

\* and the observer's events what has been handed out; of an observer that the
\* server of a broken link keeps, they continue something.
ObserverPending ==
    /\ \E p : Pending(relevant, revision, p, observer)
    /\ link => Pending(relevant, revision, Wired, observer)

\* Until the request to subscribe is served there is nothing, and there is but
\* one such request.
Pristine == correlation = "none" /\ down = <<>> /\ out = <<>> /\ observer = Inactive
Asks == \E i \in 1 .. Len(up) : up[i] = "subscribe"
Requests ==
    link => /\ wrapper = "none" => Pristine /\ up = <<>>
            /\ Asks => Pristine /\ up = <<"subscribe">>

\* The outbound lane has one event at a time: the one the observer delivers.
AllResponses(o) == \A i \in 1 .. Len(o) : IsResponse(o[i])
OneEvent(o, e) ==
    \A i \in 1 .. Len(o) : ~IsResponse(o[i]) =>
        /\ o[i] = e
        /\ \A j \in 1 .. Len(o) : ~IsResponse(o[j]) => j = i
Sending ==
    /\ link => ~serverClosed /\ (observer.active => serverHolds) /\ OneEvent(out, observer.busy)
    /\ ~link => out = <<>>

\* A subscription that the binding does not know of has no effects.
NotYet ==
    correlation = "none" =>
        /\ ~baselineSeen /\ lastRevision = 0 /\ seen = <<>> /\ ~lossQueued /\ delivery = Inactive
        /\ wrapper \in {"none", "awaiting", "failed"}

\* The binding's lane continues what the listener was given, up to the last
\* event that the binding has read.
LastSeen == IF seen = <<>> THEN Response("subscribed") ELSE seen[Len(seen)]
FeedOrdered ==
    wrapper = "active" /\ delivery.active =>
        /\ Continues(relevant, revision, LastSeen, delivery.queue)
        /\ \A i \in 1 .. Len(seen) : ~IsTerminal(seen[i])
        /\ correlation = "active" /\ ~delivery.terminalQueued =>
             LET f == Final(LastSeen, delivery.queue) IN
             IF baselineSeen THEN IsNews(f) /\ f.revision = lastRevision ELSE f = Response("subscribed")

Closed ==
    /\ bindingClosed => ~link /\ wrapper # "active"
    /\ lossQueued => bindingClosed
    /\ delivery.active => wrapper = "active"

Shape ==
    /\ revision \in Nat /\ relevant \in SUBSET (1 .. revision)
    /\ out \in Seq(Messages) /\ down \in Seq(Messages) /\ up \in Seq({"subscribe", "unsubscribe"})
    /\ lastRevision \in Nat /\ seen \in Seq(Events)

ServerInv == StreamOrdered /\ ObserverPending /\ Requests /\ Sending /\ LaneInOrder(observer)
ClientInv == NotYet /\ FeedOrdered /\ Closed /\ LaneInOrder(delivery) /\ NeverCorrupt

FeedInv == Shape /\ ServerInv /\ ClientInv

-----------------------------------------------------------------------------
(* What a step leaves alone.                                               *)

LEMMA PriorStays ==
  ASSUME UNCHANGED correlationVars
  PROVE  Prior' = Prior
BY DEF correlationVars, Prior

LEMMA StreamStays ==
  ASSUME StreamOrdered, UNCHANGED <<revision, relevant, out, down, bindingClosed>>, Prior' = Prior
  PROVE  StreamOrdered'
BY DEF StreamOrdered

LEMMA ObserverStays ==
  ASSUME ObserverPending, LaneInOrder(observer), UNCHANGED <<revision, relevant, out, down, link, observer>>,
         Prior' = Prior
  PROVE  ObserverPending' /\ LaneInOrder(observer)'
<1>1. Wired' = Wired
  BY DEF Wired
<1>2. (\E p : Pending(relevant, revision, p, observer))'
  BY DEF ObserverPending
<1>3. (link => Pending(relevant, revision, Wired, observer))'
  BY <1>1 DEF ObserverPending
<1> QED
  BY <1>2, <1>3 DEF ObserverPending

LEMMA SendingStays ==
  ASSUME Sending, UNCHANGED <<serverClosed, observer, serverHolds, out, link>>
  PROVE  Sending'
BY DEF Sending

\* Once something has happened, only subscribe() could bring the start back.
LEMMA RequestsPassed ==
  ASSUME Requests, ~Pristine, link' => link, wrapper' = "none" => wrapper = "none", Asks' => Asks
  PROVE  Requests'
BY DEF Requests

LEMMA ClientStays ==
  ASSUME ClientInv, link' => link,
         UNCHANGED <<revision, relevant, correlationVars, corrupt, bindingClosed, delivery, wrapper,
                     lossQueued, seen>>
  PROVE  ClientInv'
<1>1. LastSeen' = LastSeen /\ Inactive' = Inactive
  BY DEF LastSeen, Inactive
<1>2. NotYet'
  BY <1>1 DEF ClientInv, NotYet, correlationVars
<1>3. FeedOrdered'
  BY <1>1 DEF ClientInv, FeedOrdered, correlationVars
<1>4. Closed' /\ LaneInOrder(delivery)' /\ NeverCorrupt'
  BY DEF ClientInv, Closed, NeverCorrupt
<1> QED
  BY <1>2, <1>3, <1>4 DEF ClientInv

-----------------------------------------------------------------------------
(* Steps of the server.                                                    *)

LEMMA ResponsesAndEvents ==
  ASSUME NEW o \in Seq(Messages), NEW e \in Messages
  PROVE  /\ AllResponses(o) => OneEvent(o, e) /\ OneEvent(Append(o, e), e)
         /\ \A b : OneEvent(o, b) /\ IsResponse(e) => OneEvent(Append(o, e), b)
<1> DEFINE t == Append(o, e)
           n == Len(o)
<1>1. n \in Nat /\ Len(t) = n + 1 /\ (\A i \in 1 .. n : t[i] = o[i]) /\ t[n + 1] = e
  BY AppendProperties, LenProperties
<1> HIDE DEF t
<1>2. \A i \in 1 .. Len(t) : i \in 1 .. n \/ i = n + 1
  BY <1>1
<1> HIDE DEF n
<1>3. ASSUME AllResponses(o) PROVE OneEvent(o, e) /\ OneEvent(t, e)
  BY <1>1, <1>2, <1>3 DEF AllResponses, OneEvent, n
<1>4. ASSUME NEW b, OneEvent(o, b), IsResponse(e) PROVE OneEvent(t, b)
  BY <1>1, <1>2, <1>4 DEF OneEvent, n
<1> QED
  BY <1>3, <1>4 DEF t

LEMMA HandedOver ==
  ASSUME NEW o \in Seq(Messages), o # <<>>, NEW b, OneEvent(o, b)
  PROVE  /\ IsResponse(Head(o)) => OneEvent(Tail(o), b)
         /\ ~IsResponse(Head(o)) => Head(o) = b /\ AllResponses(Tail(o))
<1>1. /\ Len(o) \in Nat /\ Len(o) >= 1 /\ Head(o) = o[1] /\ Len(Tail(o)) = Len(o) - 1
      /\ \A i \in 1 .. Len(o) - 1 : Tail(o)[i] = o[i + 1]
  BY HeadTailProperties, LenProperties, EmptySeq
<1>2. \A i \in 1 .. Len(Tail(o)) : i + 1 \in 1 .. Len(o) /\ Tail(o)[i] = o[i + 1]
  BY <1>1
<1>3. ASSUME IsResponse(Head(o)) PROVE OneEvent(Tail(o), b)
  <2> SUFFICES ASSUME NEW i \in 1 .. Len(Tail(o)), ~IsResponse(Tail(o)[i])
               PROVE  /\ Tail(o)[i] = b
                      /\ \A j \in 1 .. Len(Tail(o)) : ~IsResponse(Tail(o)[j]) => j = i
    BY DEF OneEvent
  <2>1. /\ o[i + 1] = b
        /\ \A j \in 1 .. Len(o) : ~IsResponse(o[j]) => j = i + 1
    BY <1>2 DEF OneEvent
  <2>2. \A j \in 1 .. Len(Tail(o)) : ~IsResponse(Tail(o)[j]) => j + 1 = i + 1
    BY <1>2, <2>1
  <2> QED
    BY <1>1, <1>2, <2>1, <2>2
<1>4. ASSUME ~IsResponse(Head(o)) PROVE Head(o) = b /\ AllResponses(Tail(o))
  <2>1. 1 \in 1 .. Len(o)
    BY <1>1
  <2>2. o[1] = b /\ \A j \in 1 .. Len(o) : ~IsResponse(o[j]) => j = 1
    BY <1>1, <1>4, <2>1 DEF OneEvent
  <2>3. \A i \in 1 .. Len(Tail(o)) : IsResponse(o[i + 1])
    <3>1. \A i \in 1 .. Len(Tail(o)) : i + 1 # 1
      BY <1>1
    <3> QED
      BY <1>2, <2>2, <3>1
  <2> QED
    BY <1>1, <1>2, <2>2, <2>3 DEF AllResponses
<1> QED
  BY <1>3, <1>4

\* The server's listener is given the next event of the observer, if there is
\* one, while no other event is waiting to be sent.
LEMMA Observed ==
  ASSUME FeedInv, NEW o \in Seq(Messages), NEW l, Advanced(observer, l), Observe(l, o), AllResponses(o),
         UNCHANGED <<revision, relevant, correlationVars, bindingClosed, link, serverClosed>>,
         ~bindingClosed => Continues(relevant, revision, Prior, down'),
         ~bindingClosed => Continues(relevant, revision, Final(Prior, down'), o),
         link => Final(Final(Prior, down'), o) = Wired,
         ~link => o = <<>>,
         link /\ l.active => serverHolds'
  PROVE  StreamOrdered' /\ ObserverPending' /\ Sending' /\ LaneInOrder(observer)' /\ out' \in Seq(Messages)
<1> DEFINE R == relevant
           N == revision
           sent == IF Delivering(l) THEN Append(o, l.busy) ELSE o
<1>1. /\ LaneInOrder(observer) /\ LaneInOrder(l) /\ observer' = l /\ Prior' = Prior
      /\ link => ~serverClosed /\ ~bindingClosed
  BY PriorStays DEF FeedInv, ServerInv, ClientInv, Sending, Closed, Advanced, Observe
<1>2. PICK p : Pending(R, N, p, observer)
  BY DEF FeedInv, ServerInv, ObserverPending
<1>3. \E q : Pending(R, N, q, l)
  <2> DEFINE none == <<>>
             some == IF Delivering(l) THEN Append(none, l.busy) ELSE none
  <2>1. none \in Seq(Messages) /\ Continues(R, N, p, none) /\ Final(p, none) = p
    BY EmptySeq, EmptyContinues
  <2> HIDE DEF none
  <2>2. Pending(R, N, Final(p, some), l)
    BY <1>1, <1>2, <2>1, SentOn
  <2> QED
    BY <2>2
<1>4. CASE ~link
  <2>1. o = <<>> /\ out' = <<>> /\ <<>> \in Seq(Messages)
    BY <1>4, EmptySeq DEF Observe
  <2>2. StreamOrdered'
    BY <1>1, <2>1 DEF StreamOrdered
  <2>3. Sending'
    BY <1>4, <2>1 DEF Sending
  <2>4. ObserverPending'
    BY <1>1, <1>3, <1>4 DEF ObserverPending
  <2> QED
    BY <1>1, <2>1, <2>2, <2>3, <2>4
<1>5. CASE link
  <2>1. out' = sent
    BY <1>1, <1>5 DEF Observe
  <2>2. Pending(R, N, Wired, observer)
    BY <1>5 DEF FeedInv, ServerInv, ObserverPending
  <2>3. Continues(R, N, Final(Prior, down'), o) /\ Pending(R, N, Final(Final(Prior, down'), o), observer)
    BY <1>1, <1>5, <2>2
  <2>4. /\ sent \in Seq(Messages) /\ Continues(R, N, Final(Prior, down'), sent)
        /\ Pending(R, N, Final(Final(Prior, down'), sent), l)
    BY <1>1, <2>3, SentOn
  <2>5. OneEvent(sent, l.busy)
    <3>1. CASE Delivering(l)
      <4>1. l.busy \in Messages
        BY <1>1, <3>1 DEF LaneInOrder, LaneRecords, Delivering, Messages
      <4> QED
        BY <3>1, <4>1, ResponsesAndEvents
    <3>2. CASE ~Delivering(l)
      BY <3>2 DEF AllResponses, OneEvent
    <3> QED
      BY <3>1, <3>2
  <2> HIDE DEF sent
  <2>6. StreamOrdered'
    BY <1>1, <2>1, <2>4 DEF StreamOrdered
  <2>7. ObserverPending'
    BY <1>1, <1>3, <2>1, <2>4 DEF ObserverPending, Wired
  <2>8. Sending'
    BY <1>1, <1>5, <2>1, <2>5 DEF Sending
  <2> QED
    BY <1>1, <2>1, <2>4, <2>6, <2>7, <2>8
<1> QED
  BY <1>4, <1>5

\* What is on its way, and does not move.
LEMMA OutInOrder ==
  ASSUME FeedInv
  PROVE  /\ ~bindingClosed => /\ Continues(relevant, revision, Prior, down)
                              /\ Continues(relevant, revision, Final(Prior, down), out)
         /\ Final(Final(Prior, down), out) = Wired
         /\ ~link => out = <<>>
         /\ out \in Seq(Messages) /\ down \in Seq(Messages)
BY DEF FeedInv, ServerInv, StreamOrdered, Wired, Sending, Shape

LEMMA NotPristine ==
  ASSUME FeedInv, Delivering(observer) \/ observer.scheduled \/ down # <<>> \/ out # <<>>
  PROVE  ~Pristine
BY DEF Pristine, Inactive, Close, Fresh, Delivering

LEMMA ObserverTimerKeeps ==
  ASSUME FeedInv, ObserverTimer
  PROVE  FeedInv'
<1> DEFINE l == Fire(observer)
<1>1. Advanced(observer, l)
  BY Fires DEF ObserverTimer, FeedInv, ServerInv
<1>2. AllResponses(out)
  <2>1. ~link => out = <<>>
    BY OutInOrder
  <2>2. ASSUME link, NEW i \in 1 .. Len(out), ~IsResponse(out[i]) PROVE FALSE
    <3>1. ~Delivering(observer)
      BY DEF ObserverTimer, FeedInv, ServerInv, LaneInOrder
    <3>2. out[i] = NoEvent
      BY <2>2, <3>1 DEF FeedInv, ServerInv, Sending, OneEvent, Delivering
    <3>3. out[i] \in Messages
      BY OutInOrder, ElementOfSeq
    <3> QED
      BY <3>2, <3>3 DEF Messages, Events, NoEvent, TerminalTypes, Responses
  <2> QED
    BY <2>1, <2>2 DEF AllResponses
<1>3. Observe(l, out) /\ observer.scheduled
  BY DEF ObserverTimer
<1>4. /\ UNCHANGED <<revision, relevant, correlationVars, corrupt, bindingClosed, link, serverClosed,
                     serverHolds, down, up, delivery, wrapper, lossQueued, seen, lastRevision>>
  BY DEF ObserverTimer, authorityVars, serverVars, bindingVars, clientVars, correlationVars
<1>5. link /\ l.active => serverHolds'
  BY <1>1, <1>4 DEF FeedInv, ServerInv, Sending, Advanced
<1> HIDE DEF l
<1>6. StreamOrdered' /\ ObserverPending' /\ Sending' /\ LaneInOrder(observer)' /\ out' \in Seq(Messages)
  BY <1>1, <1>2, <1>3, <1>4, <1>5, OutInOrder, Observed
<1>7. Requests'
  BY <1>3, <1>4, NotPristine, RequestsPassed DEF FeedInv, ServerInv, Asks
<1>8. ClientInv'
  BY <1>4, ClientStays DEF FeedInv
<1>9. Shape'
  BY <1>4, <1>6 DEF FeedInv, Shape
<1> QED
  BY <1>6, <1>7, <1>8, <1>9 DEF FeedInv, ServerInv

LEMMA EventDroppedKeeps ==
  ASSUME FeedInv, EventDropped
  PROVE  FeedInv'
<1> DEFINE l == Settled(observer)
<1>1. Advanced(observer, l)
  BY Settles DEF EventDropped, FeedInv, ServerInv
<1>2. AllResponses(out)
  BY DEF EventDropped, AllResponses
<1>3. Observe(l, out) /\ Delivering(observer)
  BY DEF EventDropped
<1>4. /\ UNCHANGED <<revision, relevant, correlationVars, corrupt, bindingClosed, link, serverClosed,
                     serverHolds, down, up, delivery, wrapper, lossQueued, seen, lastRevision>>
  BY DEF EventDropped, authorityVars, serverVars, bindingVars, clientVars, correlationVars
<1>5. link /\ l.active => serverHolds'
  BY <1>1, <1>4 DEF FeedInv, ServerInv, Sending, Advanced
<1> HIDE DEF l
<1>6. StreamOrdered' /\ ObserverPending' /\ Sending' /\ LaneInOrder(observer)' /\ out' \in Seq(Messages)
  BY <1>1, <1>2, <1>3, <1>4, <1>5, OutInOrder, Observed
<1>7. Requests'
  BY <1>3, <1>4, NotPristine, RequestsPassed DEF FeedInv, ServerInv, Asks
<1>8. ClientInv'
  BY <1>4, ClientStays DEF FeedInv
<1>9. Shape'
  BY <1>4, <1>6 DEF FeedInv, Shape
<1> QED
  BY <1>6, <1>7, <1>8, <1>9 DEF FeedInv, ServerInv

LEMMA CarrierAcceptsKeeps ==
  ASSUME FeedInv, CarrierAccepts
  PROVE  FeedInv'
<1> DEFINE l == Settled(observer)
           h == Head(out)
           o == Tail(out)
<1>1. /\ link /\ out # <<>> /\ down' = Append(down, h)
      /\ UNCHANGED <<revision, relevant, correlationVars, corrupt, bindingClosed, link, serverClosed,
                     up, delivery, wrapper, lossQueued, seen, lastRevision>>
  BY DEF CarrierAccepts, authorityVars, serverVars, bindingVars, clientVars, correlationVars
<1>2. /\ ~bindingClosed /\ ~serverClosed /\ OneEvent(out, observer.busy)
      /\ LaneInOrder(observer)
  BY <1>1 DEF FeedInv, ServerInv, ClientInv, Closed, Sending
<1>3. /\ Continues(relevant, revision, Prior, down')
      /\ Continues(relevant, revision, Final(Prior, down'), o)
      /\ Final(Final(Prior, down'), o) = Wired
      /\ down' \in Seq(Messages) /\ o \in Seq(Messages) /\ h \in Messages
  <2>1. h \in Messages /\ o \in Seq(Messages) /\ out \in Seq(Messages) /\ down \in Seq(Messages)
    BY <1>1, OutInOrder, HeadTailProperties
  <2>2. /\ MayFollow(relevant, revision, Final(Prior, down), h) /\ Continues(relevant, revision, h, o)
        /\ Wired = Final(h, o)
    BY <1>1, <1>2, <2>1, OutInOrder, Shrinks
  <2>3. Continues(relevant, revision, Prior, down') /\ Final(Prior, down') = h /\ down' \in Seq(Messages)
    BY <1>1, <1>2, <2>1, <2>2, OutInOrder, Grows, AppendProperties
  <2> QED
    BY <2>1, <2>2, <2>3
<1>4. /\ IsResponse(h) => OneEvent(o, observer.busy)
      /\ ~IsResponse(h) => h = observer.busy /\ AllResponses(o)
  BY <1>1, <1>2, OutInOrder, HandedOver
<1>5. Prior' = Prior
  BY <1>1, PriorStays
<1> HIDE DEF h, o
<1>6. StreamOrdered' /\ ObserverPending' /\ Sending' /\ LaneInOrder(observer)' /\ out' \in Seq(Messages)
  <2>1. CASE IsResponse(h)
    <3>1. out' = o /\ UNCHANGED <<observer, serverHolds>>
      BY <2>1 DEF CarrierAccepts, h, o
    <3>2. StreamOrdered'
      BY <1>1, <1>3, <1>5, <3>1 DEF StreamOrdered
    <3>3. Wired' = Wired
      BY <1>3, <1>5, <3>1 DEF Wired
    <3>4. ObserverPending'
      <4>1. (\E p : Pending(relevant, revision, p, observer))'
        BY <1>1, <3>1 DEF FeedInv, ServerInv, ObserverPending
      <4>2. (link => Pending(relevant, revision, Wired, observer))'
        BY <1>1, <3>1, <3>3 DEF FeedInv, ServerInv, ObserverPending
      <4> QED
        BY <4>1, <4>2 DEF ObserverPending
    <3>5. Sending'
      BY <1>1, <1>4, <2>1, <3>1 DEF FeedInv, ServerInv, Sending
    <3> QED
      BY <1>2, <1>3, <3>1, <3>2, <3>4, <3>5
  <2>2. CASE ~IsResponse(h)
    <3>1. Observe(l, o) /\ serverHolds' = (serverHolds /\ ~IsTerminal(h))
      BY <2>2 DEF CarrierAccepts, h, o
    <3>2. h = observer.busy /\ AllResponses(o)
      BY <1>4, <2>2
    <3>3. Delivering(observer)
      <4>1. h # NoEvent
        BY <1>3 DEF Messages, Events, NoEvent, TerminalTypes, Responses
      <4> QED
        BY <3>2, <4>1 DEF Delivering
    <3>4. Advanced(observer, l) /\ (IsTerminal(observer.busy) => ~l.active)
      BY <1>2, <3>3, Settles
    <3> HIDE DEF l
    <3>5. link /\ l.active => serverHolds'
      BY <3>1, <3>2, <3>4 DEF FeedInv, ServerInv, Sending, Advanced
    <3> QED
      BY <1>1, <1>3, <3>1, <3>2, <3>4, <3>5, Observed
  <2> QED
    BY <2>1, <2>2
<1>7. Requests'
  BY <1>1, NotPristine, RequestsPassed DEF FeedInv, ServerInv, Asks
<1>8. ClientInv'
  BY <1>1, ClientStays DEF FeedInv
<1>9. Shape'
  BY <1>1, <1>3, <1>6 DEF FeedInv, Shape
<1> QED
  BY <1>6, <1>7, <1>8, <1>9 DEF FeedInv, ServerInv

LEMMA ServerShutdownKeeps ==
  ASSUME FeedInv, ServerShutdown
  PROVE  FeedInv'
<1>1. /\ ~link
      /\ UNCHANGED <<revision, relevant, correlationVars, corrupt, bindingClosed, link, out, down, up,
                     delivery, wrapper, lossQueued, seen, lastRevision>>
  BY DEF ServerShutdown, authorityVars, wireVars, bindingVars, clientVars, correlationVars
<1>2. observer' = Close(observer) \/ observer' = observer
  BY DEF ServerShutdown
<1>3. LaneInOrder(observer)
  BY DEF FeedInv, ServerInv
<1>4. StreamOrdered'
  BY <1>1, PriorStays, StreamStays DEF FeedInv, ServerInv
<1>5. ObserverPending' /\ LaneInOrder(observer)'
  <2>1. (\E p : Pending(relevant, revision, p, observer))'
    <3>1. CASE observer' = observer
      BY <1>1, <3>1 DEF FeedInv, ServerInv, ObserverPending
    <3>2. CASE observer' = Close(observer)
      BY <1>3, <3>2, Closes
    <3> QED
      BY <1>2, <3>1, <3>2
  <2>2. LaneInOrder(observer)'
    BY <1>2, <1>3, Closes
  <2> QED
    BY <1>1, <2>1, <2>2 DEF ObserverPending
<1>6. Sending' /\ Requests'
  BY <1>1 DEF FeedInv, ServerInv, Sending, Requests
<1>7. ClientInv'
  BY <1>1, ClientStays DEF FeedInv
<1>8. Shape'
  BY <1>1 DEF FeedInv, Shape
<1> QED
  BY <1>4, <1>5, <1>6, <1>7, <1>8 DEF FeedInv, ServerInv

\* A connection that ends keeps a prefix of what was to be read.
LEMMA Disconnected ==
  ASSUME FeedInv, Disconnect
  PROVE  /\ ~link' /\ out' = <<>> /\ down' \in Seq(Messages) /\ out' \in Seq(Messages)
         /\ UNCHANGED <<revision, relevant, correlationVars, bindingClosed>> => StreamOrdered'
<1>1. PICK n \in 0 .. Len(down) : down' = SubSeq(down, 1, n)
  BY DEF Disconnect
<1>2. ~link' /\ out' = <<>> /\ <<>> \in Seq(Messages)
  BY EmptySeq DEF Disconnect
<1>3. down' \in Seq(Messages)
  <2>1. Len(down) \in Nat /\ \A i \in 1 .. n : down[i] \in Messages
    BY OutInOrder, LenProperties, ElementOfSeq
  <2> QED
    BY <1>1, <2>1, SubSeqProperties
<1>4. ASSUME UNCHANGED <<revision, relevant, correlationVars, bindingClosed>>, ~bindingClosed
      PROVE  StreamOrdered'
  <2>1. Continues(relevant, revision, Prior, down')
    BY <1>1, <1>4, OutInOrder, Prefix
  <2>2. Prior' = Prior
    BY <1>4, PriorStays
  <2>3. Continues(relevant, revision, Final(Prior, down'), <<>>)
    BY EmptyContinues
  <2> QED
    BY <1>2, <1>4, <2>1, <2>2, <2>3 DEF StreamOrdered
<1>5. ASSUME UNCHANGED bindingClosed, bindingClosed PROVE StreamOrdered'
  BY <1>5 DEF StreamOrdered
<1> QED
  BY <1>2, <1>3, <1>4, <1>5

LEMMA UpCut ==
  ASSUME Shape, NEW n \in 0 .. Len(up), up' = SubSeq(up, 1, n)
  PROVE  up' \in Seq({"subscribe", "unsubscribe"})
<1>1. up \in Seq({"subscribe", "unsubscribe"})
  BY DEF Shape
<1>2. Len(up) \in Nat /\ \A i \in 1 .. n : up[i] \in {"subscribe", "unsubscribe"}
  BY <1>1, LenProperties, ElementOfSeq
<1> QED
  BY <1>1, <1>2, SubSeqProperties

LEMMA LinkBreaksKeeps ==
  ASSUME FeedInv, LinkBreaks
  PROVE  FeedInv'
<1>1. /\ Disconnect
      /\ UNCHANGED <<revision, relevant, correlationVars, corrupt, bindingClosed, observer,
                     delivery, wrapper, lossQueued, seen, lastRevision>>
  BY DEF LinkBreaks, authorityVars, bindingVars, clientVars, correlationVars
<1>2. ~link' /\ out' = <<>> /\ down' \in Seq(Messages) /\ out' \in Seq(Messages) /\ StreamOrdered'
  BY <1>1, Disconnected
<1>3. up' \in Seq({"subscribe", "unsubscribe"})
  BY UpCut DEF LinkBreaks, FeedInv
<1>4. ObserverPending' /\ Requests' /\ Sending' /\ LaneInOrder(observer)'
  BY <1>1, <1>2 DEF FeedInv, ServerInv, ObserverPending, Requests, Sending
<1>5. ClientInv'
  BY <1>1, <1>2, ClientStays DEF FeedInv
<1>6. Shape'
  BY <1>1, <1>2, <1>3 DEF FeedInv, Shape
<1> QED
  BY <1>2, <1>4, <1>5, <1>6 DEF FeedInv, ServerInv

\* The loop that serves requests takes one, and queues its response.
LEMMA Taken ==
  ASSUME Shape, NEW method, Requested(method)
  PROVE  /\ up' \in Seq({"subscribe", "unsubscribe"})
         /\ up # <<>> /\ Head(up) = method
         /\ Asks' => Asks
         /\ up = <<method>> => up' = <<>>
<1>1. /\ up \in Seq({"subscribe", "unsubscribe"}) /\ up # <<>> /\ up' = Tail(up) /\ Head(up) = method
  BY DEF Shape, Requested
<1>2. /\ up' \in Seq({"subscribe", "unsubscribe"})
      /\ Len(up) \in Nat /\ Len(up') = Len(up) - 1
      /\ \A i \in 1 .. Len(up) - 1 : up'[i] = up[i + 1]
  BY <1>1, HeadTailProperties, LenProperties
<1>3. Asks' => Asks
  <2> SUFFICES ASSUME NEW i \in 1 .. Len(up'), up'[i] = "subscribe" PROVE Asks
    BY DEF Asks
  <2>1. i + 1 \in 1 .. Len(up) /\ up[i + 1] = "subscribe"
    BY <1>2
  <2> QED
    BY <2>1 DEF Asks
<1>4. up = <<method>> => up' = <<>>
  BY <1>1
<1> QED
  BY <1>1, <1>2, <1>3, <1>4

LEMMA Responded ==
  ASSUME Sending, out \in Seq(Messages), NEW type \in Responses, Respond(type)
  PROVE  /\ Response(type) \in Messages /\ IsResponse(Response(type)) /\ out' \in Seq(Messages)
         /\ \A b : OneEvent(out, b) /\ link => OneEvent(out', b)
<1>1. Response(type) \in Messages /\ IsResponse(Response(type))
  BY DEF Response, IsResponse, Messages
<1>2. out' = IF link THEN Append(out, Response(type)) ELSE out
  BY DEF Respond
<1>3. out' \in Seq(Messages)
  BY <1>1, <1>2, AppendProperties
<1>4. \A b : OneEvent(out, b) => OneEvent(Append(out, Response(type)), b)
  BY <1>1, ResponsesAndEvents
<1> QED
  BY <1>1, <1>2, <1>3, <1>4

LEMMA FreshObserver ==
  ASSUME Shape, NEW p, p.type = "subscribed"
  PROVE  LET k == Enqueue(Fresh, Event("baseline", revision)) IN
         LaneInOrder(k) /\ k.busy = NoEvent /\ Pending(relevant, revision, p, k)
<1> DEFINE e == Event("baseline", revision)
           k == Enqueue(Fresh, e)
           none == <<>>
<1>1. /\ e \in Events /\ e.type = "baseline" /\ e.revision = revision
      /\ revision \in Nat /\ relevant \in SUBSET (1 .. revision)
  BY DEF Event, Events, Shape
<1>2. none \in Seq(Events) /\ Continues(relevant, revision, p, none) /\ Final(p, none) = p
  BY EmptySeq, EmptyContinues
<1>3. /\ Fresh.queue = none /\ Fresh.active /\ ~Fresh.terminalQueued /\ Fresh.busy = NoEvent
      /\ ~Fresh.scheduled
  BY DEF Fresh
<1>4. Fresh \in LaneRecords
  BY EmptySeq DEF Fresh, LaneRecords
<1>5. LaneInOrder(Fresh)
  BY <1>3, <1>4 DEF LaneInOrder
<1> HIDE DEF e, none
<1>6. MayFollow(relevant, revision, p, e)
  BY <1>1 DEF MayFollow, IsTerminal, TerminalTypes
<1>7. /\ LaneInOrder(k) /\ k.active /\ k.busy = NoEvent /\ Continues(relevant, revision, p, k.queue)
      /\ ~k.terminalQueued => Final(p, k.queue) = e
  BY <1>1, <1>2, <1>3, <1>5, <1>6, EnqueueKeeps
<1>8. CaughtUp(relevant, revision, e)
  BY <1>1 DEF CaughtUp, IsNews
<1> HIDE DEF k
<1>9. Pending(relevant, revision, p, k)
  BY <1>7, <1>8 DEF Pending
<1> QED
  BY <1>7, <1>9 DEF k, e

LEMMA ServeSubscribeKeeps ==
  ASSUME FeedInv, ServeSubscribe
  PROVE  FeedInv'
<1>1. /\ Requested("subscribe")
      /\ UNCHANGED <<revision, relevant, correlationVars, corrupt, bindingClosed, link, serverClosed, down,
                     delivery, wrapper, lossQueued, seen, lastRevision>>
  BY DEF ServeSubscribe, authorityVars, bindingVars, clientVars, correlationVars
<1>2. PICK type \in {"failure", "subscribed"} :
        /\ Respond(type)
        /\ \/ type = "failure" /\ UNCHANGED <<observer, serverHolds>>
           \/ /\ type = "subscribed" /\ serverHolds'
              /\ observer' = Enqueue(Fresh, Event("baseline", revision))
  BY DEF ServeSubscribe
<1>3. /\ Response(type) \in Messages /\ IsResponse(Response(type)) /\ out' \in Seq(Messages)
      /\ \A b : OneEvent(out, b) /\ link => OneEvent(out', b)
      /\ Response(type).type = type
      /\ out' = IF link THEN Append(out, Response(type)) ELSE out
  BY <1>2, OutInOrder, Responded DEF FeedInv, ServerInv, Responses, Respond, Response
<1>4. /\ up' \in Seq({"subscribe", "unsubscribe"}) /\ Asks /\ (up = <<"subscribe">> => up' = <<>>)
  <2>1. Len(up) \in Nat /\ up # <<>> /\ Head(up) = "subscribe" /\ up \in Seq({"subscribe", "unsubscribe"})
    BY <1>1, Taken, LenProperties DEF FeedInv, Shape
  <2>2. 1 \in 1 .. Len(up) /\ up[1] = "subscribe"
    BY <2>1, EmptySeq
  <2> QED
    BY <1>1, <2>2, Taken DEF FeedInv, Asks
<1>5. Prior' = Prior
  BY <1>1, PriorStays
<1>6. ClientInv'
  BY <1>1, ClientStays DEF FeedInv
<1>7. Shape'
  BY <1>1, <1>3, <1>4 DEF FeedInv, Shape
<1>8. LaneInOrder(observer)' /\ (\E p : Pending(relevant, revision, p, observer))'
  <2>1. CASE observer' = observer
    BY <1>1, <2>1 DEF FeedInv, ServerInv, ObserverPending
  <2>2. CASE observer' = Enqueue(Fresh, Event("baseline", revision))
    <3>1. Response("subscribed").type = "subscribed"
      BY DEF Response
    <3> QED
      BY <1>1, <2>2, <3>1, FreshObserver DEF FeedInv
  <2> QED
    BY <1>2, <2>1, <2>2
<1>9. CASE ~link
  <2>1. out' = out /\ out = <<>>
    BY <1>3, <1>9, OutInOrder
  <2>2. StreamOrdered'
    BY <1>1, <1>5, <2>1, StreamStays DEF FeedInv, ServerInv
  <2>3. ObserverPending' /\ Requests' /\ Sending'
    BY <1>1, <1>8, <1>9, <2>1 DEF ObserverPending, Requests, Sending
  <2> QED
    BY <1>6, <1>7, <1>8, <2>2, <2>3 DEF FeedInv, ServerInv
<1>10. CASE link
  <2>1. Pristine /\ up = <<"subscribe">> /\ wrapper # "none" /\ up' = <<>>
    BY <1>4, <1>10 DEF FeedInv, ServerInv, Requests
  <2>2. /\ Prior = Response("nothing") /\ down = <<>> /\ out = <<>> /\ observer = Inactive
        /\ out' = <<Response(type)>>
    BY <1>3, <1>10, <2>1 DEF Pristine, Prior
  <2>3. Final(Prior, down) = Prior /\ Continues(relevant, revision, Prior, down)
    BY <2>2, EmptyContinues
  <2>4. Continues(relevant, revision, Prior, out') /\ Final(Prior, out') = Response(type)
    <3>1. MayFollow(relevant, revision, Prior, Response(type))
      BY <1>3, <2>2 DEF MayFollow, Response, IsTerminal, TerminalTypes
    <3>2. Len(out') = 1 /\ out'[1] = Response(type) /\ out' # <<>>
      BY <2>2
    <3> QED
      BY <3>1, <3>2 DEF Continues, Final
  <2>5. StreamOrdered'
    BY <1>1, <1>5, <2>3, <2>4 DEF StreamOrdered
  <2>6. Wired' = Response(type)
    BY <1>1, <1>5, <2>3, <2>4 DEF Wired
  <2>7. Inactive.queue = <<>> /\ ~Inactive.active /\ Inactive.busy = NoEvent
    BY DEF Inactive, Close, Fresh
  <2>8. Pending(relevant', revision', Wired', observer')
    <3>1. CASE type = "failure" /\ UNCHANGED observer
      <4>1. Continues(relevant, revision, Response(type), <<>>)
        BY EmptyContinues
      <4> QED
        BY <1>1, <2>2, <2>6, <2>7, <3>1, <4>1 DEF Pending
    <3>2. CASE type = "subscribed" /\ observer' = Enqueue(Fresh, Event("baseline", revision))
      BY <1>1, <1>3, <2>6, <3>2, FreshObserver DEF FeedInv
    <3> QED
      BY <1>2, <3>1, <3>2
  <2>9. observer'.busy = observer.busy
    <3>1. Enqueue(Fresh, Event("baseline", revision)).busy = NoEvent
      <4>1. Response("subscribed").type = "subscribed"
        BY DEF Response
      <4> QED
        BY <4>1, FreshObserver DEF FeedInv
    <3> QED
      BY <1>2, <2>2, <2>7, <3>1
  <2>10. ObserverPending'
    BY <1>8, <2>8 DEF ObserverPending
  <2>11. Sending'
    <3>1. OneEvent(out', observer'.busy)
      BY <1>3, <1>10, <2>9 DEF FeedInv, ServerInv, Sending
    <3>2. observer'.active => serverHolds'
      BY <1>2, <2>2, <2>7
    <3> QED
      BY <1>1, <1>10, <3>1, <3>2 DEF FeedInv, ServerInv, Sending
  <2>12. Requests'
    BY <1>1, <2>1, EmptySeq DEF Requests, Asks
  <2> QED
    BY <1>6, <1>7, <1>8, <2>5, <2>10, <2>11, <2>12 DEF FeedInv, ServerInv
<1> QED
  BY <1>9, <1>10

LEMMA ServeUnsubscribeKeeps ==
  ASSUME FeedInv, ServeUnsubscribe
  PROVE  FeedInv'
<1>1. /\ Requested("unsubscribe") /\ Respond("unsubscribed")
      /\ observer' = IF serverHolds THEN Close(observer) ELSE observer
      /\ UNCHANGED <<revision, relevant, correlationVars, corrupt, bindingClosed, link, serverClosed, down,
                     delivery, wrapper, lossQueued, seen, lastRevision>>
  BY DEF ServeUnsubscribe, authorityVars, bindingVars, clientVars, correlationVars
<1> DEFINE r == Response("unsubscribed")
<1>2. /\ r \in Messages /\ IsResponse(r) /\ out' \in Seq(Messages)
      /\ \A b : OneEvent(out, b) /\ link => OneEvent(out', b)
      /\ r.type = "unsubscribed"
      /\ out' = IF link THEN Append(out, r) ELSE out
  BY <1>1, OutInOrder, Responded DEF FeedInv, ServerInv, Responses, Respond, Response
<1> HIDE DEF r
<1>3. /\ up' \in Seq({"subscribe", "unsubscribe"}) /\ up # <<>> /\ Head(up) = "unsubscribe"
      /\ Asks' => Asks
  BY <1>1, Taken DEF FeedInv
<1>4. LaneInOrder(observer)
  BY DEF FeedInv, ServerInv
<1>5. /\ LaneInOrder(observer)' /\ observer'.busy = observer.busy
      /\ link => ~observer'.active
  BY <1>1, <1>4, Closes DEF FeedInv, ServerInv, Sending
<1>6. (\E p : Pending(relevant, revision, p, observer))'
  <2>1. CASE observer' = observer
    BY <1>1, <2>1 DEF FeedInv, ServerInv, ObserverPending
  <2>2. CASE observer' = Close(observer)
    BY <1>4, <2>2, Closes
  <2> QED
    BY <1>1, <2>1, <2>2
<1>7. ObserverPending'
  <2>1. ASSUME link PROVE Pending(relevant', revision', Wired', observer')
    <3>1. observer'.queue = <<>>
      BY <1>5, <2>1 DEF LaneInOrder
    <3>2. Continues(relevant', revision', Wired', <<>>)
      BY EmptyContinues
    <3> QED
      BY <1>5, <2>1, <3>1, <3>2 DEF Pending
  <2> QED
    BY <1>1, <1>6, <2>1 DEF ObserverPending
<1>8. Prior' = Prior
  BY <1>1, PriorStays
<1>9. StreamOrdered'
  <2> SUFFICES ASSUME ~bindingClosed
               PROVE  Continues(relevant, revision, Final(Prior, down), out')
    BY <1>1, <1>8, OutInOrder DEF StreamOrdered
  <2>1. MayFollow(relevant, revision, Final(Final(Prior, down), out), r)
    BY <1>2 DEF MayFollow, IsTerminal, TerminalTypes
  <2> QED
    BY <1>2, <2>1, OutInOrder, Grows
<1>10. Sending'
  BY <1>1, <1>2, <1>5, OutInOrder DEF FeedInv, ServerInv, Sending
<1>11. Requests'
  <2>1. ASSUME link PROVE wrapper # "none" /\ ~Asks
    <3>1. up # <<"subscribe">>
      BY <1>3
    <3> QED
      BY <1>3, <2>1, <3>1 DEF FeedInv, ServerInv, Requests
  <2> QED
    BY <1>1, <1>3, <2>1 DEF Requests
<1>12. ClientInv'
  BY <1>1, ClientStays DEF FeedInv
<1>13. Shape'
  BY <1>1, <1>2, <1>3 DEF FeedInv, Shape
<1> QED
  BY <1>5, <1>7, <1>9, <1>10, <1>11, <1>12, <1>13 DEF FeedInv, ServerInv

-----------------------------------------------------------------------------
(* Steps of the Authority.                                                 *)

\* A step that gives the observer an event, whatever it continues.
LEMMA ObserverGiven ==
  ASSUME FeedInv, NEW k,
         \A p : Pending(relevant, revision, p, observer) =>
                    LaneInOrder(k) /\ k.active = observer.active /\ k.busy = observer.busy
                    /\ Pending(relevant', revision', p, k),
         \/ observer' = k
         \/ observer' = observer /\ \A p : Pending(relevant, revision, p, observer) =>
                                               Pending(relevant', revision', p, observer),
         UNCHANGED <<serverHolds, serverClosed, out, link, down, up, wrapper, correlationVars>>,
         observer = Inactive => k = observer
  PROVE  ObserverPending' /\ LaneInOrder(observer)' /\ Sending' /\ Requests'
<1>1. PICK p : Pending(relevant, revision, p, observer)
  BY DEF FeedInv, ServerInv, ObserverPending
<1>2. Wired' = Wired
  BY PriorStays DEF Wired
<1>3. LaneInOrder(observer)' /\ observer'.active = observer.active /\ observer'.busy = observer.busy
  BY <1>1 DEF FeedInv, ServerInv
<1>4. \A q : Pending(relevant, revision, q, observer) => Pending(relevant', revision', q, observer')
  OBVIOUS
<1>5. ObserverPending'
  BY <1>1, <1>2, <1>4 DEF FeedInv, ServerInv, ObserverPending
<1>6. Sending'
  BY <1>3 DEF FeedInv, ServerInv, Sending
<1>7. Requests'
  <2>1. Pristine => Pristine'
    BY DEF Pristine, Inactive, correlationVars
  <2> QED
    BY <2>1 DEF FeedInv, ServerInv, Requests, Asks
<1> QED
  BY <1>3, <1>5, <1>6, <1>7

LEMMA CommitKept ==
  ASSUME FeedInv, NEW relevantToUs \in BOOLEAN, Commit(relevantToUs)
  PROVE  FeedInv'
<1> DEFINE k == Enqueue(observer, Event("change", revision + 1))
           T == relevant \cup {revision + 1}
<1>1. /\ revision' = revision + 1
      /\ \/ relevant' = T /\ observer' = k
         \/ relevant' = relevant /\ observer' = observer
      /\ UNCHANGED <<correlationVars, corrupt, bindingClosed, link, serverClosed, serverHolds, out, down, up,
                     delivery, wrapper, lossQueued, seen, lastRevision, baselineSeen, correlation>>
  BY DEF Commit, serverVars, wireVars, bindingVars, clientVars, correlationVars
<1>2. /\ revision \in Nat /\ relevant \in SUBSET (1 .. revision) /\ LaneInOrder(observer)
      /\ LaneInOrder(delivery) /\ seen \in Seq(Events)
      /\ relevant' = relevant \/ relevant' = relevant \cup {revision + 1}
  BY <1>1 DEF FeedInv, ServerInv, ClientInv, Shape
<1>3. \A p : Pending(relevant, revision, p, observer) =>
                /\ Pending(relevant, revision + 1, p, observer)
                /\ LaneInOrder(k) /\ k.active = observer.active /\ k.busy = observer.busy
                /\ Pending(T, revision + 1, p, k)
  BY <1>2, Committed
<1>4. \A q \in Seq(Messages) : \A p :
         Continues(relevant, revision, p, q) => Continues(relevant', revision', p, q)
  BY <1>1, <1>2, CommitKeeps
<1>5. Shape'
  <2>1. relevant' \in SUBSET (1 .. revision')
    <3>1. \A q \in relevant' : q \in relevant \/ q = revision + 1
      BY <1>2, Zenon
    <3>2. revision \in Nat /\ \A q \in relevant : q \in 1 .. revision
      BY <1>2, Zenon
    <3>3. \A q \in 1 .. revision : q \in 1 .. revision + 1
      BY <3>2
    <3>4. revision + 1 \in 1 .. revision + 1
      BY <3>2
    <3>5. \A q \in relevant' : q \in 1 .. revision + 1
      BY <3>1, <3>2, <3>3, <3>4, Zenon
    <3> QED
      BY <1>1, <3>5, Zenon
  <2> QED
    BY <1>1, <1>2, <2>1 DEF FeedInv, Shape
<1>6. observer = Inactive => k = observer
  <2>1. ~Inactive.active
    BY DEF Inactive, Close, Fresh
  <2> QED
    BY <2>1 DEF Enqueue
<1> HIDE DEF k, T
<1>7. StreamOrdered'
  BY <1>1, <1>4, PriorStays, OutInOrder DEF StreamOrdered
<1>8. ObserverPending' /\ LaneInOrder(observer)' /\ Sending' /\ Requests'
  <2>1. CASE relevant' = T /\ observer' = k
    <3>1. \A p : Pending(relevant, revision, p, observer) =>
                    LaneInOrder(k) /\ k.active = observer.active /\ k.busy = observer.busy
                    /\ Pending(relevant', revision', p, k)
      BY <1>1, <1>3, <2>1
    <3> QED
      BY <1>1, <1>6, <2>1, <3>1, ObserverGiven
  <2>2. CASE relevant' = relevant /\ observer' = observer
    <3>1. \A p : Pending(relevant, revision, p, observer) => Pending(relevant', revision', p, observer)
      BY <1>1, <1>3, <2>2
    <3>2. \A p : Pending(relevant, revision, p, observer) =>
                    LaneInOrder(observer) /\ observer.active = observer.active /\ observer.busy = observer.busy
                    /\ Pending(relevant', revision', p, observer)
      BY <1>2, <3>1
    <3> QED
      BY <1>1, <2>2, <3>1, <3>2, ObserverGiven
  <2> QED
    BY <1>1, <2>1, <2>2
<1>9. FeedOrdered'
  <2>1. LastSeen' = LastSeen
    BY <1>1 DEF LastSeen
  <2>2. delivery.queue \in Seq(Messages)
    BY <1>2 DEF LaneInOrder, LaneRecords, Messages
  <2>3. \A p : Continues(relevant, revision, p, delivery.queue) =>
                 Continues(relevant', revision', p, delivery.queue)
    BY <1>4, <2>2
  <2> QED
    BY <1>1, <2>1, <2>3 DEF FeedInv, ClientInv, FeedOrdered
<1>10. NotYet' /\ Closed' /\ LaneInOrder(delivery)' /\ NeverCorrupt'
  BY <1>1 DEF FeedInv, ClientInv, NotYet, Closed, NeverCorrupt, Inactive
<1> QED
  BY <1>5, <1>7, <1>8, <1>9, <1>10 DEF FeedInv, ServerInv, ClientInv

LEMMA AuthorityTerminatesKeeps ==
  ASSUME FeedInv, AuthorityTerminates
  PROVE  FeedInv'
<1> DEFINE k == Enqueue(observer, Terminal("authority-terminal"))
<1>1. /\ observer' = k
      /\ UNCHANGED <<revision, relevant, correlationVars, corrupt, bindingClosed, link, serverClosed, serverHolds,
                     out, down, up, delivery, wrapper, lossQueued, seen, lastRevision>>
  BY DEF AuthorityTerminates, serverVars, wireVars, bindingVars, clientVars, correlationVars
<1>2. LaneInOrder(observer) /\ "authority-terminal" \in TerminalTypes
  BY DEF FeedInv, ServerInv, TerminalTypes
<1>3. \A p : Pending(relevant, revision, p, observer) =>
                /\ LaneInOrder(k) /\ k.active = observer.active /\ k.busy = observer.busy
                /\ Pending(relevant, revision, p, k)
  BY <1>2, Terminated
<1>4. observer = Inactive => k = observer
  <2>1. ~Inactive.active
    BY DEF Inactive, Close, Fresh
  <2> QED
    BY <2>1 DEF Enqueue
<1> HIDE DEF k
<1>5. ObserverPending' /\ LaneInOrder(observer)' /\ Sending' /\ Requests'
  BY <1>1, <1>3, <1>4, ObserverGiven
<1>6. StreamOrdered'
  BY <1>1, PriorStays, StreamStays DEF FeedInv, ServerInv
<1>7. ClientInv'
  BY <1>1, ClientStays DEF FeedInv
<1>8. Shape'
  BY <1>1 DEF FeedInv, Shape
<1> QED
  BY <1>5, <1>6, <1>7, <1>8 DEF FeedInv, ServerInv

-----------------------------------------------------------------------------
(* Steps of the binding and the client.                                    *)

LEMMA RequestQueued ==
  ASSUME Shape, NEW method \in {"subscribe", "unsubscribe"}
  PROVE  /\ Request(method) \in Seq({"subscribe", "unsubscribe"})
         /\ ~link => Request(method) = up
         /\ link /\ up = <<>> => Request(method) = <<method>>
         /\ method = "unsubscribe" =>
              ((\E i \in 1 .. Len(Request(method)) : Request(method)[i] = "subscribe") => Asks)
<1>1. up \in Seq({"subscribe", "unsubscribe"})
  BY DEF Shape
<1>2. /\ Append(up, method) \in Seq({"subscribe", "unsubscribe"})
      /\ Len(up) \in Nat /\ Len(Append(up, method)) = Len(up) + 1
      /\ \A i \in 1 .. Len(up) : Append(up, method)[i] = up[i]
      /\ Append(up, method)[Len(up) + 1] = method
  BY <1>1, AppendProperties, LenProperties
<1>3. up = <<>> => Append(up, method) = <<method>>
  BY <1>1
<1>4. \A i \in 1 .. Len(up) + 1 : i \in 1 .. Len(up) \/ i = Len(up) + 1
  BY <1>2
<1> QED
  BY <1>1, <1>2, <1>3, <1>4 DEF Request, Asks

LEMMA SubscribeKeeps ==
  ASSUME FeedInv, Subscribe
  PROVE  FeedInv'
<1>1. /\ wrapper = "none" /\ wrapper' = "awaiting" /\ up' = Request("subscribe")
      /\ UNCHANGED <<revision, relevant, observer, correlationVars, corrupt, bindingClosed, link, serverClosed,
                     serverHolds, out, down, delivery, lossQueued, seen, lastRevision, baselineSeen, correlation>>
  BY DEF Subscribe, authorityVars, serverVars, bindingVars, correlationVars
<1>2. Prior' = Prior
  BY <1>1, PriorStays
<1>3. StreamOrdered' /\ ObserverPending' /\ LaneInOrder(observer)' /\ Sending'
  BY <1>1, <1>2, StreamStays, ObserverStays, SendingStays DEF FeedInv, ServerInv
<1>4. Requests'
  <2> SUFFICES ASSUME link PROVE Pristine' /\ up' = <<"subscribe">>
    BY <1>1 DEF Requests
  <2>1. Pristine /\ up = <<>>
    BY <1>1 DEF FeedInv, ServerInv, Requests
  <2>2. up' = <<"subscribe">>
    BY <1>1, <2>1, RequestQueued DEF FeedInv
  <2> QED
    BY <1>1, <2>1, <2>2 DEF Pristine, Inactive
<1>5. ~delivery.active
  BY <1>1 DEF FeedInv, ClientInv, Closed
<1>6. ClientInv'
  BY <1>1, <1>5 DEF FeedInv, ClientInv, NotYet, FeedOrdered, Closed, NeverCorrupt, Inactive
<1>7. Shape'
  BY <1>1, RequestQueued DEF FeedInv, Shape
<1> QED
  BY <1>3, <1>4, <1>6, <1>7 DEF FeedInv, ServerInv

LEMMA InactiveCloses == Close(Inactive) = Inactive
BY DEF Inactive, Close, Fresh

\* The end of the binding takes the subscription of the client with it.
LEMMA BindingLostKeeps ==
  ASSUME FeedInv, NEW notify \in BOOLEAN, BindingLost(notify), ~link',
         UNCHANGED <<revision, relevant, observer, baselineSeen, lastRevision, corrupt, seen>>
  PROVE  ClientInv' /\ bindingClosed' /\ ObserverPending' /\ LaneInOrder(observer)'
<1>1. /\ bindingClosed' /\ delivery' = Close(delivery) /\ wrapper' # "active"
      /\ correlation' = "none" => correlation = "none"
      /\ wrapper # "active" /\ wrapper # "awaiting" => wrapper' = wrapper
      /\ wrapper = "awaiting" => wrapper' = "failed"
      /\ lossQueued' = (notify /\ wrapper = "active")
  BY DEF BindingLost
<1>2. LaneInOrder(delivery) /\ LaneInOrder(delivery)' /\ ~delivery'.active
  BY <1>1, Closes DEF FeedInv, ClientInv
<1>3. NotYet'
  <2> SUFFICES ASSUME correlation' = "none"
               PROVE  /\ ~baselineSeen' /\ lastRevision' = 0 /\ seen' = <<>> /\ ~lossQueued'
                      /\ delivery' = Inactive /\ wrapper' \in {"none", "awaiting", "failed"}
    BY DEF NotYet, Inactive
  <2>1. /\ ~baselineSeen /\ lastRevision = 0 /\ seen = <<>> /\ ~lossQueued /\ delivery = Inactive
        /\ wrapper \in {"none", "awaiting", "failed"}
    BY <1>1 DEF FeedInv, ClientInv, NotYet
  <2> QED
    BY <1>1, <2>1, InactiveCloses
<1>4. FeedOrdered' /\ Closed' /\ NeverCorrupt'
  BY <1>1, <1>2 DEF FeedInv, ClientInv, FeedOrdered, Closed, NeverCorrupt
<1>5. ObserverPending' /\ LaneInOrder(observer)'
  BY DEF FeedInv, ServerInv, ObserverPending
<1> QED
  BY <1>1, <1>2, <1>3, <1>4, <1>5 DEF ClientInv

LEMMA BindingFailsKeeps ==
  ASSUME FeedInv, BindingFails
  PROVE  FeedInv'
<1>1. /\ ~link /\ BindingLost(TRUE) /\ TRUE \in BOOLEAN
      /\ UNCHANGED <<revision, relevant, observer, serverClosed, serverHolds, out, link, down, up, baselineSeen,
                     lastRevision, corrupt, seen>>
  BY DEF BindingFails, authorityVars, serverVars, wireVars
<1>2. ClientInv' /\ bindingClosed' /\ ObserverPending' /\ LaneInOrder(observer)'
  BY <1>1, BindingLostKeeps
<1>3. StreamOrdered' /\ Requests' /\ Sending'
  BY <1>1, <1>2 DEF StreamOrdered, Requests, FeedInv, ServerInv, Sending
<1>4. Shape'
  BY <1>1 DEF FeedInv, Shape
<1> QED
  BY <1>2, <1>3, <1>4 DEF FeedInv, ServerInv

LEMMA OwnerDetachesKeeps ==
  ASSUME FeedInv, NEW terminate \in BOOLEAN, OwnerDetaches(terminate)
  PROVE  FeedInv'
<1> DEFINE notify == ~terminate
<1>1. /\ Disconnect /\ BindingLost(notify)
      /\ UNCHANGED <<revision, relevant, observer, serverClosed, serverHolds, baselineSeen, lastRevision,
                     corrupt, seen>>
  BY DEF OwnerDetaches, authorityVars, serverVars
<1> HIDE DEF notify
<1>2. ~link' /\ out' = <<>> /\ down' \in Seq(Messages) /\ out' \in Seq(Messages)
  BY <1>1, Disconnected
<1>3. ClientInv' /\ bindingClosed' /\ ObserverPending' /\ LaneInOrder(observer)'
  <2>1. notify \in BOOLEAN
    BY DEF notify
  <2> QED
    BY <1>1, <1>2, <2>1, BindingLostKeeps
<1>4. StreamOrdered' /\ Requests' /\ Sending'
  BY <1>2, <1>3 DEF StreamOrdered, Requests, Sending
<1>5. up' \in Seq({"subscribe", "unsubscribe"})
  BY UpCut DEF OwnerDetaches, FeedInv
<1>6. Shape'
  BY <1>1, <1>2, <1>5 DEF FeedInv, Shape
<1> QED
  BY <1>3, <1>4, <1>6 DEF FeedInv, ServerInv

LEMMA ListenerLosesBindingKeeps ==
  ASSUME FeedInv, ListenerLosesBinding
  PROVE  FeedInv'
<1>1. /\ lossQueued /\ ~lossQueued' /\ seen' = Append(seen, Terminal("binding-terminal"))
      /\ UNCHANGED <<revision, relevant, observer, correlationVars, corrupt, bindingClosed, link, serverClosed,
                     serverHolds, out, down, up, delivery, wrapper, lastRevision, baselineSeen, correlation>>
  BY DEF ListenerLosesBinding, authorityVars, serverVars, wireVars, bindingVars, correlationVars
<1>2. bindingClosed /\ wrapper # "active" /\ correlation # "none" /\ ~delivery.active
  BY <1>1 DEF FeedInv, ClientInv, Closed, NotYet
<1>3. seen' \in Seq(Events)
  <2>1. Terminal("binding-terminal") \in Events
    BY DEF Terminal, Event, Events, TerminalTypes
  <2> QED
    BY <1>1, <2>1, AppendProperties DEF FeedInv, Shape
<1>4. StreamOrdered' /\ ObserverPending' /\ LaneInOrder(observer)' /\ Sending'
  BY <1>1, PriorStays, StreamStays, ObserverStays, SendingStays DEF FeedInv, ServerInv
<1>5. Requests'
  BY <1>1 DEF FeedInv, ServerInv, Requests, Pristine, Asks, Inactive
<1>6. ClientInv'
  BY <1>1, <1>2 DEF FeedInv, ClientInv, NotYet, FeedOrdered, Closed, NeverCorrupt
<1>7. Shape'
  BY <1>1, <1>3 DEF FeedInv, Shape
<1> QED
  BY <1>4, <1>5, <1>6, <1>7 DEF FeedInv, ServerInv

\* Ending the subscription, as the binding sees it, changes nothing for what
\* is on its way: a tombstone goes on reading.
LEMMA CloseBegun ==
  ASSUME FeedInv, BeginClose \/ UNCHANGED <<correlation, up>>, wrapper' = "none" => wrapper = "none",
         UNCHANGED <<revision, relevant, observer, serverClosed, serverHolds, out, link, down, bindingClosed,
                     baselineSeen, lastRevision>>
  PROVE  /\ ServerInv' /\ up' \in Seq({"subscribe", "unsubscribe"})
         /\ correlation' = "none" => correlation = "none"
         /\ correlation' = "active" => correlation = "active"
<1>1. CASE correlation = "active" /\ correlation' = "closing" /\ up' = Request("unsubscribe")
  <2>1. Prior' = Prior
    BY <1>1 DEF Prior
  <2>2. StreamOrdered' /\ ObserverPending' /\ LaneInOrder(observer)' /\ Sending'
    BY <2>1, StreamStays, ObserverStays, SendingStays DEF FeedInv, ServerInv
  <2>3. up' \in Seq({"subscribe", "unsubscribe"}) /\ (Asks' => Asks)
    BY <1>1, RequestQueued DEF FeedInv, Asks
  <2>4. ~Pristine
    BY <1>1 DEF Pristine
  <2>5. Requests'
    BY <2>3, <2>4, RequestsPassed DEF FeedInv, ServerInv
  <2> QED
    BY <1>1, <2>2, <2>3, <2>5 DEF ServerInv
<1>2. CASE UNCHANGED <<correlation, up>>
  <2>1. Prior' = Prior
    BY <1>2 DEF Prior
  <2>2. StreamOrdered' /\ ObserverPending' /\ LaneInOrder(observer)' /\ Sending'
    BY <2>1, StreamStays, ObserverStays, SendingStays DEF FeedInv, ServerInv
  <2>3. Requests'
    BY <1>2 DEF FeedInv, ServerInv, Requests, Pristine, Asks, Inactive
  <2>4. up' \in Seq({"subscribe", "unsubscribe"})
    BY <1>2 DEF FeedInv, Shape
  <2> QED
    BY <1>2, <2>2, <2>3, <2>4 DEF ServerInv
<1> QED
  BY <1>1, <1>2 DEF BeginClose

\* The next event that the binding's lane delivers may follow what was given.
LEMMA NextGiven ==
  ASSUME FeedInv, NEW l, Advanced(delivery, l), Delivering(l)
  PROVE  /\ wrapper = "active" /\ delivery.active /\ l.busy \in Events
         /\ MayFollow(relevant, revision, LastSeen, l.busy)
         /\ Continues(relevant, revision, l.busy, l.queue)
         /\ Final(LastSeen, delivery.queue) = Final(l.busy, l.queue)
         /\ \A i \in 1 .. Len(seen) : ~IsTerminal(seen[i])
<1>1. /\ delivery.active /\ delivery.queue # <<>> /\ l.busy = Head(delivery.queue)
      /\ l.queue = Tail(delivery.queue)
  BY DEF Advanced
<1>2. wrapper = "active" /\ delivery.queue \in Seq(Events)
  BY <1>1 DEF FeedInv, ClientInv, Closed, LaneInOrder, LaneRecords
<1>3. /\ Continues(relevant, revision, LastSeen, delivery.queue)
      /\ \A i \in 1 .. Len(seen) : ~IsTerminal(seen[i])
  BY <1>1, <1>2 DEF FeedInv, ClientInv, FeedOrdered
<1>4. l.busy \in Events
  BY <1>1, <1>2, HeadTailProperties
<1> QED
  BY <1>1, <1>2, <1>3, <1>4, Shrinks

LEMMA Delivered ==
  ASSUME FeedInv, NEW l, Advanced(delivery, l), Deliver(l), delivery # Inactive,
         UNCHANGED <<revision, relevant, observer, serverClosed, serverHolds, out, link, down, bindingClosed,
                     baselineSeen, lastRevision, corrupt, lossQueued>>
  PROVE  FeedInv'
<1>1. /\ BeginClose \/ UNCHANGED <<correlation, up>>
      /\ wrapper' = wrapper \/ wrapper' = "inactive"
  BY DEF Deliver
<1>2. /\ ServerInv' /\ up' \in Seq({"subscribe", "unsubscribe"})
      /\ correlation' = "none" => correlation = "none"
      /\ correlation' = "active" => correlation = "active"
  BY <1>1, CloseBegun
<1>3. correlation' # "none" /\ NotYet'
  BY <1>2 DEF FeedInv, ClientInv, NotYet
<1>4. CASE ~Delivering(l)
  <2>1. delivery' = l /\ UNCHANGED <<correlation, up, wrapper, seen>>
    BY <1>4 DEF Deliver
  <2>2. /\ LaneInOrder(l) /\ l.terminalQueued = delivery.terminalQueued
        /\ l.active => delivery.active /\ l.queue = delivery.queue
    BY <1>4 DEF Advanced
  <2>3. FeedOrdered'
    <3>1. LastSeen' = LastSeen
      BY <2>1 DEF LastSeen
    <3> QED
      BY <2>1, <2>2, <3>1 DEF FeedInv, ClientInv, FeedOrdered
  <2>4. Closed' /\ LaneInOrder(delivery)' /\ NeverCorrupt'
    BY <2>1, <2>2 DEF FeedInv, ClientInv, Closed, NeverCorrupt
  <2>5. Shape'
    BY <1>2, <2>1 DEF FeedInv, Shape
  <2> QED
    BY <1>2, <1>3, <2>3, <2>4, <2>5 DEF FeedInv, ClientInv
<1>5. CASE Delivering(l)
  <2>1. /\ wrapper = "active" /\ delivery.active /\ l.busy \in Events
        /\ Continues(relevant, revision, l.busy, l.queue)
        /\ Final(LastSeen, delivery.queue) = Final(l.busy, l.queue)
        /\ \A i \in 1 .. Len(seen) : ~IsTerminal(seen[i])
    BY <1>5, NextGiven
  <2>2. seen' = Append(seen, l.busy)
    BY <1>5, <2>1 DEF Deliver
  <2>3. /\ seen' \in Seq(Events) /\ LastSeen' = l.busy
        /\ ~IsTerminal(l.busy) => \A i \in 1 .. Len(seen') : ~IsTerminal(seen'[i])
    <3>1. /\ seen' \in Seq(Events) /\ Len(seen) \in Nat /\ Len(seen') = Len(seen) + 1 /\ seen' # <<>>
          /\ \A i \in 1 .. Len(seen) : seen'[i] = seen[i]
          /\ seen'[Len(seen) + 1] = l.busy
      BY <2>1, <2>2, AppendProperties, LenProperties DEF FeedInv, Shape
    <3>2. \A i \in 1 .. Len(seen') : i \in 1 .. Len(seen) \/ i = Len(seen) + 1
      BY <3>1
    <3>3. LastSeen' = l.busy
      BY <3>1 DEF LastSeen
    <3> QED
      BY <2>1, <3>1, <3>2, <3>3
  <2>4. Shape'
    BY <1>2, <2>3 DEF FeedInv, Shape
  <2>5. LaneInOrder(l) /\ l.terminalQueued = delivery.terminalQueued
    BY DEF Advanced
  <2>6. CASE ~IsTerminal(l.busy)
    <3>1. delivery' = l /\ UNCHANGED <<correlation, up, wrapper>>
      BY <1>5, <2>6 DEF Deliver
    <3>2. FeedOrdered'
      BY <2>1, <2>3, <2>5, <2>6, <3>1 DEF FeedInv, ClientInv, FeedOrdered
    <3>3. Closed' /\ LaneInOrder(delivery)' /\ NeverCorrupt'
      BY <2>1, <2>5, <3>1 DEF FeedInv, ClientInv, Closed, NeverCorrupt
    <3> QED
      BY <1>2, <1>3, <2>4, <3>2, <3>3 DEF FeedInv, ClientInv
  <2>7. CASE IsTerminal(l.busy)
    <3>1. /\ delivery' = Settled(l) \/ delivery' = Close(l)
          /\ wrapper' = "active" \/ wrapper' = "inactive"
      BY <1>5, <2>1, <2>7 DEF Deliver
    <3>2. LaneInOrder(delivery') /\ ~delivery'.active
      BY <1>5, <2>5, <2>7, <3>1, Settles, Closes DEF Advanced
    <3>3. FeedOrdered' /\ NeverCorrupt'
      BY <3>2 DEF FeedInv, ClientInv, FeedOrdered, NeverCorrupt
    <3>4. Closed'
      BY <2>1, <3>1, <3>2 DEF FeedInv, ClientInv, Closed
    <3> QED
      BY <1>2, <1>3, <2>4, <3>2, <3>3, <3>4 DEF FeedInv, ClientInv
  <2> QED
    BY <2>6, <2>7
<1> QED
  BY <1>4, <1>5

\* The two steps that let the lane of the binding go on.
LEMMA DeliveryGoesOn ==
  ASSUME FeedInv, DeliveryTimer \/ ListenerSettles
  PROVE  \E l : /\ Advanced(delivery, l) /\ Deliver(l) /\ delivery # Inactive
                /\ UNCHANGED <<revision, relevant, observer, serverClosed, serverHolds, out, link, down,
                               bindingClosed, baselineSeen, lastRevision, corrupt, lossQueued>>
<1>1. LaneInOrder(delivery)
  BY DEF FeedInv, ClientInv
<1>2. ~Inactive.scheduled /\ Inactive.busy = NoEvent
  BY DEF Inactive, Close, Fresh
<1>3. CASE DeliveryTimer
  <2>1. /\ delivery.scheduled /\ Deliver(Fire(delivery))
        /\ UNCHANGED <<revision, relevant, observer, serverClosed, serverHolds, out, link, down,
                       bindingClosed, baselineSeen, lastRevision, corrupt, lossQueued>>
    BY <1>3 DEF DeliveryTimer, authorityVars, serverVars
  <2>2. Advanced(delivery, Fire(delivery))
    BY <1>1, <2>1, Fires
  <2> QED
    BY <1>2, <2>1, <2>2
<1>4. CASE ListenerSettles
  <2>1. /\ Delivering(delivery) /\ Deliver(Settled(delivery))
        /\ UNCHANGED <<revision, relevant, observer, serverClosed, serverHolds, out, link, down,
                       bindingClosed, baselineSeen, lastRevision, corrupt, lossQueued>>
    BY <1>4 DEF ListenerSettles, authorityVars, serverVars
  <2>2. Advanced(delivery, Settled(delivery))
    BY <1>1, <2>1, Settles
  <2> QED
    BY <1>2, <2>1, <2>2 DEF Delivering
<1> QED
  BY <1>3, <1>4

LEMMA DeliveryKeeps ==
  ASSUME FeedInv, DeliveryTimer \/ ListenerSettles
  PROVE  FeedInv'
BY DeliveryGoesOn, Delivered

LEMMA CallerClosesKeeps ==
  ASSUME FeedInv, CallerCloses
  PROVE  FeedInv'
<1>1. /\ wrapper \in {"active", "inactive"} /\ wrapper' = "inactive"
      /\ UNCHANGED <<revision, relevant, observer, serverClosed, serverHolds, out, link, down, bindingClosed,
                     baselineSeen, lastRevision, corrupt, lossQueued, seen>>
      /\ BeginClose \/ UNCHANGED <<correlation, up>>
      /\ delivery' = Close(delivery) \/ (wrapper = "inactive" /\ delivery' = delivery)
  BY DEF CallerCloses, authorityVars, serverVars
<1>2. /\ ServerInv' /\ up' \in Seq({"subscribe", "unsubscribe"})
      /\ correlation' = "none" => correlation = "none"
  BY <1>1, CloseBegun
<1>3. LaneInOrder(delivery)' /\ ~delivery'.active
  BY <1>1, Closes DEF FeedInv, ClientInv, Closed
<1>4. correlation' # "none"
  BY <1>1, <1>2 DEF FeedInv, ClientInv, NotYet
<1>5. NotYet' /\ FeedOrdered' /\ Closed' /\ NeverCorrupt'
  BY <1>1, <1>3, <1>4 DEF FeedInv, ClientInv, NotYet, FeedOrdered, Closed, NeverCorrupt
<1>6. Shape'
  BY <1>1, <1>2 DEF FeedInv, Shape
<1> QED
  BY <1>2, <1>3, <1>5, <1>6 DEF FeedInv, ClientInv

\* Having read m, the binding knows what may stand for it.
LEMMA ReadOn ==
  ASSUME FeedInv, down # <<>>, down' = Tail(down), ~bindingClosed,
         StandsFor(relevant, revision, Prior', Head(down)), wrapper' = "none" => wrapper = "none",
         UNCHANGED <<revision, relevant, observer, serverClosed, serverHolds, out, link, up, bindingClosed>>
  PROVE  ServerInv' /\ down' \in Seq(Messages)
<1> DEFINE R == relevant
           N == revision
           m == Head(down)
           t == Tail(down)
           p == Prior'
<1>1. /\ down \in Seq(Messages) /\ out \in Seq(Messages) /\ t \in Seq(Messages)
      /\ LaneInOrder(observer)
  BY OutInOrder, HeadTailProperties DEF FeedInv, ServerInv
<1>2. /\ Continues(R, N, m, t) /\ Final(Prior, down) = Final(m, t)
      /\ Continues(R, N, Final(m, t), out)
      /\ Wired = Final(Final(m, t), out)
  BY <1>1, OutInOrder, Shrinks
<1> HIDE DEF m, t, p
<1>3. StandsFor(R, N, p, m)
  BY DEF p, m
<1>4. Continues(R, N, p, t) /\ StandsFor(R, N, Final(p, t), Final(m, t))
  BY <1>1, <1>2, <1>3, Replaced
<1>5. Continues(R, N, Final(p, t), out) /\ StandsFor(R, N, Final(Final(p, t), out), Wired)
  BY <1>1, <1>2, <1>4, Replaced
<1>6. StreamOrdered'
  BY <1>4, <1>5 DEF StreamOrdered, t, p
<1>7. ObserverPending'
  <2>1. Wired' = Final(Final(p, t), out)
    BY DEF Wired, t, p
  <2>2. link => Pending(R, N, Wired', observer)
    BY <1>1, <1>5, <2>1, PendingReplaced DEF FeedInv, ServerInv, ObserverPending
  <2> QED
    BY <2>2 DEF FeedInv, ServerInv, ObserverPending
<1>8. LaneInOrder(observer)' /\ Sending'
  BY <1>1, SendingStays DEF FeedInv, ServerInv
<1>9. Requests'
  BY NotPristine, RequestsPassed DEF FeedInv, ServerInv, Asks
<1> QED
  BY <1>1, <1>6, <1>7, <1>8, <1>9 DEF ServerInv, t

LEMMA WhoStandsFor ==
  ASSUME NEW R, NEW N, NEW m, NEW p,
         \/ p = m
         \/ m.type \notin {"nothing", "subscribed", "baseline", "change"}
         \/ IsNews(m) /\ IsNews(p) /\ p.revision = m.revision
  PROVE  StandsFor(R, N, p, m)
<1>1. CASE p = m
  BY <1>1 DEF StandsFor
<1>2. CASE m.type \notin {"nothing", "subscribed", "baseline", "change"}
  BY <1>2 DEF StandsFor, MayFollow, IsNews
<1>3. CASE IsNews(m) /\ IsNews(p) /\ p.revision = m.revision
  BY <1>3 DEF StandsFor, MayFollow, IsNews
<1> QED
  BY <1>1, <1>2, <1>3

\* What the lane of the binding has last is what the binding has read last.
LEMMA LaneUpToDate ==
  ASSUME FeedInv, correlation = "active", delivery.active, ~delivery.terminalQueued
  PROVE  /\ wrapper = "active"
         /\ StandsFor(relevant, revision, Final(LastSeen, delivery.queue), Prior)
<1> DEFINE f == Final(LastSeen, delivery.queue)
<1>1. wrapper = "active"
  BY DEF FeedInv, ClientInv, Closed
<1>2. IF baselineSeen THEN IsNews(f) /\ f.revision = lastRevision ELSE f = Response("subscribed")
  BY <1>1 DEF FeedInv, ClientInv, FeedOrdered
<1>3. Prior = IF baselineSeen THEN Event("change", lastRevision) ELSE Response("subscribed")
  BY DEF Prior
<1> HIDE DEF f
<1>4. CASE baselineSeen
  <2>1. IsNews(Prior) /\ Prior.revision = lastRevision
    BY <1>3, <1>4 DEF IsNews, Event
  <2> QED
    BY <1>1, <1>2, <1>4, <2>1, WhoStandsFor DEF f
<1>5. CASE ~baselineSeen
  BY <1>1, <1>2, <1>3, <1>5, WhoStandsFor DEF f
<1> QED
  BY <1>4, <1>5

\* An event that comes when it may is no breach of the protocol.
LEMMA ReadEventKeeps ==
  ASSUME FeedInv, down # <<>>, down' = Tail(down), ~bindingClosed, Head(down) \in Events,
         MayFollow(relevant, revision, Prior, Head(down)), ReadEvent(Head(down)),
         UNCHANGED <<revision, relevant, observer, serverClosed, serverHolds, out, link, up, seen>>
  PROVE  FeedInv'
<1> DEFINE e == Head(down)
<1>1. /\ e \in Events /\ e.revision \in Nat
      /\ e.type \in {"baseline", "change"} \/ IsTerminal(e)
      /\ ~IsTerminal(e) <=> e.type \in {"baseline", "change"}
  BY DEF Events, IsTerminal, TerminalTypes
<1>2. correlation \in {"none", "retired"} => Prior.type \in {"nothing", "unsubscribed"}
  BY DEF Prior, Response
<1>3. /\ baselineSeen /\ correlation \notin {"none", "retired"} =>
            Prior.type = "change" /\ Prior.revision = lastRevision
      /\ ~baselineSeen /\ correlation \notin {"none", "retired"} => Prior.type = "subscribed"
  BY DEF Prior, Response, Event
<1>4. /\ e.type = "baseline" => Prior.type = "subscribed"
      /\ e.type = "change" => IsNews(Prior) /\ Prior.revision < e.revision
      /\ IsTerminal(e) => IsNews(Prior)
  BY DEF MayFollow
<1> HIDE DEF e
<1>5. correlation \notin {"none", "retired"}
  BY <1>1, <1>2, <1>4 DEF IsNews
<1>6. ~Impossible(e)
  <2>1. ~(e.type = "baseline" /\ baselineSeen)
    BY <1>3, <1>4, <1>5
  <2>2. ~(e.type = "change" /\ ~baselineSeen)
    BY <1>3, <1>4, <1>5 DEF IsNews
  <2>3. ~(e.type = "change" /\ e.revision <= lastRevision)
    <3>1. lastRevision \in Nat
      BY DEF FeedInv, Shape
    <3> QED
      BY <1>1, <1>3, <1>4, <1>5, <2>2, <3>1
  <2> QED
    BY <1>5, <2>1, <2>2, <2>3 DEF Impossible
<1>7. /\ baselineSeen' = (baselineSeen \/ e.type = "baseline")
      /\ lastRevision' = IF IsTerminal(e) THEN lastRevision ELSE e.revision
      /\ correlation' = IF IsTerminal(e) THEN "retired" ELSE correlation
      /\ delivery' = IF correlation = "active" THEN Enqueue(delivery, e) ELSE delivery
      /\ UNCHANGED <<bindingClosed, corrupt, wrapper, lossQueued>>
  BY <1>6 DEF ReadEvent, HandleEvent, e
<1>8. ~IsTerminal(e) => baselineSeen' /\ lastRevision' = e.revision /\ IsNews(e)
  BY <1>1, <1>3, <1>4, <1>5, <1>7 DEF IsNews
<1>9. StandsFor(relevant, revision, Prior', e)
  <2>1. CASE IsTerminal(e)
    BY <2>1, WhoStandsFor DEF IsTerminal, TerminalTypes
  <2>2. CASE ~IsTerminal(e)
    <3>1. Prior' = Event("change", e.revision)
      BY <1>5, <1>7, <1>8, <2>2 DEF Prior
    <3>2. IsNews(Prior') /\ (Prior').revision = e.revision
      BY <3>1 DEF IsNews, Event
    <3> QED
      BY <1>8, <2>2, <3>2, WhoStandsFor
  <2> QED
    BY <2>1, <2>2
<1>10. ServerInv' /\ down' \in Seq(Messages)
  BY <1>7, <1>9, ReadOn DEF e
<1>11. LaneInOrder(delivery)
  BY DEF FeedInv, ClientInv
<1>12. CASE ~(correlation = "active" /\ delivery.active /\ ~delivery.terminalQueued)
  <2>1. delivery' = delivery
    BY <1>1, <1>7, <1>11, <1>12, EnqueueKeeps
  <2>2. FeedOrdered'
    <3>1. LastSeen' = LastSeen
      BY DEF LastSeen
    <3> QED
      BY <1>7, <1>12, <2>1, <3>1 DEF FeedInv, ClientInv, FeedOrdered
  <2>3. NotYet' /\ Closed' /\ LaneInOrder(delivery)' /\ NeverCorrupt'
    BY <1>5, <1>7, <2>1 DEF FeedInv, ClientInv, NotYet, Closed, NeverCorrupt
  <2>4. Shape'
    BY <1>1, <1>7, <1>10 DEF FeedInv, Shape
  <2> QED
    BY <1>10, <2>2, <2>3, <2>4 DEF FeedInv, ClientInv
<1>13. CASE correlation = "active" /\ delivery.active /\ ~delivery.terminalQueued
  <2> DEFINE k == Enqueue(delivery, e)
  <2>1. wrapper = "active" /\ StandsFor(relevant, revision, Final(LastSeen, delivery.queue), Prior)
    BY <1>13, LaneUpToDate
  <2>2. MayFollow(relevant, revision, Final(LastSeen, delivery.queue), e)
    BY <2>1, Zenon DEF StandsFor, e
  <2>3. /\ Continues(relevant, revision, LastSeen, delivery.queue)
        /\ \A i \in 1 .. Len(seen) : ~IsTerminal(seen[i])
    BY <1>13, <2>1 DEF FeedInv, ClientInv, FeedOrdered
  <2>4. /\ LaneInOrder(k) /\ k.active /\ Continues(relevant, revision, LastSeen, k.queue)
        /\ ~k.terminalQueued => Final(LastSeen, k.queue) = e /\ ~IsTerminal(e)
    BY <1>1, <1>11, <1>13, <2>2, <2>3, EnqueueKeeps
  <2>5. delivery' = k /\ LastSeen' = LastSeen
    BY <1>7, <1>13 DEF LastSeen
  <2> HIDE DEF k
  <2>6. FeedOrdered'
    BY <1>8, <2>3, <2>4, <2>5 DEF FeedOrdered
  <2>7. NotYet' /\ Closed' /\ LaneInOrder(delivery)' /\ NeverCorrupt'
    BY <1>5, <1>7, <2>1, <2>4, <2>5 DEF FeedInv, ClientInv, NotYet, Closed, NeverCorrupt
  <2>8. Shape'
    BY <1>1, <1>7, <1>10 DEF FeedInv, Shape
  <2> QED
    BY <1>10, <2>6, <2>7, <2>8 DEF FeedInv, ClientInv
<1> QED
  BY <1>12, <1>13

LEMMA FreshLane ==
  /\ LaneInOrder(Fresh) /\ Fresh.active /\ Fresh.queue = <<>>
BY EmptySeq DEF Fresh, LaneInOrder, LaneRecords

LEMMA BindingReadsKeeps ==
  ASSUME FeedInv, BindingReads
  PROVE  FeedInv'
<1> DEFINE m == Head(down)
<1>1. /\ ~bindingClosed /\ down # <<>> /\ down' = Tail(down)
      /\ UNCHANGED <<revision, relevant, observer, serverClosed, serverHolds, out, link, up, seen>>
  BY DEF BindingReads, authorityVars, serverVars
<1>2. \/ m.type = "subscribed" /\ ReadSubscribed
      \/ m.type = "failure" /\ ReadFailure
      \/ m.type = "unsubscribed" /\ ReadUnsubscribed
      \/ m.type \notin Responses /\ ReadEvent(m)
  BY DEF BindingReads, Responses
<1>3. m \in Messages
  BY <1>1, OutInOrder, HeadTailProperties
<1>4. MayFollow(relevant, revision, Prior, m)
  BY <1>1, OutInOrder, Shrinks
<1>5. /\ m.type \in Responses => m = Response(m.type)
      /\ m.type \notin Responses => m \in Events
  BY <1>3 DEF Messages, Events, Responses, Response, TerminalTypes
<1>6. m.type \in {"subscribed", "failure"} => correlation = "none"
  BY <1>4 DEF MayFollow, Prior, Response, Event
<1>7. correlation = "none" =>
        /\ ~baselineSeen /\ lastRevision = 0 /\ seen = <<>> /\ ~lossQueued /\ delivery = Inactive
        /\ wrapper \in {"none", "awaiting", "failed"}
  BY DEF FeedInv, ClientInv, NotYet
<1> HIDE DEF m
<1>8. CASE m.type = "subscribed" /\ ReadSubscribed
  <2>1. /\ correlation' = "active" /\ delivery' = Fresh /\ wrapper' = "active"
        /\ UNCHANGED <<baselineSeen, lastRevision, corrupt, bindingClosed, lossQueued>>
    BY <1>8 DEF ReadSubscribed
  <2>2. Prior' = m
    BY <1>5, <1>6, <1>7, <1>8, <2>1 DEF Prior, Responses
  <2>3. ServerInv' /\ down' \in Seq(Messages)
    BY <1>1, <2>1, <2>2, WhoStandsFor, ReadOn DEF m
  <2>4. LastSeen' = Response("subscribed") /\ seen' = <<>>
    BY <1>1, <1>6, <1>7, <1>8 DEF LastSeen
  <2>5. FeedOrdered'
    <3>1. \A p : Continues(relevant', revision', p, <<>>) /\ Final(p, <<>>) = p
      BY EmptyContinues
    <3>2. ~baselineSeen' /\ (\A i \in 1 .. Len(seen') : FALSE)
      BY <1>6, <1>7, <1>8, <2>1, <2>4
    <3> QED
      BY <2>1, <2>4, <3>1, <3>2, FreshLane DEF FeedOrdered
  <2>6. NotYet' /\ Closed' /\ LaneInOrder(delivery)' /\ NeverCorrupt'
    BY <1>1, <1>6, <1>7, <1>8, <2>1, FreshLane DEF FeedInv, ClientInv, NotYet, Closed, NeverCorrupt
  <2>7. Shape'
    BY <1>1, <2>1, <2>3 DEF FeedInv, Shape
  <2> QED
    BY <2>3, <2>5, <2>6, <2>7 DEF FeedInv, ClientInv
<1>9. CASE m.type = "failure" /\ ReadFailure
  <2>1. wrapper' = "failed" /\ UNCHANGED <<bindingClosed, correlationVars, corrupt, delivery, lossQueued>>
    BY <1>9 DEF ReadFailure
  <2>2. StandsFor(relevant, revision, Prior', m)
    BY <1>9, WhoStandsFor
  <2>3. ServerInv' /\ down' \in Seq(Messages)
    BY <1>1, <2>1, <2>2, ReadOn DEF m
  <2>4. ~delivery.active
    BY <1>6, <1>7, <1>9 DEF Inactive, Close, Fresh
  <2>5. NotYet' /\ FeedOrdered' /\ Closed' /\ LaneInOrder(delivery)' /\ NeverCorrupt'
    BY <1>1, <1>6, <1>7, <1>9, <2>1, <2>4
       DEF FeedInv, ClientInv, NotYet, FeedOrdered, Closed, NeverCorrupt, correlationVars, Inactive
  <2>6. Shape'
    BY <1>1, <2>1, <2>3 DEF FeedInv, Shape, correlationVars
  <2> QED
    BY <2>3, <2>5, <2>6 DEF FeedInv, ClientInv
<1>10. CASE m.type = "unsubscribed" /\ ReadUnsubscribed
  <2>1. /\ correlation' = "retired"
        /\ UNCHANGED <<bindingClosed, baselineSeen, lastRevision, corrupt, delivery, wrapper, lossQueued>>
    BY <1>10 DEF ReadUnsubscribed
  <2>2. StandsFor(relevant, revision, Prior', m)
    BY <1>10, WhoStandsFor
  <2>3. ServerInv' /\ down' \in Seq(Messages)
    BY <1>1, <2>1, <2>2, ReadOn DEF m
  <2>4. LastSeen' = LastSeen
    BY <1>1 DEF LastSeen
  <2>5. NotYet' /\ FeedOrdered' /\ Closed' /\ LaneInOrder(delivery)' /\ NeverCorrupt'
    BY <1>1, <2>1, <2>4 DEF FeedInv, ClientInv, NotYet, FeedOrdered, Closed, NeverCorrupt
  <2>6. Shape'
    BY <1>1, <2>1, <2>3 DEF FeedInv, Shape
  <2> QED
    BY <2>3, <2>5, <2>6 DEF FeedInv, ClientInv
<1>11. CASE m.type \notin Responses /\ ReadEvent(m)
  BY <1>1, <1>4, <1>5, <1>11, ReadEventKeeps DEF m
<1> QED
  BY <1>2, <1>8, <1>9, <1>10, <1>11

-----------------------------------------------------------------------------
(* The theorems.                                                           *)

LEMMA InitFeedInv ==
  ASSUME Init
  PROVE  FeedInv
<1> DEFINE none == <<>>
<1>1. /\ none \in Seq(Messages) /\ none \in Seq(Events) /\ none \in Seq({"subscribe", "unsubscribe"})
      /\ Len(none) = 0
      /\ \A R, N, p : Continues(R, N, p, none) /\ Final(p, none) = p
  BY EmptySeq, EmptyContinues
<1>2. /\ out = none /\ down = none /\ up = none /\ seen = none /\ correlation = "none" /\ ~bindingClosed
      /\ revision = 0 /\ relevant = {} /\ lastRevision = 0 /\ ~baselineSeen /\ ~corrupt /\ link
      /\ ~serverClosed /\ observer = Inactive /\ delivery = Inactive /\ wrapper = "none" /\ ~lossQueued
  BY DEF Init
<1>3. LaneInOrder(Inactive) /\ ~Inactive.active /\ \A R, N, p : Pending(R, N, p, Inactive)
  BY FreshLane, Closes DEF Inactive
<1>4. Shape
  BY <1>1, <1>2 DEF Shape
<1> HIDE DEF none
<1>5. StreamOrdered /\ ObserverPending
  BY <1>1, <1>2, <1>3 DEF StreamOrdered, ObserverPending
<1>6. Requests
  BY <1>1, <1>2 DEF Requests, Pristine, Asks, none
<1>7. Sending
  BY <1>1, <1>2, <1>3 DEF Sending, OneEvent
<1>8. ClientInv
  BY <1>1, <1>2, <1>3 DEF ClientInv, NotYet, FeedOrdered, Closed, NeverCorrupt, none
<1> QED
  BY <1>2, <1>3, <1>4, <1>5, <1>6, <1>7, <1>8 DEF FeedInv, ServerInv

LEMMA StutterKeeps ==
  ASSUME FeedInv, UNCHANGED vars
  PROVE  FeedInv'
<1>1. /\ UNCHANGED <<revision, relevant, observer, serverClosed, serverHolds, out, link, down, up, seen>>
      /\ UNCHANGED <<bindingClosed, correlationVars, corrupt, delivery, wrapper, lossQueued, lastRevision>>
  BY DEF vars, authorityVars, serverVars, wireVars, bindingVars, clientVars, correlationVars
<1>2. StreamOrdered' /\ ObserverPending' /\ LaneInOrder(observer)' /\ Sending'
  BY <1>1, PriorStays, StreamStays, ObserverStays, SendingStays DEF FeedInv, ServerInv
<1>3. Requests'
  BY <1>1 DEF FeedInv, ServerInv, Requests, Pristine, Asks, Inactive, correlationVars
<1>4. ClientInv'
  BY <1>1, ClientStays DEF FeedInv
<1>5. Shape'
  BY <1>1 DEF FeedInv, Shape
<1> QED
  BY <1>2, <1>3, <1>4, <1>5 DEF FeedInv, ServerInv

LEMMA NextFeedInv ==
  ASSUME FeedInv, [Next]_vars
  PROVE  FeedInv'
<1>1. ASSUME NEW relevantToUs \in BOOLEAN, Commit(relevantToUs) PROVE FeedInv'
  BY <1>1, CommitKept
<1>2. CASE AuthorityTerminates
  BY <1>2, AuthorityTerminatesKeeps
<1>3. CASE Server
  BY <1>3, ObserverTimerKeeps, EventDroppedKeeps, CarrierAcceptsKeeps, ServerShutdownKeeps DEF Server
<1>4. CASE Serve
  BY <1>4, ServeSubscribeKeeps, ServeUnsubscribeKeeps DEF Serve
<1>5. CASE LinkBreaks
  BY <1>5, LinkBreaksKeeps
<1>6. CASE Subscribe
  BY <1>6, SubscribeKeeps
<1>7. ASSUME NEW terminate \in BOOLEAN, OwnerDetaches(terminate) PROVE FeedInv'
  BY <1>7, OwnerDetachesKeeps
<1>8. CASE Binding
  BY <1>8, BindingFailsKeeps, BindingReadsKeeps, DeliveryKeeps, ListenerLosesBindingKeeps DEF Binding
<1>9. CASE ListenerSettles
  BY <1>9, DeliveryKeeps
<1>10. CASE CallerCloses
  BY <1>10, CallerClosesKeeps
<1>11. CASE UNCHANGED vars
  BY <1>11, StutterKeeps
<1> QED
  BY <1>1, <1>2, <1>3, <1>4, <1>5, <1>6, <1>7, <1>8, <1>9, <1>10, <1>11 DEF Next

\* Whatever the events of a subscription pass on their way, they pass it in
\* the order in which the Authority committed them, and without a gap: the
\* inductive invariant of subscription-delivery.ts, carrier.ts and client.ts.
THEOREM FeedInvariant == Spec => []FeedInv
<1>1. Init => FeedInv
  BY InitFeedInv
<1>2. FeedInv /\ [Next]_vars => FeedInv'
  BY NextFeedInv
<1> QED
  BY <1>1, <1>2, PTL DEF Spec

\* However closes, overflows, terminals and acknowledgements cross on the wire,
\* the binding (handleSubscriptionEvent) never takes its peer to be in breach
\* of the protocol.
THEOREM NeverCorruptHolds == Spec => []NeverCorrupt
<1>1. FeedInv => NeverCorrupt
  BY DEF FeedInv, ClientInv
<1> QED
  BY <1>1, FeedInvariant, PTL

\* An event that the listener is given is a step of the feed.
LEMMA GiveRefines ==
  ASSUME FeedInv, DeliveryTimer \/ ListenerSettles
  PROVE  Feed!Next \/ UNCHANGED Feed!vars
<1>1. PICK l : /\ Advanced(delivery, l) /\ Deliver(l)
               /\ UNCHANGED <<revision, relevant>>
  BY DeliveryGoesOn
<1>2. CASE ~Delivering(l)
  BY <1>1, <1>2 DEF Deliver, Feed!vars
<1>3. CASE Delivering(l)
  <2> DEFINE e == l.busy
  <2>1. /\ wrapper = "active" /\ e \in Events
        /\ MayFollow(relevant, revision, LastSeen, e)
        /\ \A i \in 1 .. Len(seen) : ~IsTerminal(seen[i])
    BY <1>1, <1>3, NextGiven
  <2>2. seen' = Append(seen, e)
    BY <1>1, <1>3, <2>1 DEF Deliver
  <2> HIDE DEF e
  <2>3. /\ seen \in Seq(Events) /\ Len(seen) \in Nat
        /\ seen # <<>> => LastSeen = seen[Len(seen)] /\ LastSeen \in Events
        /\ seen = <<>> => LastSeen = Response("subscribed")
    <3>1. seen \in Seq(Events) /\ Len(seen) \in Nat
      BY LenProperties DEF FeedInv, Shape
    <3>2. seen # <<>> => Len(seen) \in 1 .. Len(seen)
      BY <3>1, EmptySeq
    <3> QED
      BY <3>1, <3>2, ElementOfSeq DEF LastSeen
  <2>4. /\ e = [type |-> e.type, revision |-> e.revision] /\ e.revision \in Nat
        /\ e.type \in {"baseline", "change"} \cup TerminalTypes
    BY <2>1 DEF Events
  <2>5. CASE e.type = "baseline"
    <3>1. seen = <<>>
      BY <2>1, <2>3, <2>5 DEF MayFollow, Events, TerminalTypes
    <3>2. e.revision \in 0 .. revision
      BY <2>1, <2>4, <2>5 DEF MayFollow, FeedInv, Shape
    <3>3. Feed!Give("baseline", e.revision)
      BY <2>2, <2>4, <2>5 DEF Feed!Give
    <3> QED
      BY <1>1, <3>1, <3>2, <3>3 DEF Feed!Next, Feed!Baseline
  <2>6. CASE e.type = "change"
    <3>1. seen # <<>>
      BY <2>1, <2>3, <2>6 DEF MayFollow, IsNews, Response
    <3>2. ~Feed!Ended
      BY <2>1 DEF Feed!Ended, Feed!Ends, IsTerminal, TerminalTypes
    <3>3. /\ e.revision \in relevant /\ seen[Len(seen)].revision < e.revision
          /\ \A q \in relevant : q <= seen[Len(seen)].revision \/ e.revision <= q
      BY <2>1, <2>3, <2>6, <3>1 DEF MayFollow
    <3>4. Feed!Give("change", e.revision)
      BY <2>2, <2>4, <2>6 DEF Feed!Give
    <3> QED
      BY <1>1, <3>1, <3>2, <3>3, <3>4 DEF Feed!Next, Feed!Change
  <2>7. CASE e.type \in TerminalTypes
    <3>1. seen # <<>> /\ e.revision = 0
      BY <2>1, <2>3, <2>7 DEF MayFollow, IsTerminal, IsNews, Response
    <3>2. Feed!Give(e.type, 0) /\ e.type \in Feed!Ends
      BY <2>2, <2>4, <2>7, <3>1 DEF Feed!Give, Feed!Ends, TerminalTypes
    <3> QED
      BY <1>1, <3>1, <3>2 DEF Feed!Next, Feed!End
  <2> QED
    BY <2>4, <2>5, <2>6, <2>7
<1> QED
  BY <1>2, <1>3

LEMMA NextRefinesFeed ==
  ASSUME FeedInv, [Next]_vars
  PROVE  Feed!Next \/ UNCHANGED Feed!vars
<1>1. ASSUME NEW relevantToUs \in BOOLEAN, Commit(relevantToUs) PROVE Feed!Next
  <2>1. /\ revision' = revision + 1 /\ seen' = seen
        /\ relevant' = relevant \cup {revision'} \/ relevant' = relevant
    BY <1>1 DEF Commit, clientVars
  <2> QED
    BY <2>1 DEF Feed!Next, Feed!Commit
<1>2. CASE DeliveryTimer \/ ListenerSettles
  BY <1>2, GiveRefines
<1>3. CASE ListenerLosesBinding
  <2>1. /\ seen' = Append(seen, [type |-> "binding-terminal", revision |-> 0])
        /\ UNCHANGED <<revision, relevant>>
    BY <1>3 DEF ListenerLosesBinding, authorityVars, Terminal, Event
  <2> QED
    BY <2>1 DEF Feed!Next, Feed!End, Feed!Ends, Feed!Give
<1>4. CASE \/ AuthorityTerminates \/ Server \/ Serve \/ LinkBreaks \/ Subscribe
           \/ \E terminate \in BOOLEAN : OwnerDetaches(terminate)
           \/ BindingFails \/ BindingReads \/ CallerCloses \/ UNCHANGED vars
  <2>1. UNCHANGED <<revision, relevant, seen>>
    BY <1>4 DEF AuthorityTerminates, Server, ObserverTimer, EventDropped, CarrierAccepts, ServerShutdown,
                Serve, ServeSubscribe, ServeUnsubscribe, LinkBreaks, Subscribe, OwnerDetaches, BindingFails,
                BindingReads, CallerCloses, vars, authorityVars, clientVars
  <2> QED
    BY <2>1 DEF Feed!vars
<1> QED
  BY <1>1, <1>2, <1>3, <1>4 DEF Next, Binding

\* The listener is given a subscription feed, as the contract promises it:
\* whatever lies between the Authority and the listener.
THEOREM FeedImplemented == Spec => ImplementsFeed
<1>1. Init => Feed!Init
  BY DEF Init, Feed!Init
<1>2. FeedInv /\ [Next]_vars => [Feed!Next]_(Feed!vars)
  BY NextRefinesFeed
<1> QED
  BY <1>1, <1>2, FeedInvariant, PTL DEF Spec, ImplementsFeed, Feed!Spec
=============================================================================
