--------------------------- MODULE RendererHolder --------------------------
(***************************************************************************)
(* The Renderer's holder of Main's authority (ControlHolder): the current  *)
(* Runtime authority snapshot, and for every subsystem it names a Data     *)
(* carrier of exactly that identity.                                       *)
(*                                                                         *)
(* A snapshot arrives with a new control connection or on the current one. *)
(* Each time the slots are reconciled: a current peer, a pending           *)
(* acquisition and a remembered failure survive only with the identity the *)
(* snapshot names.  The platform's Data binding answers an acquisition in  *)
(* its own time, also after it was aborted.                                *)
(*                                                                         *)
(* What becomes of messages on the carriers is PresentationEvents' and     *)
(* RenderPublication's; the Renderer Control peer is RendererControl's.    *)
(***************************************************************************)
EXTENDS Naturals, FiniteSets, Sequences

CONSTANTS
  Keys,           \* subsystems
  MaxConnects,    \* control connections (a bound)
  MaxGeneration,  \* Data generations Main names (a bound)
  MaxAcquires     \* acquisitions and carriers at one time (a bound)

ASSUME HolderAssumption ==
  /\ IsFiniteSet(Keys)
  /\ {MaxConnects, MaxGeneration, MaxAcquires} \subseteq Nat

VARIABLES
  conn,      \* the control peer of currentValue, or 0
  connects,
  snapshot,  \* its snapshot: the generation of each key (0: none), the lease
  slot,      \* dataSlots: the current carrier, the pending one, a failure
  attempt,   \* each acquisition: its identity and where it stands
  carrier    \* the carrier it was given

holderVars == <<conn, connects, snapshot, slot, attempt, carrier>>

Acquires == 1 .. MaxAcquires
Generations == [Keys -> 0 .. MaxGeneration]

\* DesiredDataIdentity
Identities == [conn : 0 .. MaxConnects, key : Keys, gen : 0 .. MaxGeneration]
Identity(c, gen, k) == [conn |-> c, key |-> k, gen |-> gen[k]]

NoSnapshot == [gen |-> [k \in Keys |-> 0], lease |-> 0]
EmptySlot == [current |-> 0, pending |-> 0, failed |-> FALSE]

HolderTypeOK ==
  /\ conn \in 0 .. MaxConnects /\ connects \in 0 .. MaxConnects
  /\ snapshot.gen \in Generations
  /\ slot \in [Keys -> [current : 0 .. MaxAcquires, pending : 0 .. MaxAcquires,
                        failed : BOOLEAN]]
  /\ \A a \in Acquires :
       /\ attempt[a].at \in {"idle", "asked", "aborted", "given", "late",
                             "refused", "settled"}
       /\ attempt[a].at # "idle" => attempt[a].id \in Identities
  /\ carrier \in [Acquires -> {"none", "open", "closed"}]

NoAttempt == [at |-> "idle"]

HolderInit ==
  /\ conn = 0 /\ connects = 0
  /\ snapshot = NoSnapshot
  /\ slot = [k \in Keys |-> EmptySlot]
  /\ attempt = [a \in Acquires |-> NoAttempt]
  /\ carrier = [a \in Acquires |-> "none"]

-----------------------------------------------------------------------------
(* Reconciliation *)

\* isDesired
IsDesired(id) ==
  conn # 0 /\ conn = id.conn /\ id.gen # 0 /\ snapshot.gen[id.key] = id.gen

\* The acquisition a slot holds has the identity the snapshot names.
Kept(a, c, gen, k) ==
  a # 0 /\ gen[k] # 0 /\ attempt[a].id = Identity(c, gen, k)

\* A new acquisition takes the place of one that is over and done with.
Spare == {a \in Acquires : attempt[a].at = "idle"}
Named(s) == CHOOSE f \in [s -> Spare] : \A j, k \in s : f[j] = f[k] => j = k

\* The acquisitions and carriers once those in "aborts" are aborted, the
\* carriers in "closes" closed, and one is started for each key in "starts".
Aborted(at) == IF at = "asked" THEN "aborted"
               ELSE IF at = "given" THEN "late"
               ELSE IF at = "refused" THEN "settled" ELSE at

Acquire(c, gen, starts, aborts, closes) ==
  LET new == Named(starts)
      fresh(a) == \E k \in starts : new[k] = a
  IN  /\ Cardinality(starts) <= Cardinality(Spare)
      /\ attempt' = [a \in Acquires |->
           IF fresh(a)
             THEN [id |-> Identity(c, gen, CHOOSE k \in starts : new[k] = a),
                   at |-> "asked"]
             ELSE IF a \in aborts THEN [attempt[a] EXCEPT !.at = Aborted(@)]
                                  ELSE attempt[a]]
      /\ carrier' = [a \in Acquires |-> IF a \in closes THEN "closed"
                                                        ELSE carrier[a]]

\* retireMismatchedData and reconcileData, for the snapshot "gen" of the
\* control peer c.  A new peer, whose identities are all new, finds the slots
\* of the old one as clearAllData left them.
Reconcile(c, gen) ==
  LET stays(k)  == Kept(slot[k].current, c, gen, k)
      waits(k)  == Kept(slot[k].pending, c, gen, k)
      failed(k) == /\ slot[k].failed /\ gen[k] # 0
                   /\ c = conn /\ gen[k] = snapshot.gen[k]
      starts == {k \in Keys : gen[k] # 0 /\ ~stays(k) /\ ~waits(k)
                                         /\ ~failed(k)}
      aborts == {slot[k].pending : k \in {j \in Keys : ~waits(j)}}
      closes == {slot[k].current : k \in {j \in Keys : ~stays(j)}}
      new    == Named(starts)
  IN  /\ Acquire(c, gen, starts, aborts, closes)
      /\ slot' = [k \in Keys |->
           [current |-> IF stays(k) THEN slot[k].current ELSE 0,
            pending |-> IF k \in starts THEN new[k]
                        ELSE IF waits(k) THEN slot[k].pending ELSE 0,
            failed  |-> failed(k)]]

\* connect: its peer replaces one that is still current.
Connect(s) ==
  /\ connects < MaxConnects /\ connects' = connects + 1
  /\ conn' = connects' /\ snapshot' = s
  /\ Reconcile(conn', s.gen)

\* consume: a snapshot of the current peer.
Consume(s) ==
  /\ conn # 0
  /\ snapshot' = s
  /\ Reconcile(conn, s.gen)
  /\ UNCHANGED <<conn, connects>>

\* peer.terminal of the current peer.
ControlTerminal ==
  /\ conn # 0 /\ conn' = 0 /\ snapshot' = NoSnapshot
  /\ Reconcile(0, NoSnapshot.gen)
  /\ UNCHANGED connects

-----------------------------------------------------------------------------
(* Data acquisition *)

\* The platform's Data binding answers, perhaps after the abort.
BindingAnswers(a) ==
  /\ attempt[a].at \in {"asked", "aborted"}
  /\ \/ /\ attempt' = [attempt EXCEPT ![a].at =
                         IF @ = "asked" THEN "given" ELSE "late"]
        /\ carrier' = [carrier EXCEPT ![a] = "open"]
     \/ /\ attempt' = [attempt EXCEPT ![a].at =
                         IF @ = "asked" THEN "refused" ELSE "settled"]
        /\ UNCHANGED carrier
  /\ UNCHANGED <<conn, connects, snapshot, slot>>

\* isCurrentAttempt
IsCurrentAttempt(a) ==
  /\ slot[attempt[a].id.key].pending = a
  /\ attempt[a].at = "given"
  /\ IsDesired(attempt[a].id)

\* installDataAcquire: the peer becomes current; a carrier no peer can be
\* made of is closed and its identity fails; a late one is closed.
InstallDataAcquire(a) ==
  LET k == attempt[a].id.key
  IN  /\ attempt[a].at \in {"given", "late"}
      /\ attempt' = [attempt EXCEPT ![a].at = "settled"]
      /\ \/ /\ IsCurrentAttempt(a)
            /\ slot' = [slot EXCEPT ![k].current = a, ![k].pending = 0]
            /\ UNCHANGED carrier
         \/ /\ IsCurrentAttempt(a)
            /\ slot' = [slot EXCEPT ![k].failed = TRUE, ![k].pending = 0]
            /\ carrier' = [carrier EXCEPT ![a] = "closed"]
         \/ /\ ~IsCurrentAttempt(a)
            /\ carrier' = [carrier EXCEPT ![a] = "closed"]
            /\ UNCHANGED slot
      /\ UNCHANGED <<conn, connects, snapshot>>

\* rejectDataAcquire
RejectDataAcquire(a) ==
  LET k == attempt[a].id.key
  IN  /\ attempt[a].at = "refused"
      /\ attempt' = [attempt EXCEPT ![a].at = "settled"]
      /\ slot' = IF slot[k].pending = a
                   THEN [slot EXCEPT ![k].pending = 0,
                                     ![k].failed = IsDesired(attempt[a].id)]
                   ELSE slot
      /\ UNCHANGED <<conn, connects, snapshot, carrier>>

\* peer.terminal of a current Data peer: another one is acquired.
DataTerminal(k) ==
  LET a == slot[k].current
      starts == IF IsDesired(attempt[a].id) /\ slot[k].pending = 0
                     /\ ~slot[k].failed THEN {k} ELSE {}
  IN  /\ a # 0 /\ carrier[a] = "closed"
      /\ Acquire(conn, snapshot.gen, starts, {}, {})
      /\ slot' = [slot EXCEPT ![k].current = 0,
                              ![k].pending = IF starts = {} THEN @
                                             ELSE Named(starts)[k]]
      /\ UNCHANGED <<conn, connects, snapshot>>

\* A carrier breaks, or its other end closes it.
CarrierBreaks(a) ==
  /\ carrier[a] = "open"
  /\ carrier' = [carrier EXCEPT ![a] = "closed"]
  /\ UNCHANGED <<conn, connects, snapshot, slot, attempt>>

\* An acquisition that is over and whose carrier nobody uses is forgotten.
Forget(a) ==
  /\ attempt[a].at = "settled" /\ carrier[a] # "open"
  /\ \A k \in Keys : a \notin {slot[k].current, slot[k].pending}
  /\ attempt' = [attempt EXCEPT ![a] = NoAttempt]
  /\ carrier' = [carrier EXCEPT ![a] = "none"]
  /\ UNCHANGED <<conn, connects, snapshot, slot>>

-----------------------------------------------------------------------------
(* Properties *)
=============================================================================
