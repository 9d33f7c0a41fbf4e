-------------------------- MODULE SubscriptionFeed --------------------------
(***************************************************************************)
(* What a Shared State subscription promises its listener (doc/15-         *)
(* contracts/shared-state-v1.md, section 15), whatever lies between the    *)
(* Authority and the listener: a baseline, then every relevant commit      *)
(* after it, once and in order, then possibly a terminal.  Commits may be  *)
(* far ahead of the listener.                                              *)
(***************************************************************************)
EXTENDS Integers, Sequences

VARIABLES
    revision,   \* the Authority's revision
    relevant,   \* the revisions that wrote a subscribed key
    feed        \* the events the listener was given

vars == <<revision, relevant, feed>>

Ends == {"overflow", "authority-terminal", "binding-terminal"}
Ended == \E i \in 1..Len(feed) : feed[i].type \in Ends
Give(type, r) == feed' = Append(feed, [type |-> type, revision |-> r])

Init == revision = 0 /\ relevant = {} /\ feed = <<>>

Commit ==
    /\ revision' = revision + 1
    /\ relevant' \in {relevant, relevant \cup {revision'}}
    /\ UNCHANGED feed

Baseline ==
    /\ feed = <<>>
    /\ \E r \in 0..revision : Give("baseline", r)
    /\ UNCHANGED <<revision, relevant>>

\* The next relevant commit, and none left out.
Change ==
    /\ feed # <<>> /\ ~Ended
    /\ \E r \in relevant :
        /\ feed[Len(feed)].revision < r
        /\ \A q \in relevant : q <= feed[Len(feed)].revision \/ r <= q
        /\ Give("change", r)
    /\ UNCHANGED <<revision, relevant>>

\* Only the loss of the binding may come before the baseline.
End ==
    /\ \E reason \in Ends :
        /\ feed # <<>> \/ reason = "binding-terminal"
        /\ Give(reason, 0)
    /\ UNCHANGED <<revision, relevant>>

Next == Commit \/ Baseline \/ Change \/ End

Spec == Init /\ [][Next]_vars
=============================================================================
