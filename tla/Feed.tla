-------------------------------- MODULE Feed --------------------------------
(***************************************************************************)
(* What a Subscription promises its reader: the messages of its topic, in  *)
(* the order in which the node handled them, of which one is left out only *)
(* when Capacity others wait to be read; after the cancellation those that *)
(* wait, and only then the error.                                          *)
(***************************************************************************)
EXTENDS Naturals, Sequences

CONSTANTS Subs, Msgs, Capacity

VARIABLES
    state,   \* of each subscription: "none", "open" or "closed"
    feed,    \* the messages that wait for the reader
    got,     \* the messages the reader was given
    ended    \* the subscriptions that have returned their error

vars == <<state, feed, got, ended>>

Init ==
    /\ state = [s \in Subs |-> "none"]
    /\ feed = [s \in Subs |-> <<>>]
    /\ got = [s \in Subs |-> <<>>]
    /\ ended = {}

Open(s) ==
    /\ state[s] = "none"
    /\ state' = [state EXCEPT ![s] = "open"]
    /\ UNCHANGED <<feed, got, ended>>

Close(s) ==
    /\ state[s] = "open"
    /\ state' = [state EXCEPT ![s] = "closed"]
    /\ UNCHANGED <<feed, got, ended>>

with(q, m) == IF Len(q) < Capacity THEN Append(q, m) ELSE q

\* The message m is handled, for the subscriptions S.
Offer(m, S) ==
    /\ \A s \in S : state[s] = "open"
    /\ feed' = [s \in Subs |-> IF s \in S THEN with(feed[s], m) ELSE feed[s]]
    /\ UNCHANGED <<state, got, ended>>

Take(s) ==
    /\ feed[s] # <<>>
    /\ got' = [got EXCEPT ![s] = Append(@, Head(feed[s]))]
    /\ feed' = [feed EXCEPT ![s] = Tail(@)]
    /\ UNCHANGED <<state, ended>>

End(s) ==
    /\ state[s] = "closed" /\ feed[s] = <<>>
    /\ ended' = ended \cup {s}
    /\ UNCHANGED <<state, feed, got>>

Next ==
    \/ \E s \in Subs : Open(s) \/ Close(s) \/ Take(s) \/ End(s)
    \/ \E m \in Msgs, S \in SUBSET Subs : Offer(m, S)

Spec == Init /\ [][Next]_vars
=============================================================================
