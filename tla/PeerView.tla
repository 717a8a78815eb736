------------------------------ MODULE PeerView ------------------------------
(***************************************************************************)
(* What NextPeerEvent promises about one topic: every event it reports to  *)
(* a subscription is true when it is reported, and Join and Leave of a     *)
(* peer alternate, starting with Join. What happens between two reports    *)
(* about a peer, and cancels out, is not reported.                         *)
(***************************************************************************)
CONSTANTS Peers, Subs

VARIABLES
    members,   \* the peers in the topic
    status,    \* of each subscription: "new", "live" or "cancelled"
    truth,     \* the members, as they were while the subscription was live
    view       \* the peers whose last report to the subscription was a Join

vars == <<members, status, truth, view>>

Init ==
    /\ members = {}
    /\ status = [s \in Subs |-> "new"]
    /\ truth = [s \in Subs |-> {}]
    /\ view = [s \in Subs |-> {}]

\* the subscriptions that are told of the members M
Live(M) == [s \in Subs |-> IF status[s] = "live" THEN M ELSE truth[s]]

Change(M) ==
    /\ members' = M /\ truth' = Live(M)
    /\ UNCHANGED <<status, view>>

Subscribe(s) ==
    /\ status[s] = "new"
    /\ status' = [status EXCEPT ![s] = "live"]
    /\ truth' = [truth EXCEPT ![s] = members]
    /\ UNCHANGED <<members, view>>

Cancel(s) ==
    /\ status[s] = "live"
    /\ status' = [status EXCEPT ![s] = "cancelled"]
    /\ UNCHANGED <<members, truth, view>>

Report(s, p) ==
    /\ (p \in view[s]) # (p \in truth[s])
    /\ view' = [view EXCEPT ![s] = IF p \in truth[s] THEN @ \cup {p} ELSE @ \ {p}]
    /\ UNCHANGED <<members, status, truth>>

Next ==
    \/ \E p \in Peers : Change(members \cup {p}) \/ Change(members \ {p})
    \/ \E s \in Subs : Subscribe(s) \/ Cancel(s)
    \/ \E s \in Subs, p \in Peers : Report(s, p)

Spec == Init /\ [][Next]_vars
=============================================================================
