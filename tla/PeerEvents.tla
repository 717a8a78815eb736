----------------------------- MODULE PeerEvents -----------------------------
(***************************************************************************)
(* The peer events of one topic: the members that the process loop keeps   *)
(* in topics[t], the notifications it sends to the subscriptions, and the  *)
(* event log of a Subscription with the callers of NextPeerEvent           *)
(* (subscription.go).                                                      *)
(*                                                                         *)
(* A caller is one goroutine that calls NextPeerEvent on one subscription. *)
(* The loop over the subscriptions in a notification is one step: each log *)
(* has a lock of its own, and nobody holds two.                            *)
(***************************************************************************)
EXTENDS Naturals, FiniteSets

CONSTANTS Peers, Subs, Callers, SubOf

ASSUME PeerEventsAssumption == SubOf \in [Callers -> Subs]

VARIABLES
    members,   \* topics[t]
    status,    \* "new", in myTopics[t] ("live"), or removed from it
    evtLog,    \* "none" stands for a peer without an entry
    evtLogCh,  \* the signal is in the channel
    pc,        \* of each caller: "out", "pull" or "wait"
    view       \* history: peers whose last event returned on s was PeerJoin

vars == <<members, status, evtLog, evtLogCh, pc, view>>

Entries == {"none", "join", "leave"}
pending(s) == {p \in Peers : evtLog[s][p] # "none"}

Init ==
    /\ members = {}
    /\ status = [s \in Subs |-> "new"]
    /\ evtLog = [s \in Subs |-> [p \in Peers |-> "none"]]
    /\ evtLogCh = [s \in Subs |-> FALSE]
    /\ pc = [n \in Callers |-> "out"]
    /\ view = [s \in Subs |-> {}]

\* bug: the last event replaces an earlier one
overwrite(entry, e) == e
\* addToEventLog: an event cancels its opposite
addEntry(entry, e) ==
    IF entry = "none" THEN e ELSE IF entry # e THEN "none" ELSE entry

\* sendNotification of the event e of p to every subscription in myTopics[t]
notify(p, e) ==
    /\ evtLog' = [s \in Subs |->
            IF status[s] = "live" THEN [evtLog[s] EXCEPT ![p] = addEntry(@, e)]
            ELSE evtLog[s]]
    /\ evtLogCh' = [s \in Subs |->
            evtLogCh[s] \/ (status[s] = "live" /\ evtLog[s][p] = "none")]

\* a subscribe option in an RPC
Join(p) ==
    /\ p \notin members
    /\ members' = members \cup {p}
    /\ notify(p, "join")
    /\ UNCHANGED <<status, pc, view>>

\* an unsubscribe option, peerDead or blacklistPeer
Leave(p) ==
    /\ p \in members
    /\ members' = members \ {p}
    /\ notify(p, "leave")
    /\ UNCHANGED <<status, pc, view>>

\* bug: a subscription starts with an empty log
SubscribeEmpty(s) ==
    /\ status[s] = "new"
    /\ status' = [status EXCEPT ![s] = "live"]
    /\ UNCHANGED <<members, evtLog, evtLogCh, pc, view>>

\* handleAddSubscription: the members are logged as joined, without a signal
Subscribe(s) ==
    /\ status[s] = "new"
    /\ status' = [status EXCEPT ![s] = "live"]
    /\ evtLog' = [evtLog EXCEPT ![s] =
            [p \in Peers |-> IF p \in members THEN "join" ELSE "none"]]
    /\ UNCHANGED <<members, evtLogCh, pc, view>>

\* handleRemoveSubscription
Cancel(s) ==
    /\ status[s] = "live"
    /\ status' = [status EXCEPT ![s] = "cancelled"]
    /\ UNCHANGED <<members, evtLog, evtLogCh, pc, view>>

\* NextPeerEvent is called, once Subscribe has returned the subscription
Call(n) ==
    /\ pc[n] = "out" /\ status[SubOf[n]] # "new"
    /\ pc' = [pc EXCEPT ![n] = "pull"]
    /\ UNCHANGED <<members, status, evtLog, evtLogCh, view>>

\* bug: a signal that was there is all the callers get
noResignal(s, p) == evtLogCh[s]
\* "make sure an event log signal is available if there are events" left
resignal(s, p) == evtLogCh[s] \/ pending(s) # {p}

\* under evtLogMx: some entry is taken out of the log and returned
Pull(n, p) ==
    LET s == SubOf[n] IN
    /\ pc[n] = "pull" /\ p \in pending(s)
    /\ evtLog' = [evtLog EXCEPT ![s][p] = "none"]
    /\ evtLogCh' = [evtLogCh EXCEPT ![s] = resignal(s, p)]
    /\ view' = [view EXCEPT ![s] = IF evtLog[s][p] = "join" THEN @ \cup {p} ELSE @ \ {p}]
    /\ pc' = [pc EXCEPT ![n] = "out"]
    /\ UNCHANGED <<members, status>>

PullNothing(n) ==
    /\ pc[n] = "pull" /\ pending(SubOf[n]) = {}
    /\ pc' = [pc EXCEPT ![n] = "wait"]
    /\ UNCHANGED <<members, status, evtLog, evtLogCh, view>>

\* case <-sub.evtLogCh
Wake(n) ==
    /\ pc[n] = "wait" /\ evtLogCh[SubOf[n]]
    /\ evtLogCh' = [evtLogCh EXCEPT ![SubOf[n]] = FALSE]
    /\ pc' = [pc EXCEPT ![n] = "pull"]
    /\ UNCHANGED <<members, status, evtLog, view>>

\* case <-ctx.Done()
GiveUp(n) ==
    /\ pc[n] = "wait"
    /\ pc' = [pc EXCEPT ![n] = "out"]
    /\ UNCHANGED <<members, status, evtLog, evtLogCh, view>>

PullAny(n) == PullNothing(n) \/ \E p \in Peers : Pull(n, p)

Next ==
    \/ \E p \in Peers : Join(p) \/ Leave(p)
    \/ \E s \in Subs : Subscribe(s) \/ Cancel(s)
    \/ \E n \in Callers : Call(n) \/ PullAny(n) \/ Wake(n) \/ GiveUp(n)

Spec == Init /\ [][Next]_vars

\* A caller inside NextPeerEvent goes on; a Go channel serves the goroutines
\* that wait for it in the order of their arrival.
FairSpec ==
    Spec /\ \A n \in Callers : WF_vars(PullAny(n)) /\ SF_vars(Wake(n))

\* Applications that keep calling NextPeerEvent
Polled == \A n \in Callers : WF_vars(Call(n))

-----------------------------------------------------------------------------
(* Properties *)

TypeOK ==
    /\ members \subseteq Peers
    /\ status \in [Subs -> {"new", "live", "cancelled"}]
    /\ evtLog \in [Subs -> [Peers -> Entries]]
    /\ evtLogCh \in [Subs -> BOOLEAN]
    /\ pc \in [Callers -> {"out", "pull", "wait"}]
    /\ \A n \in Callers : status[SubOf[n]] = "new" => pc[n] = "out"
    /\ view \in [Subs -> SUBSET Peers]

\* What a subscription has reported and what its log still holds add up to
\* the members of the topic: a Join is logged only for a peer that was not
\* reported or reported gone, and a Leave only for a peer reported joined.
LogExact ==
    \A s \in Subs, p \in Peers :
        /\ evtLog[s][p] = "join" => p \notin view[s]
        /\ evtLog[s][p] = "leave" => p \in view[s]
        /\ status[s] = "new" => evtLog[s][p] = "none" /\ p \notin view[s]
        /\ status[s] = "live" =>
            (p \in members <=> evtLog[s][p] = "join" \/ (evtLog[s][p] = "none" /\ p \in view[s]))

\* No lost wakeup: while a caller waits and the log is not empty, the signal
\* is in the channel or another caller is about to pull, and will renew it.
\* Subscribe logs events without a signal; a reader that takes the first of
\* several events must wake the others.
NoLostWakeup ==
    \A n \in Callers :
        pc[n] = "wait" /\ pending(SubOf[n]) # {} =>
            \/ evtLogCh[SubOf[n]]
            \/ \E k \in Callers : SubOf[k] = SubOf[n] /\ pc[k] = "pull"

\* What a subscription takes for the members of the topic.
truth == [s \in Subs |->
    {p \in Peers : evtLog[s][p] = "join" \/ (evtLog[s][p] = "none" /\ p \in view[s])}]

\* The event log implements the promise of NextPeerEvent.
View == INSTANCE PeerView
Refines == View!Spec

\* No caller waits for ever next to a log that is not empty.
NobodyLeft ==
    \A n \in Callers : ~<>[](pc[n] = "wait" /\ pending(SubOf[n]) # {})

\* "All events will eventually be received": when the topic settles, callers
\* that keep calling NextPeerEvent come to know its members.
Converges ==
    <>[][FALSE]_<<members, status>> /\ Polled =>
        \A n \in Callers : <>[](status[SubOf[n]] = "live" => view[SubOf[n]] = members)

\* Both: a caller beside events is served, and who keeps calling learns all.
Served == NobodyLeft /\ Converges
=============================================================================
