------------------------------ MODULE Broadcast ------------------------------
(***************************************************************************)
(* Messages in a network of nodes whose routers keep no state of their own *)
(* (floodsub.go, randomsub.go): what each process loop does with a message *)
(* that the application publishes or a peer sends, and the channels of the *)
(* peers, which are bounded and drop what they have no room for.           *)
(*                                                                         *)
(* Nodes and links stay; the first subscriptions have been announced, and  *)
(* some are cancelled, which the other nodes hear of later: Announce and   *)
(* PeerConn model how. A message has no signature and no validator, so     *)
(* that pushMsg is one step: Validation models the others. The writer, the *)
(* stream and the reader of a link are folded into the channel of the      *)
(* peer.                                                                   *)
(***************************************************************************)
EXTENDS Naturals, Sequences, FiniteSets

CONSTANTS
    Nodes, Msgs, Topics,
    Links,       \* pairs of nodes that are connected, both ways
    Router,      \* of each node, "flood" or "random"
    Subs,        \* the topics each node is subscribed to at first
    MayCancel,   \* bound: the nodes that cancel subscriptions
    TopicIDs,    \* the topics each message lists
    Source,      \* the author of each message
    RandomSubD,  \* peers that a random router chooses (6 in the code)
    Capacity,    \* of the channel of a peer (32 in the code)
    MaxExpire    \* bound: times each node forgets that it has seen a message

ASSUME BroadcastAssumption ==
    /\ Links \subseteq Nodes \X Nodes
    /\ \A l \in Links : <<l[2], l[1]>> \in Links /\ l[1] # l[2]
    /\ Router \in [Nodes -> {"flood", "random"}]
    /\ Subs \in [Nodes -> SUBSET Topics] /\ MayCancel \subseteq Nodes
    /\ TopicIDs \in [Msgs -> SUBSET Topics]
    /\ Source \in [Msgs -> Nodes]
    /\ RandomSubD \in Nat \ {0} /\ Capacity \in Nat \ {0} /\ MaxExpire \in [Nodes -> Nat]

VARIABLES
    myTopics,   \* the topics each node is subscribed to
    topics,     \* what the first node of each link holds of the second
    seen,       \* the IDs that the time cache of each node holds
    has,        \* history: the messages each node has published, hence delivered
    chan,       \* the messages on each link
    dropped,    \* history: link and message, when the channel had no room
    sends,      \* history: times each message was put on each link
    expired     \* history: times each node has forgotten each message

netVars == <<seen, has, chan, dropped, sends, expired>>
vars == <<myTopics, topics, netVars>>

Init ==
    /\ myTopics = Subs /\ topics = [l \in Links |-> Subs[l[2]]]
    /\ seen = [n \in Nodes |-> {}] /\ has = [n \in Nodes |-> {}]
    /\ chan = [l \in Links |-> <<>>] /\ dropped = {}
    /\ sends = [l \in Links |-> [m \in Msgs |-> 0]]
    /\ expired = [n \in Nodes |-> [m \in Msgs |-> 0]]

-----------------------------------------------------------------------------
(* The routers *)

\* for p := range topics[topic]
subscribers(n, m) == {p \in Nodes : <<n, p>> \in Links /\ topics[<<n, p>>] \cap TopicIDs[m] # {}}

\* neither the peer the message came from nor its author
wanting(n, from, m) == subscribers(n, m) \ {from, Source[m]}

\* rs.peers[p]: the protocol two nodes speak, random only if both have it
speaksRandom(n, p) == Router[n] = "random" /\ Router[p] = "random"
\* bug: the peers that do not speak the protocol are among them
allPeers(n, P) == IF Router[n] = "random" THEN P ELSE {}
rspeers(n, P) == {p \in P : speaksRandom(n, p)}

\* bug: off by one
fewer(R) == {X \in SUBSET R : Cardinality(X) = RandomSubD - 1}
shuffled(R) == {X \in SUBSET R : Cardinality(X) = RandomSubD}

\* the peers a router may choose: a flood router, and a random one when they
\* are few, takes them all
choices(n, P) ==
    LET R == rspeers(n, P) IN
    IF Cardinality(R) > RandomSubD THEN {(P \ R) \cup X : X \in shuffled(R)} ELSE {P}

room(q) == Len(q) < Capacity

\* what Publish of the router sends, after the message l brought is received
send(taken, n, m, S) ==
    LET out == {<<n, p>> : p \in S} IN
    /\ chan' = [l \in Links |->
            IF l \in out /\ room(taken[l]) THEN Append(taken[l], m) ELSE taken[l]]
    /\ dropped' = dropped \cup {<<l, m>> : l \in {k \in out : ~room(taken[k])}}
    /\ sends' = [l \in Links |->
            IF l \in out /\ room(taken[l]) THEN [sends[l] EXCEPT ![m] = @ + 1] ELSE sends[l]]

-----------------------------------------------------------------------------
(* The process loop *)

publishMessage(taken, n, from, m) ==
    /\ has' = [has EXCEPT ![n] = @ \cup {m}]
    /\ \E S \in choices(n, wanting(n, from, m)) : send(taken, n, m, S)

\* bug: the message is not marked
forgetful(n, m) == seen
marked(n, m) == [seen EXCEPT ![n] = @ \cup {m}]

\* pushMsg, of a message that is not known
fresh(taken, n, from, m) ==
    /\ seen' = marked(n, m)
    /\ publishMessage(taken, n, from, m)
    /\ UNCHANGED <<expired, myTopics, topics>>

\* case msg := <-p.publish: Publish gives each message a new sequence number
Publish(m) ==
    /\ \A n \in Nodes : m \notin has[n]
    /\ fresh(chan, Source[m], Source[m], m)

\* bug: what others are subscribed to is relayed
always(n, m) == TRUE
subscribedToMsg(n, m) == myTopics[n] \cap TopicIDs[m] # {}

\* case rpc := <-p.incoming: handleIncomingRPC
Receive(p, n) ==
    /\ <<p, n>> \in Links /\ chan[<<p, n>>] # <<>>
    /\ LET m == Head(chan[<<p, n>>])
           taken == [chan EXCEPT ![<<p, n>>] = Tail(@)] IN
       \/ /\ subscribedToMsg(n, m) /\ m \notin seen[n]
          /\ fresh(taken, n, p, m)
       \/ /\ ~subscribedToMsg(n, m) \/ m \in seen[n]
          /\ chan' = taken
          /\ UNCHANGED <<seen, has, dropped, sends, expired, myTopics, topics>>

\* the time cache drops an ID after its time
Expire(n, m) ==
    /\ m \in seen[n] /\ expired[n][m] < MaxExpire[n]
    /\ seen' = [seen EXCEPT ![n] = @ \ {m}]
    /\ expired' = [expired EXCEPT ![n][m] = @ + 1]
    /\ UNCHANGED <<has, chan, dropped, sends, myTopics, topics>>

\* case sub := <-p.cancelCh, of the last subscription of a topic
Cancel(n, t) ==
    /\ n \in MayCancel /\ t \in myTopics[n]
    /\ myTopics' = [myTopics EXCEPT ![n] = @ \ {t}]
    /\ UNCHANGED <<topics, netVars>>

\* its announcement arrives, before or after messages of the same node
Hear(l, t) ==
    /\ t \in topics[l] \ myTopics[l[2]]
    /\ topics' = [topics EXCEPT ![l] = @ \ {t}]
    /\ UNCHANGED <<myTopics, netVars>>

Next ==
    \/ \E n \in Nodes, t \in Topics : Cancel(n, t)
    \/ \E l \in Links, t \in Topics : Hear(l, t)
    \/ \E m \in Msgs : Publish(m)
    \/ \E p, n \in Nodes : Receive(p, n)
    \/ \E n \in Nodes, m \in Msgs : Expire(n, m)

Spec == Init /\ [][Next]_vars

\* The writer of a peer, its reader and the process loop run on.
FairSpec == Spec /\ \A p, n \in Nodes : WF_vars(Receive(p, n))

-----------------------------------------------------------------------------
(* Properties *)

TypeOK ==
    /\ myTopics \in [Nodes -> SUBSET Topics] /\ topics \in [Links -> SUBSET Topics]
    /\ seen \in [Nodes -> SUBSET Msgs] /\ has \in [Nodes -> SUBSET Msgs]
    /\ chan \in [Links -> Seq(Msgs)] /\ \A l \in Links : Len(chan[l]) <= Capacity
    /\ dropped \subseteq Links \X Msgs
    /\ sends \in [Links -> [Msgs -> Nat]]
    /\ expired \in [Nodes -> [Msgs -> Nat]]

\* A message is put on a link once for every time its sender has come to
\* know it: it does not circulate, whatever the shape of the network.
SentOnce ==
    \A l \in Links, m \in Msgs :
        sends[l][m] <= expired[l[1]][m] + IF m \in seen[l[1]] THEN 1 ELSE 0

onLink(m, l) == \E i \in DOMAIN chan[l] : chan[l][i] = m

linked(n) == {p \in Nodes : <<n, p>> \in Links}
wants(n, m) == myTopics[n] \cap TopicIDs[m] # {}

\* the neighbours of n that want a message of n and will not get it from n
missed(n, m) == {p \in linked(n) :
    wants(p, m) /\ m \notin has[p] /\ ~onLink(m, <<n, p>>) /\ <<<<n, p>>, m>> \notin dropped}
served(n, m) == {p \in linked(n) :
    speaksRandom(n, p) /\ (sends[<<n, p>>][m] > 0 \/ <<<<n, p>>, m>> \in dropped)}

\* A node that has a message has handed it to every neighbour that wants it
\* and does not have it, unless its channel was full; a random router leaves
\* out only random peers, and not before it has chosen RandomSubD others.
Handed ==
    \A n \in Nodes : \A m \in has[n] :
        \/ missed(n, m) = {}
        \/ /\ \A p \in missed(n, m) : speaksRandom(n, p)
           /\ \E X \in SUBSET served(n, m) : Cardinality(X) = RandomSubD

\* Messages start at their authors and travel over links, to nodes that are
\* subscribed when they come.
Service == INSTANCE Dissemination WITH
    interested <- [m \in Msgs |-> {n \in Nodes : wants(n, m)}]
Refines == Service!Spec

\* the neighbours to which n relays whatever it has, but for what was dropped
relays(n, m) ==
    LET P == {p \in linked(n) : speaksRandom(n, p) /\ Subs[p] \cap TopicIDs[m] # {}} IN
    {p \in linked(n) : /\ wants(p, m) /\ <<<<n, p>>, m>> \notin dropped
                       /\ p \in P => Cardinality(P) <= RandomSubD}

reached(m) ==
    LET step[i \in 0..Cardinality(Nodes)] ==
            IF i = 0 THEN {Source[m]}
            ELSE step[i - 1] \cup UNION {relays(n, m) : n \in step[i - 1]}
    IN  step[Cardinality(Nodes)]

\* A message comes to every subscriber that is linked with its author over
\* subscribers, by any way on which it was not dropped.
Reaches ==
    \A m \in Msgs :
        m \in has[Source[m]] ~> [](\A n \in reached(m) : m \in has[n])
=============================================================================
