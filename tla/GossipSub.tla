----------------------------- MODULE GossipSub -----------------------------
(***************************************************************************)
(* The gossipsub router of one node (gossipsub.go): the mesh of each topic *)
(* it has joined, the fanout of each topic it publishes to without having  *)
(* joined, the heartbeat that maintains both, the control messages that    *)
(* wait for room in the channel of a peer, and pending gossip.             *)
(*                                                                         *)
(* All handlers run on the process loop, so that each is one action. Peers *)
(* may send anything at any time, also before the process loop has taken   *)
(* them into peers and after it has forgotten them. What is put into the   *)
(* channel of a peer is not followed further: a history variable holds     *)
(* what the peer makes of it. The peer speaks the protocol: newPeerError,  *)
(* which leaves the router as it is (see PeerConn), does not happen.       *)
(***************************************************************************)
EXTENDS MessageCache, FiniteSets

CONSTANTS
    Peers, Self,
    Author,                      \* of each message
    D, Dlo, Dhi,
    QueueLen,                    \* capacity of the channel of a peer
    Controls                     \* the control messages that peers may send

ASSUME GossipSubAssumption ==
    /\ IsFiniteSet(Peers) /\ Self \notin Peers
    /\ Author \in [Ids -> Peers \cup {Self}]
    /\ D \in Nat /\ Dlo \in Nat /\ Dhi \in Nat /\ 0 < D /\ Dlo <= D /\ D <= Dhi
    /\ QueueLen \in Nat \ {0}
    /\ Controls \subseteq [ihave : SUBSET (Topics \X Ids), iwant : SUBSET Ids,
                           graft : SUBSET Topics, prune : SUBSET Topics]

VARIABLES
    protos,    \* gs.peers: the protocol of each peer
    conn,      \* the peers in p.peers
    topics,    \* p.topics
    mesh,      \* the mesh of each joined topic
    fanout,    \* the fanout of each topic that has one
    keys,      \* the topics with an entry in p.topics, in mesh, in fanout
    lastpub,   \* the topics with a time of last publication
    link,      \* what concerns one peer, see NoLink
    seen       \* p.seenMessages

vars == <<protos, conn, topics, mesh, fanout, keys, lastpub, link, seen, cacheVars>>

\* queue: the messages in the channel; graft, prune: gs.control; ihave: gs.gossip.
\* History: linked holds the topics in which the peer was last told GRAFT, or
\* told us so, and astray those in which flush sent a GRAFT that was stale, or
\* a PRUNE was dropped because the peer was not in p.peers.
NoLink == [queue |-> 0, graft |-> {}, prune |-> {}, ihave |-> {}, linked |-> {}, astray |-> {}]

joined == keys.mesh

\* subsets of C of at most n elements, as large as possible
pick(C, n) == {S \in SUBSET C : Cardinality(S) = IF Cardinality(C) < n THEN Cardinality(C) ELSE n}

Init ==
    /\ protos = [p \in Peers |-> "none"] /\ conn = {}
    /\ topics = [t \in Topics |-> {}] /\ mesh = [t \in Topics |-> {}]
    /\ fanout = [t \in Topics |-> {}]
    /\ keys = [topics |-> {}, mesh |-> {}, fanout |-> {}]
    /\ lastpub = {} /\ seen = {}
    /\ link = [p \in Peers |-> NoLink]
    /\ CacheInit

\* the candidates of getPeers
getPeers(t) == {p \in topics[t] : protos[p] = "gossip"}

-----------------------------------------------------------------------------
(* Control messages *)

room(L) == L.queue < QueueLen

\* bug: what did not fit is forgotten
lose(L, g, r) == L
\* pushControl
keep(L, g, r) == [L EXCEPT !.graft = g, !.prune = r]

\* one RPC with the control messages g and r put into the channel of p
put(p, L, g, r) ==
    IF p \notin conn THEN [L EXCEPT !.astray = @ \cup r]
    ELSE IF room(L)
         THEN [L EXCEPT !.queue = @ + 1, !.linked = (@ \cup g) \ r, !.astray = @ \ (g \cup r)]
         ELSE keep(L, g, r)

\* bug: whether p is in the mesh is not looked at
meshed(M, p, t) == t \in joined
fresh(M, p, t) == p \in M[t]

\* sendRPC, with the mesh M: pending control messages go along unless they
\* are stale, pending gossip goes along and is not retried
sendRPC(p, L, M, g, r) ==
    put(p, [L EXCEPT !.graft = {}, !.prune = {}, !.ihave = {}],
        g \cup {t \in L.graft : fresh(M, p, t)},
        r \cup {t \in L.prune : ~fresh(M, p, t)})

\* flush, for one peer: the control messages that are still pending after the
\* gossip are sent as they are
flushGossip(p, L) == IF L.ihave # {} THEN sendRPC(p, L, mesh, {}, {}) ELSE L
flushControl(p, L) ==
    IF L.graft = {} /\ L.prune = {} THEN L
    ELSE LET K == put(p, [L EXCEPT !.graft = {}, !.prune = {}], L.graft, L.prune)
             stale == {t \in L.graft : p \notin mesh[t]} \cup {t \in L.prune : p \in mesh[t]}
         IN IF K.queue = L.queue THEN K ELSE [K EXCEPT !.astray = @ \cup stale]
flush(p, L) == flushControl(p, flushGossip(p, L))

\* bug: each control message of a list names its own topic
all(T) == {T}
\* The control messages of a list share the address of the variable of the
\* loop that made them, and all name its last topic.
listed(T) == IF T = {} THEN {{}} ELSE {{t} : t \in T}

-----------------------------------------------------------------------------
(* Peers come, speak and go *)

\* newPeers: a channel with the hello packet; a stream that is replaced by
\* peerDead starts over
Connect(p) ==
    /\ conn' = conn \cup {p}
    /\ link' = [link EXCEPT ![p].queue = 1]
    /\ UNCHANGED <<protos, topics, mesh, fanout, keys, lastpub, seen, cacheVars>>

AddPeer(p, proto) ==
    /\ p \in conn
    /\ protos' = [protos EXCEPT ![p] = proto]
    /\ UNCHANGED <<conn, topics, mesh, fanout, keys, lastpub, link, seen, cacheVars>>

without(M, p) == [t \in Topics |-> M[t] \ {p}]

\* peerDead or blacklistPeer, and RemovePeer
RemovePeer(p) ==
    /\ p \in conn /\ conn' = conn \ {p}
    /\ protos' = [protos EXCEPT ![p] = "none"]
    /\ topics' = without(topics, p)
    /\ mesh' = without(mesh, p) /\ fanout' = without(fanout, p)
    /\ link' = [link EXCEPT ![p] = NoLink]
    /\ UNCHANGED <<keys, lastpub, seen, cacheVars>>

\* the subscription options of an RPC
PeerSubscribes(p, t) ==
    /\ \/ topics' = [topics EXCEPT ![t] = @ \cup {p}] /\ keys' = [keys EXCEPT !.topics = @ \cup {t}]
       \/ topics' = [topics EXCEPT ![t] = @ \ {p}] /\ UNCHANGED keys
    /\ UNCHANGED <<protos, conn, mesh, fanout, lastpub, link, seen, cacheVars>>

\* HandleRPC: handleIHave, handleIWant, handleGraft, handlePrune, and the reply
HandleRPC(p, ctl) ==
    LET wanted == {i \in Ids \ seen : \E t \in joined : <<t, i>> \in ctl.ihave}
        served == ctl.iwant \cap msgs
        refused == ctl.graft \ joined
        M == [t \in Topics |-> IF t \in ctl.prune THEN mesh[t] \ {p}
                               ELSE IF t \in ctl.graft \cap joined THEN mesh[t] \cup {p}
                               ELSE mesh[t]]
        L == [link[p] EXCEPT !.linked = (@ \cup ctl.graft) \ ctl.prune,
                             !.astray = @ \ (ctl.graft \cup ctl.prune)]
    IN /\ mesh' = M
       /\ IF wanted = {} /\ served = {} /\ refused = {}
          THEN link' = [link EXCEPT ![p] = L]
          ELSE \E r \in listed(refused) : link' = [link EXCEPT ![p] = sendRPC(p, L, M, {}, r)]
       /\ UNCHANGED <<protos, conn, topics, fanout, keys, lastpub, seen, cacheVars>>

\* handleSendingMessages takes a message out of the channel
Drain(p) ==
    /\ link[p].queue > 0 /\ link' = [link EXCEPT ![p].queue = @ - 1]
    /\ UNCHANGED <<protos, conn, topics, mesh, fanout, keys, lastpub, seen, cacheVars>>

-----------------------------------------------------------------------------
(* The application *)

spread(i) == TopicsOf[i] \cap keys.topics
Publish(from, i) ==
    LET unjoined == spread(i) \ joined
        unfanned == {t \in unjoined : fanout[t] = {} /\ getPeers(t) # {}}
    IN /\ i \notin seen /\ seen' = seen \cup {i}
       /\ Put(i)
       /\ lastpub' = lastpub \cup unjoined
       /\ \E F \in [unfanned -> SUBSET Peers] :
            /\ \A t \in unfanned : F[t] \in pick(getPeers(t), D)
            /\ fanout' = [t \in Topics |-> IF t \in unfanned THEN F[t] ELSE fanout[t]]
       /\ keys' = [keys EXCEPT !.fanout = @ \cup unfanned]
       /\ LET tosend == UNION {   mesh[t] \cup {p \in topics[t] : protos[p] = "flood"}
                               \cup (IF t \in unjoined THEN fanout'[t] ELSE {}) : t \in spread(i)}
          IN link' = [p \in Peers |-> IF p \in tosend \ {from, Author[i]}
                                      THEN sendRPC(p, link[p], mesh, {}, {}) ELSE link[p]]
       /\ UNCHANGED <<protos, conn, topics, mesh>>

\* The time cache drops an id, long after the message cache did unless a
\* validator has held the message (bound: only once in a window).
Forget(i) ==
    /\ i \in seen \ repeated /\ seen' = seen \ {i}
    /\ UNCHANGED <<protos, conn, topics, mesh, fanout, keys, lastpub, link, cacheVars>>

\* announce; a peer without room for it is left to doAnnounceRetry
announced(p) ==
    IF p \in conn /\ room(link[p]) THEN [link[p] EXCEPT !.queue = @ + 1] ELSE link[p]

\* handleAddSubscription with the first subscription of a topic
Join(t) ==
    /\ t \notin joined
    /\ \/ /\ t \in keys.fanout
          /\ mesh' = [mesh EXCEPT ![t] = fanout[t]]
          /\ fanout' = [fanout EXCEPT ![t] = {}]
          /\ lastpub' = lastpub \ {t}
       \/ /\ t \notin keys.fanout
          /\ \E S \in pick(getPeers(t), D) : mesh' = [mesh EXCEPT ![t] = S]
          /\ UNCHANGED <<fanout, lastpub>>
    /\ keys' = [keys EXCEPT !.mesh = @ \cup {t}, !.fanout = @ \ {t}]
    /\ link' = [p \in Peers |-> IF p \in mesh'[t] THEN sendRPC(p, announced(p), mesh', {t}, {})
                                ELSE announced(p)]
    /\ UNCHANGED <<protos, conn, topics, seen, cacheVars>>

doAnnounceRetry(p) ==
    /\ p \in conn /\ room(link[p]) /\ link' = [link EXCEPT ![p] = announced(p)]
    /\ UNCHANGED <<protos, conn, topics, mesh, fanout, keys, lastpub, seen, cacheVars>>

\* handleRemoveSubscription with the last one
Leave(t) ==
    /\ t \in joined
    /\ mesh' = [mesh EXCEPT ![t] = {}]
    /\ keys' = [keys EXCEPT !.mesh = @ \ {t}]
    /\ link' = [p \in Peers |-> IF p \in mesh[t] THEN sendRPC(p, announced(p), mesh', {}, {t})
                                ELSE announced(p)]
    /\ UNCHANGED <<protos, conn, topics, fanout, lastpub, seen, cacheVars>>

-----------------------------------------------------------------------------
(* The heartbeat *)

\* bug: off by one
farTooMany(S) == Cardinality(S) > Dhi + 1
tooMany(S) == Cardinality(S) > Dhi

\* bug: the clock of a fanout is removed, the fanout is not
unchecked(E) == keys.fanout
unexpired(E) == keys.fanout \ E

\* S with peers of C added as long as there are less than D
grown(S, C) == {S \cup A : A \in pick(C \ S, D - Cardinality(S))}

\* what the heartbeat may make of the mesh, and of the fanout, of a topic
maintained(t) ==
    LET S == mesh[t] IN
    IF t \notin joined THEN {{}}
    ELSE IF Cardinality(S) < Dlo THEN grown(S, getPeers(t))
    ELSE IF tooMany(S) THEN pick(S, D)
    ELSE {S}

refilled(t) ==
    LET S == fanout[t] \cap topics[t] IN
    IF t \notin keys.fanout THEN {{}}
    ELSE IF Cardinality(S) < D THEN grown(S, getPeers(t))
    ELSE {S}

\* emitGossip: the peers that are offered the messages of a topic
gossiping(t) == IF GetGossipIDs(t) = {} THEN {{}} ELSE pick(getPeers(t), D)

\* the functions that map each a of A to a member of S(a)
choices(A, S(_)) == {f \in [A -> UNION {S(a) : a \in A}] : \A a \in A : f[a] \in S(a)}

\* what emitGossip pushes for p, when mesh is M, fanout F, and G was chosen
pushGossip(p, M, F, G) ==
    {x \in Topics \X Ids : p \in G[x[1]] \ (M[x[1]] \cup F[x[1]]) /\ x[2] \in GetGossipIDs(x[1])}

sendGraftPrune(p, L, M, g, r) == IF g \cup r = {} THEN L ELSE sendRPC(p, L, M, g, r)

Heartbeat ==
    /\ Shift
    /\ UNCHANGED <<protos, conn, topics, seen>>
    /\ \E E \in SUBSET lastpub, M \in choices(Topics, maintained) :
       \E F \in choices(Topics, LAMBDA t : IF t \in E THEN {{}} ELSE refilled(t)),
          G \in choices(Topics, LAMBDA t : IF t \in joined \cup unexpired(E) THEN gossiping(t) ELSE {{}}),
          g \in choices(Peers, LAMBDA p : listed({t \in Topics : p \in M[t] \ mesh[t]})),
          r \in choices(Peers, LAMBDA p : listed({t \in Topics : p \in mesh[t] \ M[t]})) :
        LET flushed(p) == LET L == flush(p, link[p])
                          IN [L EXCEPT !.ihave = @ \cup pushGossip(p, M, F, G)]
        IN /\ mesh' = M /\ fanout' = F /\ lastpub' = lastpub \ E
           /\ keys' = [keys EXCEPT !.fanout = unexpired(E)]
           /\ link' = [p \in Peers |-> sendGraftPrune(p, flushed(p), M, g[p], r[p])]

Next ==
    \/ Heartbeat
    \/ \E t \in Topics : Join(t) \/ Leave(t)
    \/ \E i \in Ids : Forget(i) \/ \E from \in Peers \cup {Self} : Publish(from, i)
    \/ \E p \in Peers :
        \/ Connect(p) \/ RemovePeer(p) \/ Drain(p) \/ doAnnounceRetry(p)
        \/ \E proto \in {"gossip", "flood"} : AddPeer(p, proto)
        \/ \E t \in Topics : PeerSubscribes(p, t)
        \/ \E ctl \in Controls : HandleRPC(p, ctl)

Spec == Init /\ [][Next]_vars

-----------------------------------------------------------------------------
(* Properties *)

Links == [queue : 0..QueueLen, graft : SUBSET Topics, prune : SUBSET Topics,
          ihave : SUBSET (Topics \X Ids), linked : SUBSET Topics, astray : SUBSET Topics]

TypeOK ==
    /\ protos \in [Peers -> {"none", "gossip", "flood"}] /\ conn \subseteq Peers
    /\ \A f \in {topics, mesh, fanout} : f \in [Topics -> SUBSET Peers]
    /\ keys \in [topics : SUBSET Topics, mesh : SUBSET Topics, fanout : SUBSET Topics]
    /\ lastpub \subseteq Topics /\ seen \subseteq Ids
    /\ link \in [Peers -> Links]
    /\ CacheTypeOK

\* A peer in the mesh knows it: it has grafted us, or was sent a GRAFT, or the
\* GRAFT did not fit its channel and is pending.
GraftHeard ==
    \A p \in conn, t \in Topics :
        p \in mesh[t] => t \in link[p].linked \cup link[p].graft \cup link[p].astray

\* A peer that was dropped from a mesh, or refused, knows it or will, unless
\* it was led astray: by a GRAFT that was stale when flush sent it, or because
\* it grafted us before the process loop took it into peers.
PruneHeard ==
    \A p \in conn, t \in Topics :
        t \in link[p].linked /\ p \notin mesh[t] => t \in link[p].prune \cup link[p].astray

\* What is offered as gossip can still be had: pending gossip is sent, or
\* dropped, before the message cache shifts its messages out, but for those
\* that came again while they were in its window.
GossipServable ==
    \A p \in Peers : \A x \in link[p].ihave : x[2] \in msgs \cup repeated

\* A fanout has a clock, so that it expires, and a topic has one of mesh and
\* fanout: no call leaves a fanout that is never removed.
FanoutExpires ==
    keys.fanout \subseteq lastpub \ joined

\* RemovePeer leaves nothing to be sent to a peer that is gone, and nothing
\* is kept for a peer the process loop does not know.
GoneForgotten ==
    \A p \in Peers \ conn :
        /\ protos[p] = "none"
        /\ link[p].graft \cup link[p].prune = {} /\ link[p].ihave = {}
        /\ \A t \in Topics : p \notin fanout[t]

\* After a heartbeat a mesh has at most Dhi peers, and at least Dlo or all
\* that are to be had.
Degree ==
    [][Heartbeat => \A t \in joined :
        /\ Cardinality(mesh'[t]) <= Dhi
        /\ Cardinality(mesh'[t]) >= Dlo \/ getPeers(t) \subseteq mesh'[t]]_vars

\* Nothing waits that could have been sent: what is still pending for a peer
\* after a heartbeat, with the GRAFT and PRUNE it decided on, did not fit.
Retried ==
    [][Heartbeat => \A p \in conn :
        link'[p].graft \cup link'[p].prune # {} => link'[p].queue = QueueLen]_vars
=============================================================================
