-------------------------- MODULE GossipSubProofs --------------------------
(***************************************************************************)
(* Proofs about GossipSub, for any peers, topics, messages and parameters: *)
(* the message cache is exact, what is offered as gossip can be had, each  *)
(* fanout has a clock, and nothing is kept for a peer that is gone.  Then  *)
(* the mesh: a heartbeat leaves every mesh within its bounds and control   *)
(* messages pending only where they do not fit; and with one topic, where  *)
(* a list of control messages has one element and names its own topic,     *)
(* both ends of every mesh link know of it.                                *)
(***************************************************************************)
EXTENDS GossipSub, FiniteSetTheorems, TLAPS

-----------------------------------------------------------------------------
(* The message cache *)

LEMMA WindowLengths == HistoryLength \in Nat /\ HistoryGossip \in 1..(HistoryLength - 1)
BY MessageCacheAssumption DEF MessageCacheAssumption

LEMMA CacheStart == CacheInit => CacheTypeOK /\ CacheExact
BY WindowLengths DEF CacheInit, CacheTypeOK, CacheExact, Slots

LEMMA PutExact ==
    ASSUME CacheTypeOK, CacheExact, NEW i \in Ids, Put(i)
    PROVE  CacheTypeOK' /\ CacheExact'
<1> USE WindowLengths
<1>1. 1 \in Slots /\ \A j \in Ids : age[j] \in 0..HistoryLength
  BY DEF CacheTypeOK, Slots
<1>2. CacheTypeOK'
  BY <1>1 DEF CacheTypeOK, Put, Slots
<1>3. /\ \A n \in Slots, j \in Ids : j \in history'[n] <=> j \in history[n] \/ (n = 1 /\ j = i)
      /\ \A j \in Ids : age'[j] = IF j = i THEN 0 ELSE age[j]
      /\ msgs' = msgs \cup {i} /\ repeated \subseteq repeated' /\ repeated' \subseteq repeated \cup {i}
      /\ age[i] < HistoryLength => i \in repeated'
  BY <1>1 DEF CacheTypeOK, Put
<1>4. ASSUME NEW n \in Slots, NEW j \in history'[n] PROVE age'[j] <= n - 1
  <2>1. j \in Ids
    BY <1>2 DEF CacheTypeOK
  <2> QED
    BY <1>3, <2>1 DEF CacheExact, Slots
<1>5. ASSUME NEW j \in Ids, age'[j] < HistoryLength PROVE j \in history'[age'[j] + 1]
  <2>1. age[j] < HistoryLength => age[j] + 1 \in Slots /\ j \in history[age[j] + 1]
    BY <1>1 DEF CacheExact, Slots
  <2> QED
    BY <1>1, <1>3, <1>5, <2>1
<1>6. ASSUME NEW j \in msgs' \cup repeated' PROVE age'[j] < HistoryLength
  BY <1>2, <1>3 DEF CacheTypeOK, CacheExact
<1>7. ASSUME NEW j \in Ids \ repeated'
      PROVE  /\ age'[j] < HistoryLength => j \in msgs'
             /\ \A n \in Slots : j \in history'[n] => age'[j] = n - 1
  <2>1. CASE j # i
    BY <1>3, <2>1 DEF CacheExact
  <2>2. CASE j = i
    <3>1. age[i] = HistoryLength
      BY <1>1, <1>3, <2>2
    <3>2. \A n \in Slots : i \notin history[n]
      BY <3>1 DEF CacheExact, Slots
    <3> QED
      BY <1>3, <2>2, <3>2
  <2> QED
    BY <2>1, <2>2
<1> QED
  BY <1>2, <1>4, <1>5, <1>6, <1>7 DEF CacheExact, Slots

LEMMA ShiftExact ==
    ASSUME CacheTypeOK, CacheExact, Shift
    PROVE  CacheTypeOK' /\ CacheExact'
<1> USE WindowLengths
<1>1. CacheTypeOK'
  BY DEF CacheTypeOK, Shift, Slots, moved, last
<1>2. /\ \A j \in Ids : /\ age[j] \in 0..HistoryLength
                       /\ age'[j] = IF age[j] < HistoryLength THEN age[j] + 1 ELSE HistoryLength
      /\ \A n \in Slots : history'[n] = IF n = 1 THEN {} ELSE history[n - 1]
      /\ msgs' = msgs \ history[HistoryLength] /\ HistoryLength \in Slots
      /\ repeated' = {j \in repeated : age'[j] < HistoryLength}
  BY DEF CacheTypeOK, Shift, Slots, moved, last
<1>3. ASSUME NEW n \in Slots, NEW j \in history'[n] PROVE age'[j] <= n - 1
  <2>1. n # 1 /\ n - 1 \in Slots /\ j \in history[n - 1] /\ j \in Ids
    BY <1>1, <1>2 DEF CacheTypeOK, Slots
  <2>2. age[j] <= n - 1 - 1
    BY <2>1 DEF CacheExact
  <2> QED
    BY <1>2, <2>1, <2>2 DEF Slots
<1>4. ASSUME NEW j \in Ids, age'[j] < HistoryLength PROVE j \in history'[age'[j] + 1]
  <2>1. age[j] < HistoryLength - 1 /\ age'[j] = age[j] + 1
    BY <1>2, <1>4
  <2>2. j \in history[age[j] + 1]
    BY <1>2, <2>1 DEF CacheExact
  <2>3. age[j] + 2 \in Slots /\ age[j] + 2 # 1 /\ age[j] + 2 - 1 = age[j] + 1
    BY <1>2, <2>1 DEF Slots
  <2> QED
    BY <1>2, <2>1, <2>2, <2>3
<1>5. ASSUME NEW j \in msgs' \cup repeated' PROVE age'[j] < HistoryLength
  <2>1. CASE j \in repeated'
    BY <1>2, <2>1
  <2>2. CASE j \in msgs'
    <3>1. j \in Ids /\ age[j] < HistoryLength /\ j \notin history[HistoryLength]
      BY <1>2, <2>2 DEF CacheTypeOK, CacheExact
    <3>2. age[j] + 1 # HistoryLength
      BY <3>1 DEF CacheExact
    <3> QED
      BY <1>2, <3>1, <3>2
  <2> QED
    BY <2>1, <2>2
<1>6. ASSUME NEW j \in Ids \ repeated'
      PROVE  /\ age'[j] < HistoryLength => j \in msgs'
             /\ \A n \in Slots : j \in history'[n] => age'[j] = n - 1
  <2>1. CASE j \in repeated
    <3>1. age'[j] = HistoryLength
      BY <1>2, <2>1
    <3> QED
      BY <1>3, <3>1 DEF Slots
  <2>2. CASE j \notin repeated
    <3>1. ASSUME age'[j] < HistoryLength PROVE j \in msgs'
      <4>1. age[j] < HistoryLength - 1
        BY <1>2, <3>1
      <4>2. j \in msgs /\ j \notin history[HistoryLength]
        BY <1>2, <2>2, <4>1 DEF CacheExact
      <4> QED
        BY <1>2, <4>2
    <3>2. ASSUME NEW n \in Slots, j \in history'[n] PROVE age'[j] = n - 1
      <4>1. n # 1 /\ n - 1 \in Slots /\ j \in history[n - 1]
        BY <1>2, <3>2 DEF Slots
      <4>2. age[j] = n - 1 - 1
        BY <2>2, <4>1 DEF CacheExact
      <4> QED
        BY <1>2, <4>1, <4>2 DEF Slots
    <3> QED
      BY <3>1, <3>2
  <2> QED
    BY <2>1, <2>2
<1> QED
  BY <1>1, <1>3, <1>4, <1>5, <1>6 DEF CacheExact, Slots

\* What is offered after a shift is still in the cache, or was put there twice.
LEMMA GossipInCache ==
    ASSUME CacheTypeOK, CacheExact, Shift, NEW t \in Topics, NEW i \in GetGossipIDs(t)
    PROVE  i \in Ids /\ i \in msgs' \cup repeated'
<1> USE WindowLengths
<1>1. PICK n \in 1..HistoryGossip : i \in history[n]
  BY DEF GetGossipIDs
<1>2. n \in Slots /\ i \in Ids
  BY <1>1 DEF Slots, CacheTypeOK
<1>3. age[i] \in 0..HistoryLength /\ age[i] <= n - 1
  BY <1>1, <1>2 DEF CacheExact, CacheTypeOK
<1>4. CASE i \in repeated
  BY <1>2, <1>3, <1>4 DEF Shift, Slots
<1>5. CASE i \notin repeated
  <2>1. i \notin last
    BY <1>2, <1>3, <1>5 DEF CacheExact, last, Slots
  <2>2. i \in msgs
    BY <1>2, <1>3, <1>5 DEF CacheExact, Slots
  <2> QED
    BY <1>2, <2>1, <2>2 DEF Shift
<1> QED
  BY <1>4, <1>5

-----------------------------------------------------------------------------
(* Sending *)

LEMMA Capacity == QueueLen \in Nat /\ QueueLen > 0
BY GossipSubAssumption DEF GossipSubAssumption

\* put keeps the types and the pending gossip, and leaves the pending control
\* messages of a peer that is gone alone.
LEMMA PutLink ==
    ASSUME NEW p \in Peers, NEW L \in Links, NEW g \in SUBSET Topics, NEW r \in SUBSET Topics
    PROVE  /\ put(p, L, g, r) \in Links
           /\ put(p, L, g, r).ihave = L.ihave
           /\ p \notin conn => /\ put(p, L, g, r).graft = L.graft
                               /\ put(p, L, g, r).prune = L.prune
<1>1. /\ [L EXCEPT !.astray = @ \cup r] \in Links
      /\ keep(L, g, r) \in Links /\ keep(L, g, r).ihave = L.ihave
  BY DEF Links, keep
<1>2. L.queue \in 0..QueueLen /\ (room(L) => L.queue + 1 \in 0..QueueLen)
  BY Capacity DEF Links, room
<1>3. room(L) => [L EXCEPT !.queue = @ + 1, !.linked = (@ \cup g) \ r,
                           !.astray = @ \ (g \cup r)] \in Links
  BY <1>2 DEF Links
<1> QED
  BY <1>1, <1>3 DEF put, Links

\* sendRPC takes the pending gossip along, and forgets what waits for a peer
\* that is gone.
LEMMA SendLink ==
    ASSUME NEW p \in Peers, NEW L \in Links, NEW M,
           NEW g \in SUBSET Topics, NEW r \in SUBSET Topics
    PROVE  /\ sendRPC(p, L, M, g, r) \in Links
           /\ sendRPC(p, L, M, g, r).ihave = {}
           /\ p \notin conn => /\ sendRPC(p, L, M, g, r).graft = {}
                               /\ sendRPC(p, L, M, g, r).prune = {}
<1> DEFINE L0 == [L EXCEPT !.graft = {}, !.prune = {}, !.ihave = {}]
           g0 == g \cup {t \in L.graft : fresh(M, p, t)}
           r0 == r \cup {t \in L.prune : ~fresh(M, p, t)}
<1>1. L0 \in Links /\ L0.graft = {} /\ L0.prune = {} /\ L0.ihave = {}
  BY DEF Links
<1>2. g0 \in SUBSET Topics /\ r0 \in SUBSET Topics
  BY DEF Links
<1>3. sendRPC(p, L, M, g, r) = put(p, L0, g0, r0)
  BY DEF sendRPC
<1> HIDE DEF L0, g0, r0
<1> QED
  BY <1>1, <1>2, <1>3, PutLink

\* flush leaves no pending gossip.
LEMMA FlushLink ==
    ASSUME NEW p \in Peers, NEW L \in Links
    PROVE  /\ flush(p, L) \in Links
           /\ flush(p, L).ihave = {}
           /\ p \notin conn /\ L.graft = {} /\ L.prune = {}
              => flush(p, L).graft = {} /\ flush(p, L).prune = {}
<1> DEFINE G == flushGossip(p, L)
           G0 == [G EXCEPT !.graft = {}, !.prune = {}]
           K == put(p, G0, G.graft, G.prune)
           stale == {t \in G.graft : p \notin mesh[t]} \cup {t \in G.prune : p \in mesh[t]}
<1>1. /\ G \in Links /\ G.ihave = {}
      /\ p \notin conn /\ L.graft = {} /\ L.prune = {} => G.graft = {} /\ G.prune = {}
  BY SendLink DEF flushGossip
<1> HIDE DEF G
<1>2. G0 \in Links /\ G0.ihave = {}
  BY <1>1 DEF Links
<1>3. G.graft \in SUBSET Topics /\ G.prune \in SUBSET Topics /\ stale \in SUBSET Topics
  BY <1>1 DEF Links
<1> HIDE DEF G0
<1>4. K \in Links /\ K.ihave = {}
  BY <1>2, <1>3, PutLink
<1>5. flush(p, L) = IF G.graft = {} /\ G.prune = {} THEN G
                    ELSE IF K.queue = G.queue THEN K
                    ELSE [K EXCEPT !.astray = @ \cup stale]
  BY DEF flush, flushControl, G, G0
<1> HIDE DEF K, stale
<1>6. [K EXCEPT !.astray = @ \cup stale] \in Links /\ [K EXCEPT !.astray = @ \cup stale].ihave = {}
  BY <1>3, <1>4 DEF Links
<1> QED
  BY <1>1, <1>4, <1>5, <1>6

LEMMA ListedTopics ==
    ASSUME NEW T \in SUBSET Topics, NEW r \in listed(T)
    PROVE  r \in SUBSET Topics /\ (T = {} => r = {})
BY DEF listed

LEMMA PickSubset ==
    ASSUME NEW C, NEW n, NEW S \in pick(C, n)
    PROVE  S \subseteq C
BY DEF pick

-----------------------------------------------------------------------------
(* The inductive invariant *)

IInv == TypeOK /\ CacheExact /\ GossipServable /\ FanoutExpires /\ GoneForgotten

\* Pending gossip that is kept or taken along stays servable as long as no
\* message leaves the cache.
LEMMA StaysServable ==
    ASSUME GossipServable, msgs \cup repeated \subseteq msgs' \cup repeated',
           \A q \in Peers : link'[q].ihave = {} \/ link'[q].ihave = link[q].ihave
    PROVE  GossipServable'
BY DEF GossipServable

\* What a handler may do to the link of a peer.
Handled(q) ==
    /\ link'[q] \in Links
    /\ link'[q].ihave = {} \/ link'[q].ihave = link[q].ihave
    /\ \/ q \in conn
       \/ link'[q].graft = {} /\ link'[q].prune = {}
       \/ link'[q].graft = link[q].graft /\ link'[q].prune = link[q].prune

LEMMA SentHandled ==
    ASSUME TypeOK, NEW q \in Peers, NEW L \in Links, NEW M,
           NEW x \in SUBSET Topics, NEW y \in SUBSET Topics,
           L.ihave = link[q].ihave, L.graft = link[q].graft, L.prune = link[q].prune,
           link'[q] = L \/ link'[q] = sendRPC(q, L, M, x, y)
    PROVE  Handled(q)
<1>1. CASE link'[q] = L
  BY <1>1 DEF Handled
<1>2. CASE link'[q] = sendRPC(q, L, M, x, y)
  <2>1. /\ sendRPC(q, L, M, x, y) \in Links /\ sendRPC(q, L, M, x, y).ihave = {}
        /\ q \notin conn => /\ sendRPC(q, L, M, x, y).graft = {}
                            /\ sendRPC(q, L, M, x, y).prune = {}
    BY SendLink
  <2> QED
    BY <1>2, <2>1 DEF Handled
<1> QED
  BY <1>1, <1>2

\* A handler that changes neither the peers nor what the fanout has.
LEMMA HandledForgotten ==
    ASSUME IInv, conn' = conn, protos' = protos,
           \A q \in Peers : Handled(q),
           \A q \in Peers \ conn, t \in Topics : q \notin fanout'[t]
    PROVE  GoneForgotten'
BY DEF IInv, GoneForgotten, Handled

LEMMA CacheStays ==
    ASSUME CacheTypeOK, CacheExact, UNCHANGED cacheVars
    PROVE  CacheTypeOK' /\ CacheExact'
BY DEF CacheTypeOK, CacheExact, cacheVars, Slots

LEMMA InitIInv == Init => IInv
<1> SUFFICES ASSUME Init PROVE IInv
  OBVIOUS
<1>1. NoLink \in Links
  BY Capacity DEF NoLink, Links
<1>2. TypeOK
  BY <1>1, CacheStart DEF Init, TypeOK
<1> QED
  BY <1>2, CacheStart DEF Init, IInv, GossipServable, FanoutExpires, GoneForgotten, NoLink, joined

LEMMA StepConnect == ASSUME IInv, NEW p \in Peers, Connect(p) PROVE IInv'
<1>1. link \in [Peers -> Links] /\ 1 \in 0..QueueLen
  BY Capacity DEF IInv, TypeOK
<1>2. link' \in [Peers -> Links]
  BY <1>1 DEF Connect, Links
<1>3. \A q \in Peers : link'[q].ihave = link[q].ihave /\ (q # p => link'[q] = link[q])
  BY <1>1 DEF Connect, Links
<1>4. TypeOK' /\ CacheExact'
  BY <1>2, CacheStays DEF IInv, TypeOK, Connect
<1>5. GossipServable'
  BY <1>3, StaysServable DEF IInv, Connect, cacheVars
<1>6. FanoutExpires'
  BY DEF IInv, FanoutExpires, Connect, joined
<1>7. GoneForgotten'
  BY <1>3 DEF IInv, GoneForgotten, Connect
<1> QED
  BY <1>4, <1>5, <1>6, <1>7 DEF IInv

LEMMA StepAddPeer ==
    ASSUME IInv, NEW p \in Peers, NEW proto \in {"gossip", "flood"}, AddPeer(p, proto)
    PROVE  IInv'
<1>1. TypeOK' /\ CacheExact'
  BY CacheStays DEF IInv, TypeOK, AddPeer
<1>2. GossipServable'
  BY StaysServable DEF IInv, AddPeer, cacheVars
<1>3. FanoutExpires' /\ GoneForgotten'
  BY DEF IInv, TypeOK, FanoutExpires, GoneForgotten, AddPeer, joined
<1> QED
  BY <1>1, <1>2, <1>3 DEF IInv

LEMMA StepRemovePeer == ASSUME IInv, NEW p \in Peers, RemovePeer(p) PROVE IInv'
<1>1. link \in [Peers -> Links] /\ NoLink \in Links
  BY Capacity DEF IInv, TypeOK, NoLink, Links
<1>2. \A q \in Peers : link'[q] = IF q = p THEN NoLink ELSE link[q]
  BY <1>1 DEF RemovePeer
<1>3. \A f \in {topics, mesh, fanout} : without(f, p) \in [Topics -> SUBSET Peers]
  BY DEF IInv, TypeOK, without
<1>4. TypeOK' /\ CacheExact'
  BY <1>1, <1>3, CacheStays DEF IInv, TypeOK, RemovePeer
<1>5. GossipServable'
  BY <1>2, StaysServable DEF IInv, RemovePeer, cacheVars, NoLink
<1>6. FanoutExpires'
  BY DEF IInv, FanoutExpires, RemovePeer, joined
<1>7. ASSUME NEW q \in Peers \ conn' PROVE
        /\ protos'[q] = "none"
        /\ link'[q].graft \cup link'[q].prune = {} /\ link'[q].ihave = {}
        /\ \A t \in Topics : q \notin fanout'[t]
  BY <1>2, <1>7 DEF IInv, TypeOK, GoneForgotten, RemovePeer, without, NoLink
<1> QED
  BY <1>4, <1>5, <1>6, <1>7 DEF IInv, GoneForgotten

LEMMA StepPeerSubscribes ==
    ASSUME IInv, NEW p \in Peers, NEW t \in Topics, PeerSubscribes(p, t)
    PROVE  IInv'
<1>1. topics' \in [Topics -> SUBSET Peers]
  BY DEF IInv, TypeOK, PeerSubscribes
<1>2. keys' \in [topics : SUBSET Topics, mesh : SUBSET Topics, fanout : SUBSET Topics]
      /\ keys'.mesh = keys.mesh /\ keys'.fanout = keys.fanout
  BY DEF IInv, TypeOK, PeerSubscribes
<1>3. TypeOK' /\ CacheExact'
  BY <1>1, <1>2, CacheStays DEF IInv, TypeOK, PeerSubscribes
<1>4. GossipServable' /\ GoneForgotten'
  BY StaysServable DEF IInv, GoneForgotten, PeerSubscribes, cacheVars
<1>5. FanoutExpires'
  BY <1>2 DEF IInv, FanoutExpires, PeerSubscribes, joined
<1> QED
  BY <1>3, <1>4, <1>5 DEF IInv

LEMMA AnnouncedLink ==
    ASSUME NEW q, link[q] \in Links
    PROVE  /\ announced(q) \in Links /\ announced(q).ihave = link[q].ihave
           /\ announced(q).graft = link[q].graft /\ announced(q).prune = link[q].prune
BY Capacity DEF announced, Links, room

LEMMA StepDrain ==
    ASSUME IInv, NEW p \in Peers, Drain(p) \/ doAnnounceRetry(p)
    PROVE  IInv'
<1>1. link \in [Peers -> Links]
  BY DEF IInv, TypeOK
<1>2. announced(p) \in Links /\ announced(p).ihave = link[p].ihave
      /\ announced(p).graft = link[p].graft /\ announced(p).prune = link[p].prune
  BY <1>1, AnnouncedLink
<1>3. /\ link' \in [Peers -> Links]
      /\ \A q \in Peers : /\ link'[q].ihave = link[q].ihave
                          /\ link'[q].graft = link[q].graft /\ link'[q].prune = link[q].prune
  <2>1. CASE Drain(p)
    BY <1>1, <2>1, Capacity DEF Drain, Links
  <2>2. CASE doAnnounceRetry(p)
    BY <1>1, <1>2, <2>2 DEF doAnnounceRetry
  <2> QED
    BY <2>1, <2>2
<1>4. UNCHANGED <<protos, conn, topics, mesh, fanout, keys, lastpub, seen, cacheVars>>
  BY DEF Drain, doAnnounceRetry
<1>5. TypeOK' /\ CacheExact'
  BY <1>3, <1>4, CacheStays DEF IInv, TypeOK
<1>6. GossipServable'
  BY <1>3, <1>4, StaysServable DEF IInv, cacheVars
<1>7. FanoutExpires' /\ GoneForgotten'
  BY <1>3, <1>4 DEF IInv, FanoutExpires, GoneForgotten, joined
<1> QED
  BY <1>5, <1>6, <1>7 DEF IInv

LEMMA StepForget == ASSUME IInv, NEW i \in Ids, Forget(i) PROVE IInv'
<1>1. TypeOK' /\ CacheExact'
  BY CacheStays DEF IInv, TypeOK, Forget
<1>2. GossipServable' /\ FanoutExpires' /\ GoneForgotten'
  BY StaysServable DEF IInv, FanoutExpires, GoneForgotten, Forget, cacheVars, joined
<1> QED
  BY <1>1, <1>2 DEF IInv

LEMMA StepHandleRPC ==
    ASSUME IInv, NEW p \in Peers, NEW ctl \in Controls, HandleRPC(p, ctl)
    PROVE  IInv'
<1> DEFINE refused == ctl.graft \ joined
           M == [t \in Topics |-> IF t \in ctl.prune THEN mesh[t] \ {p}
                                  ELSE IF t \in ctl.graft \cap joined THEN mesh[t] \cup {p}
                                  ELSE mesh[t]]
           L == [link[p] EXCEPT !.linked = (@ \cup ctl.graft) \ ctl.prune,
                                !.astray = @ \ (ctl.graft \cup ctl.prune)]
<1>1. link \in [Peers -> Links] /\ link[p] \in Links
      /\ ctl.graft \subseteq Topics /\ ctl.prune \subseteq Topics
  BY GossipSubAssumption DEF GossipSubAssumption, IInv, TypeOK
<1>2. L \in Links /\ L.ihave = link[p].ihave /\ L.graft = link[p].graft /\ L.prune = link[p].prune
  <2> DEFINE X == (link[p].linked \cup ctl.graft) \ ctl.prune
             Y == link[p].astray \ (ctl.graft \cup ctl.prune)
  <2>1. X \in SUBSET Topics /\ Y \in SUBSET Topics
    BY <1>1 DEF Links
  <2>2. L = [link[p] EXCEPT !.linked = X, !.astray = Y]
    OBVIOUS
  <2> HIDE DEF L, X, Y
  <2>3. /\ [link[p] EXCEPT !.linked = X, !.astray = Y] \in Links
        /\ [link[p] EXCEPT !.linked = X, !.astray = Y].ihave = link[p].ihave
        /\ [link[p] EXCEPT !.linked = X, !.astray = Y].graft = link[p].graft
        /\ [link[p] EXCEPT !.linked = X, !.astray = Y].prune = link[p].prune
    BY <1>1, <2>1 DEF Links
  <2> QED
    BY <2>2, <2>3
<1>3. M \in [Topics -> SUBSET Peers]
  BY DEF IInv, TypeOK
<1>4. /\ mesh' = M
      /\ \/ link' = [link EXCEPT ![p] = L]
         \/ \E r \in listed(refused) : link' = [link EXCEPT ![p] = sendRPC(p, L, M, {}, r)]
  BY DEF HandleRPC
<1>5. UNCHANGED <<protos, conn, topics, fanout, keys, lastpub, seen, cacheVars>>
  BY DEF HandleRPC
<1> HIDE DEF M, L
<1>6. Handled(p) /\ \A q \in Peers \ {p} : link'[q] = link[q]
  <2>1. CASE link' = [link EXCEPT ![p] = L]
    BY <1>1, <1>2, <2>1, SentHandled DEF IInv
  <2>2. ASSUME NEW r \in listed(refused), link' = [link EXCEPT ![p] = sendRPC(p, L, M, {}, r)]
        PROVE  Handled(p) /\ \A q \in Peers \ {p} : link'[q] = link[q]
    <3>1. r \in SUBSET Topics /\ {} \in SUBSET Topics
      BY <1>1, ListedTopics
    <3>2. link'[p] = sendRPC(p, L, M, {}, r)
      BY <1>1, <2>2
    <3>3. Handled(p)
      BY <1>2, <3>1, <3>2, SentHandled DEF IInv
    <3> QED
      BY <1>1, <2>2, <3>3
  <2> QED
    BY <1>4, <2>1, <2>2
<1>7. \A q \in Peers : Handled(q)
  BY <1>1, <1>6 DEF Handled
<1>8. link' \in [Peers -> Links]
  <2>1. link' = [q \in Peers |-> link'[q]]
    BY <1>1, <1>4
  <2> QED
    BY <1>7, <2>1 DEF Handled
<1>9. TypeOK' /\ CacheExact'
  BY <1>3, <1>4, <1>5, <1>8, CacheStays DEF IInv, TypeOK
<1>10. GossipServable'
  BY <1>5, <1>7, StaysServable DEF IInv, Handled, cacheVars
<1>11. FanoutExpires'
  BY <1>5 DEF IInv, FanoutExpires, joined
<1>12. GoneForgotten'
  BY <1>5, <1>7, HandledForgotten DEF IInv, GoneForgotten
<1> QED
  BY <1>9, <1>10, <1>11, <1>12 DEF IInv

\* Only peers that the process loop knows are chosen.
LEMMA ChosenKnown ==
    ASSUME IInv, NEW t \in Topics, NEW q \in getPeers(t)
    PROVE  q \in Peers /\ q \in conn
BY DEF IInv, TypeOK, getPeers, GoneForgotten

LEMMA StepLeave == ASSUME IInv, NEW t \in Topics, Leave(t) PROVE IInv'
<1>1. link \in [Peers -> Links]
  BY DEF IInv, TypeOK
<1>2. UNCHANGED <<protos, conn, topics, fanout, lastpub, seen, cacheVars>>
  BY DEF Leave
<1>3. mesh' \in [Topics -> SUBSET Peers]
  BY DEF IInv, TypeOK, Leave
<1>4. /\ keys' \in [topics : SUBSET Topics, mesh : SUBSET Topics, fanout : SUBSET Topics]
      /\ keys'.fanout = keys.fanout /\ keys'.mesh = keys.mesh \ {t}
  BY DEF IInv, TypeOK, Leave
<1>5. ASSUME NEW q \in Peers PROVE Handled(q)
  <2>1. /\ announced(q) \in Links /\ announced(q).ihave = link[q].ihave
        /\ announced(q).graft = link[q].graft /\ announced(q).prune = link[q].prune
    BY <1>1, AnnouncedLink
  <2>2. link'[q] = announced(q) \/ link'[q] = sendRPC(q, announced(q), mesh', {}, {t})
    BY DEF Leave
  <2> QED
    BY <2>1, <2>2, SentHandled DEF IInv
<1>6. link' \in [Peers -> Links]
  <2>1. link' = [q \in Peers |-> link'[q]]
    BY DEF Leave
  <2> QED
    BY <1>5, <2>1 DEF Handled
<1>7. TypeOK' /\ CacheExact'
  BY <1>2, <1>3, <1>4, <1>6, CacheStays DEF IInv, TypeOK
<1>8. GossipServable'
  BY <1>2, <1>5, StaysServable DEF IInv, Handled, cacheVars
<1>9. FanoutExpires'
  BY <1>2, <1>4 DEF IInv, FanoutExpires, joined
<1>10. GoneForgotten'
  BY <1>2, <1>5, HandledForgotten DEF IInv, GoneForgotten
<1> QED
  BY <1>7, <1>8, <1>9, <1>10 DEF IInv

LEMMA StepJoin == ASSUME IInv, NEW t \in Topics, Join(t) PROVE IInv'
<1>1. link \in [Peers -> Links]
  BY DEF IInv, TypeOK
<1>2. UNCHANGED <<protos, conn, topics, seen, cacheVars>>
  BY DEF Join
<1>3. \/ mesh' = [mesh EXCEPT ![t] = fanout[t]]
      \/ \E S \in pick(getPeers(t), D) : mesh' = [mesh EXCEPT ![t] = S]
  BY DEF Join
<1>4. mesh' \in [Topics -> SUBSET Peers]
  <2>1. \A S \in pick(getPeers(t), D) : S \in SUBSET Peers
    BY PickSubset, ChosenKnown
  <2> QED
    BY <1>3, <2>1 DEF IInv, TypeOK
<1>5. /\ keys' \in [topics : SUBSET Topics, mesh : SUBSET Topics, fanout : SUBSET Topics]
      /\ keys'.fanout = keys.fanout \ {t} /\ keys'.mesh = keys.mesh \cup {t}
  BY DEF IInv, TypeOK, Join
<1>6. /\ fanout' \in [Topics -> SUBSET Peers]
      /\ \A u \in Topics : fanout'[u] \subseteq fanout[u]
      /\ lastpub \ {t} \subseteq lastpub' /\ lastpub' \subseteq lastpub
  BY DEF IInv, TypeOK, Join
<1>7. ASSUME NEW q \in Peers PROVE Handled(q)
  <2>1. /\ announced(q) \in Links /\ announced(q).ihave = link[q].ihave
        /\ announced(q).graft = link[q].graft /\ announced(q).prune = link[q].prune
    BY <1>1, AnnouncedLink
  <2>2. link'[q] = announced(q) \/ link'[q] = sendRPC(q, announced(q), mesh', {t}, {})
    BY DEF Join
  <2> QED
    BY <2>1, <2>2, SentHandled DEF IInv
<1>8. link' \in [Peers -> Links]
  <2>1. link' = [q \in Peers |-> link'[q]]
    BY DEF Join
  <2> QED
    BY <1>7, <2>1 DEF Handled
<1>9. TypeOK' /\ CacheExact'
  <2>1. CacheTypeOK' /\ CacheExact'
    BY <1>2, CacheStays DEF IInv, TypeOK
  <2>2. lastpub' \subseteq Topics
    BY <1>6 DEF IInv, TypeOK
  <2> QED
    BY <1>2, <1>4, <1>5, <1>6, <1>8, <2>1, <2>2 DEF IInv, TypeOK
<1>10. GossipServable'
  BY <1>2, <1>7, StaysServable DEF IInv, Handled, cacheVars
<1>11. FanoutExpires'
  BY <1>5, <1>6 DEF IInv, FanoutExpires, joined
<1>12. GoneForgotten'
  BY <1>2, <1>6, <1>7, HandledForgotten DEF IInv, GoneForgotten
<1> QED
  BY <1>9, <1>10, <1>11, <1>12 DEF IInv

LEMMA StepPublish ==
    ASSUME IInv, NEW i \in Ids, NEW from \in Peers \cup {Self}, Publish(from, i)
    PROVE  IInv'
<1> DEFINE unjoined == spread(i) \ joined
           unfanned == {t \in unjoined : fanout[t] = {} /\ getPeers(t) # {}}
<1>1. link \in [Peers -> Links] /\ unjoined \subseteq Topics
  BY DEF IInv, TypeOK, spread
<1>2. UNCHANGED <<protos, conn, topics, mesh>> /\ Put(i)
  BY DEF Publish
<1>3. CacheTypeOK' /\ CacheExact'
  BY <1>2, PutExact DEF IInv, TypeOK
<1>4. PICK F \in [unfanned -> SUBSET Peers] :
         /\ \A t \in unfanned : F[t] \in pick(getPeers(t), D)
         /\ fanout' = [t \in Topics |-> IF t \in unfanned THEN F[t] ELSE fanout[t]]
  BY DEF Publish
<1>5. \A t \in unfanned : F[t] \subseteq Peers /\ F[t] \subseteq conn
  BY <1>1, <1>4, PickSubset, ChosenKnown
<1>6. /\ fanout' \in [Topics -> SUBSET Peers]
      /\ \A q \in Peers \ conn, t \in Topics : q \notin fanout'[t]
  BY <1>4, <1>5 DEF IInv, TypeOK, GoneForgotten
<1>7. lastpub' = lastpub \cup unjoined /\ seen' = seen \cup {i}
      /\ keys' = [keys EXCEPT !.fanout = @ \cup unfanned]
  BY DEF Publish
<1>8. /\ keys' \in [topics : SUBSET Topics, mesh : SUBSET Topics, fanout : SUBSET Topics]
      /\ keys'.fanout = keys.fanout \cup unfanned /\ keys'.mesh = keys.mesh
  BY <1>1, <1>7 DEF IInv, TypeOK
<1>9. ASSUME NEW q \in Peers PROVE Handled(q)
  <2>1. link'[q] = link[q] \/ link'[q] = sendRPC(q, link[q], mesh, {}, {})
    BY DEF Publish
  <2> QED
    BY <1>1, <2>1, SentHandled DEF IInv
<1>10. link' \in [Peers -> Links]
  <2>1. link' = [q \in Peers |-> link'[q]]
    BY DEF Publish
  <2> QED
    BY <1>9, <2>1 DEF Handled
<1>11. TypeOK'
  <2>1. lastpub' \subseteq Topics /\ seen' \subseteq Ids
    BY <1>1, <1>7 DEF IInv, TypeOK
  <2> QED
    BY <1>2, <1>3, <1>6, <1>8, <1>10, <2>1 DEF IInv, TypeOK
<1>12. GossipServable'
  BY <1>2, <1>9, StaysServable DEF IInv, Handled, Put
<1>13. FanoutExpires'
  BY <1>7, <1>8 DEF IInv, FanoutExpires, joined
<1>14. GoneForgotten'
  BY <1>2, <1>6, <1>9, HandledForgotten
<1> QED
  BY <1>3, <1>11, <1>12, <1>13, <1>14 DEF IInv

-----------------------------------------------------------------------------
(* The heartbeat *)

LEMMA GrownSubset ==
    ASSUME NEW S, NEW C, NEW T \in grown(S, C)
    PROVE  T \subseteq S \cup C
<1>1. PICK A \in pick(C \ S, D - Cardinality(S)) : T = S \cup A
  BY DEF grown
<1> QED
  BY <1>1, PickSubset

\* The mesh of a topic is maintained from its peers and those to be had.
LEMMA MaintainedSubset ==
    ASSUME NEW t \in Topics, NEW S \in maintained(t)
    PROVE  S \subseteq mesh[t] \cup getPeers(t) /\ (t \notin joined => S = {})
<1>1. S = {} \/ S \in grown(mesh[t], getPeers(t)) \/ S \in pick(mesh[t], D) \/ S = mesh[t]
  BY DEF maintained
<1>2. t \notin joined => S = {}
  BY DEF maintained
<1> QED
  BY <1>1, <1>2, GrownSubset, PickSubset

LEMMA RefilledSubset ==
    ASSUME NEW t \in Topics, NEW S \in refilled(t)
    PROVE  S \subseteq fanout[t] \cup getPeers(t)
<1>1. S = {} \/ S \in grown(fanout[t] \cap topics[t], getPeers(t)) \/ S = fanout[t] \cap topics[t]
  BY DEF refilled
<1> QED
  BY <1>1, GrownSubset

LEMMA StepHeartbeat == ASSUME IInv, Heartbeat PROVE IInv'
<1>1. Shift /\ UNCHANGED <<protos, conn, topics, seen>>
  BY DEF Heartbeat
<1>2. CacheTypeOK' /\ CacheExact'
  BY <1>1, ShiftExact DEF IInv, TypeOK
<1>3. PICK E \in SUBSET lastpub, M \in choices(Topics, maintained) :
       \E F \in choices(Topics, LAMBDA t : IF t \in E THEN {{}} ELSE refilled(t)),
          G \in choices(Topics, LAMBDA t : IF t \in joined \cup unexpired(E) THEN gossiping(t) ELSE {{}}),
          g \in choices(Peers, LAMBDA p : listed({t \in Topics : p \in M[t] \ mesh[t]})),
          r \in choices(Peers, LAMBDA p : listed({t \in Topics : p \in mesh[t] \ M[t]})) :
        LET flushed(p) == LET L == flush(p, link[p])
                          IN [L EXCEPT !.ihave = @ \cup pushGossip(p, M, F, G)]
        IN /\ mesh' = M /\ fanout' = F /\ lastpub' = lastpub \ E
           /\ keys' = [keys EXCEPT !.fanout = unexpired(E)]
           /\ link' = [p \in Peers |-> sendGraftPrune(p, flushed(p), M, g[p], r[p])]
  BY DEF Heartbeat
<1>4. PICK F \in choices(Topics, LAMBDA t : IF t \in E THEN {{}} ELSE refilled(t)),
           G \in choices(Topics, LAMBDA t : IF t \in joined \cup unexpired(E) THEN gossiping(t) ELSE {{}}),
           g \in choices(Peers, LAMBDA p : listed({t \in Topics : p \in M[t] \ mesh[t]})),
           r \in choices(Peers, LAMBDA p : listed({t \in Topics : p \in mesh[t] \ M[t]})) :
        LET flushed(p) == LET L == flush(p, link[p])
                          IN [L EXCEPT !.ihave = @ \cup pushGossip(p, M, F, G)]
        IN /\ mesh' = M /\ fanout' = F /\ lastpub' = lastpub \ E
           /\ keys' = [keys EXCEPT !.fanout = unexpired(E)]
           /\ link' = [p \in Peers |-> sendGraftPrune(p, flushed(p), M, g[p], r[p])]
  BY <1>3
<1> DEFINE flushed(p) == [flush(p, link[p]) EXCEPT !.ihave = @ \cup pushGossip(p, M, F, G)]
<1>5. /\ mesh' = M /\ fanout' = F /\ lastpub' = lastpub \ E
      /\ keys' = [keys EXCEPT !.fanout = unexpired(E)]
      /\ link' = [p \in Peers |-> sendGraftPrune(p, flushed(p), M, g[p], r[p])]
  BY <1>4
<1>6. link \in [Peers -> Links] /\ lastpub \subseteq Topics
  BY DEF IInv, TypeOK
<1>7. \A t \in Topics : M[t] \in maintained(t)
  BY DEF choices
<1>8. \A t \in Topics : F[t] \in IF t \in E THEN {{}} ELSE refilled(t)
  BY DEF choices
<1>9. \A t \in Topics : G[t] \in gossiping(t) \/ G[t] = {}
  BY DEF choices
<1>10. \A p \in Peers : g[p] \in SUBSET Topics /\ r[p] \in SUBSET Topics
  <2>1. TAKE p \in Peers
  <2>2. g[p] \in listed({t \in Topics : p \in M[t] \ mesh[t]})
    BY DEF choices
  <2>3. r[p] \in listed({t \in Topics : p \in mesh[t] \ M[t]})
    BY DEF choices
  <2> QED
    BY <2>2, <2>3, ListedTopics
<1>11. /\ M \in [Topics -> SUBSET Peers]
       /\ \A t \in Topics : t \notin joined => M[t] = {}
  <2>1. \A t \in Topics : mesh[t] \subseteq Peers /\ getPeers(t) \subseteq Peers
    BY ChosenKnown DEF IInv, TypeOK
  <2>2. \A t \in Topics : M[t] \subseteq Peers /\ (t \notin joined => M[t] = {})
    BY <1>7, <2>1, MaintainedSubset
  <2> QED
    BY <2>2 DEF choices
<1>12. /\ F \in [Topics -> SUBSET Peers]
       /\ \A t \in Topics : F[t] \subseteq conn
  <2>1. \A t \in Topics : fanout[t] \subseteq Peers \cap conn /\ getPeers(t) \subseteq Peers \cap conn
    BY ChosenKnown DEF IInv, TypeOK, GoneForgotten
  <2>2. \A t \in Topics : \A S \in refilled(t) : S \subseteq Peers \cap conn
    BY <2>1, RefilledSubset
  <2>3. \A t \in Topics : F[t] \subseteq Peers \cap conn
    BY <1>8, <2>2
  <2> QED
    BY <2>3 DEF choices
<1>13. \A t \in Topics : G[t] \subseteq conn
  <2>1. \A t \in Topics : \A S \in gossiping(t) : S \subseteq conn
    BY PickSubset, ChosenKnown DEF gossiping
  <2> QED
    BY <1>9, <2>1
<1>14. ASSUME NEW p \in Peers PROVE
         /\ flushed(p) \in Links
         /\ flushed(p).ihave = pushGossip(p, M, F, G)
         /\ p \notin conn => /\ flushed(p).graft = {} /\ flushed(p).prune = {}
                             /\ flushed(p).ihave = {}
  <2>1. /\ flush(p, link[p]) \in Links /\ flush(p, link[p]).ihave = {}
        /\ p \notin conn => flush(p, link[p]).graft = {} /\ flush(p, link[p]).prune = {}
    <3>1. link[p] \in Links
      BY <1>6
    <3>2. p \notin conn => link[p].graft = {} /\ link[p].prune = {}
      BY DEF IInv, GoneForgotten
    <3> QED
      BY <3>1, <3>2, FlushLink
  <2>2. pushGossip(p, M, F, G) \in SUBSET (Topics \X Ids)
    BY DEF pushGossip
  <2>3. p \notin conn => pushGossip(p, M, F, G) = {}
    BY <1>13 DEF pushGossip
  <2> QED
    BY <2>1, <2>2, <2>3 DEF Links
<1> HIDE DEF flushed
<1>15. ASSUME NEW p \in Peers PROVE
         /\ link'[p] \in Links
         /\ link'[p].ihave \subseteq pushGossip(p, M, F, G)
         /\ p \notin conn => /\ link'[p].graft = {} /\ link'[p].prune = {}
                             /\ link'[p].ihave = {}
  <2>1. link'[p] = flushed(p) \/ link'[p] = sendRPC(p, flushed(p), M, g[p], r[p])
    BY <1>5 DEF sendGraftPrune
  <2>2. g[p] \in SUBSET Topics /\ r[p] \in SUBSET Topics
    BY <1>10
  <2>3. flushed(p) \in Links
    BY <1>14
  <2>4. /\ sendRPC(p, flushed(p), M, g[p], r[p]) \in Links
        /\ sendRPC(p, flushed(p), M, g[p], r[p]).ihave = {}
        /\ p \notin conn => /\ sendRPC(p, flushed(p), M, g[p], r[p]).graft = {}
                            /\ sendRPC(p, flushed(p), M, g[p], r[p]).prune = {}
    BY <2>2, <2>3, SendLink
  <2>5. CASE link'[p] = flushed(p)
    BY <1>14, <2>5
  <2>6. CASE link'[p] = sendRPC(p, flushed(p), M, g[p], r[p])
    BY <2>4, <2>6
  <2> QED
    BY <2>1, <2>5, <2>6
<1>16. link' \in [Peers -> Links]
  <2>1. link' = [p \in Peers |-> link'[p]]
    BY <1>5
  <2> QED
    BY <1>15, <2>1
<1>17. /\ keys' \in [topics : SUBSET Topics, mesh : SUBSET Topics, fanout : SUBSET Topics]
       /\ keys'.fanout = keys.fanout \ E /\ keys'.mesh = keys.mesh
  BY <1>5 DEF IInv, TypeOK, unexpired
<1>18. TypeOK'
  <2>1. lastpub' \subseteq Topics
    BY <1>5, <1>6
  <2>2. /\ mesh' \in [Topics -> SUBSET Peers] /\ fanout' \in [Topics -> SUBSET Peers]
        /\ topics' \in [Topics -> SUBSET Peers]
    BY <1>1, <1>5, <1>11, <1>12 DEF IInv, TypeOK
  <2>3. protos' \in [Peers -> {"none", "gossip", "flood"}] /\ conn' \subseteq Peers /\ seen' \subseteq Ids
    BY <1>1 DEF IInv, TypeOK
  <2> QED
    BY <1>2, <1>16, <1>17, <2>1, <2>2, <2>3 DEF TypeOK
<1>19. GossipServable'
  <2> SUFFICES ASSUME NEW p \in Peers, NEW x \in link'[p].ihave PROVE x[2] \in msgs' \cup repeated'
    BY DEF GossipServable
  <2>1. x \in pushGossip(p, M, F, G)
    BY <1>15
  <2>2. x[1] \in Topics /\ x[2] \in GetGossipIDs(x[1])
    BY <2>1 DEF pushGossip
  <2> QED
    BY <1>1, <2>2, GossipInCache DEF IInv, TypeOK
<1>20. FanoutExpires'
  BY <1>5, <1>17 DEF IInv, FanoutExpires, joined
<1>21. GoneForgotten'
  BY <1>1, <1>5, <1>12, <1>15 DEF IInv, GoneForgotten
<1> QED
  BY <1>2, <1>18, <1>19, <1>20, <1>21 DEF IInv

-----------------------------------------------------------------------------
(* The theorems *)

LEMMA StepIInv == IInv /\ [Next]_vars => IInv'
<1> SUFFICES ASSUME IInv, [Next]_vars PROVE IInv'
  OBVIOUS
<1>1. CASE Heartbeat
  BY <1>1, StepHeartbeat
<1>2. ASSUME NEW t \in Topics, Join(t) \/ Leave(t) PROVE IInv'
  BY <1>2, StepJoin, StepLeave
<1>3. ASSUME NEW i \in Ids, Forget(i) \/ \E from \in Peers \cup {Self} : Publish(from, i)
      PROVE  IInv'
  BY <1>3, StepForget, StepPublish
<1>4. ASSUME NEW p \in Peers, Connect(p) \/ RemovePeer(p) \/ Drain(p) \/ doAnnounceRetry(p)
      PROVE  IInv'
  BY <1>4, StepConnect, StepRemovePeer, StepDrain
<1>5. ASSUME NEW p \in Peers, NEW proto \in {"gossip", "flood"}, AddPeer(p, proto) PROVE IInv'
  BY <1>5, StepAddPeer
<1>6. ASSUME NEW p \in Peers, NEW t \in Topics, PeerSubscribes(p, t) PROVE IInv'
  BY <1>6, StepPeerSubscribes
<1>7. ASSUME NEW p \in Peers, NEW ctl \in Controls, HandleRPC(p, ctl) PROVE IInv'
  BY <1>7, StepHandleRPC
<1>8. CASE UNCHANGED vars
  <2>1. CacheTypeOK' /\ CacheExact'
    BY <1>8, CacheStays DEF IInv, TypeOK, vars
  <2>2. TypeOK'
    BY <1>8, <2>1 DEF IInv, TypeOK, vars
  <2> QED
    BY <1>8, <2>1, <2>2 DEF IInv, vars, cacheVars, GossipServable, FanoutExpires, GoneForgotten, joined
<1> QED
  BY <1>1, <1>2, <1>3, <1>4, <1>5, <1>6, <1>7, <1>8 DEF Next

\* The variables of the router and of its cache keep their types.
THEOREM TypeCorrect == Spec => []TypeOK
<1>1. Spec => []IInv
  BY InitIInv, StepIInv, PTL DEF Spec
<1>2. IInv => TypeOK
  BY DEF IInv
<1> QED
  BY <1>1, <1>2, PTL

\* The cache finds exactly the messages of the last HistoryLength heartbeats,
\* each in the slot of its age, but for those that came again meanwhile.
THEOREM Cache == Spec => []CacheExact
<1>1. Spec => []IInv
  BY InitIInv, StepIInv, PTL DEF Spec
<1>2. IInv => CacheExact
  BY DEF IInv
<1> QED
  BY <1>1, <1>2, PTL

\* A peer that is offered a message in IHAVE can be served: no message leaves
\* the cache between the heartbeat that pushes its id and the flush that sends
\* it, unless it was put there again meanwhile.
THEOREM Servable == Spec => []GossipServable
<1>1. Spec => []IInv
  BY InitIInv, StepIInv, PTL DEF Spec
<1>2. IInv => GossipServable
  BY DEF IInv
<1> QED
  BY <1>1, <1>2, PTL

\* No fanout is kept without the clock that removes it, nor beside a mesh.
THEOREM Expires == Spec => []FanoutExpires
<1>1. Spec => []IInv
  BY InitIInv, StepIInv, PTL DEF Spec
<1>2. IInv => FanoutExpires
  BY DEF IInv
<1> QED
  BY <1>1, <1>2, PTL

\* Nothing waits for, is pushed to, or fans out to a peer that the process
\* loop has dropped.
THEOREM Gone == Spec => []GoneForgotten
<1>1. Spec => []IInv
  BY InitIInv, StepIInv, PTL DEF Spec
<1>2. IInv => GoneForgotten
  BY DEF IInv
<1> QED
  BY <1>1, <1>2, PTL

-----------------------------------------------------------------------------
(* What a heartbeat chooses *)

\* The gossip X is pushed.
pushed(L, X) == [L EXCEPT !.ihave = @ \cup X]

\* What a heartbeat chooses: the meshes, the topics g and r that each peer is
\* told about, and the gossip P that is pushed for it.
LEMMA Chosen ==
    ASSUME IInv, Heartbeat
    PROVE  \E g, r \in [Peers -> SUBSET Topics], P \in [Peers -> SUBSET (Topics \X Ids)] :
             /\ \A t \in Topics : mesh'[t] \in maintained(t)
             /\ \A p \in Peers :
                  /\ g[p] \in listed({t \in Topics : p \in mesh'[t] \ mesh[t]})
                  /\ r[p] \in listed({t \in Topics : p \in mesh[t] \ mesh'[t]})
                  /\ link'[p] = sendGraftPrune(p, pushed(flush(p, link[p]), P[p]), mesh', g[p], r[p])
<1>1. PICK E \in SUBSET lastpub, M \in choices(Topics, maintained) :
       \E F \in choices(Topics, LAMBDA t : IF t \in E THEN {{}} ELSE refilled(t)),
          G \in choices(Topics, LAMBDA t : IF t \in joined \cup unexpired(E) THEN gossiping(t) ELSE {{}}),
          g \in choices(Peers, LAMBDA p : listed({t \in Topics : p \in M[t] \ mesh[t]})),
          r \in choices(Peers, LAMBDA p : listed({t \in Topics : p \in mesh[t] \ M[t]})) :
        LET flushed(p) == LET L == flush(p, link[p])
                          IN [L EXCEPT !.ihave = @ \cup pushGossip(p, M, F, G)]
        IN /\ mesh' = M /\ fanout' = F /\ lastpub' = lastpub \ E
           /\ keys' = [keys EXCEPT !.fanout = unexpired(E)]
           /\ link' = [p \in Peers |-> sendGraftPrune(p, flushed(p), M, g[p], r[p])]
  BY DEF Heartbeat
<1>2. PICK F \in choices(Topics, LAMBDA t : IF t \in E THEN {{}} ELSE refilled(t)),
           G \in choices(Topics, LAMBDA t : IF t \in joined \cup unexpired(E) THEN gossiping(t) ELSE {{}}),
           g \in choices(Peers, LAMBDA p : listed({t \in Topics : p \in M[t] \ mesh[t]})),
           r \in choices(Peers, LAMBDA p : listed({t \in Topics : p \in mesh[t] \ M[t]})) :
        LET flushed(p) == LET L == flush(p, link[p])
                          IN [L EXCEPT !.ihave = @ \cup pushGossip(p, M, F, G)]
        IN /\ mesh' = M /\ fanout' = F /\ lastpub' = lastpub \ E
           /\ keys' = [keys EXCEPT !.fanout = unexpired(E)]
           /\ link' = [p \in Peers |-> sendGraftPrune(p, flushed(p), M, g[p], r[p])]
  BY <1>1
<1> DEFINE P == [p \in Peers |-> pushGossip(p, M, F, G)]
<1>3. /\ mesh' = M
      /\ \A p \in Peers :
           link'[p] = sendGraftPrune(p, pushed(flush(p, link[p]), P[p]), M, g[p], r[p])
  BY <1>2 DEF pushed
<1>4. \A t \in Topics : M[t] \in maintained(t)
  BY DEF choices
<1>5. \A p \in Peers : /\ g[p] \in listed({t \in Topics : p \in M[t] \ mesh[t]})
                       /\ r[p] \in listed({t \in Topics : p \in mesh[t] \ M[t]})
  BY DEF choices
<1>6. P \in [Peers -> SUBSET (Topics \X Ids)]
  BY DEF pushGossip
<1>7. g \in [Peers -> SUBSET Topics] /\ r \in [Peers -> SUBSET Topics]
  <2>1. \A p \in Peers : g[p] \in SUBSET Topics /\ r[p] \in SUBSET Topics
    <3>1. TAKE p \in Peers
    <3> QED
      BY <1>5, ListedTopics
  <2>2. g = [p \in Peers |-> g[p]] /\ r = [p \in Peers |-> r[p]]
    BY DEF choices
  <2> QED
    BY <2>1, <2>2
<1> HIDE DEF P
<1>8. /\ \A t \in Topics : mesh'[t] \in maintained(t)
      /\ \A p \in Peers :
           /\ g[p] \in listed({t \in Topics : p \in mesh'[t] \ mesh[t]})
           /\ r[p] \in listed({t \in Topics : p \in mesh[t] \ mesh'[t]})
           /\ link'[p] = sendGraftPrune(p, pushed(flush(p, link[p]), P[p]), mesh', g[p], r[p])
  BY <1>3, <1>4, <1>5
<1> QED
  BY <1>6, <1>7, <1>8, Zenon

-----------------------------------------------------------------------------
(* Degrees *)

LEMMA Degrees == /\ IsFiniteSet(Peers)
                 /\ D \in Nat /\ Dlo \in Nat /\ Dhi \in Nat /\ Dlo <= D /\ D <= Dhi
BY GossipSubAssumption DEF GossipSubAssumption

\* pick takes as many as it may, or all.
LEMMA PickSize ==
    ASSUME NEW C, IsFiniteSet(C), NEW n \in Nat, NEW S \in pick(C, n)
    PROVE  /\ IsFiniteSet(S) /\ Cardinality(S) \in Nat
           /\ Cardinality(S) <= n /\ (Cardinality(S) = n \/ S = C)
<1>1. S \in SUBSET C /\ Cardinality(S) = IF Cardinality(C) < n THEN Cardinality(C) ELSE n
  BY DEF pick
<1>2. IsFiniteSet(S) /\ (Cardinality(C) = Cardinality(S) => S = C)
  BY <1>1, FS_Subset
<1>3. Cardinality(C) \in Nat /\ Cardinality(S) \in Nat
  BY <1>2, FS_CardinalityType
<1> QED
  BY <1>1, <1>2, <1>3

\* A set that is grown has D members, or all there are to be had.
LEMMA GrownSize ==
    ASSUME NEW S, NEW C, IsFiniteSet(S), IsFiniteSet(C), Cardinality(S) <= D,
           NEW T \in grown(S, C)
    PROVE  Cardinality(T) \in Nat /\ Cardinality(T) <= D /\ (Cardinality(T) = D \/ C \subseteq T)
<1> DEFINE n == D - Cardinality(S)
<1>1. Cardinality(S) \in Nat
  BY FS_CardinalityType
<1>2. n \in Nat
  BY <1>1, Degrees
<1>3. PICK A \in pick(C \ S, n) : T = S \cup A
  BY DEF grown
<1>4. IsFiniteSet(C \ S)
  <2>1. C \ S \in SUBSET C
    OBVIOUS
  <2> QED
    BY <2>1, FS_Subset
<1> HIDE DEF n
<1>5. /\ IsFiniteSet(A) /\ Cardinality(A) \in Nat
      /\ Cardinality(A) <= n /\ (Cardinality(A) = n \/ A = C \ S)
  BY <1>2, <1>4, PickSize
<1>6. S \cap A = {}
  BY PickSubset
<1>7. Cardinality(S \cup A) = Cardinality(S) + Cardinality(A) - 0
  BY <1>5, <1>6, FS_Union, FS_EmptySet
<1>8. Cardinality(T) = Cardinality(S) + Cardinality(A)
  BY <1>1, <1>3, <1>5, <1>7
<1>9. Cardinality(A) = n => Cardinality(T) = D
  BY <1>1, <1>8, Degrees DEF n
<1>10. Cardinality(T) \in Nat /\ Cardinality(T) <= D
  BY <1>1, <1>5, <1>8, Degrees DEF n
<1>11. A = C \ S => C \subseteq T
  BY <1>3
<1> QED
  BY <1>5, <1>9, <1>10, <1>11

\* The mesh of a joined topic is within its bounds after a heartbeat.
LEMMA MaintainedDegree ==
    ASSUME IInv, NEW t \in Topics, t \in joined, NEW S \in maintained(t)
    PROVE  /\ Cardinality(S) <= Dhi
           /\ Cardinality(S) >= Dlo \/ getPeers(t) \subseteq S
<1>1. mesh[t] \in SUBSET Peers /\ getPeers(t) \in SUBSET Peers
  BY ChosenKnown DEF IInv, TypeOK
<1>2. /\ IsFiniteSet(mesh[t]) /\ IsFiniteSet(getPeers(t))
      /\ Cardinality(mesh[t]) \in Nat
  BY <1>1, Degrees, FS_Subset, FS_CardinalityType
<1>3. CASE Cardinality(mesh[t]) < Dlo
  <2>1. S \in grown(mesh[t], getPeers(t))
    BY <1>3 DEF maintained
  <2>2. Cardinality(mesh[t]) <= D
    BY <1>2, <1>3, Degrees
  <2>3. /\ Cardinality(S) \in Nat /\ Cardinality(S) <= D
        /\ Cardinality(S) = D \/ getPeers(t) \subseteq S
    BY <1>2, <2>1, <2>2, GrownSize
  <2> QED
    BY <2>3, Degrees
<1>4. CASE ~(Cardinality(mesh[t]) < Dlo) /\ tooMany(mesh[t])
  <2>1. S \in pick(mesh[t], D)
    BY <1>4 DEF maintained
  <2>2. /\ Cardinality(S) \in Nat /\ Cardinality(S) <= D
        /\ Cardinality(S) = D \/ S = mesh[t]
    BY <1>2, <2>1, Degrees, PickSize
  <2> QED
    BY <1>2, <1>4, <2>2, Degrees
<1>5. CASE ~(Cardinality(mesh[t]) < Dlo) /\ ~tooMany(mesh[t])
  <2>1. S = mesh[t]
    BY <1>5 DEF maintained
  <2> QED
    BY <1>2, <1>5, <2>1, Degrees DEF tooMany
<1> QED
  BY <1>3, <1>4, <1>5

LEMMA Always == Spec => []IInv
BY InitIInv, StepIInv, PTL DEF Spec

\* After a heartbeat a mesh has at most Dhi peers, and at least Dlo or all that
\* are to be had, for any peers and any degrees.
THEOREM Degreed == Spec => Degree
<1>1. IInv /\ [Next]_vars =>
        [Heartbeat => \A t \in joined :
            /\ Cardinality(mesh'[t]) <= Dhi
            /\ Cardinality(mesh'[t]) >= Dlo \/ getPeers(t) \subseteq mesh'[t]]_vars
  <2> SUFFICES ASSUME IInv, Heartbeat, NEW t \in joined
               PROVE  /\ Cardinality(mesh'[t]) <= Dhi
                      /\ Cardinality(mesh'[t]) >= Dlo \/ getPeers(t) \subseteq mesh'[t]
    OBVIOUS
  <2>1. t \in Topics
    BY DEF IInv, TypeOK, joined
  <2>2. mesh'[t] \in maintained(t)
    BY <2>1, Chosen
  <2> QED
    BY <2>1, <2>2, MaintainedDegree
<1> QED
  BY <1>1, Always, PTL DEF Spec, Degree

-----------------------------------------------------------------------------
(* Control messages wait only where there is no room *)

\* Nothing is pending, or the channel is full.
Full(L) == L.graft \cup L.prune # {} => L.queue = QueueLen

\* What cannot be put into a channel finds it full.
LEMMA PutFull ==
    ASSUME NEW p \in conn, NEW L \in Links, L.graft = {}, L.prune = {},
           NEW g \in SUBSET Topics, NEW r \in SUBSET Topics
    PROVE  Full(put(p, L, g, r))
<1>1. CASE room(L)
  <2>1. /\ put(p, L, g, r).graft = {} /\ put(p, L, g, r).prune = {}
    BY <1>1 DEF put, Links
  <2> QED
    BY <2>1 DEF Full
<1>2. CASE ~room(L)
  <2>1. L.queue = QueueLen
    BY <1>2, Capacity DEF room, Links
  <2>2. put(p, L, g, r).queue = L.queue
    BY <1>2 DEF put, keep, Links
  <2> QED
    BY <2>1, <2>2 DEF Full
<1> QED
  BY <1>1, <1>2

LEMMA SendFull ==
    ASSUME NEW p \in conn, NEW L \in Links, NEW M,
           NEW g \in SUBSET Topics, NEW r \in SUBSET Topics
    PROVE  Full(sendRPC(p, L, M, g, r))
<1> DEFINE L0 == [L EXCEPT !.graft = {}, !.prune = {}, !.ihave = {}]
           g0 == g \cup {t \in L.graft : fresh(M, p, t)}
           r0 == r \cup {t \in L.prune : ~fresh(M, p, t)}
<1>1. L0 \in Links /\ L0.graft = {} /\ L0.prune = {}
  BY DEF Links
<1>2. g0 \in SUBSET Topics /\ r0 \in SUBSET Topics
  BY DEF Links
<1>3. sendRPC(p, L, M, g, r) = put(p, L0, g0, r0)
  BY DEF sendRPC
<1> HIDE DEF L0, g0, r0
<1> QED
  BY <1>1, <1>2, <1>3, PutFull

\* flush tries everything that is pending.
LEMMA FlushFull ==
    ASSUME NEW p \in Peers, p \in conn, NEW L \in Links
    PROVE  Full(flush(p, L))
<1> DEFINE G == flushGossip(p, L)
           G0 == [G EXCEPT !.graft = {}, !.prune = {}]
           K == put(p, G0, G.graft, G.prune)
           stale == {t \in G.graft : p \notin mesh[t]} \cup {t \in G.prune : p \in mesh[t]}
<1>1. G \in Links
  BY SendLink DEF flushGossip
<1> HIDE DEF G
<1>2. G0 \in Links /\ G0.graft = {} /\ G0.prune = {}
  BY <1>1 DEF Links
<1>3. G.graft \in SUBSET Topics /\ G.prune \in SUBSET Topics
  BY <1>1 DEF Links
<1> HIDE DEF G0
<1>4. K \in Links /\ Full(K)
  BY <1>2, <1>3, PutLink, PutFull
<1>5. flush(p, L) = IF G.graft = {} /\ G.prune = {} THEN G
                    ELSE IF K.queue = G.queue THEN K
                    ELSE [K EXCEPT !.astray = @ \cup stale]
  BY DEF flush, flushControl, G, G0
<1> HIDE DEF K, stale
<1>6. Full([K EXCEPT !.astray = @ \cup stale])
  BY <1>4 DEF Full, Links
<1>7. G.graft = {} /\ G.prune = {} => Full(G)
  BY DEF Full
<1> QED
  BY <1>4, <1>5, <1>6, <1>7

\* Pushed gossip changes nothing else.
LEMMA PushedLink ==
    ASSUME NEW L \in Links, NEW X \in SUBSET (Topics \X Ids)
    PROVE  /\ pushed(L, X) \in Links
           /\ pushed(L, X).queue = L.queue
           /\ pushed(L, X).graft = L.graft /\ pushed(L, X).prune = L.prune
           /\ pushed(L, X).linked = L.linked /\ pushed(L, X).astray = L.astray
BY DEF pushed, Links

\* After a heartbeat a control message is still pending only for a peer whose
\* channel is full.
THEOREM RetriedAll == Spec => Retried
<1>1. IInv /\ [Next]_vars =>
        [Heartbeat => \A p \in conn :
            link'[p].graft \cup link'[p].prune # {} => link'[p].queue = QueueLen]_vars
  <2> SUFFICES ASSUME IInv, Heartbeat, NEW p \in conn PROVE Full(link'[p])
    BY DEF Full
  <2>1. PICK g, r \in [Peers -> SUBSET Topics], P \in [Peers -> SUBSET (Topics \X Ids)] :
          \A q \in Peers :
            link'[q] = sendGraftPrune(q, pushed(flush(q, link[q]), P[q]), mesh', g[q], r[q])
    BY Chosen
  <2>2. p \in Peers /\ link[p] \in Links
    BY DEF IInv, TypeOK
  <2> DEFINE L == pushed(flush(p, link[p]), P[p])
  <2>3. flush(p, link[p]) \in Links /\ Full(flush(p, link[p]))
    BY <2>2, FlushLink, FlushFull
  <2>4. P[p] \in SUBSET (Topics \X Ids) /\ g[p] \in SUBSET Topics /\ r[p] \in SUBSET Topics
    BY <2>2
  <2>5. L \in Links /\ Full(L)
    BY <2>3, <2>4, PushedLink DEF Full
  <2>6. link'[p] = sendGraftPrune(p, L, mesh', g[p], r[p])
    BY <2>1, <2>2
  <2> HIDE DEF L
  <2>7. Full(sendRPC(p, L, mesh', g[p], r[p]))
    BY <2>4, <2>5, SendFull
  <2> QED
    BY <2>5, <2>6, <2>7 DEF sendGraftPrune
<1> QED
  BY <1>1, Always, PTL DEF Spec, Retried

-----------------------------------------------------------------------------
(* Both ends of a mesh link know of it, when lists have one element *)

OneTopic == \A t, u \in Topics : t = u

\* What the peer of the link L has been told of its place in the meshes M, or
\* is going to be told.
Told(M, p, L) ==
    \A t \in Topics :
        /\ p \in M[t] => t \in L.linked \cup L.graft \cup L.astray
        /\ p \notin M[t] /\ t \in L.linked => t \in L.prune \cup L.astray

\* There is a mesh of joined topics only, and everyone has been told.
ToldInv ==
    /\ \A t \in Topics \ joined : mesh[t] = {}
    /\ \A p \in Peers : Told(mesh, p, link[p])

\* With one topic a list is complete.
LEMMA OneListed ==
    ASSUME OneTopic, NEW T \in SUBSET Topics, NEW r \in listed(T)
    PROVE  r = T
BY DEF OneTopic, listed

\* Control messages that are right inform the peer, at once or later.
LEMMA PutTold ==
    ASSUME NEW M, NEW p \in Peers, NEW L \in Links,
           NEW g \in SUBSET Topics, NEW r \in SUBSET Topics,
           p \in conn \/ g = {},
           \A t \in g : p \in M[t],
           \A t \in Topics : p \in M[t] => t \notin r /\ t \in L.linked \cup L.astray \cup g,
           \A t \in Topics : p \notin M[t] /\ t \in L.linked => t \in r \cup L.astray
    PROVE  Told(M, p, put(p, L, g, r))
<1>1. CASE p \notin conn
  <2>1. /\ put(p, L, g, r).linked = L.linked
        /\ put(p, L, g, r).astray = L.astray \cup r
    BY <1>1 DEF put, Links
  <2> QED
    BY <1>1, <2>1 DEF Told
<1>2. CASE p \in conn /\ room(L)
  <2>1. /\ put(p, L, g, r).linked = (L.linked \cup g) \ r
        /\ put(p, L, g, r).astray = L.astray \ (g \cup r)
    BY <1>2 DEF put, Links
  <2> QED
    BY <2>1 DEF Told
<1>3. CASE p \in conn /\ ~room(L)
  <2>1. /\ put(p, L, g, r).linked = L.linked /\ put(p, L, g, r).astray = L.astray
        /\ put(p, L, g, r).graft = g /\ put(p, L, g, r).prune = r
    BY <1>3 DEF put, keep, Links
  <2> QED
    BY <2>1 DEF Told
<1> QED
  BY <1>1, <1>2, <1>3

\* What is piggybacked is right, because stale messages are left out.
LEMMA SendTold ==
    ASSUME NEW M, NEW p \in Peers, NEW L \in Links,
           NEW g \in SUBSET Topics, NEW r \in SUBSET Topics,
           p \in conn \/ (g = {} /\ L.graft = {}),
           \A t \in g : p \in M[t],
           \A t \in Topics : p \in M[t] =>
                t \notin r /\ t \in L.linked \cup L.graft \cup L.astray \cup g,
           \A t \in Topics : p \notin M[t] /\ t \in L.linked =>
                t \in L.prune \cup L.astray \cup r
    PROVE  Told(M, p, sendRPC(p, L, M, g, r))
<1> DEFINE L0 == [L EXCEPT !.graft = {}, !.prune = {}, !.ihave = {}]
           g0 == g \cup {t \in L.graft : fresh(M, p, t)}
           r0 == r \cup {t \in L.prune : ~fresh(M, p, t)}
<1>1. L0 \in Links /\ L0.linked = L.linked /\ L0.astray = L.astray
  BY DEF Links
<1>2. g0 \in SUBSET Topics /\ r0 \in SUBSET Topics
  BY DEF Links
<1>3. p \in conn \/ g0 = {}
  OBVIOUS
<1>4. \A t \in g0 : p \in M[t]
  BY DEF fresh
<1>5. \A t \in Topics : p \in M[t] => t \notin r0 /\ t \in L0.linked \cup L0.astray \cup g0
  BY <1>1 DEF fresh
<1>6. \A t \in Topics : p \notin M[t] /\ t \in L0.linked => t \in r0 \cup L0.astray
  BY <1>1 DEF fresh
<1>7. sendRPC(p, L, M, g, r) = put(p, L0, g0, r0)
  BY DEF sendRPC
<1> HIDE DEF L0, g0, r0
<1> QED
  BY <1>1, <1>2, <1>3, <1>4, <1>5, <1>6, <1>7, PutTold

\* flush sends what is stale, too, and the peer is astray then.
LEMMA FlushTold ==
    ASSUME NEW p \in Peers, NEW L \in Links, Told(mesh, p, L), p \in conn \/ L.graft = {}
    PROVE  Told(mesh, p, flush(p, L))
<1> DEFINE G == flushGossip(p, L)
           G0 == [G EXCEPT !.graft = {}, !.prune = {}]
           K == put(p, G0, G.graft, G.prune)
           stale == {t \in G.graft : p \notin mesh[t]} \cup {t \in G.prune : p \in mesh[t]}
<1>1. G \in Links /\ Told(mesh, p, G) /\ (p \in conn \/ G.graft = {})
  <2>1. CASE L.ihave = {}
    BY <2>1 DEF flushGossip
  <2>2. CASE L.ihave # {}
    <3>1. G = sendRPC(p, L, mesh, {}, {})
      BY <2>2 DEF flushGossip
    <3>2. Told(mesh, p, sendRPC(p, L, mesh, {}, {}))
      BY SendTold DEF Told
    <3>3. /\ sendRPC(p, L, mesh, {}, {}) \in Links
          /\ p \notin conn => sendRPC(p, L, mesh, {}, {}).graft = {}
      BY SendLink
    <3> HIDE DEF G
    <3> QED
      BY <3>1, <3>2, <3>3
  <2> QED
    BY <2>1, <2>2
<1>2. flush(p, L) = IF G.graft = {} /\ G.prune = {} THEN G
                    ELSE IF K.queue = G.queue THEN K
                    ELSE [K EXCEPT !.astray = @ \cup stale]
  BY DEF flush, flushControl
<1> HIDE DEF G
<1>3. /\ G0 \in Links /\ G0.queue = G.queue /\ G0.linked = G.linked /\ G0.astray = G.astray
      /\ G.graft \in SUBSET Topics /\ G.prune \in SUBSET Topics
  BY <1>1 DEF Links
<1> HIDE DEF G0
<1>4. K \in Links
  BY <1>3, PutLink
<1>5. CASE p \notin conn
  <2>1. K.linked = G.linked /\ K.astray = G.astray \cup G.prune /\ K.queue = G.queue
    BY <1>3, <1>5 DEF put, Links
  <2> HIDE DEF K
  <2>2. Told(mesh, p, K)
    BY <1>1, <1>5, <2>1 DEF Told
  <2> QED
    BY <1>1, <1>2, <2>1, <2>2
<1>6. CASE p \in conn /\ room(G0)
  <2>1. /\ K.linked = (G.linked \cup G.graft) \ G.prune
        /\ K.astray = G.astray \ (G.graft \cup G.prune)
        /\ K.queue = G.queue + 1
    BY <1>3, <1>6 DEF put, Links
  <2>2. K.queue # G.queue
    BY <1>3, <2>1, Capacity DEF Links
  <2> HIDE DEF K
  <2>3. /\ [K EXCEPT !.astray = @ \cup stale].linked = K.linked
        /\ [K EXCEPT !.astray = @ \cup stale].astray = K.astray \cup stale
    BY <1>4 DEF Links
  <2>4. Told(mesh, p, [K EXCEPT !.astray = @ \cup stale])
    BY <1>1, <2>1, <2>3 DEF Told
  <2> HIDE DEF stale
  <2> QED
    BY <1>1, <1>2, <2>2, <2>4
<1>7. CASE p \in conn /\ ~room(G0)
  <2>1. /\ K.linked = G.linked /\ K.astray = G.astray /\ K.queue = G.queue
        /\ K.graft = G.graft /\ K.prune = G.prune
    BY <1>3, <1>7 DEF put, keep, Links
  <2> HIDE DEF K
  <2>2. Told(mesh, p, K)
    BY <1>1, <2>1 DEF Told
  <2> QED
    BY <1>1, <1>2, <2>1, <2>2
<1> QED
  BY <1>5, <1>6, <1>7

\* What a peer has been told depends on its link and its place in the meshes.
LEMMA ToldSame ==
    ASSUME NEW M, NEW N, NEW p, NEW L, NEW K, Told(M, p, L),
           \A t \in Topics : p \in N[t] <=> p \in M[t],
           K.linked = L.linked, K.graft = L.graft, K.prune = L.prune, K.astray = L.astray
    PROVE  Told(N, p, K)
BY DEF Told

\* Pending control messages of a peer that is gone are none.
LEMMA GonePending ==
    ASSUME IInv, NEW p \in Peers
    PROVE  link[p] \in Links /\ (p \in conn \/ link[p].graft = {})
BY DEF IInv, TypeOK, GoneForgotten

\* An announcement says nothing of the mesh.
LEMMA AnnouncedTold ==
    ASSUME NEW p, link[p] \in Links
    PROVE  /\ announced(p).linked = link[p].linked /\ announced(p).astray = link[p].astray
BY DEF announced, Links

\* Handlers that do not touch the mesh and only count what is in channels.
LEMMA CountingTold ==
    ASSUME IInv, ToldInv, NEW p \in Peers,
           \/ Connect(p) \/ Drain(p) \/ doAnnounceRetry(p)
           \/ \E t \in Topics : PeerSubscribes(p, t)
           \/ \E proto \in {"gossip", "flood"} : AddPeer(p, proto)
    PROVE  ToldInv'
<1>1. UNCHANGED mesh /\ keys'.mesh = keys.mesh
  BY DEF Connect, Drain, doAnnounceRetry, PeerSubscribes, AddPeer, IInv, TypeOK
<1>2. ASSUME NEW q \in Peers PROVE
        /\ link'[q].linked = link[q].linked /\ link'[q].graft = link[q].graft
        /\ link'[q].prune = link[q].prune /\ link'[q].astray = link[q].astray
  <2>1. link \in [Peers -> Links]
    BY DEF IInv, TypeOK
  <2>2. CASE UNCHANGED link
    BY <2>2
  <2>3. CASE Connect(p) \/ Drain(p)
    BY <2>1, <2>3 DEF Connect, Drain, Links
  <2>4. CASE doAnnounceRetry(p)
    BY <2>1, <2>4, AnnouncedTold, AnnouncedLink DEF doAnnounceRetry
  <2> QED
    BY <2>2, <2>3, <2>4 DEF PeerSubscribes, AddPeer
<1>3. \A q \in Peers : Told(mesh', q, link'[q])
  BY <1>1, <1>2, ToldSame DEF ToldInv
<1> QED
  BY <1>1, <1>3 DEF ToldInv, joined

LEMMA RemoveTold == ASSUME IInv, ToldInv, NEW p \in Peers, RemovePeer(p) PROVE ToldInv'
<1>1. \A t \in Topics : mesh'[t] = mesh[t] \ {p}
  BY DEF RemovePeer, without
<1>2. \A q \in Peers : link'[q] = IF q = p THEN NoLink ELSE link[q]
  BY DEF IInv, TypeOK, RemovePeer
<1>3. Told(mesh', p, link'[p])
  BY <1>1, <1>2 DEF Told, NoLink
<1>4. \A q \in Peers \ {p} : Told(mesh', q, link'[q])
  BY <1>1, <1>2, ToldSame DEF ToldInv
<1> QED
  BY <1>1, <1>3, <1>4 DEF ToldInv, RemovePeer, joined

LEMMA PublishTold ==
    ASSUME IInv, ToldInv, NEW i \in Ids, NEW from \in Peers \cup {Self}, Publish(from, i)
    PROVE  ToldInv'
<1>1. UNCHANGED mesh /\ keys'.mesh = keys.mesh
  BY DEF Publish, IInv, TypeOK
<1>2. ASSUME NEW q \in Peers PROVE Told(mesh, q, link'[q])
  <2>1. link'[q] = link[q] \/ link'[q] = sendRPC(q, link[q], mesh, {}, {})
    BY DEF Publish
  <2>2. Told(mesh, q, sendRPC(q, link[q], mesh, {}, {}))
    BY GonePending, SendTold DEF ToldInv, Told
  <2> QED
    BY <2>1, <2>2 DEF ToldInv
<1> QED
  BY <1>1, <1>2 DEF ToldInv, joined

LEMMA JoinTold == ASSUME IInv, ToldInv, NEW t \in Topics, Join(t) PROVE ToldInv'
<1>1. /\ \A u \in Topics \ {t} : mesh'[u] = mesh[u]
      /\ \A q \in mesh'[t] : q \in Peers /\ q \in conn
  <2>1. \A S \in pick(getPeers(t), D) : \A q \in S : q \in Peers /\ q \in conn
    BY PickSubset, ChosenKnown
  <2>2. \A q \in fanout[t] : q \in Peers /\ q \in conn
    BY DEF IInv, TypeOK, GoneForgotten
  <2> QED
    BY <2>1, <2>2 DEF Join, IInv, TypeOK
<1>2. mesh[t] = {} /\ keys'.mesh = keys.mesh \cup {t}
  BY DEF ToldInv, Join, IInv, TypeOK
<1>3. ASSUME NEW q \in Peers PROVE Told(mesh', q, link'[q])
  <2>1. /\ announced(q) \in Links
        /\ announced(q).graft = link[q].graft /\ announced(q).prune = link[q].prune
        /\ announced(q).linked = link[q].linked /\ announced(q).astray = link[q].astray
    BY GonePending, AnnouncedLink, AnnouncedTold
  <2>2. link'[q] = IF q \in mesh'[t] THEN sendRPC(q, announced(q), mesh', {t}, {})
                   ELSE announced(q)
    BY DEF Join
  <2>3. CASE q \in mesh'[t]
    <3>1. q \in conn
      BY <1>1, <2>3
    <3>2. Told(mesh, q, announced(q))
      BY <2>1, ToldSame DEF ToldInv
    <3>3. Told(mesh', q, sendRPC(q, announced(q), mesh', {t}, {}))
      BY <1>1, <2>1, <2>3, <3>1, <3>2, SendTold DEF Told
    <3> QED
      BY <2>2, <2>3, <3>3
  <2>4. CASE q \notin mesh'[t]
    BY <1>1, <1>2, <2>1, <2>2, <2>4, ToldSame DEF ToldInv
  <2> QED
    BY <2>3, <2>4
<1> QED
  BY <1>1, <1>2, <1>3 DEF ToldInv, joined

LEMMA LeaveTold == ASSUME IInv, ToldInv, NEW t \in Topics, Leave(t) PROVE ToldInv'
<1>1. mesh'[t] = {} /\ \A u \in Topics \ {t} : mesh'[u] = mesh[u]
  BY DEF Leave, IInv, TypeOK
<1>2. keys'.mesh = keys.mesh \ {t}
  BY DEF Leave, IInv, TypeOK
<1>3. ASSUME NEW q \in Peers PROVE Told(mesh', q, link'[q])
  <2>1. /\ announced(q) \in Links /\ (q \in conn \/ announced(q).graft = {})
        /\ announced(q).graft = link[q].graft /\ announced(q).prune = link[q].prune
        /\ announced(q).linked = link[q].linked /\ announced(q).astray = link[q].astray
    BY GonePending, AnnouncedLink, AnnouncedTold
  <2>2. link'[q] = IF q \in mesh[t] THEN sendRPC(q, announced(q), mesh', {}, {t})
                   ELSE announced(q)
    BY DEF Leave
  <2>3. CASE q \in mesh[t]
    <3>1. Told(mesh, q, announced(q))
      BY <2>1, ToldSame DEF ToldInv
    <3>2. Told(mesh', q, sendRPC(q, announced(q), mesh', {}, {t}))
      BY <1>1, <2>1, <2>3, <3>1, SendTold DEF Told
    <3> QED
      BY <2>2, <2>3, <3>2
  <2>4. CASE q \notin mesh[t]
    BY <1>1, <2>1, <2>2, <2>4, ToldSame DEF ToldInv
  <2> QED
    BY <2>3, <2>4
<1> QED
  BY <1>1, <1>2, <1>3 DEF ToldInv, joined

\* A peer that grafts or prunes knows what it said, and is told of a refusal.
LEMMA HandleTold ==
    ASSUME OneTopic, IInv, ToldInv, NEW p \in Peers, NEW ctl \in Controls, HandleRPC(p, ctl)
    PROVE  ToldInv'
<1> DEFINE refused == ctl.graft \ joined
           L == [link[p] EXCEPT !.linked = (@ \cup ctl.graft) \ ctl.prune,
                                !.astray = @ \ (ctl.graft \cup ctl.prune)]
<1>1. /\ ctl.graft \in SUBSET Topics /\ ctl.prune \in SUBSET Topics
      /\ link \in [Peers -> Links]
  BY GossipSubAssumption DEF GossipSubAssumption, IInv, TypeOK
<1>2. /\ L \in Links /\ L.graft = link[p].graft /\ L.prune = link[p].prune
      /\ L.linked = (link[p].linked \cup ctl.graft) \ ctl.prune
      /\ L.astray = link[p].astray \ (ctl.graft \cup ctl.prune)
  BY <1>1 DEF Links
<1>3. mesh' = [t \in Topics |-> IF t \in ctl.prune THEN mesh[t] \ {p}
                                ELSE IF t \in ctl.graft \cap joined THEN mesh[t] \cup {p}
                                ELSE mesh[t]]
  BY DEF HandleRPC
<1>4. /\ \A q \in Peers \ {p} : link'[q] = link[q]
      /\ \/ refused = {} /\ link'[p] = L
         \/ \E r \in listed(refused) : link'[p] = sendRPC(p, L, mesh', {}, r)
  BY <1>1 DEF HandleRPC
<1>5. \A t \in Topics \ joined : mesh'[t] = {}
  BY <1>3 DEF ToldInv
<1> HIDE DEF L
<1>6. Told(mesh', p, link'[p])
  <2>1. CASE refused = {} /\ link'[p] = L
    BY <1>2, <1>3, <2>1 DEF Told, ToldInv
  <2>2. CASE \E r \in listed(refused) : link'[p] = sendRPC(p, L, mesh', {}, r)
    <3>1. refused \in SUBSET Topics
      BY <1>1
    <3>2. link'[p] = sendRPC(p, L, mesh', {}, refused)
      BY <2>2, <3>1, OneListed
    <3>3. p \in conn \/ L.graft = {}
      BY <1>2, GonePending
    <3>4. ASSUME NEW t \in Topics, p \in mesh'[t]
          PROVE  t \notin refused /\ t \in L.linked \cup L.graft \cup L.astray
      <4>1. t \in joined
        BY <1>5, <3>4
      <4> QED
        BY <1>2, <1>3, <3>4, <4>1 DEF Told, ToldInv
    <3>5. ASSUME NEW t \in Topics, p \notin mesh'[t], t \in L.linked
          PROVE  t \in L.prune \cup L.astray \cup refused
      BY <1>2, <1>3, <3>5 DEF Told, ToldInv
    <3> HIDE DEF refused
    <3>6. Told(mesh', p, sendRPC(p, L, mesh', {}, refused))
      BY <1>2, <3>1, <3>3, <3>4, <3>5, SendTold
    <3> QED
      BY <3>2, <3>6
  <2> QED
    BY <1>4, <2>1, <2>2
<1>7. ASSUME NEW q \in Peers \ {p} PROVE Told(mesh', q, link'[q])
  BY <1>3, <1>4, ToldSame DEF ToldInv
<1> QED
  BY <1>5, <1>6, <1>7 DEF ToldInv, HandleRPC, joined

\* A heartbeat tells every peer whose place it changes.
LEMMA HeartbeatTold == ASSUME OneTopic, IInv, ToldInv, Heartbeat PROVE ToldInv'
<1>1. PICK g, r \in [Peers -> SUBSET Topics], P \in [Peers -> SUBSET (Topics \X Ids)] :
        /\ \A t \in Topics : mesh'[t] \in maintained(t)
        /\ \A p \in Peers :
             /\ g[p] \in listed({t \in Topics : p \in mesh'[t] \ mesh[t]})
             /\ r[p] \in listed({t \in Topics : p \in mesh[t] \ mesh'[t]})
             /\ link'[p] = sendGraftPrune(p, pushed(flush(p, link[p]), P[p]), mesh', g[p], r[p])
  BY Chosen
<1>2. keys'.mesh = keys.mesh
  BY DEF Heartbeat, IInv, TypeOK
<1>3. \A t \in Topics \ joined : mesh'[t] = {}
  BY <1>1 DEF maintained
<1>4. ASSUME NEW t \in Topics, NEW p \in mesh'[t] \ mesh[t] PROVE p \in conn
  BY <1>1, MaintainedSubset, ChosenKnown
<1>5. ASSUME NEW p \in Peers PROVE Told(mesh', p, link'[p])
  <2> DEFINE x == {t \in Topics : p \in mesh'[t] \ mesh[t]}
             y == {t \in Topics : p \in mesh[t] \ mesh'[t]}
             K == flush(p, link[p])
             L == pushed(K, P[p])
  <2>1. x \in SUBSET Topics /\ y \in SUBSET Topics
    OBVIOUS
  <2>2. link'[p] = sendGraftPrune(p, L, mesh', g[p], r[p])
    BY <1>1
  <2>3. g[p] \in listed(x) /\ r[p] \in listed(y)
    BY <1>1
  <2>4. /\ \A t \in Topics : t \in x <=> p \in mesh'[t] \ mesh[t]
        /\ \A t \in Topics : t \in y <=> p \in mesh[t] \ mesh'[t]
    OBVIOUS
  <2>5. x # {} => p \in conn
    BY <1>4
  <2> HIDE DEF x, y
  <2>6. g[p] = x /\ r[p] = y
    BY <2>1, <2>3, OneListed
  <2>7. K \in Links /\ Told(mesh, p, K) /\ (p \in conn \/ K.graft = {})
    BY GonePending, FlushLink, FlushTold DEF ToldInv, IInv, GoneForgotten
  <2> HIDE DEF K
  <2>8. P[p] \in SUBSET (Topics \X Ids)
    OBVIOUS
  <2>9. /\ L \in Links /\ L.linked = K.linked /\ L.astray = K.astray
        /\ L.graft = K.graft /\ L.prune = K.prune
    BY <2>7, <2>8, PushedLink
  <2> HIDE DEF L
  <2>10. CASE x \cup y = {}
    <3>1. \A t \in Topics : p \in mesh'[t] <=> p \in mesh[t]
      BY <2>4, <2>10
    <3>2. link'[p] = L
      BY <2>2, <2>6, <2>10 DEF sendGraftPrune
    <3> QED
      BY <2>7, <2>9, <3>1, <3>2, ToldSame
  <2>11. CASE x \cup y # {}
    <3>1. link'[p] = sendRPC(p, L, mesh', x, y)
      BY <2>2, <2>6, <2>11 DEF sendGraftPrune
    <3>2. /\ \A t \in x : p \in mesh'[t]
          /\ \A t \in Topics : p \in mesh'[t] =>
                t \notin y /\ t \in L.linked \cup L.graft \cup L.astray \cup x
          /\ \A t \in Topics : p \notin mesh'[t] /\ t \in L.linked =>
                t \in L.prune \cup L.astray \cup y
      BY <2>1, <2>4, <2>7, <2>9 DEF Told
    <3>3. p \in conn \/ (x = {} /\ L.graft = {})
      BY <2>5, <2>7, <2>9
    <3>4. Told(mesh', p, sendRPC(p, L, mesh', x, y))
      BY <2>1, <2>9, <3>2, <3>3, SendTold
    <3> QED
      BY <3>1, <3>4
  <2> QED
    BY <2>10, <2>11
<1> QED
  BY <1>2, <1>3, <1>5 DEF ToldInv, joined

LEMMA InitTold == Init => ToldInv
BY DEF Init, ToldInv, Told, NoLink

LEMMA StepTold == OneTopic /\ IInv /\ ToldInv /\ [Next]_vars => ToldInv'
<1> SUFFICES ASSUME OneTopic, IInv, ToldInv, [Next]_vars PROVE ToldInv'
  OBVIOUS
<1>1. CASE Heartbeat
  BY <1>1, HeartbeatTold
<1>2. ASSUME NEW t \in Topics, Join(t) \/ Leave(t) PROVE ToldInv'
  BY <1>2, JoinTold, LeaveTold
<1>3. ASSUME NEW i \in Ids, Forget(i) PROVE ToldInv'
  BY <1>3 DEF Forget, ToldInv, joined
<1>4. ASSUME NEW i \in Ids, NEW from \in Peers \cup {Self}, Publish(from, i) PROVE ToldInv'
  BY <1>4, PublishTold
<1>5. ASSUME NEW p \in Peers,
             Connect(p) \/ Drain(p) \/ doAnnounceRetry(p)
             \/ (\E t \in Topics : PeerSubscribes(p, t))
             \/ \E proto \in {"gossip", "flood"} : AddPeer(p, proto)
      PROVE  ToldInv'
  BY <1>5, CountingTold
<1>6. ASSUME NEW p \in Peers, RemovePeer(p) PROVE ToldInv'
  BY <1>6, RemoveTold
<1>7. ASSUME NEW p \in Peers, NEW ctl \in Controls, HandleRPC(p, ctl) PROVE ToldInv'
  BY <1>7, HandleTold
<1>8. CASE UNCHANGED vars
  BY <1>8 DEF vars, ToldInv, joined
<1> QED
  BY <1>1, <1>2, <1>3, <1>4, <1>5, <1>6, <1>7, <1>8 DEF Next

LEMMA ToldAlways == ASSUME OneTopic PROVE Spec => []ToldInv
<1>1. IInv /\ ToldInv /\ [Next]_vars => ToldInv'
  BY StepTold
<1> QED
  BY <1>1, InitTold, Always, PTL DEF Spec

LEMMA ToldBoth == IInv /\ ToldInv => GraftHeard /\ PruneHeard
BY DEF IInv, TypeOK, ToldInv, Told, GraftHeard, PruneHeard

\* With one topic, a peer in the mesh has grafted us, or was sent a GRAFT, or
\* will be, for any number of peers and any capacity of their channels.
THEOREM GraftTold == ASSUME OneTopic PROVE Spec => []GraftHeard
<1>1. IInv /\ ToldInv => GraftHeard
  BY ToldBoth
<1> QED
  BY <1>1, Always, ToldAlways, PTL

\* With one topic, a peer that left the mesh was told so, or will be, unless a
\* stale GRAFT led it astray.
THEOREM PruneTold == ASSUME OneTopic PROVE Spec => []PruneHeard
<1>1. IInv /\ ToldInv => PruneHeard
  BY ToldBoth
<1> QED
  BY <1>1, Always, ToldAlways, PTL
=============================================================================
