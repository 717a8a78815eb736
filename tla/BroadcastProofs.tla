--------------------------- MODULE BroadcastProofs ---------------------------
(***************************************************************************)
(* Proofs about Broadcast, for every network of nodes with any mixture of  *)
(* the two routers, any subscriptions and messages, every capacity and     *)
(* every RandomSubD: messages do not circulate, nobody is left out but by  *)
(* the choice of a random router or a full channel, and the network        *)
(* implements Dissemination.                                               *)
(***************************************************************************)
EXTENDS Broadcast, TLAPS

(***************************************************************************)
(* The inductive invariant. Known: a message on a link, and a mark in the  *)
(* time cache, come from nodes that have the message, and its author has   *)
(* it. Views: what a node is subscribed to, its neighbours know.           *)
(***************************************************************************)
Known ==
    /\ \A n \in Nodes : seen[n] \subseteq has[n]
    /\ \A n \in Nodes : \A m \in has[n] : m \in has[Source[m]]
    /\ \A l \in Links, m \in Msgs : onLink(m, l) => m \in has[l[1]]

Views == \A l \in Links : myTopics[l[2]] \subseteq topics[l]

IInv == TypeOK /\ Known /\ Views /\ SentOnce /\ Handed

-----------------------------------------------------------------------------
(* Sequences of messages *)

LEMMA OnTail ==
    ASSUME NEW q \in Seq(Msgs), q # <<>>
    PROVE  /\ Head(q) \in Msgs /\ Tail(q) \in Seq(Msgs) /\ Len(Tail(q)) <= Len(q)
           /\ \A m : (\E i \in DOMAIN Tail(q) : Tail(q)[i] = m) => \E i \in DOMAIN q : q[i] = m
           /\ \A m : (\E i \in DOMAIN q : q[i] = m) =>
                        m = Head(q) \/ \E i \in DOMAIN Tail(q) : Tail(q)[i] = m
           /\ \E i \in DOMAIN q : q[i] = Head(q)
<1>1. Len(q) \in Nat \ {0} /\ DOMAIN q = 1..Len(q) /\ Head(q) = q[1]
  OBVIOUS
<1>2. /\ Len(Tail(q)) = Len(q) - 1 /\ DOMAIN Tail(q) = 1..(Len(q) - 1)
      /\ \A i \in 1..(Len(q) - 1) : Tail(q)[i] = q[i + 1]
  BY <1>1
<1>3. ASSUME NEW m, NEW i \in DOMAIN Tail(q), Tail(q)[i] = m PROVE \E j \in DOMAIN q : q[j] = m
  <2>1. i + 1 \in DOMAIN q /\ q[i + 1] = m
    BY <1>1, <1>2, <1>3
  <2> QED
    BY <2>1
<1>4. ASSUME NEW m, NEW i \in DOMAIN q, q[i] = m, m # Head(q)
      PROVE  \E j \in DOMAIN Tail(q) : Tail(q)[j] = m
  <2>1. i - 1 \in 1..(Len(q) - 1)
    BY <1>1, <1>4
  <2>2. Tail(q)[i - 1] = m
    BY <1>1, <1>2, <1>4, <2>1
  <2> QED
    BY <1>2, <2>1, <2>2
<1>5. Tail(q) \in Seq(Msgs) /\ Head(q) \in Msgs
  OBVIOUS
<1> QED
  BY <1>1, <1>2, <1>3, <1>4, <1>5

LEMMA OnAppend ==
    ASSUME NEW q \in Seq(Msgs), NEW m \in Msgs
    PROVE  /\ Append(q, m) \in Seq(Msgs) /\ Len(Append(q, m)) = Len(q) + 1
           /\ \A k : (\E i \in DOMAIN Append(q, m) : Append(q, m)[i] = k)
                        <=> k = m \/ \E i \in DOMAIN q : q[i] = k
<1>1. Len(q) \in Nat /\ DOMAIN q = 1..Len(q)
  OBVIOUS
<1>2. /\ DOMAIN Append(q, m) = 1..(Len(q) + 1) /\ Append(q, m)[Len(q) + 1] = m
      /\ \A i \in 1..Len(q) : Append(q, m)[i] = q[i]
  BY <1>1
<1>3. ASSUME NEW k PROVE (\E i \in DOMAIN Append(q, m) : Append(q, m)[i] = k)
                            <=> k = m \/ \E i \in DOMAIN q : q[i] = k
  <2>1. Len(q) + 1 \in DOMAIN Append(q, m)
    BY <1>1, <1>2
  <2>2. \A i \in DOMAIN q : i \in DOMAIN Append(q, m)
    BY <1>1, <1>2
  <2>3. \A i \in DOMAIN Append(q, m) : i = Len(q) + 1 \/ i \in DOMAIN q
    BY <1>1, <1>2
  <2> QED
    BY <1>1, <1>2, <2>1, <2>2, <2>3
<1>4. Append(q, m) \in Seq(Msgs) /\ Len(Append(q, m)) = Len(q) + 1
  OBVIOUS
<1> QED
  BY <1>3, <1>4

-----------------------------------------------------------------------------
(* The links, before and after a message is received *)

Channels(c) ==
    c \in [Links -> Seq(Msgs)] /\ \A l \in Links : Len(c[l]) <= Capacity

on(c, m, l) == \E i \in DOMAIN c[l] : c[l][i] = m

\* c is what remains after n has received m from p
Taken(c, p, n, m) ==
    /\ Channels(c) /\ m \in Msgs /\ p \in Nodes /\ <<p, n>> \in Links /\ onLink(m, <<p, n>>)
    /\ \A l \in Links, k \in Msgs : on(c, k, l) => onLink(k, l)
    /\ \A l \in Links, k \in Msgs : onLink(k, l) => on(c, k, l) \/ (l = <<p, n>> /\ k = m)

LEMMA Receiving ==
    ASSUME TypeOK, NEW p \in Nodes, NEW n \in Nodes, <<p, n>> \in Links, chan[<<p, n>>] # <<>>
    PROVE  Taken([chan EXCEPT ![<<p, n>>] = Tail(@)], p, n, Head(chan[<<p, n>>]))
<1> DEFINE q == chan[<<p, n>>]
           c == [chan EXCEPT ![<<p, n>>] = Tail(@)]
<1>1. q \in Seq(Msgs) /\ q # <<>> /\ Len(q) <= Capacity /\ Len(q) \in Nat
  BY DEF TypeOK
<1>0. Capacity \in Nat
  BY BroadcastAssumption DEF BroadcastAssumption
<1> HIDE DEF q
<1>2. /\ Head(q) \in Msgs /\ Tail(q) \in Seq(Msgs) /\ Len(Tail(q)) <= Capacity
      /\ \A m : (\E i \in DOMAIN Tail(q) : Tail(q)[i] = m) => \E i \in DOMAIN q : q[i] = m
      /\ \A m : (\E i \in DOMAIN q : q[i] = m) =>
                   m = Head(q) \/ \E i \in DOMAIN Tail(q) : Tail(q)[i] = m
      /\ \E i \in DOMAIN q : q[i] = Head(q)
  <2>1. Len(Tail(q)) <= Len(q) /\ Len(Tail(q)) \in Nat
    BY <1>1, OnTail
  <2>2. Len(Tail(q)) <= Capacity
    BY <1>0, <1>1, <2>1
  <2> QED
    BY <1>1, <2>2, OnTail
<1>3. c[<<p, n>>] = Tail(q) /\ \A l \in Links \ {<<p, n>>} : c[l] = chan[l]
  BY DEF TypeOK, q
<1>4. Channels(c)
  <2>1. \A s \in Seq(Msgs) : [chan EXCEPT ![<<p, n>>] = s] \in [Links -> Seq(Msgs)]
    BY DEF TypeOK
  <2>2. c = [chan EXCEPT ![<<p, n>>] = Tail(q)]
    BY DEF q
  <2>3. c \in [Links -> Seq(Msgs)]
    BY <1>2, <2>1, <2>2
  <2> HIDE DEF c
  <2> QED
    BY <1>2, <1>3, <2>3 DEF TypeOK, Channels
<1>5. /\ \A l \in Links, k \in Msgs : on(c, k, l) => onLink(k, l)
      /\ \A l \in Links, k \in Msgs : onLink(k, l) => on(c, k, l) \/ (l = <<p, n>> /\ k = Head(q))
  <2> HIDE DEF c
  <2>1. ASSUME NEW l \in Links, NEW k, l # <<p, n>> PROVE on(c, k, l) <=> onLink(k, l)
    BY <1>3, <2>1 DEF on, onLink
  <2>2. ASSUME NEW k PROVE /\ on(c, k, <<p, n>>) => onLink(k, <<p, n>>)
                           /\ onLink(k, <<p, n>>) => k = Head(q) \/ on(c, k, <<p, n>>)
    <3>1. on(c, k, <<p, n>>) <=> \E i \in DOMAIN Tail(q) : Tail(q)[i] = k
      BY <1>3 DEF on
    <3>2. onLink(k, <<p, n>>) <=> \E i \in DOMAIN q : q[i] = k
      BY DEF onLink, q
    <3> QED
      BY <1>2, <3>1, <3>2
  <2> QED
    BY <2>1, <2>2
<1>6. onLink(Head(q), <<p, n>>)
  BY <1>2 DEF onLink, q
<1> HIDE DEF c
<1>7. Taken(c, p, n, Head(q))
  BY <1>2, <1>4, <1>5, <1>6 DEF Taken
<1> QED
  BY <1>7 DEF c, q

\* What Publish of a router does to a link.
LEMMA Sent ==
    ASSUME NEW c, Channels(c), NEW n \in Nodes, NEW m \in Msgs, NEW S \in SUBSET Nodes,
           TypeOK, send(c, n, m, S)
    PROVE  /\ Channels(chan') /\ sends' \in [Links -> [Msgs -> Nat]] /\ dropped \subseteq dropped'
           /\ \A l \in Links, k \in Msgs : sends'[l][k] =
                IF k = m /\ l[1] = n /\ l[2] \in S /\ room(c[l]) THEN sends[l][k] + 1 ELSE sends[l][k]
           /\ \A p \in S : <<n, p>> \in Links => room(c[<<n, p>>]) \/ <<<<n, p>>, m>> \in dropped'
           /\ \A l \in Links, k \in Msgs : onLink(k, l)' <=>
                on(c, k, l) \/ (k = m /\ l[1] = n /\ l[2] \in S /\ room(c[l]))
<1> DEFINE out == {<<n, p>> : p \in S}
           f(l) == IF l \in out /\ room(c[l]) THEN Append(c[l], m) ELSE c[l]
           g(l) == IF l \in out /\ room(c[l]) THEN [sends[l] EXCEPT ![m] = @ + 1] ELSE sends[l]
<1>1. \A l \in Links : l \in Nodes \X Nodes /\ (l \in out <=> l[1] = n /\ l[2] \in S)
  BY BroadcastAssumption DEF BroadcastAssumption
<1>2. chan' = [l \in Links |-> f(l)] /\ sends' = [l \in Links |-> g(l)]
  BY DEF send
<1>3. /\ dropped \subseteq dropped'
      /\ \A p \in S : <<n, p>> \in Links => room(c[<<n, p>>]) \/ <<<<n, p>>, m>> \in dropped'
  BY DEF send
<1>4. \A l \in Links : f(l) \in Seq(Msgs) /\ Len(f(l)) <= Capacity
  <2> SUFFICES ASSUME NEW l \in Links PROVE f(l) \in Seq(Msgs) /\ Len(f(l)) <= Capacity
    OBVIOUS
  <2>1. c[l] \in Seq(Msgs) /\ Len(c[l]) \in Nat /\ Len(c[l]) <= Capacity /\ Capacity \in Nat
    BY BroadcastAssumption DEF Channels, BroadcastAssumption
  <2>2. Append(c[l], m) \in Seq(Msgs) /\ Len(Append(c[l], m)) = Len(c[l]) + 1
    BY <2>1, OnAppend
  <2> QED
    BY <2>1, <2>2 DEF room
<1>5. \A l \in Links : g(l) \in [Msgs -> Nat]
  BY DEF TypeOK
<1>6. Channels(chan') /\ sends' \in [Links -> [Msgs -> Nat]]
  <2> HIDE DEF f, g
  <2> QED
    BY <1>2, <1>4, <1>5 DEF Channels
<1>7. \A l \in Links, k \in Msgs : g(l)[k] =
        IF k = m /\ l[1] = n /\ l[2] \in S /\ room(c[l]) THEN sends[l][k] + 1 ELSE sends[l][k]
  BY <1>1 DEF TypeOK
<1>8. \A l \in Links, k \in Msgs : (\E i \in DOMAIN f(l) : f(l)[i] = k) <=>
        on(c, k, l) \/ (k = m /\ l[1] = n /\ l[2] \in S /\ room(c[l]))
  <2> SUFFICES ASSUME NEW l \in Links, NEW k \in Msgs
               PROVE  (\E i \in DOMAIN f(l) : f(l)[i] = k) <=>
                        on(c, k, l) \/ (k = m /\ l[1] = n /\ l[2] \in S /\ room(c[l]))
    OBVIOUS
  <2>1. CASE l \in out /\ room(c[l])
    <3>1. c[l] \in Seq(Msgs)
      BY DEF Channels
    <3>2. f(l) = Append(c[l], m)
      BY <2>1
    <3> HIDE DEF f
    <3>3. (\E i \in DOMAIN Append(c[l], m) : Append(c[l], m)[i] = k)
            <=> k = m \/ \E i \in DOMAIN c[l] : c[l][i] = k
      <4>1. \A q \in Seq(Msgs) : (\E i \in DOMAIN Append(q, m) : Append(q, m)[i] = k)
                                    <=> k = m \/ \E i \in DOMAIN q : q[i] = k
        BY OnAppend
      <4> QED
        BY <3>1, <4>1
    <3>4. (\E i \in DOMAIN f(l) : f(l)[i] = k) <=> k = m \/ on(c, k, l)
      BY <3>2, <3>3 DEF on
    <3> QED
      BY <1>1, <2>1, <3>4
  <2>2. CASE ~(l \in out /\ room(c[l]))
    <3>1. f(l) = c[l]
      BY <2>2
    <3> HIDE DEF f
    <3> QED
      BY <1>1, <2>2, <3>1 DEF on
  <2> QED
    BY <2>1, <2>2
<1> HIDE DEF f, g
<1> QED
  BY <1>2, <1>3, <1>6, <1>7, <1>8 DEF onLink

-----------------------------------------------------------------------------
(* What a node does with a message that is new to it *)

\* The message was published by n, or is taken from the channel of from to n.
Arrived(c, from, n, m) ==
    \/ c = chan /\ from = n /\ Source[m] = n
    \/ Taken(c, from, n, m) /\ subscribedToMsg(n, m)

LEMMA Unchanged == TypeOK => /\ Channels(chan)
                             /\ \A l \in Links, k \in Msgs : on(chan, k, l) <=> onLink(k, l)
BY DEF TypeOK, Channels, on, onLink

\* The steps of a network, in the terms of the lemmas.
LEMMA Steps ==
    ASSUME TypeOK, Known, Next
    PROVE  \/ \E c : \E from, n \in Nodes, m \in Msgs :
                Arrived(c, from, n, m) /\ m \notin seen[n] /\ fresh(c, n, from, m)
           \/ \E p, n \in Nodes, m \in Msgs :
                /\ Taken(chan', p, n, m) /\ (~subscribedToMsg(n, m) \/ m \in seen[n])
                /\ UNCHANGED <<seen, has, dropped, sends, expired, myTopics, topics>>
           \/ \E n \in Nodes, m \in Msgs : Expire(n, m)
           \/ \E n \in Nodes, t \in Topics : Cancel(n, t)
           \/ \E l \in Links, t \in Topics : Hear(l, t)
<1>1. ASSUME NEW m \in Msgs, Publish(m)
      PROVE  \E from, n \in Nodes : Arrived(chan, from, n, m) /\ m \notin seen[n] /\ fresh(chan, n, from, m)
  <2>1. Source[m] \in Nodes
    BY BroadcastAssumption DEF BroadcastAssumption
  <2>2. m \notin seen[Source[m]]
    BY <1>1, <2>1 DEF Publish, Known
  <2> QED
    BY <1>1, <2>1, <2>2 DEF Publish, Arrived
<1>2. ASSUME NEW p \in Nodes, NEW n \in Nodes, Receive(p, n)
      PROVE  \E m \in Msgs :
                \/ \E c : Arrived(c, p, n, m) /\ m \notin seen[n] /\ fresh(c, n, p, m)
                \/ /\ Taken(chan', p, n, m) /\ (~subscribedToMsg(n, m) \/ m \in seen[n])
                   /\ UNCHANGED <<seen, has, dropped, sends, expired, myTopics, topics>>
  <2> DEFINE m == Head(chan[<<p, n>>])
             c == [chan EXCEPT ![<<p, n>>] = Tail(@)]
  <2>1. Taken(c, p, n, m)
    BY <1>2, Receiving DEF Receive
  <2>2. m \in Msgs
    BY <2>1 DEF Taken
  <2>3. \/ subscribedToMsg(n, m) /\ m \notin seen[n] /\ fresh(c, n, p, m)
        \/ /\ ~subscribedToMsg(n, m) \/ m \in seen[n]
           /\ chan' = c
           /\ UNCHANGED <<seen, has, dropped, sends, expired, myTopics, topics>>
    BY <1>2 DEF Receive
  <2> HIDE DEF m, c
  <2> QED
    BY <2>1, <2>2, <2>3 DEF Arrived
<1> QED
  BY <1>1, <1>2 DEF Next

\* The node n has relayed a new message to S, on the links that c describes.
Relayed(c, n, m, S) ==
    /\ Channels(chan') /\ sends' \in [Links -> [Msgs -> Nat]] /\ dropped \subseteq dropped'
    /\ dropped' \subseteq Links \X Msgs
    /\ \A l \in Links, k \in Msgs : sends'[l][k] =
        IF k = m /\ l[1] = n /\ l[2] \in S /\ room(c[l]) THEN sends[l][k] + 1 ELSE sends[l][k]
    /\ \A p \in S : <<n, p>> \in Links => room(c[<<n, p>>]) \/ <<<<n, p>>, m>> \in dropped'
    /\ \A l \in Links, k \in Msgs : onLink(k, l)' <=>
        on(c, k, l) \/ (k = m /\ l[1] = n /\ l[2] \in S /\ room(c[l]))
    /\ \A k \in Nodes : has'[k] = IF k = n THEN has[k] \cup {m} ELSE has[k]
    /\ \A k \in Nodes : seen'[k] = IF k = n THEN seen[k] \cup {m} ELSE seen[k]
    /\ has' \in [Nodes -> SUBSET Msgs] /\ seen' \in [Nodes -> SUBSET Msgs]
    /\ UNCHANGED <<expired, myTopics, topics>>

\* A router relays a new message to what it may choose of those that want it.
LEMMA Fresh ==
    ASSUME TypeOK, Known, Views, NEW c, NEW from \in Nodes, NEW n \in Nodes, NEW m \in Msgs,
           Arrived(c, from, n, m), m \notin seen[n], fresh(c, n, from, m)
    PROVE  \E S \in SUBSET wanting(n, from, m) :
            S \in choices(n, wanting(n, from, m)) /\ Relayed(c, n, m, S)
<1> DEFINE P == wanting(n, from, m)
<1>1. PICK S \in choices(n, P) : send(c, n, m, S)
  BY DEF fresh, publishMessage
<1>2. S \subseteq P
  BY DEF choices, rspeers, shuffled
<1>3. P \subseteq {p \in Nodes : <<n, p>> \in Links}
  BY DEF wanting, subscribers
<1>4. Channels(c)
  BY Unchanged DEF Arrived, Taken
<1>5. dropped' \subseteq Links \X Msgs
  BY <1>1, <1>2, <1>3 DEF send, TypeOK
<1>6. /\ \A k \in Nodes : has'[k] = IF k = n THEN has[k] \cup {m} ELSE has[k]
      /\ \A k \in Nodes : seen'[k] = IF k = n THEN seen[k] \cup {m} ELSE seen[k]
      /\ has' \in [Nodes -> SUBSET Msgs] /\ seen' \in [Nodes -> SUBSET Msgs]
  BY DEF fresh, publishMessage, marked, TypeOK
<1>7. S \in SUBSET Nodes
  BY <1>2, <1>3
<1> HIDE DEF P
<1>8. /\ Channels(chan') /\ sends' \in [Links -> [Msgs -> Nat]] /\ dropped \subseteq dropped'
      /\ \A l \in Links, k \in Msgs : sends'[l][k] =
           IF k = m /\ l[1] = n /\ l[2] \in S /\ room(c[l]) THEN sends[l][k] + 1 ELSE sends[l][k]
      /\ \A p \in S : <<n, p>> \in Links => room(c[<<n, p>>]) \/ <<<<n, p>>, m>> \in dropped'
      /\ \A l \in Links, k \in Msgs : onLink(k, l)' <=>
           on(c, k, l) \/ (k = m /\ l[1] = n /\ l[2] \in S /\ room(c[l]))
  BY <1>1, <1>4, <1>7, Sent
<1>9. UNCHANGED <<expired, myTopics, topics>>
  BY DEF fresh
<1> QED
  BY <1>1, <1>2, <1>5, <1>6, <1>8, <1>9 DEF P, Relayed

-----------------------------------------------------------------------------
(* The steps keep the invariant *)

\* What has been handed stays handed: the only message to leave a link is
\* one that its receiver has, or does not want.
LEMMA StillHanded ==
    ASSUME TypeOK, Handed, NEW n \in Nodes, NEW m \in Msgs, m \in has[n],
           \A p \in missed(n, m)' : p \in missed(n, m),
           \A p \in served(n, m) : p \in served(n, m)'
    PROVE  \/ missed(n, m)' = {}
           \/ /\ \A p \in missed(n, m)' : speaksRandom(n, p)
              /\ \E X \in SUBSET served(n, m)' : Cardinality(X) = RandomSubD
<1>1. \/ missed(n, m) = {}
      \/ /\ \A p \in missed(n, m) : speaksRandom(n, p)
         /\ \E X \in SUBSET served(n, m) : Cardinality(X) = RandomSubD
  BY DEF Handed
<1> QED
  BY <1>1

LEMMA FreshHands ==
    ASSUME TypeOK, Known, Views, Handed, NEW c, NEW from \in Nodes, NEW n \in Nodes, NEW m \in Msgs,
           Arrived(c, from, n, m), m \notin seen[n], fresh(c, n, from, m)
    PROVE  Handed'
<1>0. PICK S \in SUBSET wanting(n, from, m) :
            S \in choices(n, wanting(n, from, m)) /\ Relayed(c, n, m, S)
  BY Fresh
<1>1. /\ sends' \in [Links -> [Msgs -> Nat]] /\ dropped \subseteq dropped'
      /\ \A l \in Links, k \in Msgs : sends'[l][k] =
           IF k = m /\ l[1] = n /\ l[2] \in S /\ room(c[l]) THEN sends[l][k] + 1 ELSE sends[l][k]
      /\ \A p \in S : <<n, p>> \in Links => room(c[<<n, p>>]) \/ <<<<n, p>>, m>> \in dropped'
      /\ \A l \in Links, k \in Msgs : onLink(k, l)' <=>
           on(c, k, l) \/ (k = m /\ l[1] = n /\ l[2] \in S /\ room(c[l]))
      /\ \A k \in Nodes : has'[k] = IF k = n THEN has[k] \cup {m} ELSE has[k]
      /\ has' \in [Nodes -> SUBSET Msgs]
      /\ UNCHANGED <<expired, myTopics, topics>>
  BY <1>0 DEF Relayed
<1>2. \A l \in Links, k \in Msgs : onLink(k, l) => on(c, k, l) \/ (l[2] = n /\ k = m)
  BY Unchanged DEF Arrived, Taken
<1>3. ASSUME NEW k \in Nodes, NEW j \in Msgs, NEW p \in missed(k, j)' PROVE p \in missed(k, j)
  <2>1. /\ p \in Nodes /\ <<k, p>> \in Links /\ wants(p, j) /\ j \notin has'[p]
        /\ ~onLink(j, <<k, p>>)' /\ <<<<k, p>>, j>> \notin dropped'
    BY <1>1, <1>3 DEF missed, linked, wants
  <2>2. j \notin has[p] /\ ~(p = n /\ j = m)
    BY <1>1, <2>1
  <2>3. ~onLink(j, <<k, p>>)
    BY <1>1, <1>2, <2>1, <2>2
  <2> QED
    BY <1>1, <2>1, <2>2, <2>3 DEF missed, linked
<1>4. ASSUME NEW k \in Nodes, NEW j \in Msgs, NEW p \in served(k, j) PROVE p \in served(k, j)'
  <2>1. /\ p \in Nodes /\ <<k, p>> \in Links /\ speaksRandom(k, p)
        /\ sends[<<k, p>>][j] > 0 \/ <<<<k, p>>, j>> \in dropped
    BY <1>4 DEF served, linked
  <2>2. sends[<<k, p>>][j] \in Nat
    BY <2>1 DEF TypeOK
  <2>3. sends[<<k, p>>][j] > 0 => sends'[<<k, p>>][j] > 0
    BY <1>1, <2>1, <2>2
  <2> QED
    BY <1>1, <2>1, <2>3 DEF served, linked
<1>5. \/ missed(n, m)' = {}
      \/ /\ \A p \in missed(n, m)' : speaksRandom(n, p)
         /\ \E X \in SUBSET served(n, m)' : Cardinality(X) = RandomSubD
  <2> DEFINE P == wanting(n, from, m)
             R == rspeers(n, P)
  <2>0. m \in has[from] \/ from = n
    BY DEF Arrived, Taken, Known
  <2>1. ASSUME NEW p \in missed(n, m)' PROVE p \in P /\ p \notin S
    <3>1. /\ p \in Nodes /\ <<n, p>> \in Links /\ wants(p, m) /\ m \notin has'[p]
          /\ ~onLink(m, <<n, p>>)' /\ <<<<n, p>>, m>> \notin dropped'
      BY <1>1, <2>1 DEF missed, linked, wants
    <3>2. p # n /\ m \notin has[p]
      BY <1>1, <3>1
    <3>3. p # from
      BY <2>0, <3>2
    <3>4. p # Source[m]
      <4>1. CASE c = chan /\ from = n /\ Source[m] = n
        BY <3>2, <4>1
      <4>2. CASE Taken(c, from, n, m)
        BY <3>2, <4>2 DEF Taken, Known
      <4> QED
        BY <4>1, <4>2 DEF Arrived
    <3>5. p \in subscribers(n, m)
      BY <3>1 DEF subscribers, wants, Views
    <3>6. p \notin S
      BY <1>1, <3>1
    <3> QED
      BY <3>3, <3>4, <3>5, <3>6 DEF wanting
  <2>2. CASE S = P
    BY <2>1, <2>2
  <2>3. CASE \E X \in shuffled(R) : S = (P \ R) \cup X
    <3>1. PICK X \in SUBSET R : Cardinality(X) = RandomSubD /\ S = (P \ R) \cup X
      BY <2>3 DEF shuffled
    <3>2. \A p \in missed(n, m)' : speaksRandom(n, p)
      BY <2>1, <3>1 DEF rspeers
    <3>3. \A p \in X : p \in served(n, m)'
      <4> SUFFICES ASSUME NEW p \in X PROVE p \in served(n, m)'
        OBVIOUS
      <4>1. p \in Nodes /\ <<n, p>> \in Links /\ speaksRandom(n, p) /\ p \in S
        BY <3>1 DEF rspeers, wanting, subscribers
      <4>2. sends[<<n, p>>][m] \in Nat
        BY <4>1 DEF TypeOK
      <4>3. sends'[<<n, p>>][m] > 0 \/ <<<<n, p>>, m>> \in dropped'
        BY <1>1, <4>1, <4>2
      <4> QED
        BY <4>1, <4>3 DEF served, linked
    <3> QED
      BY <3>1, <3>2, <3>3
  <2> QED
    BY <1>0, <2>2, <2>3 DEF choices
<1>6. ASSUME NEW k \in Nodes, NEW j \in has'[k] PROVE j \in Msgs /\ (j \in has[k] \/ (k = n /\ j = m))
  BY <1>1, <1>6
<1>7. ASSUME NEW k \in Nodes, NEW j \in has'[k]
      PROVE  \/ missed(k, j)' = {}
             \/ /\ \A p \in missed(k, j)' : speaksRandom(k, p)
                /\ \E X \in SUBSET served(k, j)' : Cardinality(X) = RandomSubD
  <2>1. CASE j \in has[k]
    BY <1>3, <1>4, <1>6, <1>7, <2>1, StillHanded
  <2>2. CASE k = n /\ j = m
    BY <1>5, <2>2
  <2> QED
    BY <1>6, <1>7, <2>1, <2>2
<1> QED
  BY <1>7 DEF Handed

LEMMA FreshStep ==
    ASSUME IInv, NEW c, NEW from \in Nodes, NEW n \in Nodes, NEW m \in Msgs,
           Arrived(c, from, n, m), m \notin seen[n], fresh(c, n, from, m)
    PROVE  IInv'
<1> USE DEF IInv
<1>1. PICK S \in SUBSET wanting(n, from, m) : Relayed(c, n, m, S)
  BY Fresh
<1>2. TypeOK'
  <2>1. /\ Channels(chan') /\ sends' \in [Links -> [Msgs -> Nat]] /\ dropped' \subseteq Links \X Msgs
        /\ has' \in [Nodes -> SUBSET Msgs] /\ seen' \in [Nodes -> SUBSET Msgs]
        /\ UNCHANGED <<expired, myTopics, topics>>
    BY <1>1 DEF Relayed
  <2> QED
    BY <2>1 DEF TypeOK, Channels
<1>3. /\ \A k \in Nodes : has'[k] = IF k = n THEN has[k] \cup {m} ELSE has[k]
      /\ \A k \in Nodes : seen'[k] = IF k = n THEN seen[k] \cup {m} ELSE seen[k]
      /\ UNCHANGED <<expired, myTopics, topics>>
  BY <1>1 DEF Relayed
<1>4. Known'
  <2>1. \A k \in Nodes : seen'[k] \subseteq has'[k]
    BY <1>3 DEF Known
  <2>2. m \in has'[Source[m]]
    <3>1. Source[m] \in Nodes
      BY BroadcastAssumption DEF BroadcastAssumption
    <3>2. CASE Source[m] = n
      BY <1>3, <3>2
    <3>3. CASE Taken(c, from, n, m)
      <4>1. m \in has[from]
        BY <3>3 DEF Taken, Known
      <4> QED
        BY <1>3, <3>1, <4>1 DEF Known
    <3> QED
      BY <3>2, <3>3 DEF Arrived
  <2>3. \A k \in Nodes : \A j \in has'[k] : j \in has'[Source[j]]
    <3> SUFFICES ASSUME NEW k \in Nodes, NEW j \in has'[k], j # m PROVE j \in has'[Source[j]]
      BY <2>2
    <3>1. j \in has[k] /\ j \in Msgs
      BY <1>3 DEF TypeOK
    <3>2. j \in has[Source[j]] /\ Source[j] \in Nodes
      BY <3>1, BroadcastAssumption DEF Known, BroadcastAssumption
    <3> QED
      BY <1>3, <3>2
  <2>4. ASSUME NEW l \in Links, NEW k \in Msgs, onLink(k, l)' PROVE k \in has'[l[1]]
    <3>1. l[1] \in Nodes
      BY BroadcastAssumption DEF BroadcastAssumption
    <3>2. on(c, k, l) \/ (k = m /\ l[1] = n)
      BY <1>1, <2>4 DEF Relayed
    <3>3. on(c, k, l) => onLink(k, l)
      BY Unchanged DEF Arrived, Taken
    <3> QED
      BY <1>3, <3>1, <3>2, <3>3 DEF Known
  <2> QED
    BY <2>1, <2>3, <2>4 DEF Known
<1>5. Views'
  BY <1>3 DEF Views
<1>6. SentOnce'
  <2> SUFFICES ASSUME NEW l \in Links, NEW k \in Msgs
               PROVE  sends'[l][k] <= expired'[l[1]][k] + IF k \in seen'[l[1]] THEN 1 ELSE 0
    BY DEF SentOnce
  <2>1. l[1] \in Nodes
    BY BroadcastAssumption DEF BroadcastAssumption
  <2>2. sends[l][k] \in Nat /\ expired[l[1]][k] \in Nat
    BY <2>1 DEF TypeOK
  <2>3. sends[l][k] <= expired[l[1]][k] + IF k \in seen[l[1]] THEN 1 ELSE 0
    BY DEF SentOnce
  <2>4. sends'[l][k] = sends[l][k] \/ (k = m /\ l[1] = n /\ sends'[l][k] = sends[l][k] + 1)
    BY <1>1 DEF Relayed
  <2>5. CASE k = m /\ l[1] = n
    <3>1. sends[l][k] <= expired[l[1]][k] /\ expired' = expired
      BY <1>3, <2>2, <2>3, <2>5
    <3>2. k \in seen'[l[1]]
      BY <1>3, <2>1, <2>5
    <3>3. sends'[l][k] <= expired[l[1]][k] + 1
      BY <2>2, <2>4, <3>1
    <3> QED
      BY <3>1, <3>2, <3>3
  <2>6. CASE ~(k = m /\ l[1] = n)
    BY <1>3, <2>1, <2>2, <2>3, <2>4, <2>6
  <2> QED
    BY <2>5, <2>6
<1>7. Handed'
  BY FreshHands
<1> QED
  BY <1>2, <1>4, <1>5, <1>6, <1>7

LEMMA DiscardStep ==
    ASSUME IInv, NEW p \in Nodes, NEW n \in Nodes, NEW m \in Msgs,
           Taken(chan', p, n, m), ~subscribedToMsg(n, m) \/ m \in seen[n],
           UNCHANGED <<seen, has, dropped, sends, expired, myTopics, topics>>
    PROVE  IInv'
<1> USE DEF IInv
<1>1. TypeOK'
  BY DEF TypeOK, Taken, Channels
<1>2. \A l \in Links, k \in Msgs : onLink(k, l)' => onLink(k, l)
  BY DEF Taken, on, onLink
<1>3. \A l \in Links, k \in Msgs : onLink(k, l) => onLink(k, l)' \/ (l[2] = n /\ k = m)
  BY DEF Taken, on, onLink
<1>4. Known' /\ Views' /\ SentOnce'
  BY <1>2 DEF Known, Views, SentOnce
<1>5. ASSUME NEW k \in Nodes, NEW j \in Msgs, NEW q \in missed(k, j)' PROVE q \in missed(k, j)
  <2>1. /\ q \in Nodes /\ <<k, q>> \in Links /\ wants(q, j) /\ j \notin has[q]
        /\ ~onLink(j, <<k, q>>)' /\ <<<<k, q>>, j>> \notin dropped
    BY <1>5 DEF missed, linked, wants
  <2>2. ~(q = n /\ j = m)
    BY <2>1 DEF Known, subscribedToMsg, wants
  <2>3. ~onLink(j, <<k, q>>)
    BY <1>3, <2>1, <2>2
  <2> QED
    BY <2>1, <2>3 DEF missed, linked
<1>6. \A k \in Nodes, j \in Msgs : served(k, j)' = served(k, j)
  BY DEF served
<1>7. ASSUME NEW k \in Nodes, NEW j \in has[k]
      PROVE  \/ missed(k, j)' = {}
             \/ /\ \A q \in missed(k, j)' : speaksRandom(k, q)
                /\ \E X \in SUBSET served(k, j)' : Cardinality(X) = RandomSubD
  <2>1. j \in Msgs
    BY DEF TypeOK
  <2> QED
    BY <1>5, <1>6, <2>1, StillHanded
<1> QED
  BY <1>1, <1>4, <1>7 DEF Handed

\* The steps that leave links and what nodes have alone.
LEMMA OtherStep ==
    ASSUME IInv, UNCHANGED <<has, chan, dropped, sends>>,
           \A p \in Nodes : myTopics'[p] \subseteq myTopics[p],
           TypeOK', Views', SentOnce', \A n \in Nodes : seen'[n] \subseteq seen[n]
    PROVE  IInv'
<1> USE DEF IInv
<1>1. Known'
  BY DEF Known, onLink
<1>2. \A k \in Nodes, j \in Msgs : missed(k, j)' \subseteq missed(k, j) /\ served(k, j)' = served(k, j)
  BY DEF missed, served, linked, wants, onLink
<1>3. ASSUME NEW k \in Nodes, NEW j \in has[k]
      PROVE  \/ missed(k, j)' = {}
             \/ /\ \A q \in missed(k, j)' : speaksRandom(k, q)
                /\ \E X \in SUBSET served(k, j)' : Cardinality(X) = RandomSubD
  <2>1. j \in Msgs
    BY DEF TypeOK
  <2> QED
    BY <1>2, <2>1, StillHanded
<1> QED
  BY <1>1, <1>3 DEF Handed

LEMMA StepIInv == IInv /\ [Next]_vars => IInv'
<1> SUFFICES ASSUME IInv, [Next]_vars PROVE IInv'
  OBVIOUS
<1>1. CASE UNCHANGED vars
  <2>1. TypeOK' /\ Views' /\ SentOnce'
    BY <1>1 DEF vars, netVars, IInv, TypeOK, Views, SentOnce
  <2> QED
    BY <1>1, <2>1, OtherStep DEF vars, netVars
<1>2. ASSUME NEW n \in Nodes, NEW m \in Msgs, Expire(n, m) PROVE IInv'
  <2>1. /\ expired \in [Nodes -> [Msgs -> Nat]] /\ seen \in [Nodes -> SUBSET Msgs]
        /\ m \in seen[n] /\ UNCHANGED <<has, chan, dropped, sends, myTopics, topics>>
        /\ seen' = [seen EXCEPT ![n] = @ \ {m}] /\ expired' = [expired EXCEPT ![n][m] = @ + 1]
    BY <1>2 DEF Expire, IInv, TypeOK
  <2>2. seen' \in [Nodes -> SUBSET Msgs] /\ expired' \in [Nodes -> [Msgs -> Nat]]
    BY <2>1
  <2>3. TypeOK' /\ Views'
    BY <2>1, <2>2 DEF IInv, TypeOK, Views
  <2>4. SentOnce'
    <3> SUFFICES ASSUME NEW l \in Links, NEW k \in Msgs
                 PROVE  sends[l][k] <= expired'[l[1]][k] + IF k \in seen'[l[1]] THEN 1 ELSE 0
      BY <2>1 DEF SentOnce
    <3>1. l[1] \in Nodes /\ sends[l][k] \in Nat
      BY BroadcastAssumption DEF BroadcastAssumption, IInv, TypeOK
    <3>2. sends[l][k] <= expired[l[1]][k] + IF k \in seen[l[1]] THEN 1 ELSE 0
      BY DEF IInv, SentOnce
    <3>3. CASE l[1] = n /\ k = m
      <4>1. expired'[l[1]][k] = expired[l[1]][k] + 1 /\ expired[l[1]][k] \in Nat
        BY <2>1, <3>3
      <4>2. k \notin seen'[l[1]]
        BY <2>1, <3>3
      <4> QED
        BY <3>1, <3>2, <4>1, <4>2
    <3>4. CASE ~(l[1] = n /\ k = m)
      <4>1. expired'[l[1]][k] = expired[l[1]][k] /\ (k \in seen'[l[1]] <=> k \in seen[l[1]])
        BY <2>1, <3>1, <3>4
      <4> QED
        BY <3>2, <4>1
    <3> QED
      BY <3>3, <3>4
  <2>5. \A k \in Nodes : seen'[k] \subseteq seen[k]
    BY <2>1
  <2> QED
    BY <2>1, <2>3, <2>4, <2>5, OtherStep
<1>3. ASSUME NEW n \in Nodes, NEW t \in Topics, Cancel(n, t) PROVE IInv'
  <2>1. /\ UNCHANGED <<topics, netVars>> /\ myTopics' \in [Nodes -> SUBSET Topics]
        /\ \A p \in Nodes : myTopics'[p] \subseteq myTopics[p]
    BY <1>3 DEF Cancel, IInv, TypeOK
  <2>2. \A l \in Links : l[2] \in Nodes
    BY BroadcastAssumption DEF BroadcastAssumption
  <2>3. TypeOK' /\ Views' /\ SentOnce'
    BY <2>1, <2>2 DEF netVars, IInv, TypeOK, Views, SentOnce
  <2> QED
    BY <2>1, <2>3, OtherStep DEF netVars
<1>4. ASSUME NEW l \in Links, NEW t \in Topics, Hear(l, t) PROVE IInv'
  <2>1. /\ UNCHANGED <<myTopics, netVars>> /\ topics' \in [Links -> SUBSET Topics]
        /\ t \notin myTopics[l[2]]
        /\ \A k \in Links : topics'[k] = IF k = l THEN topics[k] \ {t} ELSE topics[k]
    BY <1>4 DEF Hear, IInv, TypeOK
  <2>2. TypeOK' /\ Views' /\ SentOnce'
    BY <2>1 DEF netVars, IInv, TypeOK, Views, SentOnce
  <2> QED
    BY <2>1, <2>2, OtherStep DEF netVars
<1>5. CASE Next
  BY <1>2, <1>3, <1>4, <1>5, Steps, FreshStep, DiscardStep DEF IInv
<1> QED
  BY <1>1, <1>5

LEMMA InitIInv == Init => IInv
<1> SUFFICES ASSUME Init PROVE IInv
  OBVIOUS
<1>1. \A l \in Links : l[1] \in Nodes /\ l[2] \in Nodes
  BY BroadcastAssumption DEF BroadcastAssumption
<1>2. TypeOK
  BY <1>1, BroadcastAssumption DEF BroadcastAssumption, Init, TypeOK
<1>3. Known /\ Views /\ SentOnce /\ Handed
  BY <1>1 DEF Init, Known, Views, SentOnce, Handed, onLink
<1> QED
  BY <1>2, <1>3 DEF IInv

LEMMA Inductive == Spec => []IInv
BY InitIInv, StepIInv, PTL DEF Spec

\* The types, and that no channel holds more than its capacity.
THEOREM TypeCorrect == Spec => []TypeOK
<1>1. IInv => TypeOK
  BY DEF IInv
<1> QED
  BY Inductive, <1>1, PTL

\* A message is sent over each link of a node once for every time the node
\* has come to know it, in every network.
THEOREM NoCirculation == Spec => []SentOnce
<1>1. IInv => SentOnce
  BY DEF IInv
<1> QED
  BY Inductive, <1>1, PTL

\* Nobody is left out but by the choice of a random router or a full channel.
THEOREM NobodyForgotten == Spec => []Handed
<1>1. IInv => Handed
  BY DEF IInv
<1> QED
  BY Inductive, <1>1, PTL

-----------------------------------------------------------------------------
(* The network implements Dissemination *)

LEMMA RefinesStep == IInv /\ [Next]_vars => [Service!Next]_(Service!vars)
<1> SUFFICES ASSUME IInv, [Next]_vars PROVE [Service!Next]_(Service!vars)
  OBVIOUS
<1> DEFINE I == [m \in Msgs |-> {n \in Nodes : wants(n, m)}]
<1>1. UNCHANGED myTopics => I' = I
  BY DEF wants
<1>2. CASE UNCHANGED <<has, myTopics>>
  BY <1>1, <1>2 DEF Service!vars
<1>3. ASSUME NEW c, NEW from \in Nodes, NEW n \in Nodes, NEW m \in Msgs,
             Arrived(c, from, n, m), fresh(c, n, from, m)
      PROVE  [Service!Next]_(Service!vars)
  <2>1. has' = [has EXCEPT ![n] = @ \cup {m}] /\ I' = I
    BY <1>1, <1>3 DEF fresh, publishMessage
  <2>2. CASE Source[m] = n /\ from = n /\ c = chan
    <3>1. CASE \A k \in Nodes : m \notin has[k]
      BY <2>1, <2>2, <3>1 DEF Service!Start, Service!Next
    <3>2. CASE \E k \in Nodes : m \in has[k]
      <4>1. m \in has[n]
        BY <2>2, <3>2 DEF IInv, Known
      <4>2. has' = has
        BY <2>1, <4>1 DEF IInv, TypeOK
      <4> QED
        BY <2>1, <4>2 DEF Service!vars
    <3> QED
      BY <3>1, <3>2
  <2>3. CASE Taken(c, from, n, m) /\ subscribedToMsg(n, m)
    <3>1. <<from, n>> \in Links /\ m \in has[from]
      BY <2>3 DEF Taken, IInv, Known
    <3>2. n \in I[m]
      BY <2>3 DEF subscribedToMsg, wants
    <3>3. Service!Hop(from, n, m)
      BY <2>1, <3>1, <3>2 DEF Service!Hop
    <3> QED
      BY <3>3 DEF Service!Next
  <2> QED
    BY <1>3, <2>2, <2>3 DEF Arrived
<1>4. ASSUME NEW n \in Nodes, NEW t \in Topics, Cancel(n, t) PROVE Service!Next
  <2> DEFINE M == {m \in Msgs : ~wants(n, m)'}
  <2>1. \A p \in Nodes, m \in Msgs : wants(p, m)' <=> wants(p, m) /\ ~(p = n /\ m \in M)
    <3>1. /\ myTopics'[n] = myTopics[n] \ {t} /\ \A p \in Nodes \ {n} : myTopics'[p] = myTopics[p]
      BY <1>4 DEF Cancel, IInv, TypeOK
    <3> QED
      BY <3>1 DEF wants
  <2>2. I' = [m \in Msgs |-> IF m \in M THEN I[m] \ {n} ELSE I[m]]
    <3>1. \A m \in Msgs : {p \in Nodes : wants(p, m)'} = IF m \in M THEN I[m] \ {n} ELSE I[m]
      BY <2>1
    <3> QED
      BY <3>1
  <2>3. Service!Quit(n, M)
    BY <1>4, <2>2 DEF Service!Quit, Cancel, netVars
  <2>4. M \in SUBSET Msgs
    OBVIOUS
  <2> QED
    BY <2>3, <2>4 DEF Service!Next
<1>5. CASE Next
  <2>1. TypeOK /\ Known
    BY DEF IInv
  <2> QED
    BY <1>2, <1>3, <1>4, <1>5, <2>1, Steps DEF Expire, Hear, netVars
<1> QED
  BY <1>2, <1>5 DEF vars, netVars

\* Messages come only over links, from nodes that have them to nodes that
\* want them at the time.
THEOREM Refinement == Spec => Refines
<1>1. Init => Service!Init
  BY DEF Init, Service!Init
<1>2. Spec => Service!Init /\ [][Service!Next]_(Service!vars)
  BY <1>1, RefinesStep, Inductive, PTL DEF Spec
<1> QED
  BY <1>2 DEF Refines, Service!Spec
=============================================================================
