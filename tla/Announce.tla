------------------------------ MODULE Announce ------------------------------
(***************************************************************************)
(* What one remote peer is told about one topic: the hello packet that     *)
(* starts every writer, the announcements of a first subscription and of   *)
(* the cancellation of the last one, and the retries when a queue is full. *)
(* It composes the life of the peer (PeerConn) with the contents of the    *)
(* writers' channels. Control messages and data take the same channels and *)
(* are left out: a small MaxQueue stands for a channel that is full. So    *)
(* are blacklisting and the cancellation of the context, after which a     *)
(* peer has no writer and is announced nothing: what they do to writers    *)
(* and goroutines is in PeerConn, and announceRetry returns.               *)
(* The peer reads every stream of ours in a goroutine of its own: what an  *)
(* old one has read is handled before or after what the new one brings.    *)
(***************************************************************************)
EXTENDS Naturals, Sequences

CONSTANTS
    Writers, None, MaxConn, MaxNotified,
    MaxQueue,     \* capacity of a writer's channel
    MaxFlight,    \* bound: what a stream holds
    MaxRetry      \* bound: goroutines of announceRetry

ASSUME AnnounceAssumption ==
    /\ None \notin Writers /\ MaxConn \in Nat /\ MaxNotified \in Nat
    /\ MaxQueue \in Nat \ {0} /\ MaxFlight \in Nat \ {0} /\ MaxRetry \in Nat

VARIABLES
    conn, notified, loop, current, closed, open, stream, eof, sender,
    blacklisted, known, joined, incoming, exception,   \* see PeerConn
    subscribed,   \* the topic is in myTopics
    queue,        \* the channel of each writer
    flight,       \* what its stream, or the peer's reader of it, holds about the topic
    retry,        \* goroutines of announceRetry, by what they announce
    last,         \* history: what was last put into peers[pid] about the topic
    late,         \* history: what the peer handled last came over a stream that was
                  \* not the current writer's any more
    told          \* what the peer holds of us: our membership in its topics[t]

connVars == <<conn, notified, loop, current, closed, open, stream, eof, sender,
              blacklisted, known, joined, incoming, exception>>
outVars == <<queue, flight, last, late>>
vars == <<connVars, outVars, subscribed, retry, told>>

Conn == INSTANCE PeerConn WITH
    MaxIncoming <- 0, MayUnsupport <- FALSE, Lru <- FALSE, Foreign <- FALSE

\* "empty" is a hello packet without the topic
Announcements == {"sub", "unsub"}
Packets == Announcements \cup {"empty"}

Init ==
    /\ Conn!Init /\ ~blacklisted
    /\ subscribed = FALSE /\ told = FALSE
    /\ queue = [w \in Writers |-> <<>>]
    /\ flight = [w \in Writers |-> <<>>]
    /\ retry = [a \in Announcements |-> 0]
    /\ last = "empty" /\ late = FALSE

-----------------------------------------------------------------------------
(* Steps of PeerConn *)

\* bug: hello packets are empty
noHello == "empty"
\* getHelloPacket
hello == IF subscribed THEN "sub" ELSE "empty"

\* nobody reads the channel of w, or will: nothing in it matters any more
unread(w) == sender[w] = "done" /\ open'[w] # "opening"

\* A new writer starts with the hello packet in its channel, and will have a
\* stream of its own.
greet ==
    IF current' = current THEN UNCHANGED outVars
    ELSE /\ current' # None => flight[current'] = <<>>
         /\ queue' = [w \in Writers |->
               IF w = current' THEN <<hello>> ELSE IF unread(w) THEN <<>> ELSE queue[w]]
         /\ last' = IF current' = None THEN "empty" ELSE hello
         /\ UNCHANGED <<flight, late>>

Spawning ==
    /\ Conn!NewPeer \/ \E w \in Writers : Conn!PeerDead(w)
    /\ greet /\ UNCHANGED <<subscribed, retry, told>>

Connect == Conn!Connect /\ UNCHANGED <<subscribed, retry, told, outVars>>

\* What the streams carried may still be read.
Disconnect == Conn!Disconnect /\ UNCHANGED <<subscribed, retry, told, outVars>>
Cut(w) == Conn!Cut(w) /\ UNCHANGED <<subscribed, retry, told, outVars>>

\* handleSendingMessages: its end, the loss of what it could not write
SenderStop(w) ==
    /\ Conn!SenderStop(w)
    /\ queue[w] = <<>>
    /\ UNCHANGED <<subscribed, retry, told, outVars>>

WriteFails(w) ==
    /\ Conn!WriteFails(w) /\ queue[w] # <<>>
    /\ queue' = [queue EXCEPT ![w] = Tail(@)]
    /\ UNCHANGED <<subscribed, retry, told, flight, last, late>>

\* the steps of the peer's life that no announcement is involved in
OfWriter(w) ==
    /\ \/ Conn!NewPeerStream(w) \/ Conn!OpenStream(w) \/ Conn!OpenFails(w)
       \/ Conn!ReadEOF(w)
    /\ UNCHANGED <<subscribed, retry, told, outVars>>

-----------------------------------------------------------------------------
(* Announcements *)

\* handleSendingMessages writes a packet; a stream that is cut may swallow it,
\* and one without the topic is of no interest.
Write(w) ==
    /\ sender[w] = "sending" /\ queue[w] # <<>>
    /\ queue' = [queue EXCEPT ![w] = Tail(@)]
    /\ LET m == Head(queue[w]) IN
       \/ /\ m # "empty" /\ stream[w] = "up" /\ Len(flight[w]) < MaxFlight
          /\ flight' = [flight EXCEPT ![w] = Append(@, m)]
       \/ (m = "empty" \/ stream[w] = "cut") /\ UNCHANGED flight
    /\ UNCHANGED <<connVars, subscribed, retry, told, last, late>>

\* The end of what a stream carries may be lost with the stream.
Lose(w) ==
    /\ stream[w] = "cut" /\ flight[w] # <<>>
    /\ flight' = [flight EXCEPT ![w] = SubSeq(@, 1, Len(@) - 1)]
    /\ UNCHANGED <<connVars, subscribed, retry, told, queue, last, late>>

\* bug: unsubscriptions are ignored
onlyJoins(m) == told \/ m = "sub"
\* handleIncomingRPC of the peer
hears(m) == m = "sub"

\* handleNewStream of the peer hands a packet to its process loop; the stream
\* may be cut by then, and another one be read, too.
Deliver(w) ==
    /\ flight[w] # <<>>
    /\ flight' = [flight EXCEPT ![w] = Tail(@)]
    /\ told' = hears(Head(flight[w])) /\ late' = (w # current)
    /\ UNCHANGED <<connVars, subscribed, retry, queue, last>>

\* peerDead of the peer: it has no connection to us
PeerForgets ==
    /\ conn = 0 /\ told' = FALSE
    /\ UNCHANGED <<connVars, outVars, subscribed, retry>>

\* bug: an announcement that finds the queue full is dropped
dropped(a, n) == n
\* go p.announceRetry
again(a, n) == [n EXCEPT ![a] = @ + 1]

room == Len(queue[current]) < MaxQueue

\* the announcement a to the peer; n: the retries without this one
send(a, n) ==
    IF current = None THEN retry' = n /\ UNCHANGED outVars
    ELSE IF room
         THEN /\ queue' = [queue EXCEPT ![current] = Append(@, a)]
              /\ last' = a
              /\ retry' = n /\ UNCHANGED <<flight, late>>
         ELSE retry' = again(a, n) /\ UNCHANGED outVars

\* A first subscription to the topic, the cancellation of the last one.
Subscription ==
    /\ subscribed' = ~subscribed
    /\ send(IF subscribed' THEN "sub" ELSE "unsub", retry)
    /\ retry'["sub"] + retry'["unsub"] <= MaxRetry
    /\ UNCHANGED <<connVars, told>>

\* bug: the retry does not look at the subscriptions of the moment
anyway(a) == TRUE
\* (ok && sub) || (!ok && !sub)
stillTrue(a) == a = IF subscribed THEN "sub" ELSE "unsub"

Retry(a) ==
    /\ retry[a] > 0
    /\ LET n == [retry EXCEPT ![a] = @ - 1] IN
       IF stillTrue(a) THEN send(a, n) ELSE retry' = n /\ UNCHANGED outVars
    /\ UNCHANGED <<connVars, subscribed, told>>

Next ==
    \/ Spawning \/ Connect \/ Disconnect \/ PeerForgets \/ Subscription
    \/ \E w \in Writers : Cut(w) \/ SenderStop(w) \/ WriteFails(w) \/ OfWriter(w)
                          \/ Write(w) \/ Lose(w) \/ Deliver(w)
    \/ \E a \in Announcements : Retry(a)

Spec == Init /\ [][Next]_vars

\* The process loop and the goroutines run on, and the peer reads its streams.
FairSpec ==
    /\ Spec /\ WF_vars(Spawning) /\ WF_vars(\E a \in Announcements : Retry(a))
    /\ \A w \in Writers :
        WF_vars(OfWriter(w) \/ SenderStop(w) \/ Write(w)) /\ WF_vars(Deliver(w))

-----------------------------------------------------------------------------
(* Properties *)

TypeOK ==
    /\ subscribed \in BOOLEAN /\ told \in BOOLEAN
    /\ queue \in [Writers -> Seq(Packets)] /\ flight \in [Writers -> Seq(Announcements)]
    /\ \A w \in Writers : Len(queue[w]) <= MaxQueue /\ Len(flight[w]) <= MaxFlight
    /\ retry \in [Announcements -> 0..MaxRetry]
    /\ last \in Packets /\ late \in BOOLEAN

\* What was last put into the channel of the current writer is what the
\* subscriptions say, or a retry that will put it there is under way: no
\* interleaving of announcements, full queues, retries that have become
\* stale, and respawned writers leaves the channel with the wrong last word.
LastWord ==
    current # None =>
        IF subscribed THEN last = "sub" \/ retry["sub"] > 0
        ELSE last # "sub" \/ retry["unsub"] > 0

\* Once everything written to the current stream is delivered, the peer holds
\* the last word about the topic, if there was one, whatever streams were lost
\* before: only a packet of an older stream that the peer handles after those
\* of the current one can overrule it.
Heard ==
    /\ current # None /\ stream[current] = "up" /\ last # "empty"
    /\ queue[current] = <<>> /\ flight[current] = <<>>
    /\ ~late
    => told = (last = "sub")

\* From some time on the peer stays connected over one stream.
Stable ==
    /\ <>[](conn > 0 /\ ~blacklisted)
    /\ <>[][~Disconnect /\ \A w \in Writers : ~Cut(w) /\ ~Conn!OpenFails(w)]_vars

\* "it will announce that this node subscribes to the topic": a peer that
\* stays connected comes to know a subscription that stays, unless it handles a
\* packet of an older stream after those of the one that stays.
SubscriptionKnown == Stable /\ <>[]subscribed => <>[](told \/ late)

\* "it will also announce that this node is not subscribing to this topic
\* anymore": a peer that stays connected comes to know that, too, apart from
\* such a packet.
CancellationKnown == Stable /\ <>[]~subscribed => <>[](~told \/ late)
=============================================================================
