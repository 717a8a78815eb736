--------------------------- MODULE AnnounceProofs ---------------------------
(***************************************************************************)
(* Proofs about Announce: the last word in the channel of a peer is right, *)
(* for any number of writers and any capacity of the channels, and the     *)
(* life of the peer is the one of PeerConn.                                *)
(***************************************************************************)
EXTENDS Announce, SequenceTheorems, TLAPS

\* The retries are counted.
RetryType == retry \in [Announcements -> Nat]

\* The inductive invariant.
IInv == RetryType /\ LastWord

\* What send does to retries and channels.
LEMMA Sent ==
    ASSUME RetryType, NEW a \in Announcements, NEW n \in [Announcements -> Nat], send(a, n)
    PROVE  /\ retry' \in [Announcements -> Nat]
           /\ \A b \in Announcements : retry'[b] >= n[b]
           /\ current # None => last' = a \/ (last' = last /\ retry'[a] > 0)
<1>1. CASE retry' = n /\ current = None
  BY <1>1
<1>2. CASE current # None /\ last' = a /\ retry' = n
  BY <1>2
<1>3. CASE retry' = again(a, n) /\ UNCHANGED outVars
  BY <1>3 DEF again, outVars, RetryType
<1> QED
  BY <1>1, <1>2, <1>3 DEF send

\* Every step keeps the last word right.
LEMMA Step == IInv /\ [Next]_vars => IInv'
<1> SUFFICES ASSUME IInv, [Next]_vars PROVE IInv'
  OBVIOUS
<1> USE DEF IInv
<1>1. CASE UNCHANGED <<subscribed, retry, last>> /\ current' \in {None, current}
  BY <1>1 DEF RetryType, LastWord
<1>2. CASE Spawning
  <2>1. UNCHANGED <<subscribed, retry>>
    BY <1>2 DEF Spawning
  <2>2. CASE current' = current
    BY <1>1, <1>2, <2>1, <2>2 DEF Spawning, greet, outVars
  <2>3. CASE current' # current
    <3>1. current' # None => last' = hello
      BY <1>2, <2>3 DEF Spawning, greet
    <3> QED
      BY <2>1, <3>1 DEF RetryType, LastWord, hello
  <2> QED
    BY <2>2, <2>3
<1>3. CASE Connect \/ Disconnect
  BY <1>1, <1>3 DEF Connect, Disconnect, Conn!Connect, Conn!Disconnect, Conn!loopVars, outVars
<1>4. CASE PeerForgets
  BY <1>1, <1>4 DEF PeerForgets, connVars, outVars
<1>5. CASE Subscription
  <2>1. PICK a \in Announcements : send(a, retry) /\ a = IF subscribed' THEN "sub" ELSE "unsub"
    BY <1>5 DEF Subscription, Announcements
  <2>2. /\ retry' \in [Announcements -> Nat]
        /\ current # None => last' = a \/ (last' = last /\ retry'[a] > 0)
    BY <2>1, Sent DEF RetryType
  <2>3. UNCHANGED current
    BY <1>5 DEF Subscription, connVars
  <2> QED
    BY <2>1, <2>2, <2>3 DEF RetryType, LastWord
<1>6. ASSUME NEW w \in Writers,
             \/ Cut(w) \/ SenderStop(w) \/ WriteFails(w) \/ OfWriter(w)
             \/ Write(w) \/ Lose(w) \/ Deliver(w)
      PROVE  IInv'
  <2>1. UNCHANGED <<subscribed, retry, last>>
    BY <1>6 DEF Cut, SenderStop, WriteFails, OfWriter, Write, Lose, Deliver, outVars
  <2>2. UNCHANGED current
    BY <1>6 DEF Cut, SenderStop, WriteFails, OfWriter, Write, Lose, Deliver, connVars, Conn!Cut,
         Conn!SenderStop, Conn!WriteFails, Conn!NewPeerStream, Conn!OpenStream, Conn!OpenFails,
         Conn!ReadEOF, Conn!loopVars
  <2> QED
    BY <1>1, <2>1, <2>2
<1>7. ASSUME NEW a \in Announcements, Retry(a) PROVE IInv'
  <2>1. UNCHANGED <<current, subscribed>> /\ retry[a] > 0
    BY <1>7 DEF Retry, connVars
  <2> DEFINE n == [retry EXCEPT ![a] = @ - 1]
  <2>2. n \in [Announcements -> Nat] /\ \A b \in Announcements \ {a} : n[b] = retry[b]
    BY <2>1 DEF RetryType
  <2>3. CASE stillTrue(a)
    <3>1. send(a, n)
      BY <1>7, <2>3 DEF Retry
    <3>2. /\ retry' \in [Announcements -> Nat]
          /\ current # None => last' = a \/ (last' = last /\ retry'[a] > 0)
      BY <2>2, <3>1, Sent
    <3> QED
      BY <2>1, <2>3, <3>2 DEF stillTrue, RetryType, LastWord, Announcements
  <2>4. CASE ~stillTrue(a)
    <3>1. retry' = n /\ last' = last
      BY <1>7, <2>4 DEF Retry, outVars
    <3>2. CASE a = "sub" /\ ~subscribed
      BY <2>1, <2>2, <3>1, <3>2 DEF RetryType, LastWord, Announcements
    <3>3. CASE a = "unsub" /\ subscribed
      BY <2>1, <2>2, <3>1, <3>3 DEF RetryType, LastWord, Announcements
    <3> QED
      BY <2>4, <3>2, <3>3 DEF stillTrue, Announcements
  <2> QED
    BY <2>3, <2>4
<1>8. CASE UNCHANGED vars
  BY <1>1, <1>8 DEF vars, connVars, outVars
<1> QED
  BY <1>2, <1>3, <1>4, <1>5, <1>6, <1>7, <1>8 DEF Next

\* No interleaving of announcements, full channels, stale retries and respawns
\* leaves the wrong last word about a topic in the channel of a peer.
THEOREM LastWordRight == Spec => []LastWord
<1>1. Init => IInv
  BY DEF Init, IInv, RetryType, LastWord, Announcements, Conn!Init
<1>2. IInv => LastWord
  BY DEF IInv
<1> QED
  BY <1>1, <1>2, Step, PTL DEF Spec

-----------------------------------------------------------------------------
(* Type correctness *)

\* What send does to the channels and the retries.
LEMMA SentTypes ==
    ASSUME TypeOK, NEW a \in Announcements, NEW n \in [Announcements -> Nat], send(a, n)
    PROVE  /\ queue' \in [Writers -> Seq(Packets)]
           /\ \A w \in Writers : Len(queue'[w]) <= MaxQueue
           /\ flight' = flight /\ late' = late /\ last' \in Packets
           /\ retry' = n \/ retry' = [n EXCEPT ![a] = @ + 1]
<1>1. CASE current # None /\ room
  <2>1. a \in Packets
    BY DEF Packets
  <2>2. \A w \in Writers : w = current =>
            Append(queue[w], a) \in Seq(Packets) /\ Len(Append(queue[w], a)) <= MaxQueue
    <3> SUFFICES ASSUME NEW w \in Writers, w = current
                 PROVE  Append(queue[w], a) \in Seq(Packets) /\ Len(Append(queue[w], a)) <= MaxQueue
      OBVIOUS
    <3>1. queue[w] \in Seq(Packets) /\ Len(queue[w]) < MaxQueue
      BY <1>1 DEF TypeOK, room
    <3> QED
      BY <2>1, <3>1, AnnounceAssumption DEF AnnounceAssumption
  <2>3. queue' = [queue EXCEPT ![current] = Append(@, a)]
    BY <1>1 DEF send
  <2>4. queue' \in [Writers -> Seq(Packets)] /\ \A w \in Writers : Len(queue'[w]) <= MaxQueue
    BY <2>2, <2>3 DEF TypeOK
  <2> QED
    BY <1>1, <2>1, <2>4 DEF send, TypeOK
<1>2. CASE ~(current # None /\ room)
  BY <1>2 DEF send, again, outVars, TypeOK
<1> QED
  BY <1>1, <1>2

\* Every step keeps the types.
LEMMA StepTypeOK == TypeOK /\ [Next]_vars => TypeOK'
<1> SUFFICES ASSUME TypeOK, [Next]_vars PROVE TypeOK'
  OBVIOUS
<1>1. CASE UNCHANGED <<outVars, subscribed, retry, told>>
  BY <1>1 DEF TypeOK, outVars
<1>2. CASE Spawning
  <2>1. CASE current' = current
    BY <1>1, <1>2, <2>1 DEF Spawning, greet
  <2>2. CASE current' # current
    <3> DEFINE q == <<hello>>
    <3>1. q \in Seq(Packets) /\ Len(q) <= MaxQueue /\ hello \in Packets
      BY AnnounceAssumption DEF AnnounceAssumption, hello, Packets, Announcements
    <3>2. queue' = [w \in Writers |->
                     IF w = current' THEN q ELSE IF unread(w) THEN <<>> ELSE queue[w]]
      BY <1>2, <2>2 DEF Spawning, greet
    <3>3. <<>> \in Seq(Packets) /\ Len(<<>>) <= MaxQueue
      BY AnnounceAssumption DEF AnnounceAssumption
    <3> HIDE DEF q
    <3>4. queue' \in [Writers -> Seq(Packets)] /\ \A w \in Writers : Len(queue'[w]) <= MaxQueue
      BY <3>1, <3>2, <3>3 DEF TypeOK
    <3>5. last' \in Packets /\ UNCHANGED <<flight, late, subscribed, retry, told>>
      BY <1>2, <2>2, <3>1 DEF Spawning, greet, Packets
    <3> QED
      BY <3>4, <3>5 DEF TypeOK
  <2> QED
    BY <2>1, <2>2
<1>3. CASE Connect \/ Disconnect
  BY <1>1, <1>3 DEF Connect, Disconnect
<1>4. CASE PeerForgets
  BY <1>4 DEF PeerForgets, TypeOK, outVars
<1>5. ASSUME NEW w \in Writers, Lose(w) PROVE TypeOK'
  <2> DEFINE f == SubSeq(flight[w], 1, Len(flight[w]) - 1)
  <2>1. flight[w] \in Seq(Announcements) /\ Len(flight[w]) <= MaxFlight /\ flight[w] # <<>>
    BY <1>5 DEF Lose, TypeOK
  <2>2. Len(flight[w]) - 1 \in 0..Len(flight[w])
    BY <2>1, EmptySeq
  <2>3. f \in Seq(Announcements) /\ Len(f) = Len(flight[w]) - 1
    BY <2>1, <2>2, SubSeqProperties
  <2>4. Len(f) <= MaxFlight
    BY <2>1, <2>3, AnnounceAssumption DEF AnnounceAssumption
  <2>5. flight' = [flight EXCEPT ![w] = f]
    BY <1>5 DEF Lose
  <2> HIDE DEF f
  <2> QED
    BY <1>5, <2>3, <2>4, <2>5 DEF Lose, TypeOK
<1>6. ASSUME NEW w \in Writers, WriteFails(w) PROVE TypeOK'
  <2>1. queue[w] \in Seq(Packets) /\ queue[w] # <<>> /\ Len(queue[w]) <= MaxQueue
    BY <1>6 DEF WriteFails, TypeOK
  <2>2. Tail(queue[w]) \in Seq(Packets) /\ Len(Tail(queue[w])) <= MaxQueue
    BY <2>1, AnnounceAssumption DEF AnnounceAssumption
  <2> QED
    BY <1>6, <2>2 DEF WriteFails, TypeOK
<1>7. ASSUME NEW w \in Writers, Write(w) PROVE TypeOK'
  <2> DEFINE m == Head(queue[w])
             f == Append(flight[w], m)
  <2>1. /\ queue[w] \in Seq(Packets) /\ queue[w] # <<>> /\ Len(queue[w]) <= MaxQueue
        /\ flight[w] \in Seq(Announcements) /\ Len(flight[w]) <= MaxFlight
    BY <1>7 DEF Write, TypeOK
  <2>2. /\ Tail(queue[w]) \in Seq(Packets) /\ Len(Tail(queue[w])) <= MaxQueue
        /\ m \in Packets
    BY <2>1, AnnounceAssumption DEF AnnounceAssumption
  <2>3. queue' \in [Writers -> Seq(Packets)] /\ \A v \in Writers : Len(queue'[v]) <= MaxQueue
    BY <1>7, <2>2 DEF Write, TypeOK
  <2>4. CASE UNCHANGED flight
    BY <1>7, <2>3, <2>4 DEF Write, TypeOK
  <2>5. CASE m # "empty" /\ Len(flight[w]) < MaxFlight /\ flight' = [flight EXCEPT ![w] = f]
    <3>1. m \in Announcements
      BY <2>2, <2>5 DEF Packets
    <3>2. f \in Seq(Announcements) /\ Len(f) <= MaxFlight
      BY <2>1, <2>5, <3>1, AnnounceAssumption DEF AnnounceAssumption
    <3> HIDE DEF f, m
    <3>3. flight' \in [Writers -> Seq(Announcements)]
          /\ \A v \in Writers : Len(flight'[v]) <= MaxFlight
      BY <2>5, <3>2 DEF TypeOK
    <3> QED
      BY <1>7, <2>3, <3>3 DEF Write, TypeOK
  <2> QED
    BY <1>7, <2>4, <2>5 DEF Write
<1>8. ASSUME NEW w \in Writers, Deliver(w) PROVE TypeOK'
  <2>1. flight[w] \in Seq(Announcements) /\ flight[w] # <<>> /\ Len(flight[w]) <= MaxFlight
    BY <1>8 DEF Deliver, TypeOK
  <2>2. Tail(flight[w]) \in Seq(Announcements) /\ Len(Tail(flight[w])) <= MaxFlight
    BY <2>1, AnnounceAssumption DEF AnnounceAssumption
  <2>3. told' \in BOOLEAN /\ late' \in BOOLEAN
    BY <1>8 DEF Deliver, hears
  <2> QED
    BY <1>8, <2>2, <2>3 DEF Deliver, TypeOK
<1>9. CASE Subscription
  <2>1. retry \in [Announcements -> Nat]
    BY AnnounceAssumption DEF AnnounceAssumption, TypeOK
  <2>2. PICK a \in Announcements : send(a, retry)
    BY <1>9 DEF Subscription, Announcements
  <2>3. /\ queue' \in [Writers -> Seq(Packets)]
        /\ \A w \in Writers : Len(queue'[w]) <= MaxQueue
        /\ flight' = flight /\ late' = late /\ last' \in Packets
        /\ retry' = retry \/ retry' = [retry EXCEPT ![a] = @ + 1]
    BY <2>1, <2>2, SentTypes
  <2>4. retry' \in [Announcements -> Nat]
    BY <2>1, <2>3
  <2>5. retry' \in [Announcements -> 0..MaxRetry]
    BY <1>9, <2>4, AnnounceAssumption DEF AnnounceAssumption, Subscription, Announcements
  <2>6. subscribed' \in BOOLEAN /\ told' = told
    BY <1>9 DEF Subscription, TypeOK
  <2> QED
    BY <2>3, <2>5, <2>6 DEF TypeOK
<1>10. ASSUME NEW a \in Announcements, Retry(a) PROVE TypeOK'
  <2> DEFINE n == [retry EXCEPT ![a] = @ - 1]
  <2>1. n \in [Announcements -> 0..MaxRetry] /\ [n EXCEPT ![a] = @ + 1] = retry
    <3>1. retry[a] \in 0..MaxRetry /\ retry[a] > 0 /\ MaxRetry \in Nat
      BY <1>10, AnnounceAssumption DEF AnnounceAssumption, Retry, TypeOK
    <3>2. retry[a] - 1 \in 0..MaxRetry /\ retry[a] - 1 + 1 = retry[a]
      BY <3>1
    <3>3. n \in [Announcements -> 0..MaxRetry]
      BY <3>2 DEF TypeOK
    <3>4. \A b \in Announcements : [n EXCEPT ![a] = @ + 1][b] = retry[b]
      BY <3>2, <3>3 DEF TypeOK
    <3>5. [n EXCEPT ![a] = @ + 1] \in [Announcements -> Nat]
      BY <3>2, <3>3, <3>1
    <3> QED
      BY <3>3, <3>4, <3>5 DEF TypeOK
  <2>2. n \in [Announcements -> Nat]
    BY <2>1, AnnounceAssumption DEF AnnounceAssumption
  <2>3. CASE stillTrue(a)
    <3>1. send(a, n)
      BY <1>10, <2>3 DEF Retry
    <3>2. /\ queue' \in [Writers -> Seq(Packets)]
          /\ \A w \in Writers : Len(queue'[w]) <= MaxQueue
          /\ flight' = flight /\ late' = late /\ last' \in Packets
          /\ retry' = n \/ retry' = [n EXCEPT ![a] = @ + 1]
      BY <2>2, <3>1, SentTypes
    <3> HIDE DEF n
    <3>3. retry' \in [Announcements -> 0..MaxRetry]
      BY <2>1, <3>2 DEF TypeOK
    <3> QED
      BY <1>10, <3>2, <3>3 DEF Retry, TypeOK
  <2>4. CASE ~stillTrue(a)
    <3>1. retry' = n
      BY <1>10, <2>4 DEF Retry
    <3> HIDE DEF n
    <3> QED
      BY <1>10, <2>1, <2>4, <3>1 DEF Retry, outVars, TypeOK
  <2> QED
    BY <2>3, <2>4
<1>11. CASE UNCHANGED vars
  BY <1>1, <1>11 DEF vars
<1>12. ASSUME NEW w \in Writers, Cut(w) \/ SenderStop(w) \/ OfWriter(w) PROVE TypeOK'
  BY <1>1, <1>12 DEF Cut, SenderStop, OfWriter
<1> QED
  BY <1>2, <1>3, <1>4, <1>5, <1>6, <1>7, <1>8, <1>9, <1>10, <1>11, <1>12 DEF Next

\* Type correctness: no channel and no stream holds more than it can.
THEOREM TypeCorrect == Spec => []TypeOK
<1>1. Init => TypeOK
  <2> SUFFICES ASSUME Init PROVE TypeOK
    OBVIOUS
  <2>1. <<>> \in Seq(Packets) /\ <<>> \in Seq(Announcements) /\ Len(<<>>) = 0
    OBVIOUS
  <2>2. /\ queue \in [Writers -> Seq(Packets)] /\ flight \in [Writers -> Seq(Announcements)]
        /\ \A w \in Writers : Len(queue[w]) <= MaxQueue /\ Len(flight[w]) <= MaxFlight
    BY <2>1, AnnounceAssumption DEF AnnounceAssumption, Init
  <2>3. retry \in [Announcements -> 0..MaxRetry]
    BY AnnounceAssumption DEF AnnounceAssumption, Init
  <2>4. last \in Packets /\ late \in BOOLEAN /\ subscribed \in BOOLEAN /\ told \in BOOLEAN
    BY DEF Init, Packets
  <2> QED
    BY <2>2, <2>3, <2>4 DEF TypeOK
<1> QED
  BY <1>1, StepTypeOK, PTL DEF Spec

-----------------------------------------------------------------------------
(* Announce is a refinement of PeerConn *)

\* The life of the peer in Announce is one that PeerConn allows, so that what
\* is proved of PeerConn holds here, too.
THEOREM Lives == Spec => Conn!Spec
<1>1. Init => Conn!Init
  BY DEF Init
<1>2. [Next]_vars => [Conn!Next]_Conn!vars
  <2> SUFFICES ASSUME [Next]_vars PROVE [Conn!Next]_Conn!vars
    OBVIOUS
  <2> USE DEF Conn!Next, Conn!Network, Conn!Loop, Conn!Goroutine
  <2>1. CASE Spawning
    BY <2>1 DEF Spawning
  <2>2. CASE Connect \/ Disconnect
    BY <2>2 DEF Connect, Disconnect
  <2>4. ASSUME NEW w \in Writers, Cut(w) \/ SenderStop(w) \/ WriteFails(w) \/ OfWriter(w)
        PROVE  Conn!Next
    BY <2>4 DEF Cut, SenderStop, WriteFails, OfWriter
  <2>5. CASE UNCHANGED connVars
    BY <2>5 DEF connVars, Conn!vars, Conn!loopVars, Conn!goVars, Conn!banVars
  <2> QED
    BY <2>1, <2>2, <2>4, <2>5
    DEF Next, Subscription, Write, Lose, Deliver, PeerForgets, Retry, vars
<1> QED
  BY <1>1, <1>2, PTL DEF Spec, Conn!Spec
-----------------------------------------------------------------------------
(* What the peer holds is what it was told last *)

lastOf(s) == s[Len(s)]

\* What is on its way to the peer ends with the last word l, or the peer, that
\* holds t, has got it, or has got something from an old stream after it (h).
Coming(q, f, l, t, h) ==
    \/ l = "empty"
    \/ IF q # <<>> THEN lastOf(q) = l
       ELSE IF f # <<>> THEN lastOf(f) = l
       ELSE h \/ t = (l = "sub")

Flowing(w) ==
    /\ stream[w] = "none" => queue[w] # <<>> /\ lastOf(queue[w]) = last
    /\ stream[w] = "up" => Coming(queue[w], flight[w], last, told, late)

GoTypes ==
    /\ conn \in Nat /\ current \in Writers \cup {None}
    /\ open \in [Writers -> {"opening", "hasStream", "failed", "done"}]
    /\ stream \in [Writers -> {"none", "up", "cut"}]
    /\ eof \in [Writers -> {"reading", "dead", "done"}]
    /\ sender \in [Writers -> {"sending", "done"}]

\* Only the current writer opens or has a stream, or watches one.
LifeOf(w) ==
    /\ open[w] \in {"opening", "failed"} =>
        current = w /\ stream[w] = "none" /\ eof[w] = "done" /\ sender[w] = "done"
    /\ eof[w] # "done" => current = w
    /\ eof[w] = "dead" => stream[w] = "cut"
    /\ stream[w] = "up" => current = w /\ sender[w] = "sending" /\ conn > 0
    /\ sender[w] = "sending" => stream[w] # "none"

HeardInv ==
    /\ TypeOK /\ GoTypes /\ loop = "run" /\ ~blacklisted
    /\ current # None => current \notin closed
    /\ \A w \in Writers : LifeOf(w)
    /\ current # None => Flowing(current)

LEMMA Bounds == MaxQueue \in Nat /\ MaxFlight \in Nat /\ None \notin Writers
BY AnnounceAssumption DEF AnnounceAssumption

\* The last element of what has grown, or has lost its head.
LEMMA AppendLast ==
    ASSUME NEW S, NEW s \in Seq(S), NEW e \in S
    PROVE  Append(s, e) # <<>> /\ lastOf(Append(s, e)) = e
BY DEF lastOf

LEMMA TailLast ==
    ASSUME NEW S, NEW s \in Seq(S), s # <<>>
    PROVE  /\ Head(s) \in S /\ Tail(s) \in Seq(S)
           /\ Tail(s) = <<>> => Head(s) = lastOf(s)
           /\ Tail(s) # <<>> => lastOf(Tail(s)) = lastOf(s)
<1>1. Len(s) \in Nat /\ Len(s) # 0
  BY EmptySeq
<1>2. Tail(s) \in Seq(S) /\ Head(s) \in S /\ Len(Tail(s)) = Len(s) - 1
  BY HeadTailProperties
<1>3. \A i \in 1..Len(Tail(s)) : Tail(s)[i] = s[i + 1]
  BY HeadTailProperties
<1>4. ASSUME Tail(s) = <<>> PROVE Head(s) = lastOf(s)
  <2>1. Len(s) = 1
    BY <1>1, <1>2, <1>4, EmptySeq
  <2> QED
    BY <2>1 DEF lastOf
<1>5. ASSUME Tail(s) # <<>> PROVE lastOf(Tail(s)) = lastOf(s)
  <2>1. Len(Tail(s)) \in Nat \ {0}
    BY <1>2, <1>5, EmptySeq
  <2>2. Tail(s)[Len(Tail(s))] = s[Len(Tail(s)) + 1]
    <3>1. \A n \in Nat \ {0} : n \in 1..n
      OBVIOUS
    <3>2. Len(Tail(s)) \in 1..Len(Tail(s))
      BY <2>1, <3>1, Zenon
    <3> QED
      BY <1>3, <3>2, Zenon
  <2>3. Len(Tail(s)) + 1 = Len(s)
    BY <1>1, <1>2
  <2> QED
    BY <2>2, <2>3 DEF lastOf
<1> QED
  BY <1>2, <1>4, <1>5

\* Steps of the life of the peer that put nothing into a channel.
LEMMA LifeHeard ==
    ASSUME HeardInv, TypeOK', UNCHANGED outVars, told' = told,
           \/ Conn!Connect
           \/ \E w \in Writers : Conn!NewPeerStream(w) \/ Conn!OpenStream(w) \/ Conn!OpenFails(w)
                                 \/ Conn!ReadEOF(w) \/ Conn!SenderStop(w)
    PROVE  HeardInv'
<1> USE DEF Conn!loopVars, Conn!goVars, Conn!banVars
<1>0. UNCHANGED <<queue, flight, last>> /\ None \notin Writers
  BY Bounds DEF outVars
<1> USE DEF outVars
<1>1. CASE Conn!Connect
  BY <1>0, <1>1 DEF Conn!Connect, HeardInv, GoTypes, LifeOf, Flowing
<1>3. ASSUME NEW w \in Writers, Conn!NewPeerStream(w) PROVE HeardInv'
  <2>1. /\ open' = [open EXCEPT ![w] = "done"] /\ open[w] = "hasStream"
        /\ UNCHANGED <<conn, loop, current, eof, sender, blacklisted>>
    BY <1>3 DEF Conn!NewPeerStream
  <2>2. CASE current = None
    <3>1. current = None /\ closed' = closed /\ stream' = [v \in Writers |-> IF v = w THEN "cut" ELSE stream[v]]
      BY <1>3, <2>2 DEF Conn!NewPeerStream, Conn!forgotten, Conn!entry, Conn!cut, HeardInv
    <3> QED
      BY <1>0, <2>1, <3>1 DEF HeardInv, GoTypes, LifeOf
  <2>3. CASE current # None
    <3>1. UNCHANGED <<closed, stream>>
      BY <1>3, <2>3 DEF Conn!NewPeerStream, Conn!forgotten, HeardInv
    <3> QED
      BY <1>0, <2>1, <2>3, <3>1 DEF HeardInv, GoTypes, LifeOf, Flowing
  <2> QED
    BY <2>2, <2>3
<1>4. ASSUME NEW w \in Writers, Conn!OpenStream(w) PROVE HeardInv'
  <2>1. /\ open[w] = "opening" /\ conn > 0
        /\ open' = [open EXCEPT ![w] = "hasStream"] /\ stream' = [stream EXCEPT ![w] = "up"]
        /\ eof' = [eof EXCEPT ![w] = "reading"] /\ sender' = [sender EXCEPT ![w] = "sending"]
        /\ UNCHANGED <<conn, loop, current, closed, blacklisted>>
    BY <1>4 DEF Conn!OpenStream
  <2>2. \A v \in Writers : LifeOf(v)'
    BY <1>0, <2>1 DEF HeardInv, GoTypes, LifeOf
  <2>3. current # None => Flowing(current)'
    BY <1>0, <2>1 DEF HeardInv, GoTypes, LifeOf, Flowing, Coming
  <2>4. GoTypes'
    BY <2>1 DEF HeardInv, GoTypes
  <2> QED
    BY <2>1, <2>2, <2>3, <2>4 DEF HeardInv
<1>5. ASSUME NEW w \in Writers, Conn!OpenFails(w) PROVE HeardInv'
  <2>1. /\ open[w] = "opening" /\ open' = [open EXCEPT ![w] = "failed"]
        /\ UNCHANGED <<conn, loop, current, closed, blacklisted, stream, eof, sender>>
    BY <1>5 DEF Conn!OpenFails
  <2> QED
    BY <1>0, <2>1 DEF HeardInv, GoTypes, LifeOf, Flowing
<1>6. ASSUME NEW w \in Writers, Conn!ReadEOF(w) PROVE HeardInv'
  <2>1. /\ eof[w] = "reading" /\ stream[w] = "cut" /\ eof' = [eof EXCEPT ![w] = "dead"]
        /\ UNCHANGED <<conn, loop, current, closed, blacklisted, open, stream, sender>>
    BY <1>6 DEF Conn!ReadEOF, Conn!readFails
  <2> QED
    BY <1>0, <2>1 DEF HeardInv, GoTypes, LifeOf, Flowing
<1>7. ASSUME NEW w \in Writers, Conn!SenderStop(w) PROVE HeardInv'
  <2>1. /\ sender[w] = "sending" /\ w \in closed /\ sender' = [sender EXCEPT ![w] = "done"]
        /\ stream' = [v \in Writers |-> IF v = w THEN "cut" ELSE stream[v]]
        /\ UNCHANGED <<conn, loop, current, closed, blacklisted, open, eof>>
    BY <1>7 DEF Conn!SenderStop, Conn!cut, HeardInv
  <2>2. w # current
    BY <1>0, <2>1 DEF HeardInv
  <2>3. \A v \in Writers : LifeOf(v)'
    BY <1>0, <2>1, <2>2 DEF HeardInv, GoTypes, LifeOf
  <2>4. current # None => Flowing(current)'
    BY <1>0, <2>1, <2>2 DEF HeardInv, GoTypes, Flowing
  <2>5. GoTypes'
    BY <2>1 DEF HeardInv, GoTypes
  <2> QED
    BY <2>1, <2>3, <2>4, <2>5 DEF HeardInv
<1> QED
  BY <1>1, <1>3, <1>4, <1>5, <1>6, <1>7

\* A stream that is cut may lose what it carries: the peer need not be told.
LEMMA CutHeard ==
    ASSUME HeardInv, TypeOK', NEW W \in SUBSET Writers,
           \A w \in W : stream[w] = "up",
           stream' = [w \in Writers |-> IF w \in W THEN "cut" ELSE stream[w]],
           conn' \in Nat, conn' > 0 \/ conn' = conn \/ \A w \in Writers : stream[w] = "up" => w \in W,
           UNCHANGED <<loop, current, closed, open, eof, sender, blacklisted, told, outVars>>
    PROVE  HeardInv'
<1>1. GoTypes'
  BY DEF HeardInv, GoTypes
<1>2. \A w \in Writers : stream'[w] = IF w \in W THEN "cut" ELSE stream[w]
  OBVIOUS
<1>3. \A w \in Writers : LifeOf(w)'
  BY <1>2 DEF HeardInv, GoTypes, LifeOf
<1>4. current # None => Flowing(current)'
  <2> SUFFICES ASSUME current # None PROVE Flowing(current)'
    OBVIOUS
  <2>1. current \in Writers /\ Flowing(current)
    BY DEF HeardInv, GoTypes
  <2> QED
    BY <1>2, <2>1 DEF Flowing, outVars
<1> QED
  BY <1>1, <1>3, <1>4 DEF HeardInv

LEMMA DisconnectHeard ==
    ASSUME HeardInv, TypeOK', Disconnect
    PROVE  HeardInv'
<1>1. PICK W \in SUBSET Conn!up :
        /\ conn = 1 => W = Conn!up
        /\ stream' = [w \in Writers |-> IF w \in W THEN "cut" ELSE stream[w]]
  BY DEF Disconnect, Conn!Disconnect, Conn!cut
<1>2. /\ W \in SUBSET Writers /\ \A w \in W : stream[w] = "up"
      /\ conn = 1 => \A w \in Writers : stream[w] = "up" => w \in W
  BY <1>1 DEF Conn!up
<1>3. conn > 0 /\ conn' = conn - 1 /\ conn \in Nat
  BY DEF Disconnect, Conn!Disconnect, HeardInv, GoTypes
<1>4. conn' \in Nat /\ (conn' > 0 \/ conn = 1)
  BY <1>3
<1>5. UNCHANGED <<loop, current, closed, open, eof, sender, blacklisted, told, outVars>>
  BY DEF Disconnect, Conn!Disconnect, Conn!loopVars, Conn!banVars
<1> QED
  BY <1>1, <1>2, <1>4, <1>5, CutHeard

LEMMA CutOneHeard ==
    ASSUME HeardInv, TypeOK', NEW w \in Writers, Cut(w)
    PROVE  HeardInv'
<1>1. /\ {w} \in SUBSET Writers /\ \A v \in {w} : stream[v] = "up"
      /\ stream' = [v \in Writers |-> IF v \in {w} THEN "cut" ELSE stream[v]]
      /\ UNCHANGED <<loop, current, closed, open, eof, sender, blacklisted, told, outVars>>
      /\ conn' = conn
  BY DEF Cut, Conn!Cut, Conn!cut, Conn!loopVars, Conn!banVars
<1>2. conn' \in Nat
  BY <1>1 DEF HeardInv, GoTypes
<1> QED
  BY <1>1, <1>2, CutHeard

\* What an old stream carries does not matter.
LEMMA LoseHeard ==
    ASSUME HeardInv, TypeOK', NEW w \in Writers, Lose(w)
    PROVE  HeardInv'
<1>1. /\ stream[w] = "cut" /\ \A v \in Writers \ {w} : flight'[v] = flight[v]
      /\ UNCHANGED <<connVars, told, queue, last, late>>
  BY DEF Lose, HeardInv, TypeOK
<1>2. \A v \in Writers : LifeOf(v)'
  BY <1>1 DEF connVars, HeardInv, LifeOf
<1>3. current # None => Flowing(current)'
  BY <1>1 DEF connVars, HeardInv, GoTypes, Flowing
<1> QED
  BY <1>1, <1>2, <1>3 DEF connVars, HeardInv, GoTypes

\* A peer without a connection has no stream of ours.
LEMMA PeerForgetsHeard ==
    ASSUME HeardInv, TypeOK', PeerForgets
    PROVE  HeardInv'
<1>1. conn = 0 /\ UNCHANGED <<connVars, outVars>>
  BY DEF PeerForgets
<1>2. \A v \in Writers : LifeOf(v)' /\ stream[v] # "up"
  BY <1>1 DEF connVars, HeardInv, LifeOf
<1>3. current # None => Flowing(current)'
  BY <1>1, <1>2 DEF connVars, outVars, HeardInv, GoTypes, Flowing
<1> QED
  BY <1>1, <1>2, <1>3 DEF connVars, HeardInv, GoTypes

\* A new writer finds nothing under way, and starts with the hello packet.
LEMMA SpawnHeard ==
    ASSUME HeardInv, TypeOK', NEW o \in [Writers -> {"opening", "hasStream", "failed", "done"}],
           NEW W, NEW w \in Writers, Conn!Free(w),
           \A v \in Writers \ {w} :
                /\ o[v] \notin {"opening", "failed"} /\ eof'[v] = "done" /\ stream[v] # "up",
           eof' \in [Writers -> {"reading", "dead", "done"}], eof'[w] = eof[w],
           open' = [o EXCEPT ![w] = "opening"], stream' = [stream EXCEPT ![w] = "none"],
           closed' = (closed \cup W) \ {w}, current' = w, greet,
           UNCHANGED <<conn, loop, sender, blacklisted>>
    PROVE  HeardInv'
<1>1. /\ queue'[w] = <<hello>> /\ last' = hello
      /\ eof[w] = "done" /\ sender[w] = "done"
  BY Bounds DEF greet, Conn!Free
<1>2. GoTypes'
  BY DEF HeardInv, GoTypes
<1>3. ASSUME NEW v \in Writers PROVE LifeOf(v)'
  BY <1>1 DEF HeardInv, GoTypes, LifeOf
<1>4. Flowing(w)'
  <2>2. <<hello>> # <<>> /\ lastOf(<<hello>>) = hello
    BY DEF lastOf
  <2>3. stream'[w] = "none"
    BY DEF HeardInv, GoTypes
  <2> QED
    BY <1>1, <2>2, <2>3 DEF Flowing
<1>5. w \notin closed'
  OBVIOUS
<1> QED
  BY <1>2, <1>3, <1>4, <1>5, Bounds DEF HeardInv

LEMMA SpawningHeard ==
    ASSUME HeardInv, TypeOK', Spawning
    PROVE  HeardInv'
<1>0. greet /\ told' = told /\ None \notin Writers
  BY Bounds DEF Spawning
<1>1. CASE Conn!NewPeer
  <2>1. UNCHANGED <<conn, loop, eof, sender, blacklisted>>
    BY <1>1 DEF Conn!NewPeer, Conn!banVars
  <2>2. CASE UNCHANGED <<current, closed, open, stream>>
    <3>1. UNCHANGED outVars
      BY <1>0, <2>2 DEF greet
    <3> QED
      BY <1>0, <2>1, <2>2, <3>1 DEF outVars, HeardInv, GoTypes, LifeOf, Flowing
  <2>3. CASE current = None /\ Conn!spawnAfter({}, open)
    <3>1. PICK w \in Writers :
            /\ Conn!Free(w) /\ open' = [open EXCEPT ![w] = "opening"]
            /\ stream' = [stream EXCEPT ![w] = "none"]
            /\ closed' = (closed \cup {}) \ {w} /\ current' = w
      BY <2>3 DEF Conn!spawnAfter
    <3>2. \A v \in Writers :
            open[v] \notin {"opening", "failed"} /\ eof[v] = "done" /\ stream[v] # "up"
      BY <1>0, <2>3 DEF HeardInv, LifeOf
    <3>3. /\ open \in [Writers -> {"opening", "hasStream", "failed", "done"}]
          /\ eof \in [Writers -> {"reading", "dead", "done"}]
      BY DEF HeardInv, GoTypes
    <3> QED
      BY <1>0, <2>1, <2>3, <3>1, <3>2, <3>3, SpawnHeard
  <2> QED
    BY <1>1, <2>2, <2>3 DEF Conn!NewPeer, Conn!hasPeer
<1>2. ASSUME NEW w \in Writers, Conn!PeerDead(w) PROVE HeardInv'
  <2> DEFINE o == Conn!reportedOpen(w)
  <2>1. /\ open[w] = "failed" \/ eof[w] = "dead"
        /\ eof' = [eof EXCEPT ![w] = "done"]
        /\ UNCHANGED <<conn, loop, sender, blacklisted>>
    BY <1>2 DEF Conn!PeerDead, Conn!reportsEnd, Conn!banVars
  <2>2. o = [open EXCEPT ![w] = IF open[w] = "failed" THEN "done" ELSE open[w]]
    BY DEF Conn!reportedOpen
  <2>3. GoTypes /\ current \in Writers \cup {None}
    BY DEF HeardInv, GoTypes
  <2>4. o \in [Writers -> {"opening", "hasStream", "failed", "done"}]
    BY <2>2, <2>3 DEF GoTypes
  <2>5. eof' \in [Writers -> {"reading", "dead", "done"}]
    BY <2>1, <2>3 DEF GoTypes
  <2>6. /\ current = w
        /\ \A v \in Writers : /\ o[v] \notin {"opening", "failed"} /\ eof'[v] = "done"
                              /\ stream[v] # "up"
    BY <2>1, <2>2, <2>3 DEF HeardInv, GoTypes, LifeOf
  <2> HIDE DEF o
  <2>8. CASE current # None /\ Conn!forget /\ open' = o /\ UNCHANGED stream
    <3>1. current' = None
      BY <2>8 DEF Conn!forget
    <3>2. \A v \in Writers : LifeOf(v)'
      BY <2>1, <2>6, <2>8, <3>1 DEF HeardInv, LifeOf
    <3> QED
      BY <2>1, <2>3, <2>4, <2>5, <2>8, <3>1, <3>2 DEF HeardInv, GoTypes
  <2>9. CASE current # None /\ Conn!spawnAfter(Conn!entry, o)
    <3>1. PICK x \in Writers :
            /\ Conn!Free(x) /\ open' = [o EXCEPT ![x] = "opening"]
            /\ stream' = [stream EXCEPT ![x] = "none"]
            /\ closed' = (closed \cup Conn!entry) \ {x} /\ current' = x
      BY <2>9 DEF Conn!spawnAfter
    <3>2. x # w
      BY <2>6, <3>1 DEF Conn!Free
    <3>3. eof'[x] = eof[x]
      BY <2>1, <2>3, <3>2 DEF GoTypes
    <3> QED
      BY <1>0, <2>1, <2>4, <2>5, <2>6, <3>1, <3>2, <3>3, SpawnHeard
  <2> QED
    BY <1>0, <1>2, <2>6, <2>8, <2>9 DEF Conn!PeerDead, Conn!loopVars, o
<1> QED
  BY <1>1, <1>2 DEF Spawning

\* Announcements go behind what is in the channel.
LEMMA SendHeard ==
    ASSUME HeardInv, TypeOK', UNCHANGED <<connVars, told>>,
           NEW a \in Announcements, NEW n, send(a, n)
    PROVE  HeardInv'
<1>1. CASE UNCHANGED outVars
  BY <1>1 DEF connVars, outVars, HeardInv, GoTypes, LifeOf, Flowing
<1>2. CASE /\ current # None /\ queue' = [queue EXCEPT ![current] = Append(@, a)]
           /\ last' = a /\ UNCHANGED <<flight, late>>
  <2>1. current \in Writers /\ queue[current] \in Seq(Packets) /\ a \in Packets
    BY <1>2 DEF HeardInv, GoTypes, TypeOK, Packets
  <2>2. queue'[current] = Append(queue[current], a)
    BY <1>2, <2>1 DEF HeardInv, TypeOK
  <2>3. queue'[current] # <<>> /\ lastOf(queue'[current]) = a
    BY <2>1, <2>2, AppendLast
  <2>4. Flowing(current)'
    BY <1>2, <2>3 DEF Flowing, Coming, connVars
  <2> QED
    BY <1>2, <2>4 DEF connVars, HeardInv, GoTypes, LifeOf
<1> QED
  BY <1>1, <1>2 DEF send

\* A packet goes from the channel to the stream in order.
LEMMA WriteHeard ==
    ASSUME HeardInv, TypeOK', NEW w \in Writers, Write(w)
    PROVE  HeardInv'
<1>1. /\ queue[w] \in Seq(Packets) /\ queue[w] # <<>> /\ flight[w] \in Seq(Announcements)
      /\ queue'[w] = Tail(queue[w]) /\ \A v \in Writers \ {w} : queue'[v] = queue[v]
      /\ sender[w] = "sending" /\ UNCHANGED <<connVars, told, last, late>>
  BY DEF Write, HeardInv, TypeOK
<1>2. \/ /\ Head(queue[w]) # "empty" /\ flight'[w] = Append(flight[w], Head(queue[w]))
         /\ \A v \in Writers \ {w} : flight'[v] = flight[v]
      \/ (Head(queue[w]) = "empty" \/ stream[w] = "cut") /\ UNCHANGED flight
  BY DEF Write, HeardInv, TypeOK
<1>3. /\ Head(queue[w]) \in Packets
      /\ Tail(queue[w]) = <<>> => Head(queue[w]) = lastOf(queue[w])
      /\ Tail(queue[w]) # <<>> => lastOf(Tail(queue[w])) = lastOf(queue[w])
  BY <1>1, TailLast
<1>4. Head(queue[w]) # "empty" =>
      /\ Append(flight[w], Head(queue[w])) # <<>>
      /\ lastOf(Append(flight[w], Head(queue[w]))) = Head(queue[w])
  BY <1>1, <1>3, AppendLast DEF Packets
<1>5. \A v \in Writers : LifeOf(v)'
  BY <1>1 DEF connVars, HeardInv, LifeOf
<1>6. current # None => Flowing(current)'
  <2> SUFFICES ASSUME current # None PROVE Flowing(current)'
    OBVIOUS
  <2>1. /\ current \in Writers /\ Flowing(current) /\ LifeOf(current)
        /\ UNCHANGED <<current, stream, told, last, late>>
    BY <1>1 DEF connVars, HeardInv, GoTypes
  <2>2. CASE current # w
    BY <1>1, <1>2, <2>1, <2>2 DEF Flowing
  <2>3. CASE current = w /\ stream[w] = "up"
    BY <1>1, <1>2, <1>3, <1>4, <2>1, <2>3 DEF Flowing, Coming
  <2>4. CASE current = w /\ stream[w] # "up"
    BY <1>1, <2>1, <2>4 DEF Flowing, LifeOf
  <2> QED
    BY <2>2, <2>3, <2>4
<1> QED
  BY <1>1, <1>5, <1>6 DEF connVars, HeardInv, GoTypes

\* What the peer hears is of the current stream, in order, or late.
LEMMA DeliverHeard ==
    ASSUME HeardInv, TypeOK', NEW w \in Writers, Deliver(w)
    PROVE  HeardInv'
<1>1. /\ flight[w] \in Seq(Announcements) /\ flight[w] # <<>>
      /\ flight'[w] = Tail(flight[w]) /\ \A v \in Writers \ {w} : flight'[v] = flight[v]
      /\ told' = hears(Head(flight[w])) /\ late' = (w # current)
      /\ UNCHANGED <<connVars, queue, last>>
  BY DEF Deliver, HeardInv, TypeOK
<1>2. /\ Tail(flight[w]) = <<>> => Head(flight[w]) = lastOf(flight[w])
      /\ Tail(flight[w]) # <<>> => lastOf(Tail(flight[w])) = lastOf(flight[w])
  BY <1>1, TailLast
<1>3. \A v \in Writers : LifeOf(v)'
  BY <1>1 DEF connVars, HeardInv, LifeOf
<1>4. current # None => Flowing(current)'
  <2> SUFFICES ASSUME current # None PROVE Flowing(current)'
    OBVIOUS
  <2>1. current \in Writers /\ Flowing(current) /\ UNCHANGED <<current, stream, queue, last>>
    BY <1>1 DEF connVars, HeardInv, GoTypes
  <2>2. Coming(queue[current], flight[current], last, told, late)
          => Coming(queue[current], flight'[current], last, told', late')
    <3>1. CASE w = current
      BY <1>1, <1>2, <3>1 DEF Coming, hears
    <3>2. CASE w # current
      BY <1>1, <2>1, <3>2 DEF Coming
    <3> QED
      BY <3>1, <3>2
  <2> QED
    BY <2>1, <2>2 DEF Flowing
<1> QED
  BY <1>1, <1>3, <1>4 DEF connVars, HeardInv, GoTypes

LEMMA WriteFailsHeard ==
    ASSUME HeardInv, TypeOK', NEW w \in Writers, WriteFails(w)
    PROVE  HeardInv'
<1>1. /\ sender' = [sender EXCEPT ![w] = "done"] /\ stream[w] = "cut"
      /\ UNCHANGED <<conn, loop, current, closed, blacklisted, open, stream, eof, told, flight, last, late>>
      /\ \A v \in Writers \ {w} : queue'[v] = queue[v]
  BY DEF WriteFails, Conn!WriteFails, Conn!loopVars, Conn!banVars, HeardInv, TypeOK
<1>2. \A v \in Writers : LifeOf(v)'
  BY <1>1 DEF HeardInv, GoTypes, LifeOf
<1>3. current # None => Flowing(current)'
  BY <1>1 DEF HeardInv, GoTypes, Flowing
<1> QED
  BY <1>1, <1>2, <1>3 DEF HeardInv, GoTypes

LEMMA StepHeard == HeardInv /\ TypeOK' /\ [Next]_vars => HeardInv'
<1> SUFFICES ASSUME HeardInv, TypeOK', [Next]_vars PROVE HeardInv'
  OBVIOUS
<1>1. CASE Spawning
  BY <1>1, SpawningHeard
<1>2. CASE Connect \/ Disconnect \/ PeerForgets
  BY <1>2, LifeHeard, DisconnectHeard, PeerForgetsHeard DEF Connect
<1>4. ASSUME NEW w \in Writers, OfWriter(w) \/ SenderStop(w) PROVE HeardInv'
  BY <1>4, LifeHeard DEF OfWriter, SenderStop
<1>5. ASSUME NEW w \in Writers, Cut(w) \/ WriteFails(w) \/ Write(w) \/ Lose(w) \/ Deliver(w)
      PROVE  HeardInv'
  BY <1>5, CutOneHeard, WriteFailsHeard, WriteHeard, LoseHeard, DeliverHeard
<1>6. CASE Subscription
  <2>1. PICK a \in Announcements : send(a, retry)
    BY <1>6 DEF Subscription, Announcements
  <2> QED
    BY <1>6, <2>1, SendHeard DEF Subscription
<1>7. CASE UNCHANGED <<connVars, told, outVars>>
  BY <1>7 DEF connVars, outVars, HeardInv, GoTypes, LifeOf, Flowing
<1>8. ASSUME NEW a \in Announcements, Retry(a) PROVE HeardInv'
  BY <1>7, <1>8, SendHeard DEF Retry
<1> QED
  BY <1>1, <1>2, <1>4, <1>5, <1>6, <1>7, <1>8 DEF Next, vars

\* Once everything written to the current stream is delivered, the peer holds
\* the last word about the topic, whatever streams were lost before, whatever
\* their packets still do and whoever was respawned, unless the peer handles
\* one of these packets after those of the current stream.
THEOREM HeardRight == Spec => []Heard
<1>1. Init /\ TypeOK => HeardInv
  BY AnnounceAssumption DEF AnnounceAssumption, Init, Conn!Init, HeardInv, GoTypes, LifeOf
<1>2. HeardInv => Heard
  BY DEF HeardInv, GoTypes, LifeOf, Heard, Flowing, Coming
<1>3. HeardInv /\ TypeOK' /\ [Next]_vars => HeardInv'
  BY StepHeard
<1> QED
  BY <1>1, <1>2, <1>3, TypeCorrect, PTL DEF Spec
=============================================================================
