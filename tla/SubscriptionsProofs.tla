------------------------ MODULE SubscriptionsProofs ------------------------
(***************************************************************************)
(* Proofs about Subscriptions, for any number of topics, subscriptions,    *)
(* callers and messages and for every capacity: the process loop panics    *)
(* only on a second Cancel, the announcements follow the subscriptions,    *)
(* messages are delivered in order and not too often, and the              *)
(* subscriptions implement Feed.                                           *)
(***************************************************************************)
EXTENDS Subscriptions, FiniteSetTheorems, FunctionTheorems, SequenceTheorems, TLAPS

(***************************************************************************)
(* The inductive invariant. LoopInv: a message is being delivered while    *)
(* there are topics to do. BookInv: what is in the bookkeeping is open,    *)
(* and what was returned is in it or closed. CallInv: the requests on      *)
(* their way are for subscriptions in the right state. CancelInv: a        *)
(* request to cancel what is closed, or one beside another, is a second.   *)
(* OrderInv: what a subscription was given of the message at hand, and     *)
(* what the topic IDs still to do may give it, its topic IDs account for.  *)
(***************************************************************************)
LoopInv == todo # <<>> => handled \in Msgs

BookInv ==
    /\ \A t \in Topics : \A s \in myTopics[t] : TopicOf[s] = t /\ s \in used /\ s \notin closed
    /\ \A s \in held : s \in closed \/ s \in myTopics[TopicOf[s]]
    /\ \A s \in closed : s \in held /\ cancels[s] >= 1
    /\ joined = {t \in Topics : myTopics[t] # {}}

CallInv ==
    \A n \in Callers :
        /\ call[n].op \in {"Cancel", "Next"} => call[n].sub \in held
        /\ call[n].op = "Subscribe" =>
            /\ call[n].sub \in used \ held
            /\ call[n].at = "send" => call[n].sub \notin myTopics[TopicOf[call[n].sub]]
            /\ call[n].at = "wait" => call[n].sub \in myTopics[TopicOf[call[n].sub]]
            /\ \A k \in Callers :
                call[k].op = "Subscribe" /\ call[k].sub = call[n].sub => k = n

CancelInv ==
    /\ \A n \in Callers : call[n].op = "Cancel" =>
        /\ cancels[call[n].sub] >= 1
        /\ call[n].sub \in closed => cancels[call[n].sub] >= 2
        /\ \A k \in Callers :
            call[k].op = "Cancel" /\ call[k].sub = call[n].sub /\ k # n => cancels[call[n].sub] >= 2
    /\ PanicsOnlyOnMisuse

\* A subscription of topic t that was given q, while the message h is delivered and
\* the topic IDs rest are still to do.
orderly(q, h, rest, t) ==
    /\ \A i \in DOMAIN q : q[i] <= h
    /\ \A i, j \in DOMAIN q : i <= j => q[i] <= q[j]
    /\ \A m \in Msgs :
        count(q, m) + (IF m = h THEN count(rest, t) ELSE 0) <= count(Lists[m], t)

OrderInv == \A s \in Subs : orderly(got[s] \o ch[s], handled, todo, TopicOf[s])

IInv == TypeOK /\ LoopInv /\ BookInv /\ CallInv /\ CancelInv /\ OrderInv

-----------------------------------------------------------------------------

\* The calls that enter and the callers that leave keep the type of call.
LEMMA CallTypes ==
    ASSUME call \in [Callers -> Calls], NEW n \in Callers
    PROVE  /\ \A o \in Ops, s \in Subs \cup {None}, a \in {"send", "wait"} :
                Enter(n, o, s, a) => call' \in [Callers -> Calls]
           /\ Leave(n) => call' \in [Callers -> Calls]
           /\ call[n].op \in Ops /\ Answer(n) => call' \in [Callers -> Calls]
<1>1. \A o \in Ops, s \in Subs \cup {None}, a \in {"send", "wait"} :
        [op |-> o, sub |-> s, at |-> a] \in Calls
  BY DEF Calls
<1>2. Out \in Calls
  BY DEF Calls
<1>3. ASSUME call[n].op \in Ops PROVE [call[n] EXCEPT !.at = "wait"] \in Calls
  <2>1. call[n] \in [op : Ops, sub : Subs \cup {None}, at : {"send", "wait"}]
    BY <1>3 DEF Calls, Out, Ops, Requests
  <2> QED
    BY <2>1 DEF Calls
<1> QED
  BY <1>1, <1>2, <1>3 DEF Enter, Leave, Answer

\* A call that is under way names a subscription that was made.
LEMMA CalledSub ==
    ASSUME TypeOK, CallInv, NEW n \in Callers, call[n].op \in {"Subscribe", "Cancel", "Next"}
    PROVE  call[n].sub \in Subs /\ TopicOf[call[n].sub] \in Topics
BY SubscriptionsAssumption DEF SubscriptionsAssumption, TypeOK, CallInv

\* Every step keeps the types.
LEMMA StepTypeOK == TypeOK /\ LoopInv /\ CallInv /\ [Next]_vars => TypeOK'
<1> SUFFICES ASSUME TypeOK, LoopInv, CallInv, [Next]_vars PROVE TypeOK'
  OBVIOUS
<1> USE SubscriptionsAssumption DEF SubscriptionsAssumption, loopVars, subVars, appVars, readVars
<1>1. CASE UNCHANGED vars
  BY <1>1 DEF TypeOK, vars
<1>2. ASSUME NEW n \in Callers, NEW s \in Subs, Subscribe(n, s) PROVE TypeOK'
  <2>1. call' \in [Callers -> Calls]
    BY <1>2, CallTypes DEF Subscribe, TypeOK, Ops, Requests
  <2> QED
    BY <1>2, <2>1 DEF Subscribe, TypeOK
<1>3. ASSUME NEW n \in Callers, NEW s \in Subs, Cancel(n, s) PROVE TypeOK'
  <2>1. call' \in [Callers -> Calls]
    BY <1>3, CallTypes DEF Cancel, TypeOK, Ops, Requests
  <2> QED
    BY <1>3, <2>1 DEF Cancel, TypeOK
<1>4. ASSUME NEW n \in Callers, NEW s \in Subs, Next_(n, s) PROVE TypeOK'
  <2>1. call' \in [Callers -> Calls]
    BY <1>4, CallTypes DEF Next_, TypeOK, Ops
  <2> QED
    BY <1>4, <2>1 DEF Next_, TypeOK
<1>5. ASSUME NEW n \in Callers, NEW o \in Requests, Ask(n, o) PROVE TypeOK'
  <2>1. call' \in [Callers -> Calls]
    BY <1>5, CallTypes DEF Ask, TypeOK, Ops
  <2> QED
    BY <1>5, <2>1 DEF Ask, TypeOK
<1>6. ASSUME NEW n \in Callers, GiveUp(n) PROVE TypeOK'
  <2>1. call' \in [Callers -> Calls]
    BY <1>6, CallTypes DEF GiveUp, TypeOK
  <2> QED
    BY <1>6, <2>1 DEF GiveUp, TypeOK
<1>7. ASSUME NEW n \in Callers, Take(n) PROVE TypeOK'
  <2>1. call' \in [Callers -> Calls]
    BY <1>7, CallTypes DEF Take, TypeOK
  <2>2. PICK s \in Subs : s = call[n].sub
    BY <1>7, CalledSub DEF Take, reads
  <2>3. ch[s] # <<>> => /\ Head(ch[s]) \in Msgs /\ Tail(ch[s]) \in Seq(Msgs)
                       /\ Len(Tail(ch[s])) <= Capacity
                       /\ Append(got[s], Head(ch[s])) \in Seq(Msgs)
    BY DEF TypeOK
  <2>4. ended' \subseteq Subs
    BY <1>7, <2>2 DEF Take, TypeOK
  <2>5. \/ ch[s] # <<>> /\ ch' = [ch EXCEPT ![s] = Tail(ch[s])]
                        /\ got' = [got EXCEPT ![s] = Append(got[s], Head(ch[s]))]
        \/ ch' = ch /\ got' = got
    BY <1>7, <2>2 DEF Take
  <2>6. /\ ch' \in [Subs -> Seq(Msgs)] /\ got' \in [Subs -> Seq(Msgs)]
        /\ \A r \in Subs : Len(ch'[r]) <= Capacity
    <3> HIDE DEF Msgs
    <3>1. CASE ch' = ch /\ got' = got
      BY <3>1 DEF TypeOK
    <3>2. CASE ch[s] # <<>> /\ ch' = [ch EXCEPT ![s] = Tail(ch[s])]
                            /\ got' = [got EXCEPT ![s] = Append(got[s], Head(ch[s]))]
      <4> DEFINE h == Tail(ch[s])
                 g == Append(got[s], Head(ch[s]))
      <4>1. h \in Seq(Msgs) /\ Len(h) <= Capacity /\ g \in Seq(Msgs)
        BY <3>2, <2>3
      <4>2. ch' = [ch EXCEPT ![s] = h] /\ got' = [got EXCEPT ![s] = g]
        BY <3>2
      <4> HIDE DEF h, g
      <4> QED
        BY <4>1, <4>2 DEF TypeOK
    <3> QED
      BY <2>5, <3>1, <3>2
  <2> QED
    BY <1>7, <2>1, <2>4, <2>6 DEF Take, TypeOK
<1>8. ASSUME NEW n \in Callers, Return(n) PROVE TypeOK'
  <2>1. call' \in [Callers -> Calls]
    BY <1>8, CallTypes DEF Return, TypeOK
  <2>2. call[n].op = "Subscribe" => call[n].sub \in used
    BY DEF CallInv
  <2> QED
    BY <1>8, <2>1, <2>2 DEF Return, TypeOK
<1>9. ASSUME NEW n \in Callers, HandleAdd(n) PROVE TypeOK'
  <2>1. call' \in [Callers -> Calls]
    BY <1>9, CallTypes DEF HandleAdd, asks, TypeOK, Ops, Requests
  <2>2. call[n].sub \in Subs /\ TopicOf[call[n].sub] \in Topics
    BY <1>9, CalledSub DEF HandleAdd, asks
  <2> QED
    BY <1>9, <2>1, <2>2 DEF HandleAdd, TypeOK
<1>10. ASSUME NEW n \in Callers, HandleRemove(n) PROVE TypeOK'
  <2>1. call' \in [Callers -> Calls]
    BY <1>10, CallTypes DEF HandleRemove, TypeOK
  <2>2. call[n].sub \in Subs /\ TopicOf[call[n].sub] \in Topics
    BY <1>10, CalledSub DEF HandleRemove, asks
  <2>3. closed' \subseteq Subs /\ joined' \subseteq Topics /\ loop' \in {"run", "cancelled", "stopped", "panicked"}
    BY <1>10, <2>2 DEF HandleRemove, TypeOK
  <2>4. \/ myTopics' = myTopics
        \/ \E u \in Topics, r \in Subs : myTopics' = [myTopics EXCEPT ![u] = @ \ {r}]
    BY <1>10, <2>2 DEF HandleRemove, without
  <2>5. myTopics \in [Topics -> SUBSET Subs]
    BY DEF TypeOK
  <2>6. myTopics' \in [Topics -> SUBSET Subs]
    BY <2>4, <2>5
  <2> QED
    BY <1>10, <2>1, <2>3, <2>6 DEF HandleRemove, TypeOK
<1>11. ASSUME NEW n \in Callers, HandleGetTopics(n) \/ HandlePublish(n) PROVE TypeOK'
  <2>1. call' \in [Callers -> Calls]
    BY <1>11, CallTypes DEF HandleGetTopics, HandlePublish, asks, TypeOK, Ops, Requests
  <2> QED
    BY <1>11, <2>1 DEF HandleGetTopics, HandlePublish, TypeOK
<1>12. ASSUME NEW n \in Callers, HandleListPeers(n) \/ Reply(n) PROVE TypeOK'
  <2>1. call' \in [Callers -> Calls]
    BY <1>12, CallTypes DEF HandleListPeers, Reply, asks, TypeOK, Ops, Requests
  <2> QED
    BY <1>12, <2>1 DEF HandleListPeers, Reply, TypeOK
<1>13. CASE PublishMessage
  BY <1>13 DEF PublishMessage, TypeOK
<1>14. CASE NotifySubs
  <2>1. handled \in Msgs /\ Tail(todo) \in Seq(Topics)
    BY <1>14 DEF NotifySubs, LoopInv, TypeOK
  <2>2. \A s \in Subs : offer(ch[s]) \in Seq(Msgs) /\ Len(offer(ch[s])) <= Capacity
    BY <2>1 DEF offer, TypeOK
  <2>3. \/ ch' = ch
        \/ ch' = [s \in Subs |-> IF s \in subsOf(Head(todo)) THEN offer(ch[s]) ELSE ch[s]]
    BY <1>14 DEF NotifySubs
  <2>4. ch' \in [Subs -> Seq(Msgs)] /\ \A s \in Subs : Len(ch'[s]) <= Capacity
    <3> HIDE DEF Msgs
    <3> DEFINE f(s) == IF s \in subsOf(Head(todo)) THEN offer(ch[s]) ELSE ch[s]
    <3>1. \A s \in Subs : f(s) \in Seq(Msgs) /\ Len(f(s)) <= Capacity
      BY <2>2 DEF TypeOK
    <3>2. ch' = ch \/ ch' = [s \in Subs |-> f(s)]
      BY <2>3
    <3> HIDE DEF f
    <3> QED
      BY <3>1, <3>2 DEF TypeOK
  <2>5. loop' \in {"run", "cancelled", "stopped", "panicked"}
    BY <1>14 DEF NotifySubs, TypeOK
  <2> QED
    BY <1>14, <2>1, <2>4, <2>5 DEF NotifySubs, TypeOK
<1>15. CASE CancelContext \/ Stop
  BY <1>15 DEF CancelContext, Stop, TypeOK
<1> QED
  BY <1>1, <1>2, <1>3, <1>4, <1>5, <1>6, <1>7, <1>8, <1>9, <1>10, <1>11, <1>12, <1>13, <1>14, <1>15
  DEF Next, Application, Handle

-----------------------------------------------------------------------------

\* What the steps on requests for subscriptions do to the bookkeeping.
LEMMA Entered ==
    ASSUME TypeOK, NEW n \in Callers, NEW o, NEW s, NEW a, Enter(n, o, s, a)
    PROVE  /\ call'[n].op = o /\ call'[n].sub = s /\ call'[n].at = a
           /\ \A k \in Callers \ {n} : call'[k] = call[k]
BY DEF TypeOK, Enter

LEMMA Left ==
    ASSUME TypeOK, NEW n \in Callers, Leave(n)
    PROVE  call'[n].op = "none" /\ \A k \in Callers \ {n} : call'[k] = call[k]
BY DEF TypeOK, Leave, Out

LEMMA Answered ==
    ASSUME TypeOK, NEW n \in Callers, Answer(n), call[n].op \in Ops
    PROVE  /\ call'[n].op = call[n].op /\ call'[n].sub = call[n].sub /\ call'[n].at = "wait"
           /\ \A k \in Callers \ {n} : call'[k] = call[k]
<1>1. call[n] \in [op : Ops, sub : Subs \cup {None}, at : {"send", "wait"}]
  BY DEF TypeOK, Calls, Out, Ops, Requests
<1>2. call' = [call EXCEPT ![n] = [call[n] EXCEPT !.at = "wait"]]
  BY DEF Answer
<1> QED
  BY <1>1, <1>2 DEF TypeOK

LEMMA Added ==
    ASSUME TypeOK, CallInv, NEW n \in Callers, HandleAdd(n)
    PROVE  \E s \in Subs :
            /\ call[n].op = "Subscribe" /\ call[n].at = "send" /\ call[n].sub = s
            /\ s \in used /\ s \notin held /\ TopicOf[s] \in Topics
            /\ \A u \in Topics : myTopics'[u] =
                    IF u = TopicOf[s] THEN myTopics[u] \cup {s} ELSE myTopics[u]
            /\ joined' = IF myTopics[TopicOf[s]] = {} THEN joined \cup {TopicOf[s]} ELSE joined
            /\ UNCHANGED <<loopVars, ch, closed, appVars, readVars>>
            /\ Answer(n)
<1>1. call[n].op = "Subscribe" /\ call[n].at = "send" /\ Answer(n)
  BY DEF HandleAdd, asks
<1>2. call[n].sub \in Subs /\ TopicOf[call[n].sub] \in Topics
  BY <1>1, CalledSub
<1>3. call[n].sub \in used /\ call[n].sub \notin held
  BY <1>1 DEF CallInv
<1>4. \A u \in Topics : myTopics'[u] =
        IF u = TopicOf[call[n].sub] THEN myTopics[u] \cup {call[n].sub} ELSE myTopics[u]
  BY <1>2 DEF HandleAdd, TypeOK
<1> QED
  BY <1>1, <1>2, <1>3, <1>4 DEF HandleAdd

LEMMA Removed ==
    ASSUME TypeOK, CallInv, NEW n \in Callers, HandleRemove(n)
    PROVE  \E s \in Subs :
            /\ call[n].op = "Cancel" /\ call[n].sub = s /\ s \in held /\ TopicOf[s] \in Topics
            /\ \/ UNCHANGED <<loop, closed, subVars>>
               \/ s \in closed /\ loop' = "panicked" /\ UNCHANGED <<closed, subVars>>
               \/ /\ s \notin closed /\ closed' = closed \cup {s} /\ UNCHANGED loop
                  /\ \A u \in Topics : myTopics'[u] =
                        IF u = TopicOf[s] THEN myTopics[u] \ {s} ELSE myTopics[u]
                  /\ joined' = IF myTopics[TopicOf[s]] \ {s} = {} THEN joined \ {TopicOf[s]}
                               ELSE joined
            /\ UNCHANGED <<replying, todo, handled, ch, appVars, readVars>>
            /\ Leave(n)
<1>1. call[n].op = "Cancel" /\ Leave(n)
  BY DEF HandleRemove, asks
<1>2. call[n].sub \in Subs /\ TopicOf[call[n].sub] \in Topics /\ call[n].sub \in held
  BY <1>1, CalledSub DEF CallInv
<1>3. ASSUME myTopics' = [myTopics EXCEPT ![TopicOf[call[n].sub]] = @ \ {call[n].sub}]
      PROVE  \A u \in Topics : myTopics'[u] =
                IF u = TopicOf[call[n].sub] THEN myTopics[u] \ {call[n].sub} ELSE myTopics[u]
  BY <1>2, <1>3 DEF TypeOK
<1> QED
  BY <1>1, <1>2, <1>3 DEF HandleRemove, without, isLast

-----------------------------------------------------------------------------

\* Every step keeps LoopInv.
LEMMA StepLoopInv == TypeOK /\ LoopInv /\ [Next]_vars => LoopInv'
<1> SUFFICES ASSUME TypeOK, LoopInv, [Next]_vars PROVE LoopInv'
  OBVIOUS
<1>1. CASE PublishMessage
  <2>1. Len(Lists) \in Nat /\ handled \in Nat /\ DOMAIN Lists = 1..Len(Lists)
    BY SubscriptionsAssumption DEF SubscriptionsAssumption, TypeOK
  <2> QED
    BY <1>1, <2>1 DEF PublishMessage, LoopInv, Msgs
<1>2. CASE NotifySubs
  BY <1>2 DEF NotifySubs, LoopInv
<1>3. CASE UNCHANGED <<todo, handled>>
  BY <1>3 DEF LoopInv
<1> QED
  BY <1>1, <1>2, <1>3 DEF Next, Application, Handle, Subscribe, Cancel, Next_, Ask, GiveUp, Take, Return,
     HandleAdd, HandleRemove, HandleGetTopics, HandlePublish, HandleListPeers, Reply, CancelContext,
     Stop, vars, loopVars

\* Every step keeps BookInv.
LEMMA StepBookInv == TypeOK /\ BookInv /\ CallInv /\ CancelInv /\ [Next]_vars => BookInv'
<1> SUFFICES ASSUME TypeOK, BookInv, CallInv, CancelInv, [Next]_vars PROVE BookInv'
  OBVIOUS
<1> USE DEF appVars, loopVars, subVars, readVars
<1>0. \A r \in Subs : TopicOf[r] \in Topics
  BY SubscriptionsAssumption DEF SubscriptionsAssumption
<1>1. CASE UNCHANGED <<myTopics, joined, closed, used, held, cancels>>
  BY <1>1 DEF BookInv
<1>2. ASSUME NEW n \in Callers, NEW s \in Subs, Subscribe(n, s) PROVE BookInv'
  BY <1>2 DEF Subscribe, BookInv
<1>3. ASSUME NEW n \in Callers, NEW s \in Subs, Cancel(n, s) PROVE BookInv'
  <2>1. \A r \in Subs : cancels[r] \in Nat /\ cancels'[r] >= cancels[r]
    BY <1>3 DEF Cancel, TypeOK
  <2>2. \A r \in closed : r \in Subs /\ cancels[r] >= 1 /\ cancels'[r] \in Nat
    BY <1>3 DEF Cancel, BookInv, TypeOK
  <2>3. \A r \in closed : cancels'[r] >= 1
    BY <2>1, <2>2
  <2> QED
    BY <1>3, <2>3 DEF Cancel, BookInv
<1>4. ASSUME NEW n \in Callers, Return(n) PROVE BookInv'
  <2>1. call[n].op = "Subscribe" => call[n].sub \in myTopics[TopicOf[call[n].sub]]
    BY <1>4 DEF Return, CallInv
  <2> QED
    BY <1>4, <2>1 DEF Return, BookInv
<1>5. ASSUME NEW n \in Callers, HandleAdd(n) PROVE BookInv'
  <2>1. PICK s \in Subs :
            /\ s \in used /\ s \notin held /\ TopicOf[s] \in Topics
            /\ \A u \in Topics : myTopics'[u] =
                    IF u = TopicOf[s] THEN myTopics[u] \cup {s} ELSE myTopics[u]
            /\ joined' = IF myTopics[TopicOf[s]] = {} THEN joined \cup {TopicOf[s]} ELSE joined
            /\ UNCHANGED <<loopVars, ch, closed, appVars, readVars>>
    BY <1>5, Added
  <2>2. s \notin closed
    BY <2>1 DEF BookInv
  <2>3. \A t : t \in joined <=> t \in Topics /\ myTopics[t] # {}
    BY DEF BookInv
  <2>4. \A t : t \in joined' <=> t \in Topics /\ myTopics'[t] # {}
    BY <2>1, <2>3
  <2>5. \A r \in held : TopicOf[r] \in Topics /\ (r \in closed \/ r \in myTopics'[TopicOf[r]])
    <3>1. \A r \in held : TopicOf[r] \in Topics /\ (r \in closed \/ r \in myTopics[TopicOf[r]])
      BY <1>0 DEF BookInv, TypeOK
    <3>2. \A u \in Topics : myTopics[u] \subseteq myTopics'[u]
      BY <2>1
    <3> QED
      BY <3>1, <3>2
  <2>6. ASSUME NEW t \in Topics, NEW r \in myTopics'[t]
        PROVE  TopicOf[r] = t /\ r \in used /\ r \notin closed
    <3>1. r \in myTopics[t] => TopicOf[r] = t /\ r \in used /\ r \notin closed
      BY DEF BookInv
    <3>2. r \in myTopics[t] \/ (r = s /\ t = TopicOf[s])
      BY <2>1
    <3> QED
      BY <2>1, <2>2, <3>1, <3>2
  <2>7. \A r \in closed : r \in held /\ cancels[r] >= 1
    BY DEF BookInv
  <2>8. UNCHANGED <<used, held, closed, cancels>>
    BY <2>1
  <2> QED
    BY <2>4, <2>5, <2>6, <2>7, <2>8 DEF BookInv
<1>6. ASSUME NEW n \in Callers, HandleRemove(n) PROVE BookInv'
  <2>1. PICK s \in Subs :
            /\ call[n].op = "Cancel" /\ call[n].sub = s /\ s \in held /\ TopicOf[s] \in Topics
            /\ \/ UNCHANGED <<closed, subVars>>
               \/ /\ s \notin closed /\ closed' = closed \cup {s}
                  /\ \A u \in Topics : myTopics'[u] =
                        IF u = TopicOf[s] THEN myTopics[u] \ {s} ELSE myTopics[u]
                  /\ joined' = IF myTopics[TopicOf[s]] \ {s} = {} THEN joined \ {TopicOf[s]}
                               ELSE joined
            /\ UNCHANGED <<replying, todo, handled, ch, appVars, readVars>>
    BY <1>6, Removed
  <2>2. cancels[s] >= 1
    BY <2>1 DEF CancelInv
  <2>3. CASE UNCHANGED <<closed, subVars>>
    BY <2>1, <2>3 DEF BookInv
  <2>4. CASE /\ s \notin closed /\ closed' = closed \cup {s}
             /\ \A u \in Topics : myTopics'[u] =
                    IF u = TopicOf[s] THEN myTopics[u] \ {s} ELSE myTopics[u]
             /\ joined' = IF myTopics[TopicOf[s]] \ {s} = {} THEN joined \ {TopicOf[s]} ELSE joined
    <3>1. \A t : t \in joined <=> t \in Topics /\ myTopics[t] # {}
      BY DEF BookInv
    <3>2. \A t : t \in joined' <=> t \in Topics /\ myTopics'[t] # {}
      BY <2>1, <2>4, <3>1
    <3>3. \A r \in held : TopicOf[r] \in Topics /\ (r \in closed' \/ r \in myTopics'[TopicOf[r]])
      <4>1. \A r \in held : TopicOf[r] \in Topics /\ (r \in closed \/ r \in myTopics[TopicOf[r]])
        BY <1>0 DEF BookInv, TypeOK
      <4> QED
        BY <2>4, <4>1
    <3>4. \A t \in Topics : \A r \in myTopics'[t] : TopicOf[r] = t /\ r \in used /\ r \notin closed'
      <4>1. \A t \in Topics : \A r \in myTopics[t] : TopicOf[r] = t /\ r \in used /\ r \notin closed
        BY DEF BookInv
      <4> SUFFICES ASSUME NEW t \in Topics, NEW r \in myTopics'[t]
                   PROVE  TopicOf[r] = t /\ r \in used /\ r \notin closed'
        OBVIOUS
      <4>0. r \in IF t = TopicOf[s] THEN myTopics[t] \ {s} ELSE myTopics[t]
        BY <2>4
      <4>2. r \in myTopics[t] /\ r # s
        <5>1. CASE t = TopicOf[s]
          BY <4>0, <5>1
        <5>2. CASE t # TopicOf[s]
          BY <4>0, <4>1, <5>2
        <5> QED
          BY <5>1, <5>2
      <4> QED
        BY <2>4, <4>1, <4>2
    <3>5. \A r \in closed' : r \in held /\ cancels[r] >= 1
      BY <2>1, <2>2, <2>4 DEF BookInv
    <3>6. UNCHANGED <<used, held, cancels>>
      BY <2>1
    <3> QED
      BY <3>2, <3>3, <3>4, <3>5, <3>6 DEF BookInv
  <2> QED
    BY <2>1, <2>3, <2>4
<1> QED
  BY <1>1, <1>2, <1>3, <1>4, <1>5, <1>6
  DEF Next, Application, Handle, Next_, Ask, GiveUp, Take, HandleGetTopics, HandlePublish,
     HandleListPeers, Reply, PublishMessage, NotifySubs, CancelContext, Stop, vars

\* Every step keeps CallInv.
LEMMA StepCallInv == TypeOK /\ BookInv /\ CallInv /\ [Next]_vars => CallInv'
<1> SUFFICES ASSUME TypeOK, BookInv, CallInv, [Next]_vars PROVE CallInv'
  OBVIOUS
<1> USE DEF appVars, loopVars, subVars, readVars
<1>0. \A r \in Subs : TopicOf[r] \in Topics
  BY SubscriptionsAssumption DEF SubscriptionsAssumption
<1>1. CASE UNCHANGED <<call, myTopics, used, held>>
  BY <1>1 DEF CallInv
<1>2. ASSUME NEW n \in Callers, NEW s \in Subs, Subscribe(n, s) PROVE CallInv'
  <2>1. /\ call'[n].op = "Subscribe" /\ call'[n].sub = s /\ call'[n].at = "send"
        /\ \A k \in Callers \ {n} : call'[k] = call[k]
    BY <1>2, Entered DEF Subscribe
  <2>2. /\ s \notin used /\ used' = used \cup {s} /\ held \subseteq used
        /\ UNCHANGED <<myTopics, held>>
    BY <1>2 DEF Subscribe, TypeOK
  <2>3. s \notin myTopics[TopicOf[s]]
    BY <1>0, <2>2 DEF BookInv
  <2>4. \A k \in Callers \ {n} : call[k].op = "Subscribe" => call[k].sub # s
    BY <2>2 DEF CallInv
  <2> QED
    BY <2>1, <2>2, <2>3, <2>4 DEF CallInv
<1>3. ASSUME NEW n \in Callers, NEW s \in Subs, Cancel(n, s) \/ Next_(n, s) PROVE CallInv'
  <2>1. /\ call'[n].sub = s /\ call'[n].op \in {"Cancel", "Next"}
        /\ \A k \in Callers \ {n} : call'[k] = call[k]
    <3>1. CASE Enter(n, "Cancel", s, "send")
      BY <3>1, Entered
    <3>2. CASE Enter(n, "Next", s, "wait")
      BY <3>2, Entered
    <3> QED
      BY <1>3, <3>1, <3>2 DEF Cancel, Next_
  <2>2. s \in held /\ UNCHANGED <<myTopics, used, held>>
    BY <1>3 DEF Cancel, Next_
  <2> QED
    BY <2>1, <2>2 DEF CallInv
<1>4. ASSUME NEW n \in Callers, NEW o \in Requests, Ask(n, o) PROVE CallInv'
  <2>1. /\ call'[n].op \in {"GetTopics", "ListPeers", "Publish"}
        /\ \A k \in Callers \ {n} : call'[k] = call[k]
    <3>1. o \in {"GetTopics", "ListPeers", "Publish"} /\ Enter(n, o, None, "send")
      BY <1>4 DEF Ask
    <3> QED
      BY <3>1, Entered
  <2> QED
    BY <1>4, <2>1 DEF Ask, CallInv
<1>5. ASSUME NEW n \in Callers, Leave(n), UNCHANGED <<myTopics, used, held>> PROVE CallInv'
  <2>1. call'[n].op = "none" /\ \A k \in Callers \ {n} : call'[k] = call[k]
    BY <1>5, Left
  <2> QED
    BY <1>5, <2>1 DEF CallInv
<1>6. ASSUME NEW n \in Callers, Return(n) PROVE CallInv'
  <2>1. call'[n].op = "none" /\ \A k \in Callers \ {n} : call'[k] = call[k]
    BY <1>6, Left DEF Return
  <2>2. \A k \in Callers \ {n} : call[k].op = "Subscribe" => call[k].sub \notin held'
    BY <1>6 DEF Return, CallInv
  <2>3. held \subseteq held' /\ UNCHANGED <<myTopics, used>>
    BY <1>6 DEF Return
  <2> QED
    BY <2>1, <2>2, <2>3 DEF CallInv
<1>7. ASSUME NEW n \in Callers, HandleAdd(n) PROVE CallInv'
  <2>1. PICK s \in Subs :
            /\ call[n].op = "Subscribe" /\ call[n].at = "send" /\ call[n].sub = s
            /\ \A u \in Topics : myTopics'[u] =
                    IF u = TopicOf[s] THEN myTopics[u] \cup {s} ELSE myTopics[u]
            /\ UNCHANGED <<used, held>>
            /\ Answer(n)
    BY <1>7, Added
  <2>2. /\ call'[n].op = "Subscribe" /\ call'[n].sub = s /\ call'[n].at = "wait"
        /\ \A k \in Callers \ {n} : call'[k] = call[k]
    BY <2>1, Answered DEF Ops, Requests
  <2>3. \A k \in Callers \ {n} : call[k].op = "Subscribe" =>
            /\ call[k].sub # s /\ call[k].sub \in Subs
            /\ call[k].sub \in myTopics'[TopicOf[call[k].sub]] <=>
               call[k].sub \in myTopics[TopicOf[call[k].sub]]
    <3> SUFFICES ASSUME NEW k \in Callers \ {n}, call[k].op = "Subscribe"
                 PROVE  /\ call[k].sub # s /\ call[k].sub \in Subs
                        /\ call[k].sub \in myTopics'[TopicOf[call[k].sub]] <=>
                           call[k].sub \in myTopics[TopicOf[call[k].sub]]
      OBVIOUS
    <3>1. call[k].sub \in Subs
      BY CalledSub
    <3>2. call[k].sub # s
      BY <2>1 DEF CallInv
    <3> QED
      BY <1>0, <2>1, <3>1, <3>2
  <2>4. s \in myTopics'[TopicOf[s]]
    BY <1>0, <2>1
  <2>5. s \in used \ held /\ \A k \in Callers \ {n} : call[k].op = "Subscribe" => call[k].sub # s
    BY <2>1, <2>3 DEF CallInv
  <2> QED
    BY <2>1, <2>2, <2>3, <2>4, <2>5 DEF CallInv
<1>8. ASSUME NEW n \in Callers, HandleRemove(n) PROVE CallInv'
  <2>1. PICK s \in Subs :
            /\ s \in held
            /\ \A r \in Subs \ {s} : r \in myTopics'[TopicOf[r]] <=> r \in myTopics[TopicOf[r]]
            /\ UNCHANGED <<used, held>>
            /\ Leave(n)
    <3>1. PICK s \in Subs :
            /\ s \in held /\ Leave(n) /\ UNCHANGED <<used, held>>
            /\ \/ myTopics' = myTopics
               \/ \A u \in Topics : myTopics'[u] =
                        IF u = TopicOf[s] THEN myTopics[u] \ {s} ELSE myTopics[u]
      BY <1>8, Removed
    <3> QED
      BY <1>0, <3>1
  <2>2. call'[n].op = "none" /\ \A k \in Callers \ {n} : call'[k] = call[k]
    BY <2>1, Left
  <2>3. \A k \in Callers \ {n} : call[k].op = "Subscribe" =>
            (call[k].sub \in myTopics'[TopicOf[call[k].sub]] <=>
             call[k].sub \in myTopics[TopicOf[call[k].sub]])
    BY <2>1 DEF CallInv, TypeOK
  <2> QED
    BY <2>1, <2>2, <2>3 DEF CallInv
<1>9. ASSUME NEW n \in Callers, HandleGetTopics(n) \/ HandleListPeers(n) PROVE CallInv'
  <2>1. call[n].op \in {"GetTopics", "ListPeers"} /\ Answer(n) /\ UNCHANGED <<myTopics, used, held>>
    BY <1>9 DEF HandleGetTopics, HandleListPeers, asks
  <2>2. call'[n].op = call[n].op /\ \A k \in Callers \ {n} : call'[k] = call[k]
    BY <2>1, Answered DEF Ops, Requests
  <2> QED
    BY <2>1, <2>2 DEF CallInv
<1> QED
  BY <1>1, <1>2, <1>3, <1>4, <1>5, <1>6, <1>7, <1>8, <1>9
  DEF Next, Application, Handle, GiveUp, Take, HandlePublish, Reply, PublishMessage, NotifySubs,
     CancelContext, Stop, vars

\* Every step keeps CancelInv: neither a second close nor a send to a closed
\* channel comes from other than a second Cancel.
LEMMA StepCancelInv == TypeOK /\ BookInv /\ CallInv /\ CancelInv /\ [Next]_vars => CancelInv'
<1> SUFFICES ASSUME TypeOK, BookInv, CallInv, CancelInv, [Next]_vars PROVE CancelInv'
  OBVIOUS
<1> USE DEF appVars, loopVars, subVars, readVars
<1>1. CASE UNCHANGED <<call, cancels, closed, loop>>
  BY <1>1 DEF CancelInv, PanicsOnlyOnMisuse
<1>2. ASSUME NEW n \in Callers, call'[n].op # "Cancel", \A k \in Callers \ {n} : call'[k] = call[k],
             UNCHANGED <<cancels, closed, loop>>
      PROVE  CancelInv'
  BY <1>2 DEF CancelInv, PanicsOnlyOnMisuse
<1>3. ASSUME NEW n \in Callers, NEW o, NEW s, NEW a, Enter(n, o, s, a), o # "Cancel",
             UNCHANGED <<cancels, closed, loop>>
      PROVE  CancelInv'
  BY <1>2, <1>3, Entered
<1>4. ASSUME NEW n \in Callers, Leave(n), UNCHANGED <<cancels, closed, loop>> PROVE CancelInv'
  BY <1>2, <1>4, Left
<1>5. ASSUME NEW n \in Callers, NEW o \in {"Subscribe", "GetTopics", "ListPeers"}, asks(n, o), Answer(n),
             UNCHANGED <<cancels, closed, loop>>
      PROVE  CancelInv'
  <2>1. call'[n].op = o /\ \A k \in Callers \ {n} : call'[k] = call[k]
    BY <1>5, Answered DEF asks, Ops, Requests
  <2> QED
    BY <1>2, <1>5, <2>1
<1>6. ASSUME NEW n \in Callers, NEW s \in Subs, Cancel(n, s) PROVE CancelInv'
  <2>1. /\ call'[n].op = "Cancel" /\ call'[n].sub = s
        /\ \A k \in Callers \ {n} : call'[k] = call[k]
    BY <1>6, Entered DEF Cancel
  <2>2. /\ cancels \in [Subs -> Nat] /\ cancels'[s] = cancels[s] + 1
        /\ \A r \in Subs \ {s} : cancels'[r] = cancels[r]
        /\ UNCHANGED <<closed, loop>>
    BY <1>6 DEF Cancel, TypeOK
  <2>3. s \in closed => cancels[s] >= 1
    BY DEF BookInv
  <2>4. PanicsOnlyOnMisuse'
    BY <2>2 DEF CancelInv, PanicsOnlyOnMisuse
  <2>5. \A k \in Callers : call[k].op = "Cancel" => call[k].sub \in Subs
    BY DEF CallInv, TypeOK
  <2>6. \A k \in Callers : call[k].op = "Cancel" /\ call[k].sub = s => cancels'[s] >= 2
    BY <2>2 DEF CancelInv
  <2> QED
    BY <2>1, <2>2, <2>3, <2>4, <2>5, <2>6 DEF CancelInv
<1>7. ASSUME NEW n \in Callers, HandleRemove(n) PROVE CancelInv'
  <2>1. PICK s \in Subs :
            /\ call[n].op = "Cancel" /\ call[n].sub = s
            /\ \/ UNCHANGED <<loop, closed>>
               \/ s \in closed /\ UNCHANGED closed
               \/ closed' = closed \cup {s} /\ UNCHANGED loop
            /\ UNCHANGED cancels
            /\ Leave(n)
    BY <1>7, Removed
  <2>2. call'[n].op = "none" /\ \A k \in Callers \ {n} : call'[k] = call[k]
    BY <2>1, Left
  <2>3. cancels \in [Subs -> Nat] /\ (s \in closed => cancels[s] >= 2)
    BY <2>1 DEF CancelInv, TypeOK
  <2>4. PanicsOnlyOnMisuse'
    BY <2>1, <2>3 DEF CancelInv, PanicsOnlyOnMisuse
  <2>5. \A k \in Callers \ {n} : call[k].op = "Cancel" /\ call[k].sub = s => cancels[s] >= 2
    BY <2>1 DEF CancelInv
  <2> QED
    BY <2>1, <2>2, <2>4, <2>5 DEF CancelInv
<1>8. CASE NotifySubs
  <2>1. Head(todo) \in Topics
    BY <1>8 DEF NotifySubs, TypeOK
  <2>2. UNCHANGED <<call, cancels, closed, loop>>
    BY <1>8, <2>1 DEF NotifySubs, subsOf, BookInv
  <2> QED
    BY <1>1, <2>2
<1>9. CASE CancelContext \/ Stop
  BY <1>9 DEF CancelContext, Stop, CancelInv, PanicsOnlyOnMisuse
<1>10. ASSUME NEW n \in Callers, NEW s \in Subs, Subscribe(n, s) \/ Next_(n, s) PROVE CancelInv'
  BY <1>3, <1>10 DEF Subscribe, Next_
<1>11. ASSUME NEW n \in Callers, NEW o \in Requests, Ask(n, o) PROVE CancelInv'
  BY <1>3, <1>11 DEF Ask
<1>12. ASSUME NEW n \in Callers, HandleAdd(n) \/ HandleGetTopics(n) \/ HandleListPeers(n) PROVE CancelInv'
  BY <1>5, <1>12 DEF HandleAdd, HandleGetTopics, HandleListPeers
<1>13. ASSUME NEW n \in Callers, GiveUp(n) \/ Take(n) \/ Return(n) \/ HandlePublish(n) \/ Reply(n)
       PROVE  CancelInv'
  BY <1>4, <1>13 DEF GiveUp, Take, Return, HandlePublish, Reply
<1> QED
  BY <1>1, <1>6, <1>7, <1>8, <1>9, <1>10, <1>11, <1>12, <1>13
  DEF Next, Application, Handle, PublishMessage, vars

-----------------------------------------------------------------------------

(* The order of delivery *)

positions(q, x) == {i \in 1 .. Len(q) : q[i] = x}

\* The occurrences of x in a sequence are a natural number, that of its positions.
LEMMA CountType ==
    ASSUME NEW S, NEW q \in Seq(S), NEW x
    PROVE  /\ IsFiniteSet(positions(q, x))
           /\ count(q, x) = Cardinality(positions(q, x))
           /\ count(q, x) \in Nat
<1>1. positions(q, x) \subseteq 1 .. Len(q) /\ Len(q) \in Nat
  BY DEF positions
<1>2. IsFiniteSet(positions(q, x))
  <2>1. IsFiniteSet(1 .. Len(q))
    BY <1>1, FS_Interval
  <2> QED
    BY <1>1, <2>1, FS_Subset, Zenon
<1>3. count(q, x) = Cardinality(positions(q, x))
  <2>1. {i \in DOMAIN q : q[i] = x} = positions(q, x)
    BY DEF positions
  <2> QED
    BY <2>1, Zenon DEF count
<1> QED
  BY <1>2, <1>3, FS_CardinalityType

\* Appending y adds an occurrence of y.
LEMMA CountAppend ==
    ASSUME NEW S, NEW q \in Seq(S), NEW y \in S, NEW x
    PROVE  count(Append(q, y), x) = count(q, x) + (IF y = x THEN 1 ELSE 0)
<1>0. Append(q, y) \in Seq(S) /\ Len(q) \in Nat
  OBVIOUS
<1>a. /\ IsFiniteSet(positions(q, x)) /\ count(q, x) \in Nat
      /\ count(q, x) = Cardinality(positions(q, x))
      /\ count(Append(q, y), x) = Cardinality(positions(Append(q, y), x))
  BY <1>0, CountType
<1>1. CASE y = x
  <2>1. positions(Append(q, y), x) = positions(q, x) \cup {Len(q) + 1}
    BY <1>0, <1>1 DEF positions
  <2>2. Len(q) + 1 \notin positions(q, x)
    BY <1>0 DEF positions
  <2>3. Cardinality(positions(q, x) \cup {Len(q) + 1}) = Cardinality(positions(q, x)) + 1
    BY <1>a, <2>2, FS_AddElement, Zenon
  <2> QED
    BY <1>a, <1>1, <2>1, <2>3
<1>2. CASE y # x
  <2>1. positions(Append(q, y), x) = positions(q, x)
    BY <1>0, <1>2 DEF positions
  <2> QED
    BY <1>a, <1>2, <2>1
<1> QED
  BY <1>1, <1>2

\* The tail has one occurrence of the head less.
LEMMA CountTail ==
    ASSUME NEW S, NEW q \in Seq(S), q # <<>>, NEW x
    PROVE  count(q, x) = count(Tail(q), x) + (IF Head(q) = x THEN 1 ELSE 0)
<1>0. Tail(q) \in Seq(S) /\ Len(q) \in Nat \ {0} /\ Len(Tail(q)) = Len(q) - 1
  OBVIOUS
<1>a. /\ IsFiniteSet(positions(q, x)) /\ count(q, x) \in Nat
      /\ count(q, x) = Cardinality(positions(q, x))
      /\ IsFiniteSet(positions(Tail(q), x)) /\ count(Tail(q), x) \in Nat
      /\ count(Tail(q), x) = Cardinality(positions(Tail(q), x))
  BY <1>0, CountType
<1> DEFINE P == positions(q, x) \ {1}
           f == [i \in positions(Tail(q), x) |-> i + 1]
<1>1. \A i \in 1 .. Len(q) - 1 : Tail(q)[i] = q[i + 1]
  OBVIOUS
<1>2. f \in Bijection(positions(Tail(q), x), P)
  <2>1. \A i \in positions(Tail(q), x) : f[i] \in P
    BY <1>0, <1>1 DEF positions
  <2>2. \A i, j \in positions(Tail(q), x) : f[i] = f[j] => i = j
    BY <1>0 DEF positions
  <2>3. ASSUME NEW j \in P PROVE \E i \in positions(Tail(q), x) : f[i] = j
    <3>1. j - 1 \in positions(Tail(q), x)
      BY <1>0, <1>1 DEF positions
    <3>2. f[j - 1] = j
      BY <3>1 DEF positions
    <3> QED
      BY <3>1, <3>2
  <2> QED
    BY <2>1, <2>2, <2>3, Fun_IsBij
<1>3. Cardinality(positions(Tail(q), x)) = Cardinality(P)
  BY <1>a, <1>2, FS_Bijection, Zenon DEF ExistsBijection
<1>4. 1 \in positions(q, x) <=> Head(q) = x
  BY <1>0 DEF positions
<1>5. Cardinality(P) = IF Head(q) = x THEN Cardinality(positions(q, x)) - 1
                       ELSE Cardinality(positions(q, x))
  BY <1>a, <1>4, FS_RemoveElement, Zenon
<1> HIDE DEF P
<1> QED
  BY <1>a, <1>3, <1>5

\* A new message occurs nowhere in what the subscription was given.
LEMMA OrderlyNext ==
    ASSUME NEW q \in Seq(Msgs), NEW h \in Nat, h + 1 \in Msgs, NEW t \in Topics,
           orderly(q, h, <<>>, t)
    PROVE  orderly(q, h + 1, Lists[h + 1], t)
<1>0. Msgs \subseteq Nat /\ \A m \in Msgs : Lists[m] \in Seq(Topics)
  BY SubscriptionsAssumption DEF SubscriptionsAssumption, Msgs
<1>1. \A i \in DOMAIN q : q[i] \in Msgs /\ q[i] \in Nat /\ q[i] <= h
  <2>1. \A i \in DOMAIN q : q[i] \in Msgs
    OBVIOUS
  <2> QED
    BY <1>0, <2>1 DEF orderly
<1>2. count(q, h + 1) = 0
  <2>1. positions(q, h + 1) = {}
    BY <1>1 DEF positions
  <2> QED
    BY <2>1, CountType, FS_EmptySet
<1>3. \A m \in Msgs : count(q, m) \in Nat /\ count(Lists[m], t) \in Nat
  BY <1>0, CountType
<1>4. count(<<>>, t) \in Nat
  <2>1. <<>> \in Seq(Topics)
    OBVIOUS
  <2> QED
    BY <2>1, CountType
<1>5. \A m \in Msgs : count(q, m) <= count(Lists[m], t)
  BY <1>0, <1>3, <1>4 DEF orderly
<1>6. \A m \in Msgs : count(q, m) + (IF m = h + 1 THEN count(Lists[h + 1], t) ELSE 0)
                        <= count(Lists[m], t)
  BY <1>2, <1>3, <1>5
<1>7. \A i \in DOMAIN q : q[i] <= h + 1
  BY <1>1
<1>8. \A i, j \in DOMAIN q : i <= j => q[i] <= q[j]
  BY DEF orderly
<1> QED
  BY <1>6, <1>7, <1>8 DEF orderly

\* A topic ID that is passed leaves the subscriptions as they are.
LEMMA OrderlySkip ==
    ASSUME NEW q \in Seq(Msgs), NEW h \in Nat, NEW rest \in Seq(Topics), rest # <<>>,
           NEW t \in Topics, orderly(q, h, rest, t)
    PROVE  orderly(q, h, Tail(rest), t)
<1>0. Msgs \subseteq Nat /\ \A m \in Msgs : Lists[m] \in Seq(Topics)
  BY SubscriptionsAssumption DEF SubscriptionsAssumption, Msgs
<1>1. \A m \in Msgs : count(q, m) \in Nat /\ count(Lists[m], t) \in Nat
  BY <1>0, CountType
<1>2. Tail(rest) \in Seq(Topics)
  OBVIOUS
<1>3. count(Tail(rest), t) \in Nat /\ count(rest, t) \in Nat
  BY <1>2, CountType
<1>4. count(rest, t) = count(Tail(rest), t) + (IF Head(rest) = t THEN 1 ELSE 0)
  BY CountTail
<1>5. count(Tail(rest), t) <= count(rest, t)
  BY <1>3, <1>4
<1> QED
  BY <1>1, <1>3, <1>5 DEF orderly

\* The topic ID of a subscription pays for the message it is given.
LEMMA OrderlyOffer ==
    ASSUME NEW q \in Seq(Msgs), NEW h \in Msgs, NEW rest \in Seq(Topics), rest # <<>>,
           NEW t \in Topics, Head(rest) = t, orderly(q, h, rest, t)
    PROVE  orderly(Append(q, h), h, Tail(rest), t)
<1>0. Msgs \subseteq Nat /\ \A m \in Msgs : Lists[m] \in Seq(Topics)
  BY SubscriptionsAssumption DEF SubscriptionsAssumption, Msgs
<1>1. \A m \in Msgs : count(q, m) \in Nat /\ count(Lists[m], t) \in Nat
  BY <1>0, CountType
<1>2. Tail(rest) \in Seq(Topics)
  OBVIOUS
<1>3. count(Tail(rest), t) \in Nat /\ count(rest, t) \in Nat
  BY <1>2, CountType
<1>4. count(rest, t) = count(Tail(rest), t) + 1
  BY CountTail
<1>5. \A m \in Msgs : count(Append(q, h), m) = count(q, m) + (IF h = m THEN 1 ELSE 0)
  BY CountAppend
<1>6. \A m \in Msgs : count(Append(q, h), m) + (IF m = h THEN count(Tail(rest), t) ELSE 0)
                        <= count(Lists[m], t)
  BY <1>1, <1>3, <1>4, <1>5 DEF orderly
<1>7. \A i \in DOMAIN q : q[i] \in Nat /\ q[i] <= h
  <2>1. \A i \in DOMAIN q : q[i] \in Msgs
    OBVIOUS
  <2> QED
    BY <1>0, <2>1 DEF orderly
<1>8. \A i, j \in DOMAIN q : i <= j => q[i] <= q[j]
  BY DEF orderly
<1>9. /\ DOMAIN Append(q, h) = 1 .. Len(q) + 1 /\ DOMAIN q = 1 .. Len(q) /\ Len(q) \in Nat
      /\ \A i \in 1 .. Len(q) + 1 : Append(q, h)[i] = IF i = Len(q) + 1 THEN h ELSE q[i]
  OBVIOUS
<1>10. \A i \in DOMAIN Append(q, h) : Append(q, h)[i] <= h
  BY <1>0, <1>7, <1>9
<1>11. \A i, j \in DOMAIN Append(q, h) : i <= j => Append(q, h)[i] <= Append(q, h)[j]
  BY <1>0, <1>7, <1>8, <1>9
<1> QED
  BY <1>6, <1>10, <1>11 DEF orderly

\* Receiving moves the first message of a channel behind those that were received;
\* sending puts one behind both.
LEMMA ConcatMoves ==
    ASSUME NEW S, NEW p \in Seq(S), NEW r \in Seq(S)
    PROVE  /\ r # <<>> => Append(p, Head(r)) \o Tail(r) = p \o r
           /\ \A e \in S : p \o Append(r, e) = Append(p \o r, e)
<1>1. ASSUME r # <<>> PROVE Append(p, Head(r)) \o Tail(r) = p \o r
  <2> DEFINE a == Append(p, Head(r))
             u == Tail(r)
  <2>1. a \in Seq(S) /\ u \in Seq(S) /\ Len(a) = Len(p) + 1 /\ Len(u) = Len(r) - 1
    BY <1>1
  <2>2. /\ \A i \in 1 .. Len(a) : a[i] = IF i = Len(p) + 1 THEN r[1] ELSE p[i]
        /\ \A i \in 1 .. Len(u) : u[i] = r[i + 1]
    BY <1>1
  <2>3. Len(p) \in Nat /\ Len(r) \in Nat \ {0}
    BY <1>1
  <2> HIDE DEF a, u
  <2>4. /\ a \o u \in Seq(S) /\ Len(a \o u) = Len(a) + Len(u)
        /\ \A i \in 1 .. Len(a) + Len(u) : (a \o u)[i] = IF i <= Len(a) THEN a[i] ELSE u[i - Len(a)]
    BY <2>1, ConcatProperties
  <2>5. /\ p \o r \in Seq(S) /\ Len(p \o r) = Len(p) + Len(r)
        /\ \A i \in 1 .. Len(p) + Len(r) : (p \o r)[i] = IF i <= Len(p) THEN p[i] ELSE r[i - Len(p)]
    BY ConcatProperties
  <2>6. Len(a \o u) = Len(p \o r)
    BY <2>1, <2>3, <2>4, <2>5
  <2>7. ASSUME NEW i \in 1 .. Len(p) + Len(r) PROVE (a \o u)[i] = (p \o r)[i]
    <3>0. i \in Int /\ Len(p) \in Int /\ i >= 1 /\ i <= Len(p) + Len(r)
      BY <2>3
    <3>1. (a \o u)[i] = IF i <= Len(p) + 1 THEN a[i] ELSE u[i - (Len(p) + 1)]
      BY <2>1, <2>3, <2>4
    <3>2. CASE i <= Len(p) + 1
      <4>1. a[i] = IF i = Len(p) + 1 THEN r[1] ELSE p[i]
        BY <2>1, <2>2, <2>3, <3>2
      <4> QED
        BY <2>3, <2>5, <3>1, <3>2, <4>1
    <3>3. CASE i > Len(p) + 1
      <4>1. u[i - (Len(p) + 1)] = r[i - Len(p)]
        <5>1. i - (Len(p) + 1) \in 1 .. Len(u)
          BY <2>1, <2>3, <3>0, <3>3
        <5>2. u[i - (Len(p) + 1)] = r[i - (Len(p) + 1) + 1]
          BY <2>2, <5>1
        <5>3. i - (Len(p) + 1) + 1 = i - Len(p)
          BY <3>0
        <5> QED
          BY <5>2, <5>3
      <4> QED
        BY <2>3, <2>5, <3>0, <3>1, <3>3, <4>1
    <3>4. i <= Len(p) + 1 \/ i > Len(p) + 1
      BY <3>0
    <3> QED
      BY <3>2, <3>3, <3>4, Zenon
  <2>8. a \o u = p \o r
    BY <2>4, <2>5, <2>6, <2>7, SeqEqual
  <2> QED
    BY <2>8 DEF a, u
<1>2. ASSUME NEW e \in S PROVE p \o Append(r, e) = Append(p \o r, e)
  <2>1. /\ Append(r, e) = r \o <<e>> /\ Append(p \o r, e) = (p \o r) \o <<e>>
        /\ <<e>> \in Seq(S)
    BY AppendIsConcat, ConcatProperties
  <2> QED
    BY <2>1, ConcatAssociative
<1> QED
  BY <1>1, <1>2

\* What the subscriptions were given are messages.
LEMMA KeptTypes ==
    ASSUME TypeOK, NEW s \in Subs
    PROVE  /\ got[s] \in Seq(Msgs) /\ ch[s] \in Seq(Msgs) /\ got[s] \o ch[s] \in Seq(Msgs)
           /\ TopicOf[s] \in Topics
BY SubscriptionsAssumption DEF SubscriptionsAssumption, TypeOK

\* Every step keeps OrderInv.
LEMMA StepOrderInv == TypeOK /\ LoopInv /\ BookInv /\ CallInv /\ OrderInv /\ [Next]_vars => OrderInv'
<1> SUFFICES ASSUME TypeOK, LoopInv, BookInv, CallInv, OrderInv, [Next]_vars,
                    NEW s \in Subs
             PROVE  orderly(got'[s] \o ch'[s], handled', todo', TopicOf[s])
  BY DEF OrderInv
<1> DEFINE t == TopicOf[s]
           q == got[s] \o ch[s]
<1>0. q \in Seq(Msgs) /\ t \in Topics /\ got[s] \in Seq(Msgs) /\ ch[s] \in Seq(Msgs)
  BY KeptTypes
<1>1. orderly(q, handled, todo, t)
  BY DEF OrderInv
<1>2. handled \in Nat /\ todo \in Seq(Topics)
  BY DEF TypeOK
<1>3. CASE UNCHANGED <<got, ch, handled, todo>>
  BY <1>1, <1>3
<1>4. ASSUME NEW n \in Callers, Take(n) PROVE got'[s] \o ch'[s] = q /\ UNCHANGED <<handled, todo>>
  <2>1. UNCHANGED <<handled, todo>>
    BY <1>4 DEF Take, loopVars
  <2>2. CASE got' = got /\ ch' = ch
    BY <2>1, <2>2
  <2>3. CASE s # call[n].sub
    BY <1>4, <2>1, <2>3 DEF Take, TypeOK
  <2>4. CASE s = call[n].sub /\ ~(got' = got /\ ch' = ch)
    <3>1. ch[s] # <<>> /\ got'[s] = Append(got[s], Head(ch[s])) /\ ch'[s] = Tail(ch[s])
      BY <1>4, <2>4 DEF Take, TypeOK
    <3>2. Append(got[s], Head(ch[s])) \o Tail(ch[s]) = got[s] \o ch[s]
      BY <1>0, <3>1, ConcatMoves
    <3> QED
      BY <2>1, <3>1, <3>2
  <2> QED
    BY <2>2, <2>3, <2>4
<1>5. CASE PublishMessage
  <2>1. /\ handled' = handled + 1 /\ todo = <<>> /\ todo' = Lists[handled + 1]
        /\ handled + 1 \in Msgs /\ got' = got /\ ch' = ch
    BY <1>2, <1>5, SubscriptionsAssumption
    DEF PublishMessage, LoopFree, readVars, SubscriptionsAssumption, Msgs
  <2> HIDE DEF q, t
  <2>2. orderly(q, handled, <<>>, t)
    BY <1>1, <2>1
  <2>3. orderly(q, handled + 1, Lists[handled + 1], t)
    BY <1>0, <1>2, <2>1, <2>2, OrderlyNext
  <2> QED
    BY <2>1, <2>3 DEF q, t
<1>6. CASE NotifySubs
  <2>1. /\ todo # <<>> /\ todo' = Tail(todo) /\ handled' = handled /\ got' = got
        /\ handled \in Msgs
    BY <1>6 DEF NotifySubs, readVars, LoopInv
  <2>2. orderly(q, handled, Tail(todo), t)
    BY <1>0, <1>1, <1>2, <2>1, OrderlySkip
  <2>3. CASE ch'[s] = ch[s]
    BY <2>1, <2>2, <2>3
  <2>4. CASE ch'[s] # ch[s]
    <3>1. s \in myTopics[Head(todo)] /\ ch'[s] = Append(ch[s], handled)
      BY <1>6, <2>4 DEF NotifySubs, subsOf, offer, TypeOK
    <3>2. Head(todo) \in Topics
      BY <1>2, <2>1
    <3>3. Head(todo) = t
      BY <3>1, <3>2 DEF BookInv
    <3>4. orderly(Append(q, handled), handled, Tail(todo), t)
      BY <1>0, <1>1, <1>2, <2>1, <3>3, OrderlyOffer
    <3>5. got[s] \o Append(ch[s], handled) = Append(q, handled)
      BY <1>0, <2>1, ConcatMoves
    <3> QED
      BY <2>1, <3>1, <3>4, <3>5
  <2> QED
    BY <2>3, <2>4
<1>7. ASSUME NEW n \in Callers, Take(n)
      PROVE  orderly(got'[s] \o ch'[s], handled', todo', TopicOf[s])
  BY <1>1, <1>4, <1>7
<1> QED
  BY <1>3, <1>5, <1>6, <1>7
  DEF Next, Application, Handle, Subscribe, Cancel, Next_, Ask, GiveUp, Return, HandleAdd,
     HandleRemove, HandleGetTopics, HandlePublish, HandleListPeers, Reply, CancelContext, Stop,
     vars, loopVars, subVars, appVars, readVars

-----------------------------------------------------------------------------

LEMMA InitIInv == Init => IInv
<1> SUFFICES ASSUME Init PROVE IInv
  OBVIOUS
<1>1. TypeOK
  BY SubscriptionsAssumption DEF Init, TypeOK, SubscriptionsAssumption, Calls
<1>2. LoopInv /\ BookInv
  BY DEF Init, LoopInv, BookInv
<1>3. CallInv /\ CancelInv
  BY DEF Init, CallInv, CancelInv, Out, PanicsOnlyOnMisuse
<1>4. OrderInv
  <2> SUFFICES ASSUME NEW s \in Subs PROVE orderly(<<>>, 0, <<>>, TopicOf[s])
    BY DEF Init, OrderInv
  <2>1. Msgs \subseteq Nat \ {0} /\ \A m \in Msgs : Lists[m] \in Seq(Topics)
    BY SubscriptionsAssumption DEF SubscriptionsAssumption, Msgs
  <2>2. \A m : count(<<>>, m) = 0
    <3> SUFFICES ASSUME NEW m PROVE count(<<>>, m) = 0
      OBVIOUS
    <3>1. positions(<<>>, m) = {} /\ <<>> \in Seq(Msgs)
      BY DEF positions
    <3> QED
      BY <3>1, CountType, FS_EmptySet
  <2>3. \A m \in Msgs : count(Lists[m], TopicOf[s]) \in Nat
    BY <2>1, CountType
  <2> QED
    BY <2>1, <2>2, <2>3 DEF orderly
<1> QED
  BY <1>1, <1>2, <1>3, <1>4 DEF IInv

LEMMA StepIInv == IInv /\ [Next]_vars => IInv'
BY StepTypeOK, StepLoopInv, StepBookInv, StepCallInv, StepCancelInv, StepOrderInv DEF IInv

LEMMA Inductive == Spec => []IInv
BY InitIInv, StepIInv, PTL DEF Spec

\* The types, and that no channel holds more than its capacity.
THEOREM TypeCorrect == Spec => []TypeOK
<1>1. IInv => TypeOK
  BY DEF IInv
<1> QED
  BY Inductive, <1>1, PTL

\* The process loop panics only on a subscription that was cancelled twice.
THEOREM Panics == Spec => []PanicsOnlyOnMisuse
<1>1. IInv => PanicsOnlyOnMisuse
  BY DEF IInv, CancelInv
<1> QED
  BY Inductive, <1>1, PTL

\* The node has joined the topics it is subscribed to, and no others.
THEOREM Announced == Spec => []Joined
<1>1. IInv => Joined
  <2> SUFFICES ASSUME IInv, NEW s \in held, cancels[s] = 0 PROVE TopicOf[s] \in joined
    BY DEF IInv, BookInv, Joined
  <2>1. s \notin closed
    BY DEF IInv, BookInv
  <2>2. s \in myTopics[TopicOf[s]] /\ TopicOf[s] \in Topics
    BY <2>1, SubscriptionsAssumption DEF IInv, BookInv, TypeOK, SubscriptionsAssumption
  <2> QED
    BY <2>2 DEF IInv, BookInv
<1> QED
  BY Inductive, <1>1, PTL

\* A reader gets the messages in the order in which the node handled them, each at
\* most as often as it lists the topic.
THEOREM Delivered == Spec => []InOrder
<1>1. IInv => InOrder
  <2> SUFFICES ASSUME IInv, NEW s \in Subs
               PROVE  LET q == got[s] \o ch[s] IN
                        /\ \A i, j \in DOMAIN q : i <= j => q[i] <= q[j]
                        /\ \A m \in Msgs : count(q, m) <= count(Lists[m], TopicOf[s])
    BY DEF InOrder
  <2> DEFINE q == got[s] \o ch[s]
  <2>0. q \in Seq(Msgs) /\ TopicOf[s] \in Topics /\ todo \in Seq(Topics)
    BY KeptTypes DEF IInv, TypeOK
  <2>1. orderly(q, handled, todo, TopicOf[s])
    BY DEF IInv, OrderInv
  <2> HIDE DEF q
  <2>2. count(todo, TopicOf[s]) \in Nat /\ \A m \in Msgs : count(q, m) \in Nat
    BY <2>0, CountType
  <2>3. \A m \in Msgs : count(Lists[m], TopicOf[s]) \in Nat
    BY <2>0, CountType, SubscriptionsAssumption DEF SubscriptionsAssumption, Msgs
  <2>4. /\ \A i, j \in DOMAIN q : i <= j => q[i] <= q[j]
        /\ \A m \in Msgs : count(q, m) <= count(Lists[m], TopicOf[s])
    BY <2>1, <2>2, <2>3 DEF orderly
  <2> QED
    BY <2>4 DEF q
<1> QED
  BY Inductive, <1>1, PTL

-----------------------------------------------------------------------------

\* The state of a subscription depends on the bookkeeping and its channel.
LEMMA SameState == UNCHANGED <<closed, myTopics>> => UNCHANGED state
BY DEF state

\* The initial states are initial states of Feed.
LEMMA RefinesInit == Init => Mailbox!Init
<1> SUFFICES ASSUME Init PROVE Mailbox!Init
  OBVIOUS
<1>1. \A s \in Subs : s \notin myTopics[TopicOf[s]]
  BY SubscriptionsAssumption DEF SubscriptionsAssumption, Init
<1> QED
  BY <1>1 DEF Init, Mailbox!Init, state

\* Every step is a step of Feed or leaves its variables alone.
LEMMA RefinesStep == IInv /\ [Next]_vars => [Mailbox!Next]_(Mailbox!vars)
<1> SUFFICES ASSUME TypeOK, LoopInv, BookInv, CallInv, [Next]_vars PROVE [Mailbox!Next]_(Mailbox!vars)
  BY DEF IInv
<1> USE DEF appVars, loopVars, subVars, readVars
<1>0. \A r \in Subs : TopicOf[r] \in Topics
  BY SubscriptionsAssumption DEF SubscriptionsAssumption
<1>1. CASE UNCHANGED <<myTopics, closed, ch, got, ended>>
  BY <1>1, SameState DEF Mailbox!vars
<1>2. ASSUME NEW n \in Callers, HandleAdd(n) PROVE Mailbox!Next
  <2>1. PICK s \in Subs :
            /\ call[n].op = "Subscribe" /\ call[n].at = "send" /\ call[n].sub = s
            /\ s \notin held
            /\ \A u \in Topics : myTopics'[u] =
                    IF u = TopicOf[s] THEN myTopics[u] \cup {s} ELSE myTopics[u]
            /\ UNCHANGED <<ch, closed, got, ended>>
    BY <1>2, Added
  <2>2. s \notin closed /\ s \notin myTopics[TopicOf[s]]
    BY <2>1 DEF BookInv, CallInv
  <2>3. \A r \in Subs : state'[r] = IF r = s THEN "open" ELSE state[r]
    <3>1. /\ s \in myTopics'[TopicOf[s]]
          /\ \A r \in Subs \ {s} : r \in myTopics'[TopicOf[r]] <=> r \in myTopics[TopicOf[r]]
      BY <1>0, <2>1
    <3> QED
      BY <2>1, <2>2, <3>1 DEF state
  <2>4. state[s] = "none" /\ state' = [state EXCEPT ![s] = "open"]
    BY <2>2, <2>3 DEF state
  <2>5. Mailbox!Open(s)
    BY <2>1, <2>4 DEF Mailbox!Open
  <2> QED
    BY <2>5 DEF Mailbox!Next
<1>3. ASSUME NEW n \in Callers, HandleRemove(n) PROVE [Mailbox!Next]_(Mailbox!vars)
  <2>1. PICK s \in Subs :
            /\ s \in held
            /\ \/ UNCHANGED <<closed, subVars>>
               \/ /\ s \notin closed /\ closed' = closed \cup {s}
                  /\ \A u \in Topics : myTopics'[u] =
                        IF u = TopicOf[s] THEN myTopics[u] \ {s} ELSE myTopics[u]
            /\ UNCHANGED <<ch, got, ended>>
    BY <1>3, Removed
  <2>2. CASE UNCHANGED <<closed, subVars>>
    BY <1>1, <2>1, <2>2
  <2>3. CASE /\ s \notin closed /\ closed' = closed \cup {s}
             /\ \A u \in Topics : myTopics'[u] =
                    IF u = TopicOf[s] THEN myTopics[u] \ {s} ELSE myTopics[u]
    <3>1. s \in myTopics[TopicOf[s]]
      BY <2>1, <2>3 DEF BookInv
    <3>2. \A r \in Subs : state'[r] = IF r = s THEN "closed" ELSE state[r]
      BY <1>0, <2>3 DEF state
    <3>3. state[s] = "open" /\ state' = [state EXCEPT ![s] = "closed"]
      BY <2>3, <3>1, <3>2 DEF state
    <3>4. Mailbox!Close(s)
      BY <2>1, <3>3 DEF Mailbox!Close
    <3> QED
      BY <3>4 DEF Mailbox!Next
  <2> QED
    BY <2>1, <2>2, <2>3
<1>4. CASE NotifySubs
  <2> DEFINE S == subsOf(Head(todo))
  <2>1. Head(todo) \in Topics /\ handled \in Msgs
    BY <1>4 DEF NotifySubs, TypeOK, LoopInv
  <2>2. S \subseteq Subs /\ \A s \in S : TopicOf[s] = Head(todo) /\ s \notin closed
    BY <2>1 DEF subsOf, BookInv, TypeOK
  <2>3. \A s \in S : state[s] = "open"
    BY <2>2 DEF state, subsOf
  <2>4. S \cap closed = {}
    BY <2>2
  <2>5. ch' = [s \in Subs |-> IF s \in S THEN offer(ch[s]) ELSE ch[s]]
    BY <1>4, <2>4 DEF NotifySubs
  <2>6. \A q : offer(q) = Mailbox!with(q, handled)
    BY DEF offer, Mailbox!with
  <2>7. ch' = [s \in Subs |-> IF s \in S THEN Mailbox!with(ch[s], handled) ELSE ch[s]]
    BY <2>5, <2>6
  <2>8. UNCHANGED <<state, got, ended>>
    BY <1>4, SameState DEF NotifySubs
  <2>9. Mailbox!Offer(handled, S)
    BY <2>3, <2>7, <2>8 DEF Mailbox!Offer
  <2> QED
    BY <2>1, <2>2, <2>9 DEF Mailbox!Next
<1>5. ASSUME NEW n \in Callers, Take(n) PROVE Mailbox!Next
  <2>1. PICK s \in Subs : s = call[n].sub
    BY <1>5, CalledSub DEF Take, reads
  <2>2. UNCHANGED state
    BY <1>5, SameState DEF Take
  <2>3. CASE ch[s] # <<>> /\ UNCHANGED ended
              /\ got' = [got EXCEPT ![s] = Append(@, Head(ch[s]))]
              /\ ch' = [ch EXCEPT ![s] = Tail(@)]
    BY <2>2, <2>3 DEF Mailbox!Take, Mailbox!Next
  <2>4. CASE atEnd(s) /\ ended' = ended \cup {s} /\ UNCHANGED <<got, ch>>
    <3>1. state[s] = "closed" /\ ch[s] = <<>>
      BY <2>4 DEF atEnd, state
    <3> QED
      BY <2>2, <2>4, <3>1 DEF Mailbox!End, Mailbox!Next
  <2> QED
    BY <1>5, <2>1, <2>3, <2>4 DEF Take
<1> QED
  BY <1>1, <1>2, <1>3, <1>4, <1>5
  DEF Next, Application, Handle, Subscribe, Cancel, Next_, Ask, GiveUp, Return, HandleGetTopics,
     HandlePublish, HandleListPeers, Reply, PublishMessage, CancelContext, Stop, vars

\* The subscriptions of the node implement the promise of Feed.
THEOREM Refinement == Spec => Refines
<1>1. Spec => Mailbox!Init /\ [][Mailbox!Next]_(Mailbox!vars)
  BY RefinesInit, RefinesStep, Inductive, PTL DEF Spec
<1> QED
  BY <1>1 DEF Refines, Mailbox!Spec
=============================================================================
