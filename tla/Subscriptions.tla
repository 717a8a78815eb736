---------------------------- MODULE Subscriptions ----------------------------
(***************************************************************************)
(* The subscriptions of one node and the calls of its API (pubsub.go,      *)
(* subscription.go): Subscribe, Cancel, Next, Publish, BlacklistPeer,      *)
(* GetTopics and ListPeers, made by goroutines of the application and, but *)
(* for Next, handed to the process loop over unbuffered channels; and the  *)
(* delivery of messages to the channels of the subscriptions.              *)
(*                                                                         *)
(* The application may cancel a subscription more than once, may read one  *)
(* from several goroutines, and may call after the context was cancelled.  *)
(* How messages get to publishMessage is in Validation, the events of      *)
(* peers are in PeerEvents. A call that registers a validator blocks as    *)
(* GetTopics does, and BlacklistPeer as Publish.                           *)
(***************************************************************************)
EXTENDS Naturals, Sequences, FiniteSets

CONSTANTS
    Topics, Subs, TopicOf, Callers, None,
    Lists,       \* the topic IDs of the messages, in the order of their arrival
    Capacity,    \* of the channel of a subscription (32 in the code)
    MaxCancel    \* bound: calls of Cancel on each subscription

Msgs == DOMAIN Lists

ASSUME SubscriptionsAssumption ==
    /\ TopicOf \in [Subs -> Topics]
    /\ Lists \in Seq(Seq(Topics))
    /\ Capacity \in Nat \ {0} /\ MaxCancel \in [Subs -> Nat]
    /\ None \notin Callers

VARIABLES
    loop,       \* the process loop: "run", "cancelled" (the context), "stopped",
                \* or "panicked", and the program with it
    replying,   \* the caller of ListPeers whose answer the loop sends, or None
    todo,       \* notifySubs: the topic IDs of the message still to be served
    handled,    \* messages handled so far
    myTopics,   \* the subscriptions of each topic
    joined,     \* topics last announced as subscribed, and given to rt.Join
    ch,         \* the channel of each subscription
    closed,     \* the subscriptions whose channel is closed, and err is set
    used,       \* the subscriptions made by a call of Subscribe
    held,       \* those that Subscribe has returned
    cancels,    \* history: calls of Cancel on each
    call,       \* what each caller is doing
    got,        \* history: messages returned by Next on each subscription
    ended       \* history: the subscriptions on which Next has returned err

appVars == <<used, held, cancels>>
readVars == <<got, ended>>
loopVars == <<loop, replying, todo, handled>>
subVars == <<myTopics, joined>>
vars == <<loopVars, subVars, ch, closed, appVars, call, readVars>>

Requests == {"Subscribe", "Cancel", "GetTopics", "ListPeers", "Publish"}
Ops == Requests \cup {"Next"}
Out == [op |-> "none", sub |-> None, at |-> "out"]
Calls == {Out} \cup [op : Ops, sub : Subs \cup {None}, at : {"send", "wait"}]

Init ==
    /\ loop = "run" /\ replying = None /\ todo = <<>> /\ handled = 0
    /\ myTopics = [t \in Topics |-> {}] /\ joined = {}
    /\ ch = [s \in Subs |-> <<>>] /\ closed = {}
    /\ used = {} /\ held = {} /\ cancels = [s \in Subs |-> 0]
    /\ call = [n \in Callers |-> Out]
    /\ got = [s \in Subs |-> <<>>] /\ ended = {}

-----------------------------------------------------------------------------
(* The application *)

Enter(n, o, s, a) == call' = [call EXCEPT ![n] = [op |-> o, sub |-> s, at |-> a]]
Leave(n) == call' = [call EXCEPT ![n] = Out]
idle(n) == call[n] = Out /\ loop # "panicked"

\* SubscribeByTopicDescriptor makes the Subscription and asks the loop to add it
Subscribe(n, s) ==
    /\ idle(n) /\ s \notin used
    /\ used' = used \cup {s}
    /\ Enter(n, "Subscribe", s, "send")
    /\ UNCHANGED <<loopVars, subVars, ch, closed, held, cancels, readVars>>

Cancel(n, s) ==
    /\ idle(n) /\ s \in held /\ cancels[s] < MaxCancel[s]
    /\ cancels' = [cancels EXCEPT ![s] = @ + 1]
    /\ Enter(n, "Cancel", s, "send")
    /\ UNCHANGED <<loopVars, subVars, ch, closed, used, held, readVars>>

\* GetTopics, ListPeers, Publish, BlacklistPeer
Ask(n, o) ==
    /\ idle(n) /\ o \in {"GetTopics", "ListPeers", "Publish"}
    /\ Enter(n, o, None, "send")
    /\ UNCHANGED <<loopVars, subVars, ch, closed, appVars, readVars>>

Next_(n, s) ==
    /\ idle(n) /\ s \in held
    /\ Enter(n, "Next", s, "wait")
    /\ UNCHANGED <<loopVars, subVars, ch, closed, appVars, readVars>>

reads(n) == loop # "panicked" /\ call[n].op = "Next"

\* bug: Next ignores that the channel was closed
neverAtEnd(s) == FALSE
\* receiving from a channel that is closed and empty: ok is false
atEnd(s) == ch[s] = <<>> /\ s \in closed

\* case msg, ok := <-sub.ch
Take(n) ==
    LET s == call[n].sub IN
    /\ reads(n)
    /\ \/ /\ ch[s] # <<>>
          /\ got' = [got EXCEPT ![s] = Append(@, Head(ch[s]))]
          /\ ch' = [ch EXCEPT ![s] = Tail(@)]
          /\ UNCHANGED ended
       \/ /\ atEnd(s)
          /\ ended' = ended \cup {s}
          /\ UNCHANGED <<got, ch>>
    /\ Leave(n)
    /\ UNCHANGED <<loopVars, subVars, closed, appVars>>

\* case <-ctx.Done() of the caller's context
GiveUp(n) ==
    /\ reads(n) /\ Leave(n)
    /\ UNCHANGED <<loopVars, subVars, ch, closed, appVars, readVars>>

\* the answer of the process loop is received from a buffered channel
Return(n) ==
    /\ loop # "panicked" /\ call[n].op \in {"Subscribe", "GetTopics"} /\ call[n].at = "wait"
    /\ held' = IF call[n].op = "Subscribe" THEN held \cup {call[n].sub} ELSE held
    /\ Leave(n)
    /\ UNCHANGED <<loopVars, subVars, ch, closed, used, cancels, readVars>>

-----------------------------------------------------------------------------
(* The process loop *)

LoopFree == loop \in {"run", "cancelled"} /\ replying = None /\ todo = <<>>
asks(n, o) == LoopFree /\ call[n].op = o /\ call[n].at = "send"
Answer(n) == call' = [call EXCEPT ![n].at = "wait"]

\* case sub := <-p.addSub: handleAddSubscription
HandleAdd(n) ==
    LET s == call[n].sub
        t == TopicOf[s] IN
    /\ asks(n, "Subscribe")
    /\ joined' = IF myTopics[t] = {} THEN joined \cup {t} ELSE joined
    /\ myTopics' = [myTopics EXCEPT ![t] = @ \cup {s}]
    /\ Answer(n)
    /\ UNCHANGED <<loopVars, ch, closed, appVars, readVars>>

\* bug: the closed subscription stays in the bookkeeping
unchanged(subs, s) == subs
without(subs, s) == subs \ {s}

\* bug: any cancellation is announced
always(subs) == TRUE
isLast(subs) == subs = {}

\* case sub := <-p.cancelCh: handleRemoveSubscription; a second close panics
HandleRemove(n) ==
    LET s == call[n].sub
        t == TopicOf[s]
        left == without(myTopics[t], s) IN
    /\ asks(n, "Cancel")
    /\ \/ /\ myTopics[t] = {}
          /\ UNCHANGED <<loop, closed, subVars>>
       \/ /\ myTopics[t] # {} /\ s \in closed
          /\ loop' = "panicked"
          /\ UNCHANGED <<closed, subVars>>
       \/ /\ myTopics[t] # {} /\ s \notin closed
          /\ closed' = closed \cup {s}
          /\ myTopics' = [myTopics EXCEPT ![t] = left]
          /\ joined' = IF isLast(left) THEN joined \ {t} ELSE joined
          /\ UNCHANGED loop
    /\ Leave(n)
    /\ UNCHANGED <<replying, todo, handled, ch, appVars, readVars>>

\* case treq := <-p.getTopics: the answer has room in its channel
HandleGetTopics(n) ==
    /\ asks(n, "GetTopics") /\ Answer(n)
    /\ UNCHANGED <<loopVars, subVars, ch, closed, appVars, readVars>>

\* case msg := <-p.publish, case pid := <-p.blacklistPeer: no answer
HandlePublish(n) ==
    /\ asks(n, "Publish") /\ Leave(n)
    /\ UNCHANGED <<loopVars, subVars, ch, closed, appVars, readVars>>

\* case preq := <-p.getPeers: the answer has no room, the loop waits
HandleListPeers(n) ==
    /\ asks(n, "ListPeers") /\ Answer(n)
    /\ replying' = n
    /\ UNCHANGED <<loop, todo, handled, subVars, ch, closed, appVars, readVars>>

\* preq.resp <- peers, and <-out in ListPeers
Reply(n) ==
    /\ loop # "panicked" /\ replying = n
    /\ replying' = None
    /\ Leave(n)
    /\ UNCHANGED <<loop, todo, handled, subVars, ch, closed, appVars, readVars>>

\* publishMessage is called, with the next message
PublishMessage ==
    /\ LoopFree /\ handled < Len(Lists)
    /\ handled' = handled + 1
    /\ todo' = Lists[handled + 1]
    /\ UNCHANGED <<loop, replying, subVars, ch, closed, appVars, call, readVars>>

\* bug: every subscription is served
allSubs(t) == UNION {myTopics[u] : u \in Topics}
subsOf(t) == myTopics[t]

\* bug: the oldest message makes room for the new one
offerNewest(q) == Append(IF Len(q) < Capacity THEN q ELSE Tail(q), handled)
\* a channel that is full is left as it is
offer(q) == IF Len(q) < Capacity THEN Append(q, handled) ELSE q

\* bug: the loop waits for a slow subscriber
hasRoom(S) == \A s \in S : Len(ch[s]) < Capacity
\* the select has a default
goesOn(S) == TRUE

\* notifySubs, one topic ID: a send to a closed channel panics
NotifySubs ==
    /\ loop # "panicked" /\ todo # <<>>
    /\ todo' = Tail(todo)
    /\ goesOn(subsOf(Head(todo)))
    /\ LET S == subsOf(Head(todo)) IN
       \/ /\ S \cap closed # {}
          /\ loop' = "panicked" /\ UNCHANGED ch
       \/ /\ S \cap closed = {}
          /\ ch' = [s \in Subs |-> IF s \in S THEN offer(ch[s]) ELSE ch[s]]
          /\ UNCHANGED loop
    /\ UNCHANGED <<replying, handled, subVars, closed, appVars, call, readVars>>

CancelContext ==
    /\ loop = "run" /\ loop' = "cancelled"
    /\ UNCHANGED <<replying, todo, handled, subVars, ch, closed, appVars, call, readVars>>

\* case <-ctx.Done(): the subscriptions stay as they are
Stop ==
    /\ loop = "cancelled" /\ LoopFree /\ loop' = "stopped"
    /\ UNCHANGED <<replying, todo, handled, subVars, ch, closed, appVars, call, readVars>>

-----------------------------------------------------------------------------
Application(n) ==
    \/ \E s \in Subs : Subscribe(n, s) \/ Cancel(n, s) \/ Next_(n, s)
    \/ \E o \in Requests : Ask(n, o)
    \/ GiveUp(n)

Handle(n) ==
    HandleAdd(n) \/ HandleRemove(n) \/ HandleGetTopics(n) \/ HandlePublish(n) \/ HandleListPeers(n)

Next ==
    \/ \E n \in Callers : Application(n) \/ Take(n) \/ Return(n) \/ Handle(n) \/ Reply(n)
    \/ PublishMessage \/ NotifySubs \/ CancelContext \/ Stop

Spec == Init /\ [][Next]_vars

\* The goroutines run on; select picks at random among the channels that are
\* ready, and a channel serves those who wait in the order of their arrival.
FairSpec ==
    /\ Spec /\ WF_vars(NotifySubs) /\ WF_vars(Stop)
    /\ \A n \in Callers :
        SF_vars(Handle(n)) /\ SF_vars(Take(n)) /\ WF_vars(Return(n)) /\ WF_vars(Reply(n))

-----------------------------------------------------------------------------
(* Properties *)

TypeOK ==
    /\ loop \in {"run", "cancelled", "stopped", "panicked"}
    /\ replying \in Callers \cup {None}
    /\ todo \in Seq(Topics) /\ handled \in 0..Len(Lists)
    /\ myTopics \in [Topics -> SUBSET Subs] /\ joined \subseteq Topics
    /\ ch \in [Subs -> Seq(Msgs)] /\ \A s \in Subs : Len(ch[s]) <= Capacity
    /\ closed \subseteq Subs
    /\ used \subseteq Subs /\ held \subseteq used /\ cancels \in [Subs -> Nat]
    /\ call \in [Callers -> Calls]
    /\ got \in [Subs -> Seq(Msgs)] /\ ended \subseteq Subs

\* The process loop panics only because the application has cancelled one
\* subscription twice: no channel is closed or sent to after its close in
\* any order of subscriptions, cancellations and messages.
PanicsOnlyOnMisuse ==
    loop = "panicked" => \E s \in Subs : cancels[s] > 1

\* What the node has announced and joined is what it is subscribed to, and
\* every subscription that was returned and not cancelled is among it.
Joined ==
    loop # "panicked" =>
        /\ joined = {t \in Topics : myTopics[t] # {}}
        /\ \A s \in held : cancels[s] = 0 => TopicOf[s] \in joined

count(q, x) == Cardinality({i \in DOMAIN q : q[i] = x})

\* A reader gets the messages in the order in which the node handled them,
\* each at most once for every time it lists the topic of the subscription.
InOrder ==
    \A s \in Subs :
        LET q == got[s] \o ch[s] IN
        /\ \A i, j \in DOMAIN q : i <= j => q[i] <= q[j]
        /\ \A m \in Msgs : count(q, m) <= count(Lists[m], TopicOf[s])

state == [s \in Subs |->
    IF s \in closed THEN "closed" ELSE IF s \in myTopics[TopicOf[s]] THEN "open" ELSE "none"]

\* The channel, the bookkeeping and the callers of Next implement the
\* promise of a subscription.
Mailbox == INSTANCE Feed WITH feed <- ch
Refines == Mailbox!Spec

\* A call returns, whatever the readers of subscriptions do, unless the
\* context is cancelled or the process loop has panicked.
CallsReturn ==
    \A n \in Callers : call[n].op \in Requests ~> call[n] = Out \/ loop # "run"

\* No caller of Next waits for ever beside a message or a closed channel,
\* also when the process loop has stopped.
Served ==
    \A n \in Callers, s \in Subs :
        ~<>[](/\ call[n].op = "Next" /\ call[n].sub = s /\ loop # "panicked"
              /\ ch[s] # <<>> \/ s \in closed)
=============================================================================
