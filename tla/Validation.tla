----------------------------- MODULE Validation -----------------------------
(***************************************************************************)
(* The message pipeline of one pubsub node: PubSub.pushMsg and             *)
(* publishMessage on the process loop (pubsub.go), and the validation      *)
(* front-end with its worker goroutines, asynchronous validators and       *)
(* throttles (validation.go).                                              *)
(*                                                                         *)
(* Every arrival of a message, from a peer's RPC or from a local Publish,  *)
(* is one element of Copies: the same message id can be in the pipeline    *)
(* several times, in copies that differ in sender, signature and topics.   *)
(* A message that lists a topic twice has its validator run twice.         *)
(*                                                                         *)
(* The process loop, the workers and the validator goroutines interleave;  *)
(* the steps of one goroutine that touch no shared state are fused. An RPC *)
(* with several payload messages behaves as several RPCs with one each.    *)
(***************************************************************************)
EXTENDS Naturals, Sequences, FiniteSets

CONSTANTS
    Copies,          \* arrivals (bounds how many messages enter the node)
    Peers, Self,     \* the other peers, and this host
    Ids, Author,     \* message ids; the From peer that an id starts with
    Topics,
    Messages,        \* the messages that may arrive: [id, sig, topics]
    Vals,            \* topicVal objects, one per successful registration
    ValTopic, ValInline, ValThrottle,
    Workers,         \* validateWorkers
    GlobalThrottle,  \* capacity of validation.validateThrottle
    QueueLen,        \* capacity of validateQ and of sendMsg (32 in the code)
    Strict, Signing, \* signStrict; signKey is set
    MaxExpire,       \* bound: how often one id may leave the time cache
    NoVal, NoReq,
    Idle, Gone       \* a worker that waits for a request; one that has returned

Hosts == Peers \cup {Self}
Sigs == {"none", "good", "bad"}

\* <<v, n>> is a call of validator v, for the n-th topic of a message.
Calls == Vals \X UNION {DOMAIN m.topics : m \in Messages}

ASSUME ValidationAssumption ==
    /\ IsFiniteSet(Copies) /\ IsFiniteSet(Vals)
    /\ Author \in [Ids -> Hosts]
    /\ Messages \subseteq [id : Ids, sig : Sigs, topics : Seq(Topics)]
    /\ ValTopic \in [Vals -> Topics]
    /\ ValInline \in [Vals -> BOOLEAN]
    /\ ValThrottle \in [Vals -> Nat \ {0}]
    /\ GlobalThrottle \in Nat /\ QueueLen \in Nat \ {0} /\ MaxExpire \in Nat
    /\ Strict \in BOOLEAN /\ Signing \in BOOLEAN
    /\ NoVal \notin Vals /\ NoReq \notin [src : Hosts, msg : Messages, vals : SUBSET Calls]
    /\ Idle \notin Copies /\ Gone \notin Copies \cup {Idle}

VARIABLES
    myTopics,   \* topics we are subscribed to
    blacklist,
    topicVals,  \* registered validator of each topic
    spent,      \* topicVal objects ever registered
    seen,       \* seenMessages
    window,     \* history: how many times each id has been dropped from seen
    loop,       \* Idle, or the copy pushMsg holds between its seen check and its mark
    validateQ, worker, sendMsg,
    req,        \* [src, msg, vals] of every copy, as captured by Push
    stage,      \* where each copy is
    todo,       \* calls of validators for a copy still to be made or spawned
    passed, failed,  \* verdicts returned for a copy (rch and the inline loop)
    gheld,      \* goroutines holding a slot of the global throttle
    vheld,      \* <<copy, call>> holding a slot of the validator's throttle
    running,    \* <<copy, call>> whose asynchronous validator runs now
    invoked,    \* history: <<copy, call>> that were made
    mark,       \* history: 1 + the window in which the copy marked its id, or 0
    done        \* the context is cancelled

confVars == <<myTopics, blacklist, topicVals, spent>>
seenVars == <<seen, window, mark>>
asyncVars == <<gheld, vheld, running>>
verdictVars == <<todo, passed, failed, invoked>>
vars == <<confVars, seenVars, asyncVars, verdictVars,
          loop, validateQ, worker, sendMsg, req, stage, done>>

Stages == {"new", "direct", "queued", "check", "inline", "wsend",
           "spawn", "collect", "asend", "sent", "published", "dropped"}
Requests == [src : Hosts, msg : Messages, vals : SUBSET Calls]

\* msgID: the concatenation of the message's From and Seqno
msgID(c) == req[c].msg.id
inlineVals(V) == {x \in V : ValInline[x[1]]}
asyncVals(V) == {x \in V : ~ValInline[x[1]]}

(***************************************************************************)
(* subscribedToMsg, and getValidators over the topics of a message         *)
(***************************************************************************)
subscribedToMsg(m) == \E n \in DOMAIN m.topics : m.topics[n] \in myTopics
getValidators(m) == {<<topicVals[m.topics[n]], n>> : n \in DOMAIN m.topics} \cap Calls

MoveTo(c, s) == stage' = [stage EXCEPT ![c] = s]

Init ==
    /\ myTopics = {} /\ blacklist = {} /\ spent = {}
    /\ topicVals = [t \in Topics |-> NoVal]
    /\ seen = {} /\ window = [i \in Ids |-> 0] /\ mark = [c \in Copies |-> 0]
    /\ loop = Idle /\ validateQ = <<>> /\ sendMsg = <<>>
    /\ worker = [w \in Workers |-> Idle]
    /\ req = [c \in Copies |-> NoReq]
    /\ stage = [c \in Copies |-> "new"]
    /\ todo = [c \in Copies |-> {}]
    /\ passed = [c \in Copies |-> {}] /\ failed = [c \in Copies |-> {}]
    /\ gheld = {} /\ vheld = {} /\ running = {} /\ invoked = {}
    /\ done = FALSE

-----------------------------------------------------------------------------
(* The process loop *)

LoopFree == loop = Idle /\ ~done

\* handleAddSubscription / handleRemoveSubscription, as far as the pipeline sees
Subscription(t) ==
    /\ LoopFree
    /\ \/ t \notin myTopics /\ myTopics' = myTopics \cup {t}
       \/ t \in myTopics /\ myTopics' = myTopics \ {t}
    /\ UNCHANGED <<blacklist, topicVals, spent, seenVars, asyncVars, verdictVars,
                   loop, validateQ, worker, sendMsg, req, stage, done>>

\* case pid := <-p.blacklistPeer
BlacklistPeer(p) ==
    /\ LoopFree
    /\ blacklist' = blacklist \cup {p}
    /\ UNCHANGED <<myTopics, topicVals, spent, seenVars, asyncVars, verdictVars,
                   loop, validateQ, worker, sendMsg, req, stage, done>>

AddValidator(v) ==
    /\ LoopFree /\ v \notin spent
    /\ topicVals[ValTopic[v]] = NoVal        \* else: duplicate validator error
    /\ topicVals' = [topicVals EXCEPT ![ValTopic[v]] = v]
    /\ spent' = spent \cup {v}
    /\ UNCHANGED <<myTopics, blacklist, seenVars, asyncVars, verdictVars,
                   loop, validateQ, worker, sendMsg, req, stage, done>>

RemoveValidator(t) ==
    /\ LoopFree /\ topicVals[t] # NoVal      \* else: no validator error
    /\ topicVals' = [topicVals EXCEPT ![t] = NoVal]
    /\ UNCHANGED <<myTopics, blacklist, spent, seenVars, asyncVars, verdictVars,
                   loop, validateQ, worker, sendMsg, req, stage, done>>

(***************************************************************************)
(* validation.Push: no validators and no signature means that the message  *)
(* can be published at once; otherwise it is queued, or dropped when the   *)
(* queue is full.                                                          *)
(***************************************************************************)
Push(c, src, m) ==
    LET vals == getValidators(m) IN
    /\ req' = [req EXCEPT ![c] = [src |-> src, msg |-> m, vals |-> vals]]
    /\ \/ /\ vals = {} /\ m.sig = "none"
          /\ MoveTo(c, "direct") /\ loop' = c
          /\ UNCHANGED validateQ
       \/ /\ vals # {} \/ m.sig # "none"
          /\ Len(validateQ) < QueueLen
          /\ validateQ' = Append(validateQ, c)
          /\ MoveTo(c, "queued")
          /\ UNCHANGED loop
       \/ /\ vals # {} \/ m.sig # "none"
          /\ Len(validateQ) >= QueueLen
          /\ MoveTo(c, "dropped")
          /\ UNCHANGED <<validateQ, loop>>

\* pushMsg: an early return of the code leaves the node as it was
pushMsg(c, src, m) ==
    /\ stage[c] = "new"
    /\ src \notin blacklist
    /\ Author[m.id] \notin blacklist
    /\ ~(Strict /\ m.sig = "none")
    /\ m.id \notin seen
    /\ Push(c, src, m)
    /\ UNCHANGED <<confVars, seenVars, asyncVars, verdictVars, worker, sendMsg, done>>

\* a payload message of an RPC, in handleIncomingRPC
Receive(c, src, m) ==
    /\ LoopFree /\ src \in Peers
    /\ subscribedToMsg(m)
    /\ pushMsg(c, src, m)

\* case msg := <-p.publish: Publish made the message, for one topic and with
\* a fresh sequence number
Publish(c, m) ==
    /\ LoopFree
    /\ Author[m.id] = Self /\ Len(m.topics) = 1
    /\ m.sig = IF Signing THEN "good" ELSE "none"
    /\ \A d \in Copies : stage[d] # "new" => msgID(d) # m.id
    /\ pushMsg(c, Self, m)

\* bug: what seenMessage said when the copy was pushed is still taken to be true
markUnchecked(c, next) ==
    /\ seen' = seen \cup {msgID(c)}
    /\ mark' = [mark EXCEPT ![c] = window[msgID(c)] + 1]
    /\ MoveTo(c, next)
    /\ UNCHANGED window

\* markSeen, under seenMessagesMx; a copy that finds its id marked is dropped
markSeen(c, next) ==
    \/ /\ msgID(c) \notin seen
       /\ seen' = seen \cup {msgID(c)}
       /\ mark' = [mark EXCEPT ![c] = window[msgID(c)] + 1]
       /\ MoveTo(c, next)
       /\ UNCHANGED window
    \/ /\ msgID(c) \in seen
       /\ MoveTo(c, "dropped")
       /\ UNCHANGED seenVars

\* the end of pushMsg: workers may have marked the id since seenMessage looked
PushDirect ==
    /\ loop \in Copies /\ ~done
    /\ markSeen(loop, "published")
    /\ loop' = Idle
    /\ UNCHANGED <<confVars, asyncVars, verdictVars,
                   validateQ, worker, sendMsg, req, done>>

\* case req := <-p.sendMsg: publishMessage hands the message to the
\* subscriptions and to the router
PublishMessage ==
    /\ LoopFree /\ sendMsg # <<>>
    /\ MoveTo(Head(sendMsg), "published")
    /\ sendMsg' = Tail(sendMsg)
    /\ UNCHANGED <<confVars, seenVars, asyncVars, verdictVars,
                   loop, validateQ, worker, req, done>>

\* case <-ctx.Done()
Cancel ==
    /\ LoopFree
    /\ done' = TRUE
    /\ UNCHANGED <<confVars, seenVars, asyncVars, verdictVars,
                   loop, validateQ, worker, sendMsg, req, stage>>

\* whyrusleeping/timecache: an id is forgotten TimeCacheDuration after it was added
Expire(i) ==
    /\ i \in seen /\ window[i] < MaxExpire
    /\ seen' = seen \ {i}
    /\ window' = [window EXCEPT ![i] = @ + 1]
    /\ UNCHANGED <<confVars, mark, asyncVars, verdictVars,
                   loop, validateQ, worker, sendMsg, req, stage, done>>

-----------------------------------------------------------------------------
(* A validation worker *)

Free(w) == worker' = [worker EXCEPT ![w] = Idle]

WorkerTake(w) ==
    /\ worker[w] = Idle /\ validateQ # <<>>
    /\ worker' = [worker EXCEPT ![w] = Head(validateQ)]
    /\ validateQ' = Tail(validateQ)
    /\ MoveTo(Head(validateQ), "check")
    /\ UNCHANGED <<confVars, seenVars, asyncVars, verdictVars,
                   loop, sendMsg, req, done>>

\* bug: the context is looked at only after a request was received
WorkerExitLate(w) ==
    /\ worker[w] = Idle /\ done /\ validateQ # <<>>
    /\ worker' = [worker EXCEPT ![w] = Gone]
    /\ validateQ' = Tail(validateQ)
    /\ MoveTo(Head(validateQ), "dropped")
    /\ UNCHANGED <<confVars, seenVars, asyncVars, verdictVars,
                   loop, sendMsg, req, done>>

\* case <-v.p.ctx.Done(): select may also prefer the queue
WorkerExit(w) ==
    /\ worker[w] = Idle /\ done
    /\ worker' = [worker EXCEPT ![w] = Gone]
    /\ UNCHANGED <<confVars, seenVars, asyncVars, verdictVars,
                   loop, validateQ, sendMsg, req, stage, done>>

\* validate, up to the choice of inline validators
CheckSignature(w) ==
    LET c == worker[w] IN
    /\ c \in Copies /\ stage[c] = "check"
    /\ \/ /\ req[c].msg.sig = "bad"
          /\ MoveTo(c, "dropped") /\ Free(w)
          /\ UNCHANGED <<seenVars, todo>>
       \/ /\ req[c].msg.sig # "bad"
          /\ markSeen(c, "inline")
          /\ todo' = [todo EXCEPT ![c] = inlineVals(req[c].vals)]
          /\ IF stage'[c] = "inline" THEN UNCHANGED worker ELSE Free(w)
    /\ UNCHANGED <<confVars, asyncVars, passed, failed, invoked,
                   loop, validateQ, sendMsg, req, done>>

\* one inline validator, run on the worker; the first refusal drops the message
RunInline(w) ==
    LET c == worker[w] IN
    /\ c \in Copies /\ stage[c] = "inline"
    /\ \E x \in todo[c] :
        /\ invoked' = invoked \cup {<<c, x>>}
        /\ todo' = [todo EXCEPT ![c] = @ \ {x}]
        /\ \/ /\ passed' = [passed EXCEPT ![c] = @ \cup {x}]
              /\ UNCHANGED <<failed, stage, worker>>
           \/ /\ failed' = [failed EXCEPT ![c] = @ \cup {x}]
              /\ MoveTo(c, "dropped") /\ Free(w)
              /\ UNCHANGED passed
    /\ UNCHANGED <<confVars, seenVars, asyncVars, loop, validateQ, sendMsg, req, done>>

\* after the inline validators: hand over to a goroutine, drop, or send
Dispatch(w) ==
    LET c == worker[w]
        async == asyncVals(req[c].vals) IN
    /\ c \in Copies /\ stage[c] = "inline" /\ todo[c] = {}
    /\ \/ /\ async = {}
          /\ MoveTo(c, "wsend")
          /\ UNCHANGED <<worker, gheld, todo>>
       \/ /\ async # {} /\ Cardinality(gheld) < GlobalThrottle
          /\ gheld' = gheld \cup {c}
          /\ todo' = [todo EXCEPT ![c] = async]
          /\ MoveTo(c, "spawn") /\ Free(w)
       \/ /\ async # {} /\ Cardinality(gheld) >= GlobalThrottle
          /\ MoveTo(c, "dropped") /\ Free(w)
          /\ UNCHANGED <<gheld, todo>>
    /\ UNCHANGED <<confVars, seenVars, vheld, running, passed, failed, invoked,
                   loop, validateQ, sendMsg, req, done>>

\* v.p.sendMsg <- req, which waits for room in the channel
Send(c) ==
    /\ Len(sendMsg) < QueueLen
    /\ sendMsg' = Append(sendMsg, c)
    /\ MoveTo(c, "sent")

WorkerSend(w) ==
    /\ worker[w] \in Copies /\ stage[worker[w]] = "wsend"
    /\ Send(worker[w]) /\ Free(w)
    /\ UNCHANGED <<confVars, seenVars, asyncVars, verdictVars,
                   loop, validateQ, req, done>>

-----------------------------------------------------------------------------
(* The goroutine that runs doValidateTopic, and the validators it starts *)

holders(v) == {h \in vheld : h[2][1] = v}
oneMoreSlot(v) == Cardinality(holders(v)) <= ValThrottle[v]   \* bug: off by one
hasSlot(v) == Cardinality(holders(v)) < ValThrottle[v]

\* one turn of the loop of validateTopic, or the select of validateSingleTopic
SpawnValidator(c) ==
    /\ stage[c] = "spawn"
    /\ \E x \in todo[c] :
        \/ /\ hasSlot(x[1])
           /\ vheld' = vheld \cup {<<c, x>>}
           /\ running' = running \cup {<<c, x>>}
           /\ invoked' = invoked \cup {<<c, x>>}
           /\ todo' = [todo EXCEPT ![c] = @ \ {x}]
           /\ IF todo[c] = {x} THEN MoveTo(c, "collect") ELSE UNCHANGED stage
        \/ /\ ~hasSlot(x[1])
           /\ MoveTo(c, "dropped")
           /\ UNCHANGED <<vheld, running, invoked, todo>>
    /\ UNCHANGED <<confVars, seenVars, gheld, passed, failed,
                   loop, validateQ, worker, sendMsg, req, done>>

\* bug: a refusal is not posted
FinishValidatorSilently(c, x) ==
    /\ <<c, x>> \in running
    /\ running' = running \ {<<c, x>>}
    /\ \/ passed' = [passed EXCEPT ![c] = @ \cup {x}] /\ UNCHANGED failed
       \/ UNCHANGED <<passed, failed>>
    /\ vheld' = IF asyncVals(req[c].vals) = {x} THEN vheld \ {<<c, x>>} ELSE vheld
    /\ UNCHANGED <<confVars, seenVars, gheld, todo, invoked,
                   loop, validateQ, worker, sendMsg, req, stage, done>>

\* a validator returns; alone it frees its slot at once, among several it
\* first posts its verdict on rch
FinishValidator(c, x) ==
    /\ <<c, x>> \in running
    /\ running' = running \ {<<c, x>>}
    /\ \/ passed' = [passed EXCEPT ![c] = @ \cup {x}] /\ UNCHANGED failed
       \/ failed' = [failed EXCEPT ![c] = @ \cup {x}] /\ UNCHANGED passed
    /\ vheld' = IF asyncVals(req[c].vals) = {x} THEN vheld \ {<<c, x>>} ELSE vheld
    /\ UNCHANGED <<confVars, seenVars, gheld, todo, invoked,
                   loop, validateQ, worker, sendMsg, req, stage, done>>

\* the validator function has been left
isDone(c, x) == <<c, x>> \notin running

\* <-val.validateThrottle, after the verdict was posted
ReleaseValidator(c, x) ==
    /\ <<c, x>> \in vheld /\ isDone(c, x)
    /\ vheld' = vheld \ {<<c, x>>}
    /\ UNCHANGED <<confVars, seenVars, gheld, running, verdictVars,
                   loop, validateQ, worker, sendMsg, req, stage, done>>

\* rcount verdicts are in, and none is a refusal
allButOneIn(c) == Cardinality(asyncVals(req[c].vals) \ passed[c]) <= 1   \* bug: off by one
allIn(c) == asyncVals(req[c].vals) \subseteq passed[c]

\* the verdicts read from rch: the first refusal, or all of them
Collect(c) ==
    /\ stage[c] = "collect"
    /\ \/ failed[c] # {} /\ MoveTo(c, "dropped")
       \/ allIn(c) /\ MoveTo(c, "asend")
    /\ UNCHANGED <<confVars, seenVars, asyncVars, verdictVars,
                   loop, validateQ, worker, sendMsg, req, done>>

AsyncSend(c) ==
    /\ stage[c] = "asend" /\ Send(c)
    /\ UNCHANGED <<confVars, seenVars, asyncVars, verdictVars,
                   loop, validateQ, worker, req, done>>

\* doValidateTopic has returned
sentOnly(c) == stage[c] \in {"sent", "published"}   \* bug: not on the early returns
returned(c) == stage[c] \in {"sent", "published", "dropped"}

\* <-v.validateThrottle, once doValidateTopic has returned
ReleaseGlobal(c) ==
    /\ c \in gheld /\ returned(c)
    /\ gheld' = gheld \ {c}
    /\ UNCHANGED <<confVars, seenVars, vheld, running, verdictVars,
                   loop, validateQ, worker, sendMsg, req, stage, done>>

-----------------------------------------------------------------------------
WorkerStep(w) ==
    \/ WorkerTake(w) \/ WorkerExit(w) \/ CheckSignature(w)
    \/ RunInline(w) \/ Dispatch(w) \/ WorkerSend(w)

TaskStep(c) == SpawnValidator(c) \/ Collect(c) \/ AsyncSend(c) \/ ReleaseGlobal(c)

ValidatorStep(c, x) == FinishValidator(c, x) \/ ReleaseValidator(c, x)

Next ==
    \/ \E t \in Topics : Subscription(t) \/ RemoveValidator(t)
    \/ \E p \in Peers : BlacklistPeer(p)
    \/ \E v \in Vals : AddValidator(v)
    \/ \E c \in Copies, m \in Messages :
        Publish(c, m) \/ \E p \in Peers : Receive(c, p, m)
    \/ PushDirect \/ PublishMessage \/ Cancel
    \/ \E i \in Ids : Expire(i)
    \/ \E w \in Workers : WorkerStep(w)
    \/ \E c \in Copies : TaskStep(c) \/ \E x \in Calls : ValidatorStep(c, x)

Spec == Init /\ [][Next]_vars

(***************************************************************************)
(* Every goroutine that can run is run, and user validators return. The    *)
(* environment (peers, API calls, cancellation, expiry) owes nothing.      *)
(***************************************************************************)
FairSpec ==
    /\ Spec
    /\ WF_vars(PushDirect) /\ WF_vars(PublishMessage)
    /\ \A w \in Workers : WF_vars(WorkerStep(w)) /\ WF_vars(WorkerExit(w))
    /\ \A c \in Copies :
        WF_vars(TaskStep(c)) /\ \A x \in Calls : WF_vars(ValidatorStep(c, x))

-----------------------------------------------------------------------------
(* Properties *)

\* the copies that are in the pipeline, or have been
Entered == {c \in Copies : stage[c] # "new"}

TypeOK ==
    /\ myTopics \subseteq Topics /\ blacklist \subseteq Peers
    /\ topicVals \in [Topics -> Vals \cup {NoVal}] /\ spent \subseteq Vals
    /\ seen \subseteq Ids /\ window \in [Ids -> Nat] /\ mark \in [Copies -> Nat]
    /\ loop \in Entered \cup {Idle}
    /\ validateQ \in Seq(Entered) /\ sendMsg \in Seq(Entered)
    /\ worker \in [Workers -> Copies \cup {Idle, Gone}]
    /\ req \in [Copies -> Requests \cup {NoReq}]
    /\ stage \in [Copies -> Stages]
    /\ \A c \in Entered : req[c] \in Requests
    /\ todo \in [Copies -> SUBSET Calls]
    /\ passed \in [Copies -> SUBSET Calls] /\ failed \in [Copies -> SUBSET Calls]
    /\ gheld \subseteq Copies /\ running \subseteq vheld
    /\ vheld \subseteq Copies \X Calls /\ invoked \subseteq Copies \X Calls
    /\ done \in BOOLEAN

\* A node publishes an id at most once in every stay of that id in the time
\* cache, whichever copies arrive, with or without validators or signature:
\* the markSeen of pushMsg and the one of validate exclude each other, even
\* when seenMessage said "not seen" to both copies.
PublishOncePerWindow ==
    \A c, d \in Copies :
        c # d /\ stage[c] = "published" /\ stage[d] = "published" /\ msgID(c) = msgID(d)
            => mark[c] # mark[d]

\* "mark the message as seen ... and avoid invoking user validators more than
\* once": in one window the validators are called for one copy of an id only.
ValidatorsOncePerWindow ==
    \A x, y \in invoked :
        x[1] # y[1] /\ msgID(x[1]) = msgID(y[1]) => mark[x[1]] # mark[y[1]]

\* Nothing reaches the subscriptions or the router before its signature was
\* found good (or was absent, which strict nodes refuse) and every validator
\* that was registered for one of its topics when it arrived has accepted it,
\* also when a throttle was full or validators came and went meanwhile.
Accepted(c) ==
    /\ req[c].vals \subseteq passed[c]
    /\ req[c].msg.sig # "bad"
    /\ Strict => req[c].msg.sig = "good"
FullyValidated ==
    \A c \in Copies : stage[c] \in {"sent", "published"} => Accepted(c)

\* WithValidatorConcurrency: the active goroutines of one topic's validator
\* never exceed its throttle, also those that outlive a message whose
\* validation ended early, and the two that a topic listed twice starts.
ValThrottleRespected ==
    \A v \in Vals : Cardinality({h \in running : h[2][1] = v}) <= ValThrottle[v]

\* Both: in one window of an id, one copy is validated and one is published.
OncePerWindow == PublishOncePerWindow /\ ValidatorsOncePerWindow

\* Every message taken into validateQ is published or dropped: full throttles,
\* refusals and a full sendMsg channel never leave it hanging, as long as the
\* process loop runs.
Decided ==
    \A c \in Copies : stage[c] = "queued" ~> stage[c] \in {"published", "dropped"} \/ done

\* Throttle slots come back on every path, early returns included; once the
\* node stops, a goroutine blocked in sendMsg may keep its global slot.
SlotsReturned == <>[](vheld = {} /\ (gheld = {} \/ done))

\* After cancellation every worker has returned, or is blocked in sendMsg
\* with nobody left to receive.
Blocked(w) ==
    worker[w] \in Copies /\ stage[worker[w]] = "wsend" /\ Len(sendMsg) >= QueueLen
WorkersStop == \A w \in Workers : done ~> worker[w] = Gone \/ Blocked(w)

-----------------------------------------------------------------------------
(* The inductive invariants *)

Marked == {"inline", "wsend", "spawn", "collect", "asend", "sent", "published"}

\* A mark is made once per id and window, and every copy beyond markSeen has one.
MarkInv ==
    /\ \A c \in Copies : stage[c] = "new" => mark[c] = 0
    /\ \A c \in Copies : mark[c] # 0 =>
        /\ mark[c] <= window[msgID(c)] + 1
        /\ mark[c] = window[msgID(c)] + 1 => msgID(c) \in seen
    /\ \A c, d \in Copies :
        c # d /\ mark[c] # 0 /\ mark[c] = mark[d] => msgID(c) # msgID(d)
    /\ \A c \in Copies : stage[c] \in Marked => mark[c] # 0
    /\ \A x \in invoked : mark[x[1]] # 0
    /\ \A n \in 1..Len(sendMsg) : mark[sendMsg[n]] # 0

\* What each stage has established about the verdicts.
CopyVerdict(c) ==
    /\ stage[c] # "new" /\ Strict => req[c].msg.sig # "none"
    /\ stage[c] \in Marked => req[c].msg.sig # "bad"
    /\ stage[c] = "inline" => inlineVals(req[c].vals) \ todo[c] \subseteq passed[c]
    /\ stage[c] \in {"spawn", "collect"} => inlineVals(req[c].vals) \subseteq passed[c]
    /\ stage[c] \in {"wsend", "asend", "sent", "published"} => Accepted(c)
VerdictInv ==
    /\ \A c \in Copies : CopyVerdict(c)
    /\ loop \in Copies => req[loop].vals = {} /\ req[loop].msg.sig = "none"
    /\ \A n \in 1..Len(sendMsg) : Accepted(sendMsg[n])

\* Goroutines run under a slot, and slots are bounded.
SlotInv ==
    /\ Cardinality(gheld) <= GlobalThrottle /\ IsFiniteSet(vheld)
    /\ \A v \in Vals : Cardinality(holders(v)) <= ValThrottle[v]
=============================================================================
