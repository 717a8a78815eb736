# go-libp2p-pubsub: models, model checking and proofs

This directory is a TLA+ development of the publish/subscribe library in
`src/go-libp2p-pubsub`: one node's message pipeline, its subscriptions and the
calls of its API, the events its applications read, the life of its connections
to a peer, what it announces to that peer, its gossipsub router; a network of
nodes with the two routers that keep no state; and a message on its way through
options, signatures and the bytes of streams. TLC checks the models on small
instances, TLAPS proves the most important invariants and refinements for every
instance.

File names without a directory below are those of `src/go-libp2p-pubsub`.

1. [The system](#1-the-system)
2. [The modules](#2-the-modules)
3. [The runs](#3-the-runs)
4. [Fairness](#4-fairness)
5. [The proofs](#5-the-proofs)
6. [What disagrees with the documentation](#6-what-disagrees-with-the-documentation)
7. [What is abstracted, and what is not modelled](#7-what-is-abstracted-and-what-is-not-modelled)
8. [Plan](#8-plan)

To repeat everything: `tlc -workers 2 -config <cfg> <module>` for each run of
`PROJECT.json`, `tlapm <module>` for each `*Proofs` module.

## 1. The system

A `PubSub` object belongs to one libp2p host. Its state is owned by one
goroutine, `processLoop` (pubsub.go:268), a `select` over fifteen channels and the context.
Everything else talks to that goroutine by messages:

                     API calls (Publish, Subscribe, Cancel, RegisterTopicValidator, ...)
                                              |
    Connected ----newPeers----------.         v          .------ validateQ -----> workers
    handleNewPeer --newPeerStream---+--> processLoop ----+                         |   |
                  --newPeerError----+     |    ^   ^     '--> subscriptions        | validators
    handlePeerEOF --peerDead--------'     |    |   |          (messages, events)   |   |
                                          |    |   '---------- sendMsg ------------'---'
    handleNewStream --incoming (RPCs)-----|----'
                                          v
                           peers[pid] (a channel of 32) --> handleSendingMessages --> stream

The goroutines that are not the process loop are: per connection one of
`Connected`; per call of `handleNewPeer` one to open the stream, one to read it
until its end, one to send; per inbound stream one reader; the validation
workers and, per message, the goroutines of its asynchronous validators; the
retries of announcements; a heartbeat timer for gossipsub; the callers of the
API.

### Components

| component | state | operations | talks to |
|---|---|---|---|
| **Validation pipeline** (validation.go, pubsub.go:557-576, 645-687, sign.go) | registered validators, `validateQ`, `sendMsg`, the two throttles, `seenMessages`, blacklist | `pushMsg`, `Push`, `validateWorker`, `validate`, `doValidateTopic`, `validateTopic`, `validateMsg`, `publishMessage`, register and remove validators | process loop by `sendMsg`; user validators by callback |
| **Peer events** (subscription.go) | `evtLog`, `evtLogCh` of each subscription, `topics[t]` | `sendNotification`, `addToEventLog`, `pullFromEventLog`, `NextPeerEvent` | process loop, under a lock; several callers |
| **Peer lifecycle** (comm.go, notify.go, pubsub.go:268-434) | `peers`, `topics`, the channels of the writers, streams | `newPeers`, `newPeerStream`, `newPeerError`, `peerDead`, `blacklistPeer`, incoming RPCs, cancellation | network; router by `AddPeer` and `RemovePeer` |
| **Announcements** (pubsub.go:436-541, comm.go) | `myTopics`, what waits in each writer's channel, goroutines of `announceRetry` | `getHelloPacket`, `announce`, `announceRetry`, `doAnnounceRetry` | the peer, over the life of its writers |
| **GossipSub router** (gossipsub.go) | `peers`, `mesh`, `fanout`, `lastpub`, `gossip`, `control` | `AddPeer`, `RemovePeer`, `HandleRPC`, `Publish`, `Join`, `Leave`, `heartbeat` | peers by their channels, message cache |
| **Message cache** (mcache.go) | `msgs`, `history` | `Put`, `Get`, `GetGossipIDs`, `Shift` | gossipsub |
| **Subscriptions and delivery** (subscription.go, pubsub.go:436-484, 543-555, 699-807) | `myTopics`, the channel of each subscription, calls on their way | `Subscribe`, `Cancel`, `Next`, `Publish`, `BlacklistPeer`, `notifySubs` | applications, by unbuffered channels |
| **Queries** (pubsub.go) | none | `GetTopics`, `ListPeers` | applications |
| **FloodSub, RandomSub** (floodsub.go, randomsub.go) | none / the protocols of the peers | `Publish` | peers, by their channels |
| **Blacklists** (blacklist.go) | a map, or an LRU cache | `Add`, `Contains` | pipeline and lifecycle |
| **Signing** (sign.go, pubsub.go:154-258) | the author's ID and key, strict or not | `signMessage`, `verifyMessageSignature`, `WithMessageSigning`, `WithMessageAuthor`, `WithStrictSignatureVerification`, `NewPubSub` | pipeline |
| **Wire format** (pb/rpc.pb.go, comm.go) | none | `Size`, `MarshalTo`, `Unmarshal` of eleven types | streams |
| **Other options** (pubsub.go) | none | what else `NewPubSub` and the options set | |
| **Demonstration programs** (`src/*.go`) | none | | libp2p |

### What is hard, and what makes it correct

*Validation pipeline.* Copies of one message arrive from several peers. Whether an
id is known is asked when a copy is pushed, and the id is marked later, by a
worker or by the process loop; in between, other copies pass the same question.
Validators are captured when a copy is pushed and may be removed or replaced
before they run. A full throttle drops the message after some of its validators
have been started. The process loop pushes into `validateQ` and receives from
`sendMsg`, the workers do the reverse. Correct means: one copy of an id is
validated and published in each of its stays in the time cache, nothing is
published that was not accepted, throttles bound what they are said to bound,
every message is decided, slots come back, workers stop.

*Peer events.* A Leave must cancel a Join that was not read yet. One buffered
signal serves any number of waiting callers, and a subscription starts with
entries in its log and without a signal. Correct means: events alternate and are
true when reported, nothing that is not reported is lost, and nobody sleeps
beside a log that holds events.

*Peer lifecycle.* `newPeerStream` and `peerDead` are sent by different goroutines
and name a peer, not a writer; the connection may be lost and made again while
they wait. Four handlers close the channel of a peer. Correct means: no channel
is closed twice or sent to after its close (either panics in the process loop,
which ends the node), no goroutine leaks, there is one writer whose end will be
reported, a connected peer ends up with a stream, a peer that is gone is
forgotten by process loop and router.

*Announcements.* The channel of a peer may be full, the writer may be replaced
with what waits in its channel, and a retry may run when the subscription has
changed. The peer reads each stream in a goroutine of its own, so that what an old
stream carried may be handled after the hello packet of the new one. Correct
means: what the peer comes to believe is what is so.

*GossipSub.* GRAFT and PRUNE may not fit into a channel and are kept, piggybacked
and flushed later, when the mesh may have changed; gossip is put aside for the
next heartbeat, while the cache shifts; a fanout is made, refilled, expired and
taken over by four different handlers. Correct means: both ends of a mesh link
know of it or will, what is offered can be had, degrees stay within bounds,
nothing is kept for peers that are gone.

*Subscriptions.* Subscriptions of one topic come and go while messages are
delivered and while several goroutines read. Every call but `Next` is sent to the
process loop without a look at its context, and `ListPeers` is answered over a
channel without room. A second `Cancel` closes a channel twice. Correct means: no
channel is closed twice or sent to after its close unless the application cancels
twice; readers get messages in the order in which the node handled them, then the
error; a reader that does not read delays nobody; calls return while the loop
runs; what is announced is what is subscribed to.

*FloodSub, RandomSub.* Links form cycles, channels are full, a random router picks
some of its peers, a node has left a topic and its neighbours have not heard, an
id leaves the time cache. Correct means: a message does not circulate, nobody is
left out but by the choice or a full channel, and a message is had only by nodes
that asked for it, and its author.

*Signing and wire format.* Options are functions that read what earlier ones have
set. Every hop computes the signed bytes anew from what it has decoded, so that
whatever decoding loses breaks a signature some hops away: nil against empty,
fields of newer versions, lengths that take one more byte. Lengths are computed
apart from the bytes they announce. A length near the end of an integer makes a
sum wrap around. Correct means: in any order of options a node's messages pass
its own checks and those of strict nodes; a signature goes on verifying; what is
read is what was written; no bytes make the decoder read outside its slice.

The hazards, each with its line and the properties that would catch it going
wrong, are listed in `PROJECT.json`.

## 2. The modules

    Validation      <- ValidationProofs,     MCValidation
    PeerEvents      <- PeerEventsProofs,     MCPeerEvents      PeerEvents implements PeerView
    PeerConn        <- PeerConnProofs,       MCPeerConn
    Announce        <- AnnounceProofs,       MCAnnounce        Announce composes and implements PeerConn
    MessageCache
       ^
    GossipSub       <- GossipSubProofs,      MCGossipSub       GossipSub extends MessageCache
    Subscriptions   <- SubscriptionsProofs,  MCSubscriptions   Subscriptions implements Feed
    Broadcast       <- BroadcastProofs,      MCBroadcast       Broadcast implements Dissemination
    Wire
       ^
    Signing         <- SigningProofs,        MCSigning         Signing extends Wire

An `MC` module gives constants their values for TLC, a `Proofs` module extends
its model with TLAPS theorems. Definitions below a comment that starts with
`bug:` are mutations of the definition next to them. They are used by no
specification; `PROJECT.json` names, for each property, the one that breaks it.

### Validation

The process loop, the workers and the validator goroutines interleave. A message
that arrives, in an RPC or from `Publish`, is an element of `Copies`, and its
`stage` says where it is:

    new -> direct -----------------------------------------------------> sent -> published
     |       (no validators, no signature: marked by the process loop)     ^
     |                                                                     |
     '--> queued -> check -> inline -> wsend -------------------------------+
                                 '---> spawn -> collect -> asend -----------'
     any of them -> dropped

| action | code |
|---|---|
| `Receive`, `Publish`, `pushMsg`, `Push` | pubsub.go:632-687, 752-769; validation.go:143-173 |
| `PushDirect` | the second half of `pushMsg`: mark and publish, pubsub.go:679-687 |
| `WorkerTake`, `CheckSignature`, `RunInline`, `Dispatch` | `validateWorker` and `validate`, validation.go:175-249 |
| `SpawnValidator`, `Collect`, `AsyncSend`, `ReleaseGlobal` | the goroutine of `doValidateTopic` and `validateTopic`, validation.go:224-306 |
| `FinishValidator`, `ReleaseValidator` | the goroutine of one validator and `validateMsg`, validation.go:282-285, 309-335 |
| `PublishMessage` | `publishMessage` from `sendMsg` |
| `AddValidator`, `RemoveValidator`, `Subscription`, `BlacklistPeer`, `Cancel`, `Expire` | the handlers of the API; the context; the time cache |

`getValidators` appends the validator of each topic a message lists, so that a
validator is called as often as its topic is listed: a call is a pair
`<<v, n>>` of a validator and the place of the topic in the list. Slots, verdicts
and goroutines belong to calls. `pushMsg` asks `seenMessage` in one step and marks in another (`loop` holds the
copy in between), because the lock is released and workers mark in between. A
signature is `none`, `good` or `bad`. A validator returns either verdict, and it
returns. `mark` and `window` are history: they say in which stay of its id in the
time cache a copy was marked.

### PeerEvents and PeerView

`evtLog[s][p]` is the entry of a peer in the log of a subscription, `evtLogCh[s]`
the one signal its channel can hold. A caller of `NextPeerEvent` is `out`, about
to look at the log (`pull`), or waiting for the signal (`wait`). The lock of the
log makes a look at it one step; the channel is outside the lock. `PeerView`
states the promise without a log: a report is true when it is made, and reports
about a peer alternate. `Refines` maps `truth`, what a subscription takes for the
members of the topic, to reports made plus entries left.

### PeerConn

A *writer* is one call of `handleNewPeer` with its channel: `open` is the
goroutine that opens the stream, `stream` the stream, `eof` the goroutine of
`handlePeerEOF`, `sender` that of `handleSendingMessages`. `current` is the
writer in `peers[pid]`. Reports wait in unbuffered channels, which is to say in
their goroutine: `open[w] = "hasStream"` is a goroutine blocked at
`newPeerStream <- s`, `"unsupported"` one blocked at `newPeerError <- pid`,
`eof[w] = "dead"` (or `open[w] = "failed"`) one blocked at `peerDead <- pid`.
`peerDead` carries a peer and not a writer, and `PeerDead(w)` uses `w` only to
know whose goroutine goes on.

| action | code |
|---|---|
| `NewPeer`, `NewPeerStream`, `NewPeerError`, `PeerDead` | pubsub.go:281-350 |
| `BlacklistPeer`, `Evict` | pubsub.go:405-422, blacklist.go |
| `AddForeign` | the application changes the list it gave to `WithBlacklist`, pubsub.go:260-265 |
| `Panic` | a second close of a channel, pubsub.go:275, 310, 328, 415 |
| `IncomingRPC` | the subscription options of `handleIncomingRPC`, pubsub.go:599-630 |
| `CancelContext`, `Stop` | the context, and the deferred clean-up of the loop, pubsub.go:269-276 |
| `OpenStream`, `OpenFails`, `SenderStop`, `WriteFails`, `ReadEOF`, `GiveUp` | comm.go:60-134 |
| `Connect`, `Disconnect`, `Cut`, `NotifyNobody` | the network; notify.go |

`exception` is history: the peer has refused the protocol (`"refused"`), the
blacklist, if it is an LRU, has evicted the peer (`"evicted"`), or the application
has added the peer to the list that it gave to `WithBlacklist`, without a
`BlacklistPeer` (`"changed"`). Each is a real way out of some property, which says
so in its statement, and the runs and proofs cover what happens until then. After
`"changed"`, `newPeerStream` closes the channel of a peer and keeps the entry, and
`Panic` is the next close of that channel, which ends the process.

### Announce

`Conn == INSTANCE PeerConn`: every step of the peer's life is a step of `PeerConn`
together with what it does to the contents of channels and streams. `greet` is
the hello packet that a new channel starts with; `Subscription` is a first
subscription or a last cancellation with its `announce`; `Retry` is
`doAnnounceRetry`, which looks at the subscriptions of the moment; `Write` and
`Deliver` are the sender and the remote reader, of any writer, whose stream may be
cut already: what `flight[w]` holds may still be handled, in any order relative to
other streams, or be lost from its end (`Lose`). `told` is what the peer holds, until
it has no connection any more (`PeerForgets`). `late` is history: the peer's last
word came over a stream that was not the current writer's.

### MessageCache and GossipSub

All handlers run on the process loop, each is one action. `link[p]` holds what
concerns one peer: the messages in its channel (`queue`), `gs.control` (`graft`,
`prune`) and `gs.gossip` (`ihave`), and two sets of history: `linked`, the topics
in which the peer was last told GRAFT, or told us so, and `astray`, those in which
it was told something stale. `sendRPC` piggybacks as `piggybackControl` does,
`put` keeps what does not fit as `pushControl` does, `flush` sends without the
check for staleness, as the code does. `Put` of the cache does not look whether
the message is there already; `repeated` is history: the ids that were put again
while they were in the window, which leave it with their first entry.

| action | code |
|---|---|
| `Connect`, `AddPeer`, `RemovePeer` | pubsub.go:281-350, gossipsub.go:79-95 |
| `HandleRPC` | `handleIHave`, `handleIWant`, `handleGraft`, `handlePrune` and the reply, gossipsub.go:97-211 |
| `Publish`, `Join`, `Leave`, `Forget` | gossipsub.go:213-316, the time cache |
| `Heartbeat` | gossipsub.go:384-545 with `sendGraftPrune`, `emitGossip`, `flush`; `Shift` |
| `Drain`, `doAnnounceRetry` | what else takes and fills room in a channel |

The language level of the repository's toolchain makes a loop's variable one
variable, so that the messages of a list built with `&topic` all name its last
topic. `listed` is what that makes of a list; `all`, next to it, is what the
code's comments describe.

### Subscriptions and Feed

Goroutines of the application (`Callers`) meet the process loop on unbuffered
channels: a caller is at `"send"` until the loop has taken its request, and at
`"wait"` until it has its answer. `Feed` is the promise of a `Subscription`: what
waits for its reader is in order, only a full channel loses a message, and the
error comes after the messages. `notifySubs` delivers one topic ID of a message
after the other (`todo`), and readers run in between.

| action | code |
|---|---|
| `Subscribe`, `Cancel`, `Ask`, `Return` | the calls, pubsub.go:699-807, subscription.go:51-53 |
| `Next_`, `Take`, `GiveUp` | `Next` and its `select`, subscription.go:38-49 |
| `HandleAdd`, `HandleRemove` | `handleAddSubscription`, `handleRemoveSubscription`, pubsub.go:436-484 |
| `HandleGetTopics`, `HandleListPeers`, `Reply`, `HandlePublish` | the cases of the loop, pubsub.go:351-422 |
| `PublishMessage`, `NotifySubs` | `notifySubs`, pubsub.go:543-555 |
| `CancelContext`, `Stop` | the context and the end of the loop |

### Broadcast and Dissemination

Several nodes over fixed links, each with its `seen` cache, its subscriptions and
what it holds of its neighbours' (`topics`). A node is a process loop: `Receive`
takes one message from the channel of a link and does all that
`handleIncomingRPC`, `pushMsg` and `Publish` of the router do with it. `choices`
are the sets of peers a router may send to: all of them for floodsub; for
randomsub all that speak floodsub and `RandomSubD` of the others. `dropped`,
`sends`, `has` and `expired` are history. `Cancel` and `Hear` are the end of a
node's last subscription and the moment a neighbour learns of it. `Dissemination`
says what a network promises whatever its routers do.

### Wire and Signing

`Wire` has, for every type of rpc.pb.go, its struct, `Size`, `MarshalTo` and the
table of its fields; the generated `Unmarshal` functions are one loop, and `Wire`
has it once, over these tables, with its checks in the order of the code. Its loops
are recursive functions: of what is left of a number, a string or a list, or of the
number of rounds. `Values` has the values a struct of each type may have. A slice
index out of range is an outcome of its own (`"out of range"`), so that its
absence is a property. `Signing` leads a node from its options (`"options"`,
`"refused"`, `"running"`) to one message, RPC or descriptor on a stream, which is
read and sent on; in phase `"raw"` somebody else writes the stream byte by byte.
Keys are symbolic: `Sign(key, bytes)` tells both apart and nobody makes one
without the key. `Genuine` says of the RPCs that are sent what holds of any in the
program: what is in `XXX_unrecognized` are fields that the type does not know
(`Unknown`), since nothing but `Unmarshal` writes there.

| action | code |
|---|---|
| `WithMessageSigning`, `WithMessageAuthor`, `WithStrictSignatureVerification`, `NewPubSub` | pubsub.go:154-258 |
| `Publish`, `PublishNewer` | pubsub.go:752-769, sign.go |
| `Send`, `Read`, `Forward` | comm.go:20-58, 103-190; pb/rpc.pb.go |
| `RawByte` | `Unmarshal` of what anybody may have sent |

## 3. The runs

| run | instance | asks |
|---|---|---|
| `validation_once` | 2 copies of one id, signed and not, 2 workers, an asynchronous validator that comes and goes, places and slots of one, 1 expiry, with fairness | `OncePerWindow`, `Decided`, `SlotsReturned`, `WorkersStop` |
| `validation_throttle` | strict and signing node, 2 copies over 2 topics, or over one listed twice, or badly signed, 3 validators (one inline) of one slot each, global throttle 2 | `FullyValidated`, `ValThrottleRespected` |
| `peer_events` | 2 peers, 2 subscriptions, 3 callers of which two share a subscription, with fairness | `LogExact`, `NoLostWakeup`, `Refines`, `Served` |
| `peer_conn` | 2 writers, 2 connections, 1 RPC that waits, a peer that may refuse, a blacklist that may evict the peer or that the application may add it to, with fairness | `CurrentOpen`, `WriterServed`, `Forgotten`, `Settles`, `GoroutinesEnd` |
| `peer_conn_topics` | 2 writers, 1 connection, 1 RPC that waits, with fairness | violates `TopicsOfPeers` (section 6) |
| `announce` | 2 writers, channels and streams of capacity 1, 1 retry, with fairness | `LastWord`, `Heard`, `SubscriptionKnown` |
| `announce_lost` | the same | violates `CancellationKnown` (section 6) |
| `gossipsub` | 2 peers, 1 topic, 1 message, D = Dlo = Dhi = 1, window 2 of which 1 is gossiped, channels of capacity 1 | `GraftHeard`, `PruneHeard`, `GossipServable`, `FanoutExpires`, `Degree`, `Retried` |
| `gossipsub_coalesced` | 1 peer, 2 topics, no messages from peers, channels of capacity 2 | violates `GraftHeard` (section 6) |
| `subscriptions` | 2 subscriptions of one topic, one of which may be cancelled twice, 2 callers, channels of capacity 1, a message of two topics and one that lists its topic twice, with fairness | `PanicsOnlyOnMisuse`, `Joined`, `InOrder`, `Refines`, `CallsReturn`, `Served` |
| `broadcast` | 4 nodes in a diamond with a chord, one of which floods, RandomSubD 1, channels of capacity 1, 2 messages, a publisher without subscriptions, a node that cancels and may forget, with fairness | `SentOnce`, `Handed`, `Refines`, `Reaches` |
| `signing` | 3 options, 2 hops, 3 authors, payloads of none, 0, 1, 113 to 128 and 400 bytes, about 1100 other RPCs and descriptors, all strings of four bytes of 14 for five types | `TypeOK`, `Acceptable`, `SignatureSurvives`, `RoundTrip`, `NeverOutside`, `Stable` |

`WriterServed` is `NoOrphan` and `OneWriter`, `OncePerWindow` is
`PublishOncePerWindow` and `ValidatorsOncePerWindow`, `Settles` is `StreamActive`
and `RespawnsEnd`, `Served` of PeerEvents is `NobodyLeft` and `Converges`. Type
invariants are proved for every instance (section 5) and not checked again by
runs, but for that of `Signing`, whose mutant shows what a wrong byte would do. Each property of
a passing run is falsified by a mutation of a definition that models code.

Why these bounds are enough for their questions:

- *Validation.* Double publication needs two copies between the question and the
  mark; with one expiry the two may also be in different windows. Two workers
  race each other and the process loop. One slot makes a throttle full as soon as
  a second copy comes. Two asynchronous validators and an inline one give every
  combination of verdicts and early returns, and a topic whose validator is
  replaced. Expiry is bounded by `MaxExpire`, arrivals by `Copies`. The validation
  runs allow deadlock because `Copies` is finite: a node that nothing reaches any
  more stops. More copies and workers are covered by the proofs.
- *PeerEvents.* There is no bound: the state space is finite. Two callers on one
  subscription are what a lost wakeup needs, two peers what a log with more
  than one event needs.
- *PeerConn.* The current writer and a predecessor whose goroutines have not ended.
  A third would wait with `Free(w)` until one of the two has ended; that an
  ended writer is always there again is checked (the run allows no deadlock and
  asks for liveness), and the safety properties are proved for any number. Two
  connections tell a loss of the last one from a loss of a duplicate. The blacklist changes by
  itself in one of two ways, an eviction or an addition, and not in both, once it
  has changed in the other.
- *Announce.* A capacity of one makes a channel full as soon as a hello packet is
  in it. `MaxRetry` bounds the goroutines of `announceRetry`; a retry that finds
  the channel full starts another and ends, so that one at a time circulates.
  What a late packet needs is one old stream beside the current one, and the state
  that goes with it makes a third writer too much for TLC; the safety properties
  are proved for any number.
- *GossipSub.* One slot makes every second message wait, so that each path of
  `pushControl`, `piggybackControl` and `flush` is taken. D = 1 with two peers
  gives a mesh that is too small, right, and too large (by a GRAFT of the second
  peer). A window of two with one gossiped has a slot that is offered and served, and
  one that is served only, into which what was offered moves at the next
  heartbeat. With one topic no list has two entries, so that
  `listed` and `all` agree and `GraftHeard` holds; with two it does not. The
  `Degree` and `Retried` of this run say what a heartbeat does in every state;
  their step formulas need no fairness.
- *Subscriptions.* Two subscriptions of one topic are what a second `Cancel` needs to
  find the topic still there, and what makes one reader slow beside another. A
  capacity of one is full after one message. Two callers are one that reads,
  asks or cancels while the other does. The run allows deadlock: messages and
  cancellations are finite, and calls after the end of the loop block for ever.
- *Broadcast.* Every link of the diamond with its chord is on a cycle. A random
  router there has two or three neighbours; without the author, the sender, those
  that flood and those that are not interested they are fewer than, as many as
  or more than `RandomSubD`. A channel of one drops the second of two
  messages. One node forgets once, which sends a message over a link twice. The
  run allows deadlock, for a network at rest.
- *Signing.* Integers are scaled: `IntBits` 15 has a last byte with one bit left, as
  64 has, so that three bytes reach what ten reach in the code, and `FieldBits` 8
  lets field numbers wrap around as int32 does. Payloads from 113 to 128 bytes
  bring each length on the way (payload, signature, message, RPC) across the
  width of one byte. The bytes of raw strings are the tags of the first fields
  with each wire type, both ends of a varint, and those that make sums overflow.
  400 bytes of payload exceed the scaled limit of a frame. The run allows
  deadlock: after two hops the story ends.
- Symmetry is used where the checked formulas are invariants or step formulas,
  and never in a run with a liveness property.

Two bounds matter in another way. A message comes to the router twice in one
window of the cache only if its id leaves `seenMessages`, where it stays for two
minutes, before it leaves the window, five heartbeats of a second. A validator
that takes longer lets that happen (`Validation` has it: a message is pushed again
after `Expire` while an earlier copy is still being validated), and `Forget` of
GossipSub lets it happen to an id once while it is in the window; the proof of
`CacheExact` needs no such bound.

## 4. Fairness

- **Validation.** Weak fairness of the process loop's two duties to the pipeline
  (`PushDirect`, `PublishMessage`), of each worker, of each message's goroutine
  and of each validator. Go schedules every runnable goroutine, and user
  validators are run under a timeout (`WithValidatorTimeout`) or are expected to
  return. `select` chooses at random among ready channels, so that `sendMsg` is
  served however busy the other channels are. Nothing is assumed of peers,
  applications, expiry and cancellation. `WorkersStop` admits a worker blocked in
  `sendMsg`: after cancellation nobody receives.
- **PeerEvents.** Weak fairness of a caller that looks at the log. Strong fairness
  of `Wake`: the signal may be taken by another caller again and again, but a Go
  channel serves waiting receivers in the order of their arrival. `Converges`
  has the premise `Polled`, that applications keep calling.
- **PeerConn.** Weak fairness of the process loop's handlers and of the goroutines;
  once the context is cancelled the loop ends, or panics on its way out.
  Nothing is assumed of the network: `StreamActive` and `RespawnsEnd` have the
  premise `Stable`, that from some time on the connection stays and streams open.
- **Announce.** The process loop's `Spawning` and retries run, for each writer its
  goroutines do (`OfWriter`, `SenderStop`, `Write`), and the peer reads each stream
  (`Deliver`). Same premise `Stable`. A packet of an old stream may stay in the
  peer's reader for as long as it likes relative to the others, so
  `SubscriptionKnown` excuses the case that it was handled last (`late`).
- **Subscriptions.** Weak fairness of `notifySubs`, of the end of the loop, and of the
  hand-over of answers. Strong fairness of the loop towards each caller that
  waits at one of its channels, and of a reader towards its channel: `select`
  picks at random among the channels that are ready, and those who wait at one
  channel are served in the order of their arrival. Nobody is assumed to read,
  cancel or publish.
- **Broadcast.** Weak fairness of the way from a channel over writer, stream and
  reader to the process loop that reads it. Nothing is assumed of the choices of
  random routers or of room in channels: `Reaches` names the nodes that are
  linked with the author over nodes which relay to all, given what was dropped.
- **Signing.** None.
- **GossipSub.** None: all its properties are invariants or say what a step does.

## 5. The proofs

All theorems are proved from the named assumptions on constants only, for any
number of peers, topics, messages, writers, callers, validators and nodes:
`ValidationAssumption`, `PeerEventsAssumption`, `PeerConnAssumption`,
`AnnounceAssumption`, `MessageCacheAssumption`, `GossipSubAssumption`,
`SubscriptionsAssumption`, `BroadcastAssumption`, and, of Wire and Signing,
`WidthsAssumption`, `NilAssumption`, `NoStructAssumption`, `KeysAssumption`,
`MessagesAssumption` and `LimitsAssumption`. These say that constants are of
the right kind; that throttles, the degree, `RandomSubD` and the channels have
room for at least one; that `Dlo <= D <= Dhi`; that links go both ways; that the
gossiped part of the window is shorter than the window, as the constants in
gossipsub.go:20-33 have it; that copies and validators, and the peers of
gossipsub, are finitely many. Each of these modules has its `TypeCorrect`.

**Validation.** `Once` (`OncePerWindow`) is not inductive:
that two copies are not both published says nothing of two copies in the
pipeline. `MarkInv` adds that a copy beyond `markSeen` has a mark, that the marks
of one id differ, and that the latest mark of an id means that the id is in the
cache, which is what makes the next `markSeen` fail (`Marks`). `Validated` rests
on `VerdictInv`, which says what each stage has established about the verdicts
of a copy, and of what waits in `sendMsg` (`Verdicts`). `Throttled` rests on
`SlotInv`: slots are bounded, and TypeOK has `running \subseteq vheld`: what runs
has a slot (`Slots`).

**PeerEvents.** `IInv == TypeOK /\ LogExact /\ NoLostWakeup` is inductive (`Exact`,
`Wakeups`). `Refinement` maps every step to one of `PeerView` or to a stutter: a
change of the membership to `Change`, with `LogExact` before and after the step,
a `Pull` to a `Report` that is true because `LogExact` held.

**PeerConn.** `Open` (no double close, no send on a closed channel) needs that a
blacklisted peer has no entry (`Banned`), because `newPeerStream` closes the
channel of a blacklisted peer and keeps the entry. It holds with any blacklist,
evictions included, until the application adds the peer itself. `Served`
(`WriterServed`) holds until the blacklist drops or gains the peer by itself:
`WriterInv` adds that the end of a writer is pending in one goroutine at most
(`OneReport`) and that a goroutine that opens or sends on an open channel belongs
to the current writer (`Held`). `Router` is inductive beside the types, until the
peer refuses the protocol.

**Announce.** `LastWordRight`: whatever is put into channels, by hello packets,
announcements and stale retries, in any order and with any capacity, the last
word is right or a retry is under way that will look at the subscriptions again.
`Lives` is the refinement `Spec => Conn!Spec`: what is proved of PeerConn holds
of a peer with announcements, too. `HeardRight` is about what happens to that last
word, with any number of old streams whose packets may still be handled: `HeardInv`
says that only the current writer opens or watches a stream, or has one that is up,
and that what is on its way (the channel, then the stream, then the peer) ends
with the last word; when all of it has arrived, the peer holds that word unless
the packet it handled last was one of an old stream (`Flowing`).

**GossipSub.** `IInv` is `TypeOK`, `CacheExact`, `GossipServable`, `FanoutExpires` and
`GoneForgotten`. `Servable` (what is pending as gossip can be had, unless it was put
again while in the window) is not inductive alone: that a message offered is in the cache after the next `Shift` follows only
from where it is in the window, which is `CacheExact` together with
`HistoryGossip < HistoryLength`: an id that `GetGossipIDs` returned is at least
one slot away from the end. `FanoutExpires` and `GoneForgotten` need the lemmas
on what a heartbeat may make of mesh and fanout.

Then the mesh. `Degreed`: after a heartbeat a mesh is within its bounds,
from the cardinalities of the sets a heartbeat may choose. `RetriedAll`: whatever
is still pending after a heartbeat met a full channel, since `flush`,
`piggybackControl` and `pushControl` each keep only what does not fit. `GraftHeard`
and `PruneHeard` (both ends of a mesh link know of it) are false of two topics, as
section 6 says; `GraftTold` and `PruneTold` prove them under `OneTopic`, where a
list of control messages has one element: `ToldInv` follows a peer through every handler, with what it was
told, what it is going to be told, and what was stale.

**Subscriptions.** `Panics` needs to know where every call is: `BookInv` (what is in
`myTopics` is open, what was returned is there or closed), `CallInv` (a call to
subscribe is the only one for its subscription) and `CancelInv` (a request to
cancel what is closed, or one beside another, is a second one). `Announced` is
part of the same invariant. `Refinement`: every step is one of `Feed` or a stutter;
the loop never offers to a closed channel because `BookInv` held. `Delivered`
(`InOrder`) rests on `OrderInv`: what a reader has got and what waits in its channel
are one list, in the order of handling, in which the message at hand is, with the
topic IDs the loop has still to go through, no more often than it names the topic.

**Broadcast.** `NoCirculation`, `NobodyForgotten` and the `Refinement` of Dissemination share
an invariant: who has seen a message has it, a message on a link comes from a
node that has it (`Known`), and a node's interest is known to its neighbours at
least as long as it lasts (`Views`). The proofs hold for any network and any
mixture of routers, with `RandomSubD` and capacities of any size.

**Wire and Signing.** These hold for integers of any width, strings of any length and
any order of options. Two things had to come first. The loops of `Wire` are functions
that are chosen because they satisfy an equation, so that such a function must be
shown to exist before anything follows from it: `RecursionExists` does that once for
a recursion down a rank, `LoopExists`, `ChainExists` and `ShiftExists` for the forms
that `Wire` has. And induction is the well-foundedness of `<`, applied to the *set*
of numbers with the property at hand (`SetInduction`, `RankInduction`,
`LoopInduction`), which needs no operator as a parameter.

- `SizeIsExact`: `Size(k, m)` is the length of `MarshalTo(k, m)`, for every value of
  every type, whatever strings, lists and nested messages it has. The code writes
  `Size` before a nested message, and allots a buffer of `Size` bytes for a frame:
  hence `Frame` is `MarshalTo`, nothing is cut off and no zeros follow. The proof
  is a calculus: `Fits(bytes, n)` says that bytes are `n` in number, and each way to
  put bytes together (a varint, a part, a list of parts, a field that may be nil) has
  a lemma; types with types in them cite those of the latter.
- `Acceptance` (`Acceptable`): `AuthorInv` says that after every option the key, if there
  is one, is that of the author named in messages, which is more than is asked for
  when the node runs. `PublishedInv` keeps that of what was published. That a
  receiver computes the same bytes as the signer is `SignedVerifies`, with
  `SizeIsExact` for their type.
- `InsideItsSlice` (`NeverOutside`): `Reads(V, from, to)` is a refusal, or a value of `V`
  that ends within `from .. to`. Every step of decoding is shown to be in such a
  set, from varints (`VarintReads`) over lengths (`LengthDelimitedReads`), fields
  (`AssignReads`, `UnrecognizedReads`) and one round of the loop (`ReadFieldReads`) to
  the three levels of nested types (`UnmarshalDecodes`). `skipRpc` is the exception:
  what it returns may lie beyond the data (`Ends`), and is safe because its caller
  compares again. The sum of two indices must not wrap around to a number that
  passes this comparison, for which the length of a string must be a positive int.
  That is `LimitsAssumption`; the reader's limit, 1<<20 bytes, sees to it in the code.
- `TypeCorrect`: the same sets, with `StreamInv`, `RawInv` and `HopsInv` for what is on the
  stream; what is decoded is a value that can be written again.
- `WrittenIsRead` (`RoundTrip`): what is read is the value that was written, for every
  type. The argument has four parts. *Layout:*
  `Laid` says that `MarshalTo` joins one string of bytes per field of the type's table,
  in its order, and then `XXX_unrecognized`; there is one lemma per type, and what
  follows is about fields of five kinds and no longer about eleven types. *Numbers:* a
  varint is read as it was written wherever it stands (`VarintRead`, by induction over
  its bytes, seven bits at a time). *Loops:* `Takes(depth, k, x, v, w)` says that the bytes
  `x`, wherever they stand in the data, lead the loop of `Unmarshal` from value `v` to `w`.
  Each kind of field is taken from the value without it to the value with it
  (`BoolTaken`, `EnumTaken`, `StringTaken`, `MessageTaken`, and lists part by part), and
  `TakesBoth` puts them together. *Unknown bytes:* a piece is a field that the type does
  not know; what is kept is a chain of pieces, which is kept again (`KeptPieces`,
  `UnknownKept`). `RoundTrip` is not true of every value: a struct whose unrecognized
  bytes spell a field that it knows is read as another. `Sound(depth)` are the values
  without such bytes at any depth, and `SentInv`, that what is on the stream is sound,
  is the inductive invariant: of what was published, of what is sent, and of what is
  forwarded because it is what was read.
- `SignaturesLast` (`SignatureSurvives`): `PathInv` adds that what is on the stream is the
  published message alone, so that after any number of hops a node verifies what the
  author signed, and computes the same bytes for it (`SignedVerifies`).
- `WrittenAgain` (`Stable`): what is decoded of *any* bytes is sound. Bytes in any order,
  with fields repeated, merged and interleaved with unknown ones, make the loop's
  rounds keep a piece or set a field (`RoundIs`), and each keeps the value sound. That
  the value's own encoding decodes to it is the previous argument, given that it is
  short enough for lengths to be told from negative numbers. It may be longer than
  what was read, as a negative mode is read as an `int32` and written as an `int` of ten
  bytes: `Grown` bounds `Size` by `MaxVarint + 1` bytes for each byte read, in every
  round and at each depth (`AllGrow`), which is where `LimitsAssumption` comes from.

Two assumptions were made what the proofs need and the code gives. `LimitsAssumption`
asks that `2 * (MaxVarint + 1)` times the longest raw string be an int: in the code
22 times 1<<20 against 1<<64. `MessagesAssumption` asks that `Rpcs` be `Genuine` and that
`Extra` be `Unknown`. `WidthsAssumption` asks that field numbers have room for those of
the tables, and are narrower than ints, as int32 is than a 64-bit int.

Only model-checked: every liveness property; and `TopicsOfPeers`, `CancellationKnown`
and `GraftHeard` over two topics, which are false. Each invariant that a passing run
checks is also a theorem. Liveness under fairness, `ENABLED`, and induction with an
operator as parameter are out of the prover's reach.

## 6. What disagrees with the documentation

Each of these is a run that TLC finds violated.

- **`peer_conn_topics`.** "topics tracks which topics each of our peers are
  subscribed to" (pubsub.go:78). A peer connects and subscribes, and its connection
  is lost. Its RPC waits in `incoming` while `peerDead` is handled; handled
  afterwards, it puts the peer that is gone into `topics`. The peer never comes
  back, and stays in `topics` for good.
- **`announce_lost`.** The cancellation of the last subscription "will also announce
  that this node is not subscribing to this topic anymore" (pubsub.go:433). If the
  announcement waits in the channel of a writer that is respawned, it is lost,
  and hello packets name subscriptions only.
- **`gossipsub_coalesced`.** A heartbeat is to "send coalesced GRAFT/PRUNE messages"
  (gossipsub.go:469). The messages of a list share the address of the loop's
  variable, so that all of them name its last topic; in the others the peer is in
  the mesh and is never told.

Met while modelling, part of the models or noted at the hazards, but without a
run, because no document, comment or test clearly says otherwise:

- A message of a peer that is blacklisted while it is in the pipeline is still
  published: the blacklist is consulted when a message is pushed. Subscription
  options of a blacklisted peer are applied.
- After cancellation a worker may stay blocked in `sendMsg`, and callers of
  `Subscribe`, `Cancel`, `Publish` and the like block, since their sends to the
  process loop do not look at its context.
- `newPeerError` removes the peer from `peers` and leaves router and topics as
  they are. `RouterKnows` is stated around that.
- A packet of an old stream that the peer handles after the hello packet of the new
  one overrules it, since each stream has a reader of its own (comm.go:32-57) and
  nothing orders them: the peer then misses a subscription on a connection that is
  stable. `Heard` and `SubscriptionKnown` are stated around it (`late`).
- An application that changes the blacklist it gave to `WithBlacklist` makes
  `newPeerStream` close the channel of a peer and keep the entry
  (pubsub.go:308-313), and the next close or send panics. `CurrentOpen` and
  `WriterServed` are stated around it (`"changed"`).
- A message that is put into the message cache again while it is in the window leaves it
  with its first entry (mcache.go:26-30, 51-62), and may then be offered and not
  be served. `GossipServable` is stated around it (`repeated`).
- With an LRU blacklist that evicts a peer whose dropped writer has not ended, the
  late report respawns the new writer, whose end is reported in turn, and so on
  while the peer is connected. Respawns have no back-off.
- `flush` sends control messages without the check for staleness that
  `piggybackControl` makes, and `handleGraft` accepts peers the node does not
  know: `GraftHeard`, `PruneHeard` and `GoneForgotten` are stated around both
  (`astray`).
- `WithValidateThrottle` "sets the upper bound on the number of active validation
  goroutines across all topics" (validation.go:340). A slot stands for one
  message, which starts one more goroutine per asynchronous validator, and is
  given back when the first refuses, while the others run on. Read as a bound on
  messages, it holds (`Slots`).
- Calling `Cancel` twice on one of two subscriptions of a topic closes its channel
  twice, and the process loop panics. That it panics for no other reason is
  `PanicsOnlyOnMisuse`.
- `WithMessageAuthor` has no effect when signing is disabled (pubsub.go:229-231
  and 757-761): messages name the host as their author.
- `WithMessageSigning(false)` followed by `WithMessageSigning(true)` leaves a node
  that signs and is not strict; `WithMessageSigning(true)` alone one that is.
- The reader of a stream refuses frames beyond 1<<20 and the writer does not look:
  an RPC that is too long resets the stream. The properties of `Signing` are
  stated for frames within the limit.
- A caller of `NextPeerEvent` on a cancelled subscription waits until its own
  context ends.

## 7. What is abstracted, and what is not modelled

- *Validation:* contents, keys and signatures (one of three values); validators
  return; an RPC with several messages behaves as several RPCs; the subscriptions
  and the router that receive a published message.
- *PeerEvents:* one topic, since logs of different topics share nothing; the loop
  that notifies all subscriptions is one step, since each log has its own lock
  and nobody holds two.
- *PeerConn, Announce:* one remote peer and one of its topics, since the state of
  others is disjoint. `FullClose` makes the remote end close its side. Blacklisting
  and the cancellation of the context are in PeerConn and not in Announce: after
  either, the peer has no writer and is announced nothing. A hello packet that
  does not name the topic is not followed beyond its channel.
- *GossipSub:* time. A fanout may expire at any heartbeat, and the times between
  Publish and expiry are not compared; the random choice of peers is any choice;
  a topic named twice in a message is a set. A message enters the router as
  `Publish` once it has passed the pipeline. What is in the channel of a peer is
  not followed: `linked` and `astray` say what the peer makes of it. Tagging of
  connections is left out, and so is `newPeerError`.
- *Subscriptions:* the answers of queries; announcements (Announce), event logs
  (PeerEvents), the router (GossipSub). A registration of a validator blocks as
  `GetTopics` does, `BlacklistPeer` as `Publish`. How messages come to
  `publishMessage` is in Validation: here they come in any order relative to
  calls.
- *Broadcast:* nodes and links stay; writer, stream and reader of a link are one
  channel, which is what PeerConn and Announce take apart; signatures and
  validators, with which `pushMsg` is not one step (Validation). `AddPeer` and
  `RemovePeer` of randomsub keep the protocol of each peer, constant here.
- *Wire, Signing:* integers are narrower (section 3); `SignPrefix`, a constant before
  what is signed; cryptography. A string is a byte string. One message is on its
  way at a time: the order of frames in a stream is the stream's.
- *Blacklists:* the set they represent, and that an LRU may evict any member at any
  time, instead of the oldest when it is full; and that an application may add to
  the list it gave to `WithBlacklist`.
- *Not modelled:* the getters, descriptors, text and JSON forms and reflection
  wrappers of rpc.pb.go, two thirds of the file, which have no logic or are not
  used; the options that assign a field and nothing else; hello.pb.go and the
  other demonstration programs in `src/`, which try out libp2p one call at a
  time, with prints and sleeps, and keep no state.

## 8. Plan

The order was: the pipeline, which every message passes; the life of a peer,
where a mistake ends the node; what peers are told; the gossipsub router; then
subscriptions and calls, the routers without state in a network, signing and the
wire. The abstract specifications are `PeerView`, `Feed`, `Dissemination`, and
`PeerConn` for `Announce`; all four refinements are proved. What could follow:

1. **A mesh link between two nodes**: two copies of the control part of GossipSub over
   two channels, to replace `linked` and `astray` by the other node's mesh. Abstract
   specification: both ends agree once channels are empty, unless told something
   stale.
2. **A gossipsub network**: Broadcast with meshes and gossip in the place of
   `choices`, where gossip brings what a full channel has dropped.
3. **Proofs** of what `Dissemination` promises a subscriber under premises on drops, as
   safety properties of paths.
