------------------------------ MODULE PeerConn ------------------------------
(***************************************************************************)
(* The life of one remote peer in a pubsub node: connections come and go,  *)
(* the process loop keeps a writer for the peer (peers[pid]), writers open *)
(* a stream, send on it and watch it (comm.go), and report its end to the  *)
(* process loop, which respawns the writer or forgets the peer.            *)
(*                                                                         *)
(* A writer is one call of handleNewPeer with its channel and the three    *)
(* goroutines that serve it. What goes through the channel is in Announce. *)
(* The state of different peers is disjoint, and so is that of the topics  *)
(* the peer subscribes to: joined is its membership of one topic.          *)
(***************************************************************************)
EXTENDS Naturals, Sequences

CONSTANTS
    Writers, None,
    MaxConn, MaxNotified, MaxIncoming,   \* bounds
    MayUnsupport,   \* the remote may refuse the protocol, also after having spoken it
    Lru,            \* the blacklist is an LRUBlacklist, which evicts
    Foreign         \* it was given to WithBlacklist, and the application adds to it

ASSUME PeerConnAssumption ==
    /\ None \notin Writers
    /\ MaxConn \in Nat /\ MaxNotified \in Nat /\ MaxIncoming \in Nat
    /\ MayUnsupport \in BOOLEAN /\ Lru \in BOOLEAN /\ Foreign \in BOOLEAN

VARIABLES
    conn,         \* connections to the peer
    notified,     \* goroutines of Connected that send to newPeers
    loop,         \* the process loop: "run", "cancelled" (the context), "stopped",
                  \* or "panicked"
    current,      \* the writer in peers[pid], None if there is no entry
    closed,       \* the writers whose channel is closed
    open,         \* of each writer: the goroutine of handleNewPeer
    stream,       \* its stream
    eof,          \* its goroutine of handlePeerEOF
    sender,       \* its goroutine of handleSendingMessages
    blacklisted,  \* blacklist.Contains(pid)
    known,        \* the router was given the peer by AddPeer, and not RemovePeer
    joined,       \* pid \in topics[t]
    incoming,     \* RPCs of the peer: "sub" or "unsub"
    exception     \* history: which exceptions of the properties have occurred

loopVars == <<current, closed, known, joined>>
goVars == <<open, stream, eof, sender>>
banVars == <<blacklisted, exception>>
vars == <<conn, notified, loop, loopVars, goVars, banVars, incoming>>

Init ==
    /\ conn = 0 /\ notified = 0 /\ loop = "run"
    /\ current = None /\ closed = Writers
    /\ open = [w \in Writers |-> "done"]
    /\ stream = [w \in Writers |-> "none"]
    /\ eof = [w \in Writers |-> "done"]
    /\ sender = [w \in Writers |-> "done"]
    /\ blacklisted \in BOOLEAN /\ known = FALSE /\ joined = FALSE
    /\ incoming = <<>> /\ exception = {}

-----------------------------------------------------------------------------
(* The network *)

Connect ==
    /\ conn < MaxConn /\ notified < MaxNotified
    /\ conn' = conn + 1 /\ notified' = notified + 1
    /\ UNCHANGED <<loop, loopVars, goVars, banVars, incoming>>

cut(W) == stream' = [w \in Writers |-> IF w \in W THEN "cut" ELSE stream[w]]
up == {w \in Writers : stream[w] = "up"}

\* A connection ends with the streams it carries; without any, none is left.
Disconnect ==
    /\ conn > 0 /\ conn' = conn - 1
    /\ \E W \in SUBSET up : (conn = 1 => W = up) /\ cut(W)
    /\ UNCHANGED <<notified, loop, loopVars, open, eof, sender, banVars, incoming>>

\* A stream is closed or reset, by the peer or after a failed write.
Cut(w) ==
    /\ stream[w] = "up" /\ cut({w})
    /\ UNCHANGED <<conn, notified, loop, loopVars, open, eof, sender, banVars, incoming>>

room == Len(incoming) < MaxIncoming

\* handleNewStream hands an RPC of the peer to the process loop.
RemoteSends(m) ==
    /\ conn > 0 /\ loop = "run" /\ room
    /\ incoming' = Append(incoming, m)
    /\ UNCHANGED <<conn, notified, loop, loopVars, goVars, banVars>>

-----------------------------------------------------------------------------
(* The goroutines of a writer *)

OpenStream(w) ==
    /\ open[w] = "opening" /\ conn > 0
    /\ open' = [open EXCEPT ![w] = "hasStream"]
    /\ stream' = [stream EXCEPT ![w] = "up"]
    /\ eof' = [eof EXCEPT ![w] = "reading"]
    /\ sender' = [sender EXCEPT ![w] = "sending"]
    /\ UNCHANGED <<conn, notified, loop, loopVars, banVars, incoming>>

OpenFails(w) ==
    /\ open[w] = "opening"
    /\ \/ open' = [open EXCEPT ![w] = "failed"]
       \/ conn > 0 /\ MayUnsupport /\ open' = [open EXCEPT ![w] = "unsupported"]
    /\ UNCHANGED <<conn, notified, loop, loopVars, stream, eof, sender, banVars, incoming>>

\* A write fails; the stream is reset already, or Cut resets it.
WriteFails(w) ==
    /\ sender[w] = "sending" /\ stream[w] = "cut"
    /\ sender' = [sender EXCEPT ![w] = "done"]
    /\ UNCHANGED <<conn, notified, loop, loopVars, open, stream, eof, banVars, incoming>>

\* The channel is closed and drained, or the context is done. FullClose makes
\* the peer close its side, too.
SenderStop(w) ==
    /\ sender[w] = "sending"
    /\ w \in closed \/ loop # "run"
    /\ sender' = [sender EXCEPT ![w] = "done"]
    /\ cut({w})
    /\ UNCHANGED <<conn, notified, loop, loopVars, open, eof, banVars, incoming>>

\* bug: a read that takes long is taken for the end
readWaits(w) == TRUE
\* handlePeerEOF: the read fails
readFails(w) == stream[w] = "cut"

ReadEOF(w) ==
    /\ eof[w] = "reading" /\ readFails(w)
    /\ eof' = [eof EXCEPT ![w] = "dead"]
    /\ UNCHANGED <<conn, notified, loop, loopVars, open, stream, sender, banVars, incoming>>

\* bug: handlePeerEOF does not watch the context
stuck(w) == FALSE
endUnsent(w) == eof[w] = "dead"

\* case <-ctx.Done() of handleNewPeer and of handlePeerEOF
GiveUp(w) ==
    /\ loop # "run"
    /\ \/ /\ open[w] \in {"hasStream", "failed", "unsupported"}
          /\ open' = [open EXCEPT ![w] = "done"] /\ UNCHANGED eof
       \/ /\ endUnsent(w)
          /\ eof' = [eof EXCEPT ![w] = "done"] /\ UNCHANGED open
    /\ UNCHANGED <<conn, notified, loop, loopVars, stream, sender, banVars, incoming>>

\* case <-ctx.Done() of Connected
NotifyNobody ==
    /\ loop # "run" /\ notified > 0 /\ notified' = notified - 1
    /\ UNCHANGED <<conn, loop, loopVars, goVars, banVars, incoming>>

-----------------------------------------------------------------------------
(* The process loop *)

\* No goroutine of w is left: w stands for a new writer when it is spawned.
Free(w) == open[w] = "done" /\ eof[w] = "done" /\ sender[w] = "done" /\ current # w

\* bug: a missing check
never == FALSE

hasPeer == current # None
forgotten == current = None
stillConnected == conn > 0
entry == {current} \ {None}
looping == loop \in {"run", "cancelled"}
\* a second close of a channel panics
closable == current \notin closed

\* a new channel for the peer and a goroutine of handleNewPeer, after the
\* channels of W were closed; o is open as the caller leaves it
spawnAfter(W, o) ==
    \E w \in Writers :
        /\ Free(w)
        /\ open' = [o EXCEPT ![w] = "opening"]
        /\ stream' = [stream EXCEPT ![w] = "none"]
        /\ closed' = (closed \cup W) \ {w}
        /\ current' = w

\* bug: the channel is closed, the entry stays
closeOnly == closed' = closed \cup entry /\ UNCHANGED <<current, joined, known>>
\* close the channel and forget the peer
forget ==
    /\ closed' = closed \cup entry
    /\ current' = None /\ joined' = FALSE /\ known' = FALSE

NewPeer ==
    /\ looping /\ notified > 0 /\ notified' = notified - 1
    /\ IF hasPeer \/ blacklisted
       THEN UNCHANGED <<current, closed, open, stream>>
       ELSE spawnAfter({}, open)
    /\ UNCHANGED <<conn, loop, known, joined, eof, sender, banVars, incoming>>

NewPeerStream(w) ==
    /\ looping /\ open[w] = "hasStream"
    /\ open' = [open EXCEPT ![w] = "done"]
    /\ IF forgotten \/ blacklisted
       THEN closable /\ cut({w}) /\ closed' = closed \cup entry /\ UNCHANGED known
       ELSE known' = TRUE /\ UNCHANGED <<closed, stream>>
    /\ UNCHANGED <<conn, notified, loop, current, joined, eof, sender, banVars, incoming>>

NewPeerError(w) ==
    /\ looping /\ open[w] = "unsupported"
    /\ open' = [open EXCEPT ![w] = "done"] /\ current' = None
    /\ exception' = exception \cup {"refused"}
    /\ UNCHANGED <<conn, notified, loop, closed, known, joined, stream, eof, sender, blacklisted, incoming>>

\* the goroutine of w that has reported the end of the peer is done
reportedOpen(w) == [open EXCEPT ![w] = IF @ = "failed" THEN "done" ELSE @]
reportsEnd(w) ==
    /\ open[w] = "failed" \/ eof[w] = "dead"
    /\ eof' = [eof EXCEPT ![w] = "done"]

\* peerDead: "still connected, must be a duplicate connection being closed"
PeerDead(w) ==
    /\ looping /\ closable /\ reportsEnd(w)
    /\ \/ current = None /\ open' = reportedOpen(w) /\ UNCHANGED <<loopVars, stream>>
       \/ /\ current # None /\ stillConnected
          /\ spawnAfter(entry, reportedOpen(w)) /\ UNCHANGED <<known, joined>>
       \/ current # None /\ ~stillConnected /\ forget /\ open' = reportedOpen(w) /\ UNCHANGED stream
    /\ UNCHANGED <<conn, notified, loop, sender, banVars, incoming>>

BlacklistPeer ==
    /\ looping /\ closable
    /\ blacklisted' = TRUE
    /\ IF current # None THEN forget ELSE UNCHANGED loopVars
    /\ UNCHANGED <<conn, notified, loop, goVars, exception, incoming>>

\* The blacklist may change by itself, in one of two ways (bound: not in both).
\* Peers blacklisted later make the LRU cache drop this one.
Evict ==
    /\ Lru /\ looping /\ "changed" \notin exception
    /\ blacklisted /\ blacklisted' = FALSE
    /\ exception' = exception \cup {"evicted"}
    /\ UNCHANGED <<conn, notified, loop, loopVars, goVars, incoming>>

\* The application adds the peer to the blacklist that it gave to WithBlacklist.
AddForeign ==
    /\ Foreign /\ looping /\ "evicted" \notin exception
    /\ ~blacklisted /\ blacklisted' = TRUE
    /\ exception' = exception \cup {"changed"}
    /\ UNCHANGED <<conn, notified, loop, loopVars, goVars, incoming>>

\* A handler closes the closed channel in peers[pid], as BlacklistPeer may at
\* any time: the process ends with all its goroutines and its streams.
Panic ==
    /\ looping /\ ~closable /\ loop' = "panicked"
    /\ open' = [w \in Writers |-> "done"] /\ eof' = open' /\ sender' = open'
    /\ cut(up)
    /\ notified' = 0 /\ incoming' = <<>> /\ joined' = FALSE /\ known' = FALSE
    /\ UNCHANGED <<conn, current, closed, banVars>>

\* handleIncomingRPC, its subscription options
IncomingRPC ==
    /\ looping /\ incoming # <<>>
    /\ joined' = (Head(incoming) = "sub") /\ incoming' = Tail(incoming)
    /\ UNCHANGED <<conn, notified, loop, current, closed, known, goVars, banVars>>

CancelContext ==
    /\ loop = "run" /\ loop' = "cancelled"
    /\ UNCHANGED <<conn, notified, loopVars, goVars, banVars, incoming>>

\* case <-ctx.Done() and the deferred clean-up
Stop ==
    /\ loop = "cancelled" /\ closable /\ loop' = "stopped"
    /\ closed' = closed \cup entry /\ current' = None /\ joined' = FALSE
    /\ UNCHANGED <<conn, notified, known, goVars, banVars, incoming>>

Network == Connect \/ Disconnect \/ \E m \in {"sub", "unsub"} : RemoteSends(m)

Loop ==
    \/ NewPeer \/ BlacklistPeer \/ Evict \/ AddForeign \/ Panic \/ IncomingRPC
    \/ CancelContext \/ Stop
    \/ \E w \in Writers : NewPeerStream(w) \/ NewPeerError(w) \/ PeerDead(w)

Goroutine(w) == OpenStream(w) \/ OpenFails(w) \/ SenderStop(w) \/ ReadEOF(w) \/ GiveUp(w)

Next ==
    \/ Network \/ Loop \/ NotifyNobody
    \/ \E w \in Writers : Cut(w) \/ WriteFails(w) \/ Goroutine(w)

Spec == Init /\ [][Next]_vars

\* The process loop comes back to its select and every goroutine runs on; a
\* cancelled context is noticed. Nothing is assumed of network or application.
FairSpec ==
    /\ Spec
    /\ WF_vars(NewPeer) /\ WF_vars(IncomingRPC)
    /\ WF_vars(Stop \/ (loop = "cancelled" /\ Panic))
    /\ \A w \in Writers :
        /\ WF_vars(NewPeerStream(w)) /\ WF_vars(NewPeerError(w)) /\ WF_vars(PeerDead(w))
        /\ WF_vars(Goroutine(w))

-----------------------------------------------------------------------------
(* Properties *)

TypeOK ==
    /\ conn \in 0..MaxConn /\ notified \in 0..MaxNotified
    /\ loop \in {"run", "cancelled", "stopped", "panicked"}
    /\ current \in Writers \cup {None} /\ closed \subseteq Writers
    /\ open \in [Writers -> {"opening", "hasStream", "failed", "unsupported", "done"}]
    /\ stream \in [Writers -> {"none", "up", "cut"}]
    /\ eof \in [Writers -> {"reading", "dead", "done"}]
    /\ sender \in [Writers -> {"sending", "done"}]
    /\ blacklisted \in BOOLEAN /\ known \in BOOLEAN /\ joined \in BOOLEAN
    /\ incoming \in Seq({"sub", "unsub"}) /\ Len(incoming) <= MaxIncoming
    /\ exception \subseteq {"refused", "evicted", "changed"}

\* The channel in peers[pid] is open: a send to it, or a second close,
\* would panic. Every handler that closes the channel must drop or replace
\* the entry, whatever reports are still on their way, as long as nobody but
\* the process loop changes the blacklist.
CurrentOpen == "changed" \notin exception => current \notin closed /\ loop # "panicked"

\* only BlacklistPeer has changed the blacklist
ownList == exception \cap {"evicted", "changed"} = {}

\* No goroutine leaks: a sender whose channel is open is the one in
\* peers[pid], so that somebody can still close the channel, as long as the
\* blacklist drops or gains no peer by itself.
NoOrphan ==
    ownList => \A w \in Writers : sender[w] = "sending" /\ w \notin closed => current = w

\* the end of w has yet to be reported
reporting(w) == open[w] \in {"opening", "failed", "unsupported"} \/ eof[w] # "done"

\* The writer in peers[pid] is the only one whose end is still to be
\* reported, and it will be: no report of an old writer tears down its
\* successor, and no entry stays without somebody to report its end. Once
\* the blacklist has dropped or gained the peer by itself, both can happen.
OneWriter ==
    ownList =>
        /\ loop = "run" /\ current # None => reporting(current)
        /\ ~blacklisted /\ looping =>
            \A w \in Writers : reporting(w) => current = w

\* Both: an entry of peers has a writer that will report its end and no other
\* will, and no sender runs beside it whose channel nobody can close.
WriterServed == NoOrphan /\ OneWriter

\* The router knows no peer that the process loop has forgotten, although a
\* new stream and its end are reported by two goroutines, in any order,
\* unless the peer has refused the protocol.
RouterKnows ==
    "refused" \notin exception /\ known /\ looping => current # None

\* "topics tracks which topics each of our peers are subscribed to": a peer
\* that is gone for good, and was never blacklisted, does not stay in topics.
TopicsOfPeers == <>[](conn = 0) /\ []~blacklisted => <>[]~joined

\* A peer whose last connection is gone is forgotten, unless it comes back.
Forgotten ==
    []<>(conn > 0) \/ []<>(current = None /\ ~known) \/ <>(loop # "run" \/ exception # {})

\* From some time on the peer stays connected, streams open and stay up.
Stable ==
    /\ <>[](conn > 0 /\ ~blacklisted /\ loop = "run" /\ exception = {})
    /\ <>[][~Disconnect /\ \A w \in Writers : ~Cut(w) /\ ~OpenFails(w)]_vars

\* "we need to ensure there is a stream active": once the connection is
\* stable, the writer in peers[pid] has a stream that is up.
StreamActive == Stable => <>[](current # None /\ stream[current] = "up" /\ known)

\* "must be a duplicate connection being closed": while the connection is
\* stable, writers are not reported dead and respawned over and over.
RespawnsEnd == Stable => <>[][\A w \in Writers : ~PeerDead(w)]_vars

\* Both: a stable connection comes to rest with one stream that works.
Settles == StreamActive /\ RespawnsEnd

\* All goroutines end after the context was cancelled.
GoroutinesEnd ==
    loop = "cancelled" ~> \A w \in Writers : sender[w] = "done" /\ eof[w] = "done" /\ open[w] = "done"
=============================================================================
