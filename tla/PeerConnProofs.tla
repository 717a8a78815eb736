--------------------------- MODULE PeerConnProofs ---------------------------
(***************************************************************************)
(* Proofs about PeerConn, for any number of writers and connections: as    *)
(* long as nobody else adds the peer to the blacklist its channel is never *)
(* closed twice, and, until the blacklist evicts the peer, either, no      *)
(* writer is leaked or torn down by an old report.                         *)
(***************************************************************************)
EXTENDS PeerConn, TLAPS

\* Every step keeps the types.
LEMMA StepTypeOK == TypeOK /\ [Next]_vars => TypeOK'
<1> SUFFICES ASSUME TypeOK, [Next]_vars PROVE TypeOK'
  OBVIOUS
<1> USE PeerConnAssumption DEF PeerConnAssumption, banVars, room, endUnsent, forgotten, stillConnected, looping, closable
<1>1. CASE UNCHANGED vars
  BY <1>1 DEF TypeOK, vars, loopVars, goVars
<1>2. CASE Connect
  BY <1>2 DEF TypeOK, Connect, loopVars, goVars
<1>3. CASE Disconnect
  BY <1>3 DEF TypeOK, Disconnect, cut, loopVars
<1>4. ASSUME NEW m \in {"sub", "unsub"}, RemoteSends(m) PROVE TypeOK'
  BY <1>4 DEF TypeOK, RemoteSends, loopVars, goVars
<1>5. ASSUME NEW w \in Writers, Cut(w) \/ WriteFails(w) \/ Goroutine(w) PROVE TypeOK'
  BY <1>5 DEF TypeOK, Cut, cut, WriteFails, Goroutine, OpenStream, OpenFails, SenderStop,
              ReadEOF, GiveUp, loopVars
<1>6. CASE NotifyNobody
  BY <1>6 DEF TypeOK, NotifyNobody, loopVars, goVars
<1>7. CASE NewPeer
  BY <1>7 DEF TypeOK, NewPeer, hasPeer, spawnAfter
<1>8. CASE BlacklistPeer \/ Evict \/ AddForeign
  BY <1>8 DEF TypeOK, BlacklistPeer, forget, entry, Evict, AddForeign, loopVars, goVars
<1>9. CASE IncomingRPC
  <2>1. incoming' \in Seq({"sub", "unsub"}) /\ Len(incoming') <= MaxIncoming
    BY <1>9 DEF TypeOK, IncomingRPC
  <2> QED
    BY <1>9, <2>1 DEF TypeOK, IncomingRPC, goVars
<1>10. CASE CancelContext \/ Stop
  BY <1>10 DEF TypeOK, CancelContext, Stop, entry, loopVars, goVars
<1>11. ASSUME NEW w \in Writers, NewPeerStream(w) \/ NewPeerError(w) PROVE TypeOK'
  <2>1. CASE NewPeerError(w)
    BY <2>1 DEF TypeOK, NewPeerError
  <2>2. CASE NewPeerStream(w) /\ (current = None \/ blacklisted)
    BY <2>2 DEF TypeOK, NewPeerStream, entry, cut
  <2>3. CASE NewPeerStream(w) /\ ~(current = None \/ blacklisted)
    BY <2>3 DEF TypeOK, NewPeerStream
  <2> QED
    BY <1>11, <2>1, <2>2, <2>3
<1>12. ASSUME NEW w \in Writers, PeerDead(w) PROVE TypeOK'
  <2>1. reportedOpen(w) \in [Writers -> {"opening", "hasStream", "failed", "unsupported", "done"}]
    BY DEF TypeOK, reportedOpen
  <2>2. eof' \in [Writers -> {"reading", "dead", "done"}]
    BY <1>12 DEF TypeOK, PeerDead, reportsEnd
  <2> QED
    BY <1>12, <2>1, <2>2 DEF TypeOK, PeerDead, spawnAfter, forget, entry, loopVars
<1>13. CASE Panic
  <2>1. incoming' \in Seq({"sub", "unsub"}) /\ Len(incoming') = 0
    BY <1>13 DEF Panic
  <2>a. Len(incoming') <= MaxIncoming /\ 0 \in 0..MaxNotified
    BY <2>1
  <2>2. /\ open' \in [Writers -> {"opening", "hasStream", "failed", "unsupported", "done"}]
        /\ eof' \in [Writers -> {"reading", "dead", "done"}]
        /\ sender' \in [Writers -> {"sending", "done"}]
        /\ stream' \in [Writers -> {"none", "up", "cut"}]
    BY <1>13 DEF TypeOK, Panic, cut
  <2>3. /\ UNCHANGED <<conn, current, closed, blacklisted, exception>>
        /\ notified' = 0 /\ known' = FALSE /\ joined' = FALSE /\ loop' = "panicked"
    BY <1>13 DEF Panic, banVars
  <2> QED
    BY <2>1, <2>a, <2>2, <2>3 DEF TypeOK
<1> QED
  BY <1>1, <1>2, <1>3, <1>4, <1>5, <1>6, <1>7, <1>8, <1>9, <1>10, <1>11, <1>12, <1>13
  DEF Next, Network, Loop

\* An exception is not forgotten.
LEMMA ExceptionsStay == [Next]_vars => exception \subseteq exception'
BY DEF Next, Network, Loop, Goroutine, vars, banVars, goVars, Connect, Disconnect, RemoteSends,
       OpenStream, OpenFails, WriteFails, SenderStop, ReadEOF, GiveUp, Cut, NotifyNobody, NewPeer,
       NewPeerStream, NewPeerError, PeerDead, BlacklistPeer, Evict, AddForeign,
       Panic, IncomingRPC, CancelContext, Stop

\* The process loop drops the peer when it blacklists it, and takes no
\* blacklisted peer: the branch of newPeerStream that closes the channel of a
\* blacklisted peer, and keeps the entry, is never taken.
Banned == blacklisted => current = None

\* The inductive invariant behind CurrentOpen.
OpenInv == "changed" \notin exception => Banned /\ current \notin closed /\ loop # "panicked"

\* A report of the end is pending in one goroutine of a writer at most.
OneReport ==
    \A w \in Writers : open[w] \in {"opening", "failed", "unsupported"} =>
        eof[w] = "done" /\ sender[w] = "done"

\* Every step keeps OpenInv.
LEMMA StepOpen == TypeOK /\ OpenInv /\ [Next]_vars => OpenInv'
<1> SUFFICES ASSUME TypeOK, OpenInv, [Next]_vars, "changed" \notin exception' PROVE OpenInv'
  BY DEF OpenInv
<1>a. "changed" \notin exception
  BY ExceptionsStay
<1>0. closed \subseteq Writers /\ current \in Writers \cup {None}
  BY DEF TypeOK
<1> USE <1>a, <1>0
<1> USE PeerConnAssumption DEF PeerConnAssumption, banVars, room, endUnsent, forgotten, stillConnected, looping, closable
<1>1. CASE UNCHANGED <<loop, current, closed, blacklisted>>
  BY <1>1 DEF OpenInv, Banned
<1>2. CASE NewPeer
  BY <1>2 DEF OpenInv, Banned, NewPeer, hasPeer, spawnAfter
<1>3. CASE BlacklistPeer \/ Evict
  BY <1>3 DEF OpenInv, Banned, BlacklistPeer, forget, entry, Evict, loopVars
<1>4. CASE Stop \/ CancelContext
  BY <1>4 DEF OpenInv, Banned, Stop, entry, CancelContext, loopVars
<1>5. ASSUME NEW w \in Writers, NewPeerStream(w) PROVE OpenInv'
  BY <1>5 DEF OpenInv, Banned, NewPeerStream, entry
<1>6. ASSUME NEW w \in Writers, NewPeerError(w) PROVE OpenInv'
  BY <1>6 DEF OpenInv, Banned, NewPeerError
<1>7. ASSUME NEW w \in Writers, PeerDead(w) PROVE OpenInv'
  BY <1>7 DEF OpenInv, Banned, PeerDead, spawnAfter, forget, entry, loopVars
<1>8. CASE Network \/ NotifyNobody \/ IncomingRPC
  BY <1>1, <1>8 DEF Network, Connect, Disconnect, RemoteSends, NotifyNobody, IncomingRPC,
                    loopVars
<1>9. ASSUME NEW w \in Writers, Cut(w) \/ WriteFails(w) \/ Goroutine(w) PROVE OpenInv'
  BY <1>1, <1>9 DEF Cut, WriteFails, Goroutine, OpenStream, OpenFails, SenderStop, ReadEOF,
                    GiveUp, loopVars
<1>10. CASE UNCHANGED vars
  BY <1>1, <1>10 DEF vars, loopVars
<1>11. ~AddForeign /\ ~Panic
  BY DEF AddForeign, OpenInv, Panic, closable
<1> QED
  BY <1>2, <1>3, <1>4, <1>5, <1>6, <1>7, <1>8, <1>9, <1>10, <1>11 DEF Next, Loop

\* Types, in every behaviour.
THEOREM TypeCorrect == Spec => []TypeOK
<1>1. ASSUME Init PROVE TypeOK
  <2>1. incoming \in Seq({"sub", "unsub"}) /\ Len(incoming) = 0
    BY <1>1 DEF Init
  <2>2. blacklisted \in BOOLEAN /\ known \in BOOLEAN /\ joined \in BOOLEAN
    BY <1>1 DEF Init
  <2>3. /\ conn \in 0..MaxConn /\ notified \in 0..MaxNotified /\ Len(incoming) <= MaxIncoming
    BY <1>1, <2>1, PeerConnAssumption DEF PeerConnAssumption, Init
  <2> QED
    BY <1>1, <2>1, <2>2, <2>3 DEF Init, TypeOK
<1> QED
  BY <1>1, StepTypeOK, PTL DEF Spec

\* The channel in peers[pid] is open: no handler closes it twice or sends to
\* a closed channel, whatever reports of whatever writers are under way, as
\* long as nobody but the process loop adds the peer to the blacklist.
THEOREM Open == Spec => []CurrentOpen
<1>1. Init => OpenInv
  BY PeerConnAssumption DEF PeerConnAssumption, Init, OpenInv, Banned
<1>2. OpenInv => CurrentOpen
  BY DEF OpenInv, CurrentOpen
<1> QED
  BY <1>1, <1>2, TypeCorrect, StepOpen, PTL DEF Spec

-----------------------------------------------------------------------------
(* As long as the blacklist drops and gains no peer by itself *)

\* NoOrphan, from the spawn of a writer on.
Held ==
    \A w \in Writers : open[w] = "opening" \/ sender[w] = "sending" =>
        w \in closed \/ current = w

\* The inductive invariant: a report is pending in one goroutine of a writer
\* at most; while the peer is not blacklisted only the current writer has yet
\* to report; whoever sends, or will, on an open channel is the current one.
WriterInv == ownList => OneReport /\ OneWriter /\ Held

\* The goroutines of the writers, the channels and the entry decide WriterInv.
LEMMA StepWriter == TypeOK /\ OpenInv /\ WriterInv /\ [Next]_vars => WriterInv'
<1> SUFFICES ASSUME TypeOK, OpenInv, WriterInv, [Next]_vars, ownList'
             PROVE  WriterInv'
  BY DEF WriterInv
<1>a. ownList /\ "changed" \notin exception
  BY ExceptionsStay DEF ownList
<1> USE <1>a
<1> USE PeerConnAssumption DEF PeerConnAssumption, banVars, room, endUnsent, forgotten, stillConnected, looping, closable
<1>0. current \in Writers \cup {None}
  BY DEF TypeOK
<1>1. CASE UNCHANGED <<loop, current, closed, open, eof, sender, blacklisted>>
  BY <1>1 DEF WriterInv, OneReport, OneWriter, Held, reporting
<1>2. ASSUME NEW w \in Writers, OpenStream(w) PROVE WriterInv'
  <2>1. /\ open[w] = "opening" /\ open'[w] = "hasStream" /\ eof'[w] = "reading"
        /\ sender'[w] = "sending" /\ UNCHANGED <<loop, current, closed, blacklisted>>
        /\ \A v \in Writers \ {w} : open'[v] = open[v] /\ eof'[v] = eof[v] /\ sender'[v] = sender[v]
    BY <1>2 DEF OpenStream, TypeOK, loopVars
  <2>2. looping /\ ~blacklisted => current = w
    BY <2>1 DEF WriterInv, OneWriter, reporting
  <2>3. OneReport'
    BY <2>1 DEF WriterInv, OneReport
  <2>4. OneWriter'
    BY <1>0, <2>1, <2>2 DEF WriterInv, OneWriter, reporting
  <2>5. Held'
    BY <2>1 DEF WriterInv, Held
  <2> QED
    BY <2>3, <2>4, <2>5 DEF WriterInv
<1>3. ASSUME NEW w \in Writers, OpenFails(w) PROVE WriterInv'
  <2>1. /\ open[w] = "opening" /\ open'[w] \in {"failed", "unsupported"}
        /\ UNCHANGED <<loop, current, closed, blacklisted, eof, sender>>
        /\ \A v \in Writers \ {w} : open'[v] = open[v]
    BY <1>3 DEF OpenFails, TypeOK, loopVars
  <2> QED
    BY <1>0, <2>1 DEF WriterInv, OneReport, OneWriter, Held, reporting
<1>4. ASSUME NEW w \in Writers, SenderStop(w) \/ WriteFails(w) PROVE WriterInv'
  <2>1. /\ sender'[w] = "done" /\ UNCHANGED <<loop, current, closed, blacklisted, eof, open>>
        /\ \A v \in Writers \ {w} : sender'[v] = sender[v]
    BY <1>4 DEF SenderStop, WriteFails, TypeOK, loopVars
  <2>11. OneReport'
    BY <2>1 DEF WriterInv, OneReport
  <2>12. OneWriter'
    BY <1>0, <2>1 DEF WriterInv, OneWriter, reporting
  <2>13. Held'
    BY <2>1 DEF WriterInv, Held
  <2> QED
    BY <2>11, <2>12, <2>13 DEF WriterInv
<1>5. ASSUME NEW w \in Writers, ReadEOF(w) PROVE WriterInv'
  <2>1. /\ eof[w] = "reading" /\ eof'[w] = "dead"
        /\ UNCHANGED <<loop, current, closed, blacklisted, sender, open>>
        /\ \A v \in Writers \ {w} : eof'[v] = eof[v]
    BY <1>5 DEF ReadEOF, TypeOK, loopVars
  <2>11. OneReport'
    BY <2>1 DEF WriterInv, OneReport
  <2>12. OneWriter'
    BY <1>0, <2>1 DEF WriterInv, OneWriter, reporting
  <2>13. Held'
    BY <2>1 DEF WriterInv, Held
  <2> QED
    BY <2>11, <2>12, <2>13 DEF WriterInv
<1>6. ASSUME NEW w \in Writers, GiveUp(w) PROVE WriterInv'
  <2>1. /\ loop # "run" /\ UNCHANGED <<loop, current, closed, blacklisted, sender>>
        /\ \A v \in Writers : (open'[v] = open[v] \/ open'[v] = "done")
                              /\ (eof'[v] = eof[v] \/ eof'[v] = "done")
    BY <1>6 DEF GiveUp, TypeOK, loopVars
  <2>11. OneReport'
    BY <2>1 DEF WriterInv, OneReport
  <2>12. OneWriter'
    BY <1>0, <2>1 DEF WriterInv, OneWriter, reporting
  <2>13. Held'
    BY <2>1 DEF WriterInv, Held
  <2> QED
    BY <2>11, <2>12, <2>13 DEF WriterInv
<1>7. CASE NewPeer
  <2>1. CASE current # None \/ blacklisted
    BY <1>1, <1>7, <2>1 DEF NewPeer, hasPeer
  <2>2. CASE current = None /\ ~blacklisted
    <3>1. PICK w \in Writers :
            /\ Free(w) /\ current' = w /\ closed' = closed \ {w} /\ open'[w] = "opening"
            /\ \A v \in Writers \ {w} : open'[v] = open[v]
            /\ loop # "stopped" /\ UNCHANGED <<loop, blacklisted, eof, sender>>
      BY <1>7, <2>2 DEF NewPeer, hasPeer, spawnAfter, TypeOK
    <3> QED
      BY <2>2, <3>1 DEF WriterInv, OneReport, OneWriter, Held, reporting, Free
  <2> QED
    BY <2>1, <2>2
<1>8. CASE BlacklistPeer
  <2>1. /\ blacklisted' /\ current' = None /\ UNCHANGED <<loop, open, eof, sender>>
        /\ closed' = closed \cup ({current} \ {None})
    BY <1>8 DEF BlacklistPeer, forget, entry, loopVars, goVars, TypeOK
  <2> QED
    BY <1>0, <2>1 DEF WriterInv, OneReport, OneWriter, Held, reporting
<1>9. CASE Stop
  <2>1. /\ loop' = "stopped" /\ current' = None /\ UNCHANGED <<blacklisted, open, eof, sender>>
        /\ closed' = closed \cup ({current} \ {None})
    BY <1>9 DEF Stop, entry, goVars
  <2> QED
    BY <1>0, <2>1 DEF WriterInv, OneReport, OneWriter, Held, reporting
<1>10. CASE CancelContext
  <2>1. loop' = "cancelled" /\ loop = "run" /\ UNCHANGED <<current, closed, blacklisted, open, eof, sender>>
    BY <1>10 DEF CancelContext, loopVars, goVars
  <2> QED
    BY <1>0, <2>1 DEF WriterInv, OneReport, OneWriter, Held, reporting
<1>11. ASSUME NEW w \in Writers, NewPeerStream(w) PROVE WriterInv'
  <2>1. /\ open[w] = "hasStream" /\ open'[w] = "done"
        /\ \A v \in Writers \ {w} : open'[v] = open[v]
        /\ UNCHANGED <<loop, current, blacklisted, eof, sender>>
    BY <1>11 DEF NewPeerStream, TypeOK
  <2>2. closed' = closed
    BY <1>11 DEF NewPeerStream, OpenInv, Banned, entry
  <2>11. OneReport'
    BY <2>1, <2>2 DEF WriterInv, OneReport
  <2>12. OneWriter'
    BY <1>0, <2>1, <2>2 DEF WriterInv, OneWriter, reporting
  <2>13. Held'
    BY <2>1, <2>2 DEF WriterInv, Held
  <2> QED
    BY <2>11, <2>12, <2>13 DEF WriterInv
<1>12. ASSUME NEW w \in Writers, NewPeerError(w) PROVE WriterInv'
  <2>1. /\ open[w] = "unsupported" /\ open'[w] = "done" /\ looping
        /\ \A v \in Writers \ {w} : open'[v] = open[v]
        /\ current' = None /\ UNCHANGED <<loop, closed, blacklisted, eof, sender>>
    BY <1>12 DEF NewPeerError, TypeOK
  <2>2. current = w \/ current = None
    BY <2>1 DEF OpenInv, Banned, WriterInv, OneWriter, reporting
  <2>3. eof[w] = "done" /\ sender[w] = "done"
    BY <2>1 DEF WriterInv, OneReport
  <2> QED
    BY <2>1, <2>2, <2>3 DEF WriterInv, OneReport, OneWriter, Held, reporting, OpenInv, Banned
<1>13. ASSUME NEW w \in Writers, PeerDead(w) PROVE WriterInv'
  <2>1. /\ looping /\ UNCHANGED <<loop, blacklisted, sender>>
        /\ open[w] = "failed" \/ eof[w] = "dead"
        /\ eof'[w] = "done" /\ \A v \in Writers \ {w} : eof'[v] = eof[v]
    BY <1>13 DEF PeerDead, reportsEnd, TypeOK
  <2>2. current = w \/ current = None
    BY <2>1 DEF OpenInv, Banned, WriterInv, OneWriter, reporting
  <2>3. /\ reportedOpen(w)[w] = IF open[w] = "failed" THEN "done" ELSE open[w]
        /\ \A v \in Writers \ {w} : reportedOpen(w)[v] = open[v]
    BY DEF reportedOpen, TypeOK
  <2>4. reportedOpen(w)[w] \in {"hasStream", "done"}
    BY <2>1, <2>3 DEF WriterInv, OneReport, TypeOK
  <2>5. CASE current = None /\ open' = reportedOpen(w) /\ UNCHANGED loopVars
    BY <2>1, <2>3, <2>4, <2>5 DEF WriterInv, OneReport, OneWriter, Held, reporting, loopVars
  <2>6. CASE current # None /\ forget /\ open' = reportedOpen(w)
    <3>1. current' = None /\ closed' = closed \cup {w} /\ current = w
      BY <2>2, <2>6 DEF forget, entry
    <3> QED
      BY <2>1, <2>3, <2>4, <2>6, <3>1 DEF WriterInv, OneReport, OneWriter, Held, reporting
  <2>7. CASE current # None /\ spawnAfter(entry, reportedOpen(w))
    <3>1. current = w /\ ~blacklisted
      BY <2>2, <2>7 DEF OpenInv, Banned
    <3>2. PICK x \in Writers :
            /\ Free(x) /\ current' = x /\ closed' = (closed \cup {w}) \ {x} /\ open'[x] = "opening"
            /\ \A v \in Writers \ {x} : open'[v] = reportedOpen(w)[v]
      BY <2>7, <3>1 DEF spawnAfter, entry, reportedOpen, TypeOK
    <3>3. x # w
      BY <3>1, <3>2 DEF Free
    <3> QED
      BY <2>1, <2>3, <2>4, <3>1, <3>2, <3>3
      DEF WriterInv, OneReport, OneWriter, Held, reporting, Free
  <2> QED
    BY <1>13, <2>5, <2>6, <2>7 DEF PeerDead
<1>14. CASE Network \/ NotifyNobody \/ IncomingRPC
  BY <1>1, <1>14 DEF Network, Connect, Disconnect, RemoteSends, NotifyNobody, IncomingRPC,
                     loopVars, goVars
<1>15. ASSUME NEW w \in Writers, Cut(w) PROVE WriterInv'
  BY <1>1, <1>15 DEF Cut, loopVars
<1>16. CASE UNCHANGED vars
  BY <1>1, <1>16 DEF vars, loopVars, goVars
<1>17. ~Evict /\ ~AddForeign /\ ~Panic
  BY DEF Evict, AddForeign, Panic, closable, OpenInv, ownList
<1> QED
  BY <1>2, <1>3, <1>4, <1>5, <1>6, <1>7, <1>8, <1>9, <1>10, <1>11, <1>12, <1>13, <1>14, <1>15,
     <1>16, <1>17 DEF Next, Loop, Goroutine

\* One writer at a time serves the peer and it is watched: an old report
\* never tears down its successor, and no sender is left with a channel that
\* nobody can close.
THEOREM Writer == Spec => []WriterInv
<1>1. Init => OpenInv /\ WriterInv
  BY PeerConnAssumption
  DEF PeerConnAssumption, Init, OpenInv, Banned, CurrentOpen, WriterInv, OneReport, OneWriter,
      Held, reporting
<1>2. TypeOK /\ OpenInv /\ WriterInv /\ [Next]_vars => OpenInv' /\ WriterInv'
  BY StepOpen, StepWriter
<1> QED
  BY <1>1, <1>2, TypeCorrect, PTL DEF Spec

\* The current writer is the only one whose end is still to be reported, and
\* it will be reported.
THEOREM WriterWatched == Spec => []OneWriter
<1>1. WriterInv => OneWriter
  BY DEF WriterInv, OneWriter
<1> QED
  BY <1>1, Writer, PTL

\* A sender with an open channel is the current writer.
THEOREM NothingLeaks == Spec => []NoOrphan
<1>1. WriterInv => NoOrphan
  BY DEF WriterInv, Held, NoOrphan
<1> QED
  BY <1>1, Writer, PTL

\* The entry of peers is watched by its writer alone, and nothing leaks.
THEOREM Served == Spec => []WriterServed
<1>1. NoOrphan /\ OneWriter => WriterServed
  BY DEF WriterServed
<1> QED
  BY <1>1, WriterWatched, NothingLeaks, PTL
-----------------------------------------------------------------------------
(* As long as the peer has not refused the protocol *)

\* Every step keeps RouterKnows.
LEMMA StepRouter == TypeOK /\ RouterKnows /\ [Next]_vars => RouterKnows'
<1> SUFFICES ASSUME TypeOK, RouterKnows, [Next]_vars PROVE RouterKnows'
  OBVIOUS
<1>0. exception \subseteq exception'
  BY ExceptionsStay
<1> USE <1>0
<1> USE PeerConnAssumption DEF PeerConnAssumption, banVars, room, endUnsent, forgotten, stillConnected, looping, closable
<1>1. CASE UNCHANGED <<loop, current, known>>
  BY <1>1 DEF RouterKnows
<1>2. CASE NewPeer
  <2>1. UNCHANGED <<loop, known>> /\ (current' = current \/ current' \in Writers)
    BY <1>2 DEF NewPeer, hasPeer, spawnAfter
  <2> QED
    BY <2>1 DEF RouterKnows
<1>3. CASE BlacklistPeer \/ Stop \/ CancelContext
  BY <1>3 DEF RouterKnows, BlacklistPeer, forget, Stop, CancelContext, loopVars, goVars
<1>4. ASSUME NEW w \in Writers, NewPeerStream(w) PROVE RouterKnows'
  <2>1. UNCHANGED <<loop, current>> /\ (known' = known \/ current # None)
    BY <1>4 DEF NewPeerStream
  <2> QED
    BY <2>1 DEF RouterKnows
<1>5. ASSUME NEW w \in Writers, NewPeerError(w) PROVE RouterKnows'
  BY <1>5 DEF NewPeerError, RouterKnows
<1>6. ASSUME NEW w \in Writers, PeerDead(w) PROVE RouterKnows'
  <2>1. loop' = loop
    BY <1>6 DEF PeerDead
  <2>2. known' => known /\ (current' = current \/ current' \in Writers)
    <3>1. CASE UNCHANGED loopVars
      BY <3>1 DEF loopVars
    <3>2. CASE forget
      BY <3>2 DEF forget
    <3>3. CASE spawnAfter(entry, reportedOpen(w)) /\ UNCHANGED known
      BY <3>3 DEF spawnAfter
    <3> QED
      BY <1>6, <3>1, <3>2, <3>3 DEF PeerDead
  <2> QED
    BY <2>1, <2>2 DEF RouterKnows
<1>7. CASE Network \/ NotifyNobody \/ IncomingRPC \/ Evict \/ AddForeign
  BY <1>1, <1>7 DEF Network, Connect, Disconnect, RemoteSends, NotifyNobody, IncomingRPC, Evict,
                    AddForeign, loopVars, goVars
<1>8. ASSUME NEW w \in Writers, Cut(w) \/ WriteFails(w) \/ Goroutine(w) PROVE RouterKnows'
  BY <1>1, <1>8 DEF Cut, WriteFails, Goroutine, OpenStream, OpenFails, SenderStop, ReadEOF, GiveUp,
                    loopVars
<1>9. CASE UNCHANGED vars
  BY <1>1, <1>9 DEF vars, loopVars
<1>10. CASE Panic
  BY <1>10 DEF Panic, RouterKnows
<1> QED
  BY <1>2, <1>3, <1>4, <1>5, <1>6, <1>7, <1>8, <1>9, <1>10 DEF Next, Loop

\* Unless the peer has refused the protocol, the router knows no peer that
\* the process loop has forgotten.
THEOREM Router == Spec => []RouterKnows
<1>1. Init => RouterKnows
  BY DEF Init, RouterKnows
<1> QED
  BY <1>1, TypeCorrect, StepRouter, PTL DEF Spec
=============================================================================
