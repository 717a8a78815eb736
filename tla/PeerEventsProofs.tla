-------------------------- MODULE PeerEventsProofs --------------------------
(***************************************************************************)
(* Proofs about PeerEvents, for any number of peers, subscriptions and     *)
(* callers: the invariants of the event log, and that PeerEvents           *)
(* implements PeerView.                                                    *)
(***************************************************************************)
EXTENDS PeerEvents, TLAPS

\* The inductive invariant.
IInv == TypeOK /\ LogExact /\ NoLostWakeup

\* Every step keeps the types.
LEMMA StepTypeOK == TypeOK /\ [Next]_vars => TypeOK'
<1> SUFFICES ASSUME TypeOK, [Next]_vars PROVE TypeOK'
  OBVIOUS
<1> USE PeerEventsAssumption DEF PeerEventsAssumption, Entries
<1>1. CASE UNCHANGED vars
  BY <1>1 DEF TypeOK, vars
<1>2. ASSUME NEW p \in Peers, Join(p) \/ Leave(p) PROVE TypeOK'
  <2>1. PICK e \in {"join", "leave"} : notify(p, e)
    BY <1>2 DEF Join, Leave
  <2>2. \A s \in Subs : addEntry(evtLog[s][p], e) \in Entries
    BY DEF TypeOK, addEntry
  <2>3. evtLog' \in [Subs -> [Peers -> Entries]]
    BY <2>1, <2>2 DEF notify, TypeOK
  <2>4. evtLogCh' \in [Subs -> BOOLEAN]
    BY <2>1 DEF notify, TypeOK
  <2> QED
    BY <1>2, <2>3, <2>4 DEF Join, Leave, TypeOK
<1>3. ASSUME NEW s \in Subs, Subscribe(s) PROVE TypeOK'
  BY <1>3 DEF Subscribe, TypeOK
<1>4. ASSUME NEW s \in Subs, Cancel(s) PROVE TypeOK'
  BY <1>4 DEF Cancel, TypeOK
<1>5. ASSUME NEW n \in Callers, Call(n) PROVE TypeOK'
  BY <1>5 DEF Call, TypeOK
<1>6. ASSUME NEW n \in Callers, NEW p \in Peers, Pull(n, p) PROVE TypeOK'
  <2>1. SubOf[n] \in Subs
    OBVIOUS
  <2>2. resignal(SubOf[n], p) \in BOOLEAN
    BY DEF resignal
  <2>3. evtLog' \in [Subs -> [Peers -> Entries]] /\ evtLogCh' \in [Subs -> BOOLEAN]
    BY <1>6, <2>1, <2>2 DEF Pull, TypeOK
  <2>4. view' \in [Subs -> SUBSET Peers]
    BY <1>6, <2>1 DEF Pull, TypeOK
  <2> QED
    BY <1>6, <2>3, <2>4 DEF Pull, TypeOK
<1>7. ASSUME NEW n \in Callers, PullNothing(n) \/ Wake(n) \/ GiveUp(n) PROVE TypeOK'
  BY <1>7 DEF PullNothing, Wake, GiveUp, TypeOK
<1> QED
  BY <1>1, <1>2, <1>3, <1>4, <1>5, <1>6, <1>7 DEF Next, PullAny

\* The effect of a notification on the entry of a peer in a log.
LEMMA Notified ==
    ASSUME TypeOK, NEW p \in Peers, NEW e \in {"join", "leave"}, notify(p, e)
    PROVE  \A s \in Subs, q \in Peers :
              evtLog'[s][q] = IF status[s] = "live" /\ q = p THEN addEntry(evtLog[s][p], e)
                              ELSE evtLog[s][q]
BY DEF TypeOK, notify

\* Every step keeps LogExact.
LEMMA StepLogExact == TypeOK /\ LogExact /\ [Next]_vars => LogExact'
<1> SUFFICES ASSUME TypeOK, LogExact, [Next]_vars PROVE LogExact'
  OBVIOUS
<1>1. CASE UNCHANGED vars
  BY <1>1 DEF LogExact, vars
<1>2. ASSUME NEW p \in Peers, Join(p) PROVE LogExact'
  <2>1. p \notin members /\ members' = members \cup {p} /\ UNCHANGED <<status, view>>
    BY <1>2 DEF Join
  <2>2. \A s \in Subs, q \in Peers :
          evtLog'[s][q] = IF status[s] = "live" /\ q = p THEN addEntry(evtLog[s][p], "join")
                          ELSE evtLog[s][q]
    BY <1>2, Notified DEF Join
  <2>3. \A s \in Subs : evtLog[s][p] \in Entries
    BY DEF TypeOK
  <2> QED
    BY <2>1, <2>2, <2>3 DEF LogExact, addEntry, Entries
<1>3. ASSUME NEW p \in Peers, Leave(p) PROVE LogExact'
  <2>1. p \in members /\ members' = members \ {p} /\ UNCHANGED <<status, view>>
    BY <1>3 DEF Leave
  <2>2. \A s \in Subs, q \in Peers :
          evtLog'[s][q] = IF status[s] = "live" /\ q = p THEN addEntry(evtLog[s][p], "leave")
                          ELSE evtLog[s][q]
    BY <1>3, Notified DEF Leave
  <2>3. \A s \in Subs : evtLog[s][p] \in Entries
    BY DEF TypeOK
  <2> QED
    BY <2>1, <2>2, <2>3 DEF LogExact, addEntry, Entries
<1>4. ASSUME NEW s \in Subs, Subscribe(s) PROVE LogExact'
  <2>1. /\ \A q \in Peers : evtLog'[s][q] = IF q \in members THEN "join" ELSE "none"
        /\ \A r \in Subs \ {s} : evtLog'[r] = evtLog[r] /\ status'[r] = status[r]
        /\ status[s] = "new" /\ status'[s] = "live" /\ UNCHANGED <<members, view>>
    BY <1>4 DEF Subscribe, TypeOK
  <2> QED
    BY <2>1 DEF LogExact
<1>5. ASSUME NEW s \in Subs, Cancel(s) PROVE LogExact'
  <2>1. /\ \A r \in Subs \ {s} : status'[r] = status[r]
        /\ status'[s] = "cancelled" /\ UNCHANGED <<members, evtLog, view>>
    BY <1>5 DEF Cancel, TypeOK
  <2> QED
    BY <2>1 DEF LogExact
<1>6. ASSUME NEW n \in Callers, NEW p \in Peers, Pull(n, p) PROVE LogExact'
  <2>1. PICK s \in Subs : s = SubOf[n]
    BY PeerEventsAssumption DEF PeerEventsAssumption
  <2>2. evtLog[s][p] \in {"join", "leave"} /\ UNCHANGED <<members, status>>
    BY <1>6, <2>1 DEF Pull, pending, TypeOK, Entries
  <2>3. /\ evtLog'[s][p] = "none" /\ \A q \in Peers \ {p} : evtLog'[s][q] = evtLog[s][q]
        /\ \A r \in Subs \ {s} : evtLog'[r] = evtLog[r]
    BY <1>6, <2>1 DEF Pull, TypeOK
  <2>4. /\ view'[s] = IF evtLog[s][p] = "join" THEN view[s] \cup {p} ELSE view[s] \ {p}
        /\ \A r \in Subs \ {s} : view'[r] = view[r]
    BY <1>6, <2>1 DEF Pull, TypeOK
  <2> QED
    BY <2>2, <2>3, <2>4 DEF LogExact
<1>7. ASSUME NEW n \in Callers, Call(n) \/ PullNothing(n) \/ Wake(n) \/ GiveUp(n) PROVE LogExact'
  BY <1>7 DEF Call, PullNothing, Wake, GiveUp, LogExact
<1> QED
  BY <1>1, <1>2, <1>3, <1>4, <1>5, <1>6, <1>7 DEF Next, PullAny

\* Every step keeps NoLostWakeup.
LEMMA StepNoLostWakeup == TypeOK /\ NoLostWakeup /\ [Next]_vars => NoLostWakeup'
<1> SUFFICES ASSUME TypeOK, NoLostWakeup, [Next]_vars PROVE NoLostWakeup'
  OBVIOUS
<1>0. \A n \in Callers : SubOf[n] \in Subs
  BY PeerEventsAssumption DEF PeerEventsAssumption
<1>1. CASE UNCHANGED vars
  BY <1>1 DEF NoLostWakeup, vars, pending
<1>2. ASSUME NEW p \in Peers, NEW e \in {"join", "leave"}, notify(p, e), pc' = pc
      PROVE  NoLostWakeup'
  <2>1. \A s \in Subs : pending(s)' # {} => pending(s) # {} \/ evtLogCh'[s]
    <3> SUFFICES ASSUME NEW s \in Subs, NEW q \in pending(s)', pending(s) = {}
                 PROVE  evtLogCh'[s]
      OBVIOUS
    <3>1. evtLog[s][q] = "none" /\ evtLog'[s][q] # "none" /\ q \in Peers
      BY DEF pending
    <3>2. status[s] = "live" /\ q = p
      BY <1>2, <3>1, Notified
    <3> QED
      BY <1>2, <3>1, <3>2 DEF notify
  <2>2. \A s \in Subs : evtLogCh[s] => evtLogCh'[s]
    BY <1>2 DEF notify
  <2> QED
    BY <1>0, <1>2, <2>1, <2>2 DEF NoLostWakeup
<1>3. ASSUME NEW s \in Subs, Subscribe(s) PROVE NoLostWakeup'
  <2>1. \A n \in Callers : pc[n] = "wait" => SubOf[n] # s
    BY <1>3 DEF Subscribe, TypeOK
  <2>2. \A r \in Subs \ {s} : pending(r)' = pending(r)
    BY <1>3 DEF Subscribe, TypeOK, pending
  <2> QED
    BY <1>0, <1>3, <2>1, <2>2 DEF Subscribe, NoLostWakeup
<1>4. ASSUME NEW s \in Subs, Cancel(s) PROVE NoLostWakeup'
  BY <1>4 DEF Cancel, NoLostWakeup, pending
<1>5. ASSUME NEW n \in Callers, NEW p \in Peers, Pull(n, p) PROVE NoLostWakeup'
  <2>1. PICK s \in Subs : s = SubOf[n]
    BY <1>0
  <2>2. \A r \in Subs \ {s} : pending(r)' = pending(r) /\ evtLogCh'[r] = evtLogCh[r]
    BY <1>5, <2>1 DEF Pull, TypeOK, pending
  <2>3. pending(s)' = pending(s) \ {p}
    BY <1>5, <2>1 DEF Pull, TypeOK, pending
  <2>4. evtLogCh'[s] = (evtLogCh[s] \/ pending(s) # {p})
    BY <1>5, <2>1 DEF Pull, TypeOK, resignal
  <2>5. pending(s)' # {} => evtLogCh'[s]
    BY <2>3, <2>4
  <2>6. \A k \in Callers : k # n => pc'[k] = pc[k]
    BY <1>5 DEF Pull, TypeOK
  <2>7. pc'[n] = "out"
    BY <1>5 DEF Pull, TypeOK
  <2>8. ASSUME NEW k \in Callers, pc'[k] = "wait", pending(SubOf[k])' # {}, SubOf[k] # s
        PROVE  \/ evtLogCh'[SubOf[k]]
               \/ \E j \in Callers : SubOf[j] = SubOf[k] /\ pc'[j] = "pull"
    BY <1>0, <2>1, <2>2, <2>6, <2>7, <2>8 DEF NoLostWakeup
  <2> QED
    BY <2>5, <2>8 DEF NoLostWakeup
<1>6. ASSUME NEW n \in Callers, Call(n) \/ PullNothing(n) \/ Wake(n) \/ GiveUp(n)
      PROVE  NoLostWakeup'
  <2>1. \A s \in Subs : pending(s)' = pending(s)
    BY <1>6 DEF Call, PullNothing, Wake, GiveUp, pending
  <2>2. \A k \in Callers : k # n => pc'[k] = pc[k]
    BY <1>6 DEF Call, PullNothing, Wake, GiveUp, TypeOK
  <2>3. CASE Call(n) \/ GiveUp(n)
    <3>1. pc[n] # "pull" /\ pc'[n] # "wait" /\ evtLogCh' = evtLogCh
      BY <2>3 DEF Call, GiveUp, TypeOK
    <3> QED
      BY <1>0, <2>1, <2>2, <3>1 DEF NoLostWakeup
  <2>4. CASE PullNothing(n)
    <3>1. pending(SubOf[n]) = {} /\ evtLogCh' = evtLogCh
      BY <2>4 DEF PullNothing
    <3>2. ASSUME NEW k \in Callers, pc'[k] = "wait", pending(SubOf[k])' # {}
          PROVE  \/ evtLogCh'[SubOf[k]]
                 \/ \E j \in Callers : SubOf[j] = SubOf[k] /\ pc'[j] = "pull"
      <4>1. pending(SubOf[k]) # {}
        BY <1>0, <2>1, <3>2
      <4>2. SubOf[k] # SubOf[n]
        BY <3>1, <4>1
      <4>3. pc[k] = "wait"
        BY <2>2, <3>2, <4>2
      <4>4. PICK j \in Callers : evtLogCh[SubOf[k]] \/ (SubOf[j] = SubOf[k] /\ pc[j] = "pull")
        BY <4>1, <4>3 DEF NoLostWakeup
      <4> QED
        BY <2>2, <3>1, <4>2, <4>4
    <3> QED
      BY <3>2 DEF NoLostWakeup
  <2>5. CASE Wake(n)
    <3>1. /\ pc[n] = "wait" /\ pc'[n] = "pull"
          /\ \A s \in Subs : s # SubOf[n] => evtLogCh'[s] = evtLogCh[s]
      BY <2>5 DEF Wake, TypeOK
    <3> QED
      BY <1>0, <2>1, <2>2, <3>1 DEF NoLostWakeup
  <2> QED
    BY <1>6, <2>3, <2>4, <2>5
<1> QED
  BY <1>1, <1>2, <1>3, <1>4, <1>5, <1>6 DEF Next, PullAny, Join, Leave

\* Types, exactness of the log and wakeups, in every behaviour.
THEOREM Invariant == Spec => []IInv
<1>1. Init => IInv
  BY PeerEventsAssumption
  DEF PeerEventsAssumption, Init, IInv, TypeOK, LogExact, NoLostWakeup, Entries
<1>2. IInv /\ [Next]_vars => IInv'
  BY StepTypeOK, StepLogExact, StepNoLostWakeup DEF IInv
<1> QED
  BY <1>1, <1>2, PTL DEF Spec

\* Type correctness.
THEOREM TypeCorrect == Spec => []TypeOK
BY Invariant, PTL DEF IInv

\* The log is the difference between what was reported and what is so.
THEOREM Exact == Spec => []LogExact
BY Invariant, PTL DEF IInv

\* A caller that waits beside a log with events in it is going to be woken.
THEOREM Wakeups == Spec => []NoLostWakeup
BY Invariant, PTL DEF IInv

\* A change of the membership is a Change of PeerView.
LEMMA ChangeRefines ==
    ASSUME TypeOK, LogExact, LogExact', NEW p \in Peers, NEW e \in {"join", "leave"},
           notify(p, e), UNCHANGED <<status, view>>, TypeOK'
    PROVE  View!Change(members')
<1>1. ASSUME NEW s \in Subs, status[s] = "live" PROVE truth'[s] = members'
  <2>1. status'[s] = "live"
    BY <1>1
  <2> QED
    BY <2>1 DEF TypeOK, LogExact, truth
<1>2. ASSUME NEW s \in Subs, status[s] # "live" PROVE truth'[s] = truth[s]
  <2>1. evtLog'[s] = evtLog[s]
    BY <1>2 DEF notify
  <2> QED
    BY <2>1 DEF truth
<1>3. truth' = [s \in Subs |-> IF status[s] = "live" THEN members' ELSE truth[s]]
  <2>1. truth' = [s \in Subs |-> truth'[s]]
    BY DEF truth
  <2> QED
    BY <1>1, <1>2, <2>1, Zenon
<1> QED
  BY <1>3 DEF View!Change, View!Live

\* Pull reports the peer of the entry.
LEMMA PullRefines ==
    ASSUME TypeOK, LogExact, NEW n \in Callers, NEW p \in Peers, Pull(n, p)
    PROVE  View!Report(SubOf[n], p)
<1>1. PICK s \in Subs : s = SubOf[n]
  BY PeerEventsAssumption DEF PeerEventsAssumption
<1>2. evtLog[s][p] \in {"join", "leave"} /\ UNCHANGED <<members, status>>
  BY <1>1 DEF Pull, pending, TypeOK, Entries
<1>3. evtLog[s][p] = "join" <=> p \in truth[s]
  BY <1>2 DEF truth
<1>4. (p \in view[s]) # (p \in truth[s])
  BY <1>2, <1>3 DEF LogExact
<1>5. view' = [view EXCEPT ![s] = IF p \in truth[s] THEN @ \cup {p} ELSE @ \ {p}]
  BY <1>1, <1>3 DEF Pull
<1>6. \A r \in Subs : truth'[r] = truth[r]
  <2>1. /\ evtLog'[s][p] = "none" /\ \A q \in Peers \ {p} : evtLog'[s][q] = evtLog[s][q]
        /\ \A r \in Subs \ {s} : evtLog'[r] = evtLog[r]
    BY <1>1 DEF Pull, TypeOK
  <2>2. /\ view'[s] = IF evtLog[s][p] = "join" THEN view[s] \cup {p} ELSE view[s] \ {p}
        /\ \A r \in Subs \ {s} : view'[r] = view[r]
    BY <1>1 DEF Pull, TypeOK
  <2>3. truth'[s] = truth[s]
    BY <1>2, <2>1, <2>2 DEF truth
  <2>4. \A r \in Subs \ {s} : truth'[r] = truth[r]
    BY <2>1, <2>2 DEF truth
  <2> QED
    BY <2>3, <2>4
<1>7. truth' = truth
  BY <1>6 DEF truth
<1> QED
  BY <1>1, <1>2, <1>4, <1>5, <1>7 DEF View!Report

\* Subscribe fills the log with the members, so that nothing is missing from truth.
LEMMA SubscribeRefines ==
    ASSUME TypeOK, LogExact, NEW s \in Subs, Subscribe(s)
    PROVE  View!Subscribe(s)
<1>1. /\ \A q \in Peers : evtLog'[s][q] = IF q \in members THEN "join" ELSE "none"
      /\ \A r \in Subs \ {s} : evtLog'[r] = evtLog[r]
      /\ status[s] = "new" /\ UNCHANGED <<members, view>>
      /\ status' = [status EXCEPT ![s] = "live"]
  BY DEF Subscribe, TypeOK
<1>2. truth'[s] = members
  BY <1>1 DEF truth, TypeOK, LogExact
<1>3. \A r \in Subs \ {s} : truth'[r] = truth[r]
  BY <1>1 DEF truth
<1>4. truth' = [truth EXCEPT ![s] = members]
  BY <1>2, <1>3 DEF truth
<1> QED
  BY <1>1, <1>4 DEF View!Subscribe

\* PeerEvents implements PeerView, for any number of callers: a report is
\* true when it is made, and reports about a peer alternate.
THEOREM Refinement == Spec => Refines
<1>1. Init => View!Init
  BY DEF Init, View!Init, truth
<1>2. IInv /\ IInv' /\ [Next]_vars => [View!Next]_View!vars
  <2> SUFFICES ASSUME IInv, IInv', [Next]_vars PROVE [View!Next]_View!vars
    OBVIOUS
  <2> USE DEF IInv
  <2>1. CASE UNCHANGED vars
    BY <2>1 DEF vars, View!vars, truth
  <2>2. ASSUME NEW p \in Peers, Join(p) PROVE View!Next
    <3>1. View!Change(members')
      BY <2>2, ChangeRefines DEF Join
    <3> QED
      BY <2>2, <3>1 DEF Join, View!Next
  <2>3. ASSUME NEW p \in Peers, Leave(p) PROVE View!Next
    <3>1. View!Change(members')
      BY <2>3, ChangeRefines DEF Leave
    <3> QED
      BY <2>3, <3>1 DEF Leave, View!Next
  <2>4. ASSUME NEW s \in Subs, Subscribe(s) PROVE View!Next
    BY <2>4, SubscribeRefines DEF View!Next
  <2>5. ASSUME NEW s \in Subs, Cancel(s) PROVE View!Next
    <3>1. UNCHANGED <<members, truth, view>>
      BY <2>5 DEF Cancel, truth
    <3> QED
      BY <2>5, <3>1 DEF Cancel, View!Cancel, View!Next
  <2>6. ASSUME NEW n \in Callers, NEW p \in Peers, Pull(n, p) PROVE View!Next
    <3>1. SubOf[n] \in Subs
      BY PeerEventsAssumption DEF PeerEventsAssumption
    <3> QED
      BY <2>6, <3>1, PullRefines DEF View!Next
  <2>7. ASSUME NEW n \in Callers, Call(n) \/ PullNothing(n) \/ Wake(n) \/ GiveUp(n)
        PROVE  UNCHANGED View!vars
    BY <2>7 DEF Call, PullNothing, Wake, GiveUp, View!vars, truth
  <2> QED
    BY <2>1, <2>2, <2>3, <2>4, <2>5, <2>6, <2>7 DEF Next, PullAny
<1> QED
  BY <1>1, <1>2, Invariant, PTL DEF Spec, View!Spec, Refines
=============================================================================
