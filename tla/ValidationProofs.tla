-------------------------- MODULE ValidationProofs --------------------------
(***************************************************************************)
(* Proofs about Validation, for any number of copies, ids, topics,         *)
(* validators and workers, any capacities and any history of expiries.     *)
(***************************************************************************)
EXTENDS Validation, FiniteSetTheorems, SequenceTheorems, TLAPS

\* The values in Next range over these sets (the disjuncts of Next, named).
Steps ==
    \/ \E t \in Topics : Subscription(t)
    \/ \E t \in Topics : RemoveValidator(t)
    \/ \E p \in Peers : BlacklistPeer(p)
    \/ \E v \in Vals : AddValidator(v)
    \/ \E c \in Copies, m \in Messages : Publish(c, m)
    \/ \E c \in Copies, m \in Messages, p \in Peers : Receive(c, p, m)
    \/ PushDirect
    \/ PublishMessage
    \/ Cancel
    \/ \E i \in Ids : Expire(i)
    \/ \E w \in Workers : WorkerTake(w)
    \/ \E w \in Workers : WorkerExit(w)
    \/ \E w \in Workers : CheckSignature(w)
    \/ \E w \in Workers : RunInline(w)
    \/ \E w \in Workers : Dispatch(w)
    \/ \E w \in Workers : WorkerSend(w)
    \/ \E c \in Copies : SpawnValidator(c)
    \/ \E c \in Copies : Collect(c)
    \/ \E c \in Copies : AsyncSend(c)
    \/ \E c \in Copies : ReleaseGlobal(c)
    \/ \E c \in Copies, v \in Calls : FinishValidator(c, v)
    \/ \E c \in Copies, v \in Calls : ReleaseValidator(c, v)

\* Next, with one disjunct for each step of the code.
LEMMA NextSteps == Next => Steps
BY DEF Next, Steps, WorkerStep, TaskStep, ValidatorStep

\* Both ways into the pipeline go through pushMsg, from a host.
LEMMA PushSource ==
    ASSUME NEW c \in Copies, NEW m \in Messages,
           Publish(c, m) \/ \E p \in Peers : Receive(c, p, m)
    PROVE  \E src \in Hosts : pushMsg(c, src, m)
BY DEF Publish, Receive, Hosts

\* The initial state is of the declared types.
LEMMA InitTypeOK == Init => TypeOK
<1> SUFFICES ASSUME Init PROVE TypeOK
  OBVIOUS
<1>1. Entered = {}
  BY DEF Init, Entered
<1>2. /\ stage \in [Copies -> Stages] /\ req \in [Copies -> Requests \cup {NoReq}]
      /\ worker \in [Workers -> Copies \cup {Idle, Gone}] /\ loop \in Entered \cup {Idle}
  BY DEF Init, Stages
<1>3. validateQ \in Seq(Entered) /\ sendMsg \in Seq(Entered)
  BY DEF Init
<1>4. /\ todo \in [Copies -> SUBSET Calls]
      /\ passed \in [Copies -> SUBSET Calls] /\ failed \in [Copies -> SUBSET Calls]
  BY DEF Init
<1>5. window \in [Ids -> Nat] /\ mark \in [Copies -> Nat]
  BY DEF Init
<1> QED
  BY <1>1, <1>2, <1>3, <1>4, <1>5 DEF Init, TypeOK

\* What the validators of a message are.
LEMMA ValidatorsAreVals ==
    ASSUME TypeOK, NEW m \in Messages
    PROVE  getValidators(m) \in SUBSET Calls
BY DEF getValidators

\* The queues stay well-typed when more copies have entered.
LEMMA EnteredGrows ==
    ASSUME TypeOK, Entered \subseteq Entered'
    PROVE  /\ validateQ \in Seq(Entered') /\ sendMsg \in Seq(Entered')
           /\ loop \in Entered' \cup {Idle}
<1>1. validateQ \in Seq(Entered) /\ sendMsg \in Seq(Entered) /\ loop \in Entered \cup {Idle}
  BY DEF TypeOK
<1> QED
  BY <1>1, SeqMonotonic

\* A copy may be moved to any stage but "new".
LEMMA MoveTypeOK ==
    ASSUME TypeOK, NEW c \in Copies, NEW s \in Stages \ {"new"}, MoveTo(c, s)
    PROVE  /\ stage' \in [Copies -> Stages]
           /\ Entered' = Entered \cup {c}
BY DEF TypeOK, MoveTo, Entered

\* Moving a copy that has entered.
LEMMA MoveEntered ==
    ASSUME TypeOK, NEW c \in Entered, NEW s \in Stages \ {"new"}, MoveTo(c, s), req' = req
    PROVE  /\ stage' \in [Copies -> Stages] /\ req' \in [Copies -> Requests \cup {NoReq}]
           /\ Entered' = Entered
           /\ \A d \in Entered' : req'[d] \in Requests
<1>1. c \in Copies /\ c \in Entered
  BY DEF Entered
<1>2. stage' \in [Copies -> Stages] /\ Entered' = Entered
  BY <1>1, MoveTypeOK
<1> QED
  BY <1>2 DEF TypeOK

\* What is known of a copy that has entered.
LEMMA RequestOf ==
    ASSUME TypeOK, NEW c \in Entered
    PROVE  /\ c \in Copies /\ msgID(c) \in Ids /\ req[c].vals \in SUBSET Calls
           /\ inlineVals(req[c].vals) \in SUBSET Calls
           /\ asyncVals(req[c].vals) \in SUBSET Calls
BY ValidationAssumption
DEF ValidationAssumption, TypeOK, Entered, Requests, msgID, inlineVals, asyncVals

\* Replacing, extending or reducing the set that a map holds for one copy.
LEMMA SetOfCopy ==
    ASSUME NEW f \in [Copies -> SUBSET Calls], NEW c \in Copies, NEW V \in SUBSET Calls
    PROVE  /\ [f EXCEPT ![c] = V] \in [Copies -> SUBSET Calls]
           /\ [f EXCEPT ![c] = @ \cup V] \in [Copies -> SUBSET Calls]
           /\ [f EXCEPT ![c] = @ \ V] \in [Copies -> SUBSET Calls]
<1>1. f[c] \cup V \in SUBSET Calls /\ f[c] \ V \in SUBSET Calls
  OBVIOUS
<1> QED
  BY <1>1

\* The same for the maps of TypeOK.
LEMMA VerdictTypeOK ==
    ASSUME TypeOK, NEW c \in Copies, NEW v \in Calls
    PROVE  /\ [todo EXCEPT ![c] = @ \ {v}] \in [Copies -> SUBSET Calls]
           /\ [passed EXCEPT ![c] = @ \cup {v}] \in [Copies -> SUBSET Calls]
           /\ [failed EXCEPT ![c] = @ \cup {v}] \in [Copies -> SUBSET Calls]
<1>1. {v} \in SUBSET Calls
  OBVIOUS
<1>2. /\ todo \in [Copies -> SUBSET Calls] /\ passed \in [Copies -> SUBSET Calls]
      /\ failed \in [Copies -> SUBSET Calls]
  BY DEF TypeOK
<1> QED
  BY <1>1, <1>2, SetOfCopy

\* markSeen keeps the types.
LEMMA MarkTypeOK ==
    ASSUME TypeOK, NEW c \in Entered, NEW s \in Stages \ {"new"}, markSeen(c, s), req' = req
    PROVE  /\ seen' \subseteq Ids /\ window' \in [Ids -> Nat] /\ mark' \in [Copies -> Nat]
           /\ stage' \in [Copies -> Stages] /\ req' \in [Copies -> Requests \cup {NoReq}]
           /\ Entered' = Entered
           /\ \A d \in Entered' : req'[d] \in Requests
<1>1. "dropped" \in Stages \ {"new"}
  BY DEF Stages
<1>2. window[msgID(c)] + 1 \in Nat
  BY RequestOf DEF TypeOK
<1>3. \E r \in Stages \ {"new"} : MoveTo(c, r)
  BY <1>1 DEF markSeen
<1>4. seen' \subseteq Ids /\ window' \in [Ids -> Nat] /\ mark' \in [Copies -> Nat]
  BY <1>2, RequestOf DEF markSeen, TypeOK, seenVars
<1> QED
  BY <1>3, <1>4, MoveEntered

\* pushMsg keeps the types.
LEMMA PushTypeOK ==
    ASSUME TypeOK, NEW c \in Copies, NEW m \in Messages, NEW src \in Hosts,
           pushMsg(c, src, m)
    PROVE  TypeOK'
<1>1. [src |-> src, msg |-> m, vals |-> getValidators(m)] \in Requests
  BY ValidatorsAreVals DEF Requests
<1>2. req' \in [Copies -> Requests \cup {NoReq}] /\ req'[c] \in Requests
      /\ \A d \in Copies \ {c} : req'[d] = req[d]
  BY <1>1 DEF pushMsg, Push, TypeOK
<1>3. PICK s \in Stages \ {"new"} : MoveTo(c, s)
  BY DEF pushMsg, Push, Stages
<1>4. stage' \in [Copies -> Stages] /\ Entered' = Entered \cup {c}
  BY <1>3, MoveTypeOK
<1>5. loop' \in Entered' \cup {Idle} /\ validateQ' \in Seq(Entered') /\ sendMsg \in Seq(Entered')
  <2>1. validateQ' = validateQ \/ validateQ' = Append(validateQ, c)
    BY DEF pushMsg, Push
  <2>2. loop' = loop \/ loop' = c
    BY DEF pushMsg, Push
  <2>3. c \in Entered' /\ Entered \subseteq Entered'
    BY <1>4
  <2>4. loop \in Entered' \cup {Idle}
    BY <2>3 DEF TypeOK
  <2>5. validateQ \in Seq(Entered') /\ sendMsg \in Seq(Entered')
    BY <2>3, EnteredGrows
  <2>6. Append(validateQ, c) \in Seq(Entered')
    BY <2>3, <2>5
  <2> QED
    BY <2>1, <2>2, <2>3, <2>4, <2>5, <2>6
<1>6. \A d \in Entered' : req'[d] \in Requests
  BY <1>2, <1>4 DEF TypeOK, Entered
<1>7. UNCHANGED <<confVars, seenVars, asyncVars, verdictVars, worker, sendMsg, done>>
  BY DEF pushMsg
<1> QED
  BY <1>2, <1>4, <1>5, <1>6, <1>7
  DEF TypeOK, confVars, seenVars, asyncVars, verdictVars

\* Every step keeps the types.
LEMMA NextTypeOK == TypeOK /\ [Next]_vars => TypeOK'
<1> SUFFICES ASSUME TypeOK, [Next]_vars PROVE TypeOK'
  OBVIOUS
<1>1. CASE UNCHANGED vars
  BY <1>1 DEF TypeOK, Entered, vars, confVars, seenVars, asyncVars, verdictVars
<1>2. ASSUME NEW t \in Topics, Subscription(t) PROVE TypeOK'
  BY <1>2 DEF Subscription, TypeOK, Entered, confVars, seenVars, asyncVars, verdictVars
<1>3. ASSUME NEW t \in Topics, RemoveValidator(t) PROVE TypeOK'
  BY <1>3 DEF RemoveValidator, TypeOK, Entered, confVars, seenVars, asyncVars, verdictVars
<1>4. ASSUME NEW p \in Peers, BlacklistPeer(p) PROVE TypeOK'
  BY <1>4 DEF BlacklistPeer, TypeOK, Entered, confVars, seenVars, asyncVars, verdictVars
<1>5. ASSUME NEW v \in Vals, AddValidator(v) PROVE TypeOK'
  BY <1>5 DEF AddValidator, TypeOK, Entered, confVars, seenVars, asyncVars, verdictVars
<1>6. ASSUME NEW c \in Copies, NEW m \in Messages,
             Publish(c, m) \/ \E p \in Peers : Receive(c, p, m)
      PROVE  TypeOK'
  BY <1>6, PushSource, PushTypeOK
<1>7. CASE PushDirect
  <2>1. loop \in Entered /\ "published" \in Stages \ {"new"}
    BY <1>7, ValidationAssumption DEF ValidationAssumption, PushDirect, TypeOK, Entered, Stages
  <2>2. markSeen(loop, "published") /\ req' = req /\ loop' = Idle
    BY <1>7 DEF PushDirect
  <2>3. UNCHANGED <<confVars, asyncVars, verdictVars, validateQ, worker, sendMsg, done>>
    BY <1>7 DEF PushDirect
  <2> QED
    BY <2>1, <2>2, <2>3, MarkTypeOK DEF TypeOK, confVars, asyncVars, verdictVars
<1>8. CASE PublishMessage
  BY <1>8 DEF PublishMessage, MoveTo, Stages,
              TypeOK, Entered, confVars, seenVars, asyncVars, verdictVars
<1>9. CASE Cancel
  BY <1>9 DEF Cancel, TypeOK, Entered, confVars, seenVars, asyncVars, verdictVars
<1>10. ASSUME NEW i \in Ids, Expire(i) PROVE TypeOK'
  BY <1>10 DEF Expire, TypeOK, Entered, confVars, seenVars, asyncVars, verdictVars
<1>11. ASSUME NEW w \in Workers, WorkerTake(w) PROVE TypeOK'
  BY <1>11 DEF WorkerTake, MoveTo, Stages,
               TypeOK, Entered, confVars, seenVars, asyncVars, verdictVars
<1>12. ASSUME NEW w \in Workers, WorkerExit(w) PROVE TypeOK'
  BY <1>12 DEF WorkerExit, TypeOK, Entered, confVars, seenVars, asyncVars, verdictVars
<1>13. ASSUME NEW w \in Workers, CheckSignature(w) PROVE TypeOK'
  <2> DEFINE c == worker[w]
  <2>1. c \in Entered /\ {"dropped", "inline"} \subseteq Stages \ {"new"}
    BY <1>13 DEF CheckSignature, Entered, Stages
  <2>2. UNCHANGED <<confVars, asyncVars, passed, failed, invoked,
                    loop, validateQ, sendMsg, req, done>>
    BY <1>13 DEF CheckSignature
  <2>3. worker' \in [Workers -> Copies \cup {Idle, Gone}] /\ todo' \in [Copies -> SUBSET Calls]
    <3>1. worker' = worker \/ worker' = [worker EXCEPT ![w] = Idle]
      BY <1>13 DEF CheckSignature, Free
    <3>2. todo' = todo \/ todo' = [todo EXCEPT ![c] = inlineVals(req[c].vals)]
      BY <1>13 DEF CheckSignature
    <3>3. worker' \in [Workers -> Copies \cup {Idle, Gone}]
      BY <3>1 DEF TypeOK
    <3>4. todo \in [Copies -> SUBSET Calls] /\ inlineVals(req[c].vals) \in SUBSET Calls /\ c \in Copies
      BY <2>1, RequestOf DEF TypeOK
    <3> HIDE DEF c
    <3> QED
      BY <3>2, <3>3, <3>4, SetOfCopy
  <2>4. \/ MoveTo(c, "dropped") /\ UNCHANGED seenVars
        \/ markSeen(c, "inline")
    BY <1>13 DEF CheckSignature
  <2>5. /\ seen' \subseteq Ids /\ window' \in [Ids -> Nat] /\ mark' \in [Copies -> Nat]
        /\ stage' \in [Copies -> Stages] /\ req' \in [Copies -> Requests \cup {NoReq}]
        /\ Entered' = Entered
        /\ \A d \in Entered' : req'[d] \in Requests
    <3>1. CASE markSeen(c, "inline")
      BY <2>1, <2>2, <3>1, MarkTypeOK
    <3>2. CASE MoveTo(c, "dropped") /\ UNCHANGED seenVars
      BY <2>1, <2>2, <3>2, MoveEntered DEF TypeOK, seenVars
    <3> QED
      BY <2>4, <3>1, <3>2
  <2> QED
    BY <2>2, <2>3, <2>5 DEF TypeOK, confVars, asyncVars
<1>14. ASSUME NEW w \in Workers, RunInline(w) PROVE TypeOK'
  <2> DEFINE c == worker[w]
  <2>1. c \in Entered /\ c \in Copies /\ "dropped" \in Stages \ {"new"}
    BY <1>14 DEF RunInline, Entered, Stages
  <2>2. UNCHANGED <<confVars, seenVars, asyncVars, loop, validateQ, sendMsg, req, done>>
    BY <1>14 DEF RunInline
  <2>3. PICK v \in todo[c] :
          /\ invoked' = invoked \cup {<<c, v>>}
          /\ todo' = [todo EXCEPT ![c] = @ \ {v}]
          /\ passed' \in {passed, [passed EXCEPT ![c] = @ \cup {v}]}
          /\ failed' \in {failed, [failed EXCEPT ![c] = @ \cup {v}]}
    BY <1>14 DEF RunInline
  <2>4. v \in Calls
    BY <2>1, <2>3 DEF TypeOK
  <2>5. /\ invoked' \subseteq Copies \X Calls /\ todo' \in [Copies -> SUBSET Calls]
        /\ passed' \in [Copies -> SUBSET Calls] /\ failed' \in [Copies -> SUBSET Calls]
    <3>1. <<c, v>> \in Copies \X Calls /\ invoked \subseteq Copies \X Calls
      BY <2>1, <2>4 DEF TypeOK
    <3>2. passed \in [Copies -> SUBSET Calls] /\ failed \in [Copies -> SUBSET Calls]
      BY DEF TypeOK
    <3> HIDE DEF c
    <3> QED
      BY <2>1, <2>3, <2>4, <3>1, <3>2, VerdictTypeOK
  <2>6. \/ worker' = worker /\ stage' = stage
        \/ Free(w) /\ MoveTo(c, "dropped")
    BY <1>14 DEF RunInline
  <2>7. /\ worker' \in [Workers -> Copies \cup {Idle, Gone}]
        /\ stage' \in [Copies -> Stages] /\ Entered' = Entered
    BY <2>1, <2>2, <2>6, MoveEntered DEF TypeOK, Entered, Free
  <2> QED
    BY <2>2, <2>5, <2>7 DEF TypeOK, confVars, seenVars, asyncVars
<1>15. ASSUME NEW w \in Workers, Dispatch(w) PROVE TypeOK'
  <2> DEFINE c == worker[w]
  <2>1. c \in Entered /\ c \in Copies /\ {"wsend", "spawn", "dropped"} \subseteq Stages \ {"new"}
    BY <1>15 DEF Dispatch, Entered, Stages
  <2>2. UNCHANGED <<confVars, seenVars, vheld, running, passed, failed, invoked,
                    loop, validateQ, sendMsg, req, done>>
    BY <1>15 DEF Dispatch
  <2>3. /\ worker' \in {worker, [worker EXCEPT ![w] = Idle]}
        /\ gheld' \in {gheld, gheld \cup {c}}
        /\ todo' \in {todo, [todo EXCEPT ![c] = asyncVals(req[c].vals)]}
    BY <1>15 DEF Dispatch, Free
  <2>4. /\ worker' \in [Workers -> Copies \cup {Idle, Gone}]
        /\ gheld' \subseteq Copies /\ todo' \in [Copies -> SUBSET Calls]
    <3>1. worker' \in [Workers -> Copies \cup {Idle, Gone}]
      BY <2>3 DEF TypeOK
    <3>2. /\ todo \in [Copies -> SUBSET Calls] /\ gheld \subseteq Copies
          /\ asyncVals(req[c].vals) \in SUBSET Calls
      BY <2>1, RequestOf DEF TypeOK
    <3> HIDE DEF c
    <3> QED
      BY <2>1, <2>3, <3>1, <3>2, SetOfCopy
  <2>5. \E s \in Stages \ {"new"} : MoveTo(c, s)
    BY <1>15, <2>1 DEF Dispatch
  <2>6. stage' \in [Copies -> Stages] /\ Entered' = Entered
    BY <2>1, <2>2, <2>5, MoveEntered
  <2> QED
    BY <2>2, <2>4, <2>6 DEF TypeOK, confVars, seenVars
<1>16. ASSUME NEW w \in Workers, WorkerSend(w) PROVE TypeOK'
  BY <1>16 DEF WorkerSend, Send, MoveTo, Free, Stages,
               TypeOK, Entered, confVars, seenVars, asyncVars, verdictVars
<1>17. ASSUME NEW c \in Copies, SpawnValidator(c) PROVE TypeOK'
  <2>1. c \in Entered /\ {"collect", "dropped"} \subseteq Stages \ {"new"}
    BY <1>17 DEF SpawnValidator, Entered, Stages
  <2>2. UNCHANGED <<confVars, seenVars, gheld, passed, failed,
                    loop, validateQ, worker, sendMsg, req, done>>
    BY <1>17 DEF SpawnValidator
  <2>3. stage' = stage \/ \E s \in Stages \ {"new"} : MoveTo(c, s)
    BY <1>17, <2>1 DEF SpawnValidator
  <2>4. stage' \in [Copies -> Stages] /\ Entered' = Entered
    BY <2>1, <2>2, <2>3, MoveEntered DEF TypeOK, Entered
  <2>5. PICK v \in todo[c] :
          \/ UNCHANGED <<vheld, running, invoked, todo>>
          \/ /\ vheld' = vheld \cup {<<c, v>>} /\ running' = running \cup {<<c, v>>}
             /\ invoked' = invoked \cup {<<c, v>>} /\ todo' = [todo EXCEPT ![c] = @ \ {v}]
    BY <1>17 DEF SpawnValidator
  <2>6. v \in Calls
    BY <2>5 DEF TypeOK
  <2>7. /\ todo' \in [Copies -> SUBSET Calls] /\ running' \subseteq vheld'
        /\ vheld' \subseteq Copies \X Calls /\ invoked' \subseteq Copies \X Calls
    <3>1. /\ <<c, v>> \in Copies \X Calls /\ running \subseteq vheld
          /\ invoked \subseteq Copies \X Calls /\ vheld \subseteq Copies \X Calls
          /\ todo \in [Copies -> SUBSET Calls]
      BY <2>6 DEF TypeOK
    <3> QED
      BY <2>5, <2>6, <3>1, VerdictTypeOK
  <2> QED
    BY <2>2, <2>4, <2>7 DEF TypeOK, confVars, seenVars
<1>18. ASSUME NEW c \in Copies, Collect(c) PROVE TypeOK'
  <2>1. c \in Entered /\ {"asend", "dropped"} \subseteq Stages \ {"new"}
    BY <1>18 DEF Collect, Entered, Stages
  <2>2. UNCHANGED <<confVars, seenVars, asyncVars, verdictVars,
                    loop, validateQ, worker, sendMsg, req, done>>
    BY <1>18 DEF Collect
  <2>3. \E s \in Stages \ {"new"} : MoveTo(c, s)
    BY <1>18, <2>1 DEF Collect
  <2>4. stage' \in [Copies -> Stages] /\ Entered' = Entered
    BY <2>1, <2>2, <2>3, MoveEntered
  <2> QED
    BY <2>2, <2>4 DEF TypeOK, confVars, seenVars, asyncVars, verdictVars
<1>19. ASSUME NEW c \in Copies, AsyncSend(c) PROVE TypeOK'
  BY <1>19 DEF AsyncSend, Send, MoveTo, Stages,
               TypeOK, Entered, confVars, seenVars, asyncVars, verdictVars
<1>20. ASSUME NEW c \in Copies, ReleaseGlobal(c) PROVE TypeOK'
  BY <1>20 DEF ReleaseGlobal, TypeOK, Entered, confVars, seenVars, asyncVars, verdictVars
<1>21. ASSUME NEW c \in Copies, NEW v \in Calls, FinishValidator(c, v) PROVE TypeOK'
  <2>1. UNCHANGED <<confVars, seenVars, gheld, todo, invoked,
                    loop, validateQ, worker, sendMsg, req, stage, done>>
    BY <1>21 DEF FinishValidator
  <2>2. /\ running' = running \ {<<c, v>>}
        /\ vheld' \in {vheld, vheld \ {<<c, v>>}}
        /\ passed' \in {passed, [passed EXCEPT ![c] = @ \cup {v}]}
        /\ failed' \in {failed, [failed EXCEPT ![c] = @ \cup {v}]}
    BY <1>21 DEF FinishValidator
  <2>3. /\ running' \subseteq vheld' /\ vheld' \subseteq Copies \X Calls
        /\ passed' \in [Copies -> SUBSET Calls] /\ failed' \in [Copies -> SUBSET Calls]
    <3>1. /\ running \subseteq vheld /\ vheld \subseteq Copies \X Calls
          /\ passed \in [Copies -> SUBSET Calls] /\ failed \in [Copies -> SUBSET Calls]
      BY DEF TypeOK
    <3> QED
      BY <2>2, <3>1, VerdictTypeOK
  <2> QED
    BY <2>1, <2>3 DEF TypeOK, Entered, confVars, seenVars
<1>22. ASSUME NEW c \in Copies, NEW v \in Calls, ReleaseValidator(c, v) PROVE TypeOK'
  BY <1>22 DEF ReleaseValidator, isDone, TypeOK, Entered, confVars, seenVars, asyncVars, verdictVars
<1> QED
  BY NextSteps, <1>1, <1>2, <1>3, <1>4, <1>5, <1>6, <1>7, <1>8, <1>9, <1>10, <1>11, <1>12,
     <1>13, <1>14, <1>15, <1>16, <1>17, <1>18, <1>19, <1>20, <1>21, <1>22 DEF Steps

\* Type correctness of the message pipeline.
THEOREM TypeCorrect == Spec => []TypeOK
BY InitTypeOK, NextTypeOK, PTL DEF Spec

-----------------------------------------------------------------------------
(* An id is marked at most once in a window *)

\* markSeen gives a copy a mark that no other copy of its id has: the id was
\* not in the cache, so that no copy is marked for the current window.
LEMMA MarkOnce ==
    ASSUME TypeOK, MarkInv, NEW c \in Entered, NEW s \in Stages \ {"new"},
           markSeen(c, s), req' = req, invoked' = invoked, sendMsg' = sendMsg
    PROVE  MarkInv'
<1> DEFINE i == msgID(c)
<1>0. c \in Copies /\ i \in Ids /\ window' = window
  BY RequestOf DEF markSeen, seenVars
<1>1. CASE UNCHANGED seenVars /\ MoveTo(c, "dropped")
  BY <1>0, <1>1 DEF MarkInv, TypeOK, Entered, Marked, MoveTo, msgID, seenVars
<1>2. CASE /\ i \notin seen /\ seen' = seen \cup {i}
           /\ mark' = [mark EXCEPT ![c] = window[i] + 1] /\ MoveTo(c, s)
  <2>1. /\ window[i] \in Nat /\ mark'[c] = window[i] + 1
        /\ \A d \in Copies \ {c} : mark'[d] = mark[d]
        /\ \A d \in Copies : msgID(d)' = msgID(d) /\ mark[d] \in Nat
    BY <1>0, <1>2 DEF TypeOK, msgID
  <2>2. \A d \in Copies : stage'[d] # "new" \/ (stage[d] = "new" /\ d # c)
    BY <1>0, <1>2 DEF TypeOK, MoveTo
  <2>3. \A d \in Copies : stage'[d] \in Marked => d = c \/ stage[d] \in Marked
    BY <1>0, <1>2 DEF TypeOK, MoveTo
  <2>4. \A d \in Copies : mark[d] # 0 /\ msgID(d) = i => mark[d] # window[i] + 1
    BY <1>2 DEF MarkInv
  <2> QED
    BY <1>0, <1>2, <2>1, <2>2, <2>3, <2>4 DEF MarkInv, TypeOK
<1> QED
  BY <1>1, <1>2 DEF markSeen

\* A step that marks nothing keeps MarkInv when it moves only marked copies to
\* the stages beyond markSeen, and only marked copies reach validators or sendMsg.
LEMMA MarkKept ==
    ASSUME TypeOK, MarkInv, UNCHANGED seenVars,
           \A d \in Copies : stage'[d] = "new" => stage[d] = "new",
           \A d \in Copies : stage'[d] \in Marked => mark[d] # 0,
           \A d \in Copies : mark[d] # 0 => req'[d] = req[d],
           \A x \in invoked' : mark[x[1]] # 0,
           \A n \in 1..Len(sendMsg') : mark[sendMsg'[n]] # 0
    PROVE  MarkInv'
<1>1. seen' = seen /\ window' = window /\ mark' = mark
  BY DEF seenVars
<1>2. \A d \in Copies : mark[d] # 0 => msgID(d)' = msgID(d)
  BY DEF msgID
<1> QED
  BY <1>1, <1>2 DEF MarkInv

\* The same, for a step that moves one copy that has entered.
LEMMA MarkMoved ==
    ASSUME TypeOK, MarkInv, UNCHANGED <<seenVars, req, invoked>>,
           NEW c \in Entered, NEW s \in Stages \ {"new"}, MoveTo(c, s),
           s \in Marked => mark[c] # 0,
           \A n \in 1..Len(sendMsg') : mark[sendMsg'[n]] # 0
    PROVE  MarkInv'
<1>1. c \in Copies /\ stage[c] # "new"
  BY DEF Entered
<1>2. \A d \in Copies : stage'[d] = IF d = c THEN s ELSE stage[d]
  BY <1>1 DEF TypeOK, MoveTo
<1>3. \A d \in Copies : stage'[d] = "new" => stage[d] = "new"
  BY <1>1, <1>2
<1>4. \A d \in Copies : stage'[d] \in Marked => mark[d] # 0
  BY <1>2 DEF MarkInv
<1> QED
  BY <1>3, <1>4, MarkKept DEF MarkInv

\* One more marked copy in sendMsg.
LEMMA MarkSent ==
    ASSUME TypeOK, MarkInv, NEW c \in Entered, mark[c] # 0, Send(c)
    PROVE  \A n \in 1..Len(sendMsg') : mark[sendMsg'[n]] # 0
<1>1. sendMsg \in Seq(Entered) /\ sendMsg' = Append(sendMsg, c)
  BY DEF Send, TypeOK
<1> QED
  BY <1>1, AppendProperties DEF MarkInv

\* MarkInv holds initially.
LEMMA InitMarkInv == Init => MarkInv
BY DEF Init, MarkInv, Marked

\* Every step keeps MarkInv.
LEMMA NextMarkInv == TypeOK /\ MarkInv /\ [Next]_vars => MarkInv'
<1> SUFFICES ASSUME TypeOK, MarkInv, [Next]_vars PROVE MarkInv'
  OBVIOUS
<1>1. ASSUME UNCHANGED <<seenVars, stage, req, invoked, sendMsg>> PROVE MarkInv'
  BY <1>1, MarkKept DEF MarkInv
<1>2. ASSUME NEW c \in Copies, NEW m \in Messages,
             Publish(c, m) \/ \E p \in Peers : Receive(c, p, m)
      PROVE  MarkInv'
  <2>1. PICK src \in Hosts : pushMsg(c, src, m)
    BY <1>2, PushSource
  <2>2. PICK s \in {"direct", "queued", "dropped"} : MoveTo(c, s)
    BY <2>1 DEF pushMsg, Push
  <2>3. \A d \in Copies : stage'[d] = IF d = c THEN s ELSE stage[d]
    BY <2>2 DEF TypeOK, MoveTo
  <2>4. \A d \in Copies : d # c => req'[d] = req[d]
    BY <2>1 DEF pushMsg, Push, TypeOK
  <2>5. mark[c] = 0 /\ UNCHANGED <<seenVars, invoked, sendMsg>>
    BY <2>1 DEF pushMsg, verdictVars, MarkInv
  <2>6. \A d \in Copies : stage'[d] = "new" => stage[d] = "new"
    BY <2>3
  <2>7. \A d \in Copies : stage'[d] \in Marked => mark[d] # 0
    BY <2>3 DEF MarkInv, Marked
  <2>8. \A d \in Copies : mark[d] # 0 => req'[d] = req[d]
    BY <2>4, <2>5
  <2> QED
    BY <2>5, <2>6, <2>7, <2>8, MarkKept DEF MarkInv
<1>3. CASE PushDirect
  <2>1. loop \in Entered /\ "published" \in Stages \ {"new"}
    BY <1>3, ValidationAssumption DEF ValidationAssumption, PushDirect, TypeOK, Entered, Stages
  <2> QED
    BY <1>3, <2>1, MarkOnce DEF PushDirect, verdictVars
<1>4. CASE PublishMessage
  <2>1. sendMsg \in Seq(Entered) /\ sendMsg # <<>> /\ sendMsg' = Tail(sendMsg)
    BY <1>4 DEF PublishMessage, TypeOK
  <2>2. /\ Head(sendMsg) = sendMsg[1] /\ 1 \in 1..Len(sendMsg)
        /\ Len(Tail(sendMsg)) = Len(sendMsg) - 1
        /\ \A n \in 1..Len(Tail(sendMsg)) : Tail(sendMsg)[n] = sendMsg[n + 1]
        /\ Head(sendMsg) \in Entered /\ Len(sendMsg) \in Nat
    BY <2>1, HeadTailProperties, LenProperties, EmptySeq
  <2>3. \A n \in 1..Len(sendMsg') : mark[sendMsg'[n]] # 0
    BY <2>1, <2>2 DEF MarkInv
  <2>4. mark[Head(sendMsg)] # 0 /\ "published" \in Stages \ {"new"}
    BY <2>2 DEF MarkInv, Stages
  <2> QED
    BY <1>4, <2>2, <2>3, <2>4, MarkMoved DEF PublishMessage, verdictVars
<1>5. ASSUME NEW i \in Ids, Expire(i) PROVE MarkInv'
  <2>1. /\ seen' = seen \ {i} /\ window' = [window EXCEPT ![i] = @ + 1]
        /\ UNCHANGED <<mark, stage, req, invoked, sendMsg>>
    BY <1>5 DEF Expire, confVars, verdictVars
  <2>2. /\ window \in [Ids -> Nat] /\ mark \in [Copies -> Nat] /\ window'[i] = window[i] + 1
        /\ \A j \in Ids \ {i} : window'[j] = window[j]
    BY <2>1 DEF TypeOK
  <2>3. \A c \in Copies : mark[c] # 0 => c \in Entered
    BY DEF MarkInv, Entered
  <2>4. \A c \in Copies : mark[c] # 0 => msgID(c) \in Ids /\ msgID(c)' = msgID(c)
    BY <2>1, <2>3, RequestOf DEF msgID
  <2>5. \A c \in Copies : mark[c] # 0 =>
          /\ mark[c] <= window'[msgID(c)] + 1
          /\ mark[c] = window'[msgID(c)] + 1 => msgID(c) \in seen'
    BY <2>1, <2>2, <2>4 DEF MarkInv
  <2> QED
    BY <2>1, <2>4, <2>5 DEF MarkInv
<1>6. ASSUME NEW w \in Workers, WorkerTake(w) PROVE MarkInv'
  <2>1. Head(validateQ) \in Entered /\ "check" \in Stages \ {"new"} /\ "check" \notin Marked
    BY <1>6, HeadTailProperties DEF WorkerTake, TypeOK, Stages, Marked
  <2> QED
    BY <1>6, <2>1, MarkMoved DEF WorkerTake, verdictVars, MarkInv
<1>7. ASSUME NEW w \in Workers, CheckSignature(w) PROVE MarkInv'
  <2>1. /\ worker[w] \in Entered /\ {"dropped", "inline"} \subseteq Stages \ {"new"}
        /\ "dropped" \notin Marked /\ UNCHANGED <<req, invoked, sendMsg>>
    BY <1>7 DEF CheckSignature, Entered, Stages, Marked
  <2>2. \/ MoveTo(worker[w], "dropped") /\ UNCHANGED seenVars
        \/ markSeen(worker[w], "inline")
    BY <1>7 DEF CheckSignature
  <2> QED
    BY <2>1, <2>2, MarkMoved, MarkOnce DEF MarkInv
<1>8. ASSUME NEW w \in Workers, RunInline(w) PROVE MarkInv'
  <2> DEFINE c == worker[w]
  <2>1. c \in Copies /\ stage[c] = "inline" /\ mark[c] # 0
    BY <1>8 DEF RunInline, MarkInv, Marked
  <2>2. stage' = stage \/ MoveTo(c, "dropped")
    BY <1>8 DEF RunInline
  <2>3. UNCHANGED <<seenVars, req, sendMsg>> /\ \A x \in invoked' : x \in invoked \/ x[1] = c
    BY <1>8 DEF RunInline
  <2>4. \A d \in Copies : stage'[d] = stage[d] \/ stage'[d] = "dropped"
    BY <2>1, <2>2 DEF TypeOK, MoveTo
  <2>5. /\ \A d \in Copies : stage'[d] = "new" => stage[d] = "new"
        /\ \A d \in Copies : stage'[d] \in Marked => mark[d] # 0
    BY <2>4 DEF MarkInv, Marked
  <2> QED
    BY <2>1, <2>3, <2>5, MarkKept DEF MarkInv
<1>9. ASSUME NEW w \in Workers, Dispatch(w) PROVE MarkInv'
  <2>1. /\ worker[w] \in Entered /\ mark[worker[w]] # 0
        /\ {"wsend", "spawn", "dropped"} \subseteq Stages \ {"new"}
    BY <1>9 DEF Dispatch, Entered, Stages, MarkInv, Marked
  <2>2. \E s \in Stages \ {"new"} : MoveTo(worker[w], s)
    BY <1>9, <2>1 DEF Dispatch
  <2>3. UNCHANGED <<seenVars, req, invoked, sendMsg>>
    BY <1>9 DEF Dispatch
  <2> QED
    BY <2>1, <2>2, <2>3, MarkMoved DEF MarkInv
<1>10. ASSUME NEW w \in Workers, WorkerSend(w) PROVE MarkInv'
  <2>1. worker[w] \in Entered /\ mark[worker[w]] # 0 /\ "sent" \in Stages \ {"new"}
    BY <1>10 DEF WorkerSend, Entered, Stages, MarkInv, Marked
  <2> QED
    BY <1>10, <2>1, MarkSent, MarkMoved DEF WorkerSend, Send, verdictVars
<1>11. ASSUME NEW c \in Copies, SpawnValidator(c) PROVE MarkInv'
  <2>1. stage[c] = "spawn" /\ mark[c] # 0
    BY <1>11 DEF SpawnValidator, MarkInv, Marked
  <2>2. stage' = stage \/ \E s \in {"collect", "dropped"} : MoveTo(c, s)
    BY <1>11 DEF SpawnValidator
  <2>3. UNCHANGED <<seenVars, req, sendMsg>> /\ \A x \in invoked' : x \in invoked \/ x[1] = c
    BY <1>11 DEF SpawnValidator
  <2>4. \A d \in Copies : stage'[d] = stage[d] \/ (d = c /\ stage'[d] \in {"collect", "dropped"})
    BY <2>2 DEF TypeOK, MoveTo
  <2>5. /\ \A d \in Copies : stage'[d] = "new" => stage[d] = "new"
        /\ \A d \in Copies : stage'[d] \in Marked => mark[d] # 0
    BY <2>1, <2>4 DEF MarkInv, Marked
  <2> QED
    BY <2>1, <2>3, <2>5, MarkKept DEF MarkInv
<1>12. ASSUME NEW c \in Copies, Collect(c) PROVE MarkInv'
  <2>1. c \in Entered /\ mark[c] # 0 /\ {"asend", "dropped"} \subseteq Stages \ {"new"}
    BY <1>12 DEF Collect, Entered, Stages, MarkInv, Marked
  <2>2. \E s \in Stages \ {"new"} : MoveTo(c, s)
    BY <1>12, <2>1 DEF Collect
  <2>3. UNCHANGED <<seenVars, req, invoked, sendMsg>>
    BY <1>12 DEF Collect, verdictVars
  <2> QED
    BY <2>1, <2>2, <2>3, MarkMoved DEF MarkInv
<1>13. ASSUME NEW c \in Copies, AsyncSend(c) PROVE MarkInv'
  <2>1. c \in Entered /\ mark[c] # 0 /\ "sent" \in Stages \ {"new"}
    BY <1>13 DEF AsyncSend, Entered, Stages, MarkInv, Marked
  <2> QED
    BY <1>13, <2>1, MarkSent, MarkMoved DEF AsyncSend, Send, verdictVars
<1> QED
  <2>1. Next \/ UNCHANGED vars
    OBVIOUS
  <2>2. ASSUME \/ UNCHANGED vars \/ Cancel
               \/ \E t \in Topics : Subscription(t) \/ RemoveValidator(t)
               \/ \E p \in Peers : BlacklistPeer(p)
               \/ \E v \in Vals : AddValidator(v)
               \/ \E w \in Workers : WorkerExit(w)
               \/ \E c \in Copies : ReleaseGlobal(c)
               \/ \E c \in Copies, v \in Calls : FinishValidator(c, v) \/ ReleaseValidator(c, v)
        PROVE  UNCHANGED <<seenVars, stage, req, invoked, sendMsg>>
    BY <2>2 DEF vars, Cancel, Subscription, RemoveValidator, BlacklistPeer, AddValidator,
                WorkerExit, ReleaseGlobal, FinishValidator, ReleaseValidator, verdictVars
  <2> QED
    BY NextSteps, <2>1, <2>2, <1>1, <1>2, <1>3, <1>4, <1>5, <1>6, <1>7, <1>8, <1>9, <1>10,
       <1>11, <1>12, <1>13 DEF Steps

\* An id is marked at most once per window, in every behaviour.
THEOREM Marks == Spec => []MarkInv
BY InitTypeOK, NextTypeOK, InitMarkInv, NextMarkInv, PTL DEF Spec

\* At most one copy of an id is published in each window.
THEOREM PublishedOnce == Spec => []PublishOncePerWindow
<1>1. TypeOK /\ MarkInv => PublishOncePerWindow
  BY DEF MarkInv, Marked, PublishOncePerWindow
<1> QED
  BY <1>1, TypeCorrect, Marks, PTL

\* The validators see at most one copy of an id in each window.
THEOREM ValidatedOnce == Spec => []ValidatorsOncePerWindow
<1>1. TypeOK /\ MarkInv => ValidatorsOncePerWindow
  BY DEF TypeOK, MarkInv, ValidatorsOncePerWindow
<1> QED
  BY <1>1, TypeCorrect, Marks, PTL

\* One window of an id, one copy: validated at most once, published at most once.
THEOREM Once == Spec => []OncePerWindow
<1>1. PublishOncePerWindow /\ ValidatorsOncePerWindow => OncePerWindow
  BY DEF OncePerWindow
<1> QED
  BY <1>1, PublishedOnce, ValidatedOnce, PTL

-----------------------------------------------------------------------------
(* Nothing unvalidated is published *)

\* A verdict, once given, is not taken back.
LEMMA AcceptedKept ==
    ASSUME NEW d, req'[d] = req[d], passed[d] \subseteq passed'[d], Accepted(d)
    PROVE  Accepted(d)'
BY DEF Accepted

\* A step that works on the copy c, which has entered, keeps VerdictInv.
LEMMA VerdictKept ==
    ASSUME TypeOK, VerdictInv, NEW c \in Copies,
           \A d \in Copies \ {c} :
              /\ stage'[d] = stage[d] /\ todo'[d] = todo[d] /\ passed'[d] = passed[d],
           req' = req, passed[c] \subseteq passed'[c],
           CopyVerdict(c)',
           loop' \in {loop, Idle},
           \A n \in 1..Len(sendMsg') : sendMsg'[n] \in Copies /\ Accepted(sendMsg'[n])
    PROVE  VerdictInv'
<1>1. \A d \in Copies : req'[d] = req[d] /\ passed[d] \subseteq passed'[d]
  OBVIOUS
<1>2. \A d \in Copies \ {c} : CopyVerdict(d) => CopyVerdict(d)'
  BY <1>1 DEF CopyVerdict, Accepted
<1>3. \A n \in 1..Len(sendMsg') : Accepted(sendMsg[n])'
  BY <1>1 DEF Accepted
<1>4. loop' \in Copies => req'[loop'].vals = {} /\ req'[loop'].msg.sig = "none"
  BY ValidationAssumption DEF ValidationAssumption, VerdictInv
<1> QED
  BY <1>2, <1>3, <1>4 DEF VerdictInv

\* The elements of sendMsg are accepted copies.
LEMMA SentAccepted ==
    ASSUME TypeOK, VerdictInv
    PROVE  /\ sendMsg \in Seq(Entered)
           /\ \A n \in 1..Len(sendMsg) : sendMsg[n] \in Copies /\ Accepted(sendMsg[n])
<1>1. sendMsg \in Seq(Entered) /\ Entered \subseteq Copies
  BY DEF TypeOK, Entered
<1> QED
  BY <1>1, ElementOfSeq DEF VerdictInv

\* Sending an accepted copy.
LEMMA SendAccepted ==
    ASSUME TypeOK, VerdictInv, NEW c \in Entered, Accepted(c), Send(c)
    PROVE  \A n \in 1..Len(sendMsg') : sendMsg'[n] \in Copies /\ Accepted(sendMsg'[n])
<1>1. sendMsg' = Append(sendMsg, c) /\ c \in Copies
  BY DEF Send, Entered
<1> QED
  BY <1>1, SentAccepted, AppendProperties

\* The signature of a copy that validate has looked at.
LEMMA SignatureAccepted ==
    ASSUME TypeOK, NEW c \in Entered, CopyVerdict(c), stage[c] \in Marked,
           req[c].vals \subseteq passed[c]
    PROVE  Accepted(c)
<1>1. req[c] \in Requests /\ stage[c] # "new"
  BY DEF TypeOK, Entered
<1>2. req[c].msg.sig \in Sigs
  BY <1>1, ValidationAssumption DEF ValidationAssumption, Requests
<1> QED
  BY <1>1, <1>2 DEF CopyVerdict, Accepted, Sigs

\* VerdictInv holds initially.
LEMMA InitVerdictInv == Init => VerdictInv
BY ValidationAssumption DEF ValidationAssumption, Init, VerdictInv, CopyVerdict, Marked

\* Every step keeps VerdictInv.
LEMMA NextVerdictInv == TypeOK /\ VerdictInv /\ [Next]_vars => VerdictInv'
<1> SUFFICES ASSUME TypeOK, VerdictInv, [Next]_vars PROVE VerdictInv'
  OBVIOUS
<1>1. ASSUME UNCHANGED <<stage, todo, passed, req, loop, sendMsg>> PROVE VerdictInv'
  BY <1>1 DEF VerdictInv, CopyVerdict, Accepted, inlineVals
<1>2. ASSUME NEW c \in Copies, NEW m \in Messages,
             Publish(c, m) \/ \E p \in Peers : Receive(c, p, m)
      PROVE  VerdictInv'
  <2>1. PICK src \in Hosts : pushMsg(c, src, m)
    BY <1>2, PushSource
  <2>2. PICK s \in {"direct", "queued", "dropped"} : MoveTo(c, s)
    BY <2>1 DEF pushMsg, Push
  <2>3. \A d \in Copies : stage'[d] = IF d = c THEN s ELSE stage[d]
    BY <2>2 DEF TypeOK, MoveTo
  <2>4. /\ req'[c].msg = m /\ req'[c].vals = getValidators(m)
        /\ \A d \in Copies \ {c} : req'[d] = req[d]
        /\ UNCHANGED <<todo, passed, sendMsg>> /\ ~(Strict /\ m.sig = "none")
        /\ stage[c] = "new"
    BY <2>1 DEF pushMsg, Push, TypeOK, verdictVars
  <2>5. CopyVerdict(c)'
    BY <2>3, <2>4 DEF CopyVerdict, Marked
  <2>6. \A d \in Copies \ {c} : CopyVerdict(d)'
    BY <2>3, <2>4 DEF VerdictInv, CopyVerdict, Accepted
  <2>7. \A n \in 1..Len(sendMsg) : sendMsg[n] \in Copies \ {c}
    BY <2>4, SentAccepted, ElementOfSeq DEF Entered
  <2>8. \A n \in 1..Len(sendMsg') : Accepted(sendMsg[n])'
    BY <2>4, <2>7, SentAccepted DEF Accepted
  <2>9. loop' \in Copies => req'[loop'].vals = {} /\ req'[loop'].msg.sig = "none"
    <3>1. loop = Idle
      BY <1>2 DEF Publish, Receive, LoopFree
    <3>2. loop' = loop \/ (loop' = c /\ getValidators(m) = {} /\ m.sig = "none")
      BY <2>1 DEF pushMsg, Push
    <3> QED
      BY <2>4, <3>1, <3>2, ValidationAssumption DEF ValidationAssumption
  <2> QED
    BY <2>5, <2>6, <2>8, <2>9 DEF VerdictInv
<1>3. CASE PushDirect
  <2>1. /\ loop \in Copies /\ loop \in Entered /\ loop' = Idle
        /\ UNCHANGED <<todo, passed, req, sendMsg>>
    BY <1>3, ValidationAssumption
    DEF ValidationAssumption, PushDirect, TypeOK, Entered, verdictVars
  <2>0. PICK c \in Entered : c = loop
    BY <2>1
  <2>2. PICK s \in {"published", "dropped"} : MoveTo(c, s)
    BY <1>3, <2>0 DEF PushDirect, markSeen
  <2>3. \A d \in Copies : stage'[d] = IF d = c THEN s ELSE stage[d]
    BY <2>2 DEF TypeOK, MoveTo
  <2>4. CopyVerdict(c) /\ req[c].vals = {} /\ req[c].msg.sig = "none" /\ stage[c] # "new"
    BY <2>0, <2>1 DEF VerdictInv, Entered
  <2>5. CopyVerdict(c)'
    BY <2>0, <2>1, <2>3, <2>4 DEF CopyVerdict, Accepted, Marked
  <2> QED
    BY <2>0, <2>1, <2>3, <2>5, SentAccepted, VerdictKept
<1>4. CASE PublishMessage
  <2>1. sendMsg \in Seq(Entered) /\ sendMsg # <<>> /\ sendMsg' = Tail(sendMsg)
    BY <1>4 DEF PublishMessage, TypeOK
  <2>0. PICK c \in Copies : c = Head(sendMsg)
    BY <2>1, HeadTailProperties DEF Entered
  <2>2. /\ c = sendMsg[1] /\ 1 \in 1..Len(sendMsg) /\ c \in Entered
        /\ \A n \in 1..Len(Tail(sendMsg)) : n + 1 \in 1..Len(sendMsg) /\ Tail(sendMsg)[n] = sendMsg[n + 1]
    BY <2>0, <2>1, HeadTailProperties, LenProperties, EmptySeq
  <2>3. \A n \in 1..Len(sendMsg') : sendMsg'[n] \in Copies /\ Accepted(sendMsg'[n])
    BY <2>1, <2>2, SentAccepted
  <2>4. c \in Copies /\ Accepted(c) /\ UNCHANGED <<todo, passed, req, loop>>
    BY <1>4, <2>2, SentAccepted DEF PublishMessage, verdictVars
  <2>5. \A d \in Copies : stage'[d] = IF d = c THEN "published" ELSE stage[d]
    BY <1>4, <2>0, <2>4 DEF PublishMessage, MoveTo, TypeOK
  <2>6. CopyVerdict(c)'
    BY <2>4, <2>5 DEF CopyVerdict, Accepted
  <2> QED
    BY <2>3, <2>4, <2>5, <2>6, VerdictKept
<1>5. ASSUME NEW w \in Workers, WorkerTake(w) PROVE VerdictInv'
  <2>0. PICK c \in Entered : c = Head(validateQ)
    BY <1>5, HeadTailProperties DEF WorkerTake, TypeOK
  <2>1. c \in Entered /\ c \in Copies
    BY DEF Entered
  <2>2. UNCHANGED <<todo, passed, req, loop, sendMsg>> /\ MoveTo(c, "check")
    BY <1>5, <2>0 DEF WorkerTake, verdictVars
  <2>3. \A d \in Copies : stage'[d] = IF d = c THEN "check" ELSE stage[d]
    BY <2>1, <2>2 DEF MoveTo, TypeOK
  <2>4. CopyVerdict(c)'
    BY <2>1, <2>2, <2>3 DEF VerdictInv, CopyVerdict, Marked, Entered
  <2> QED
    BY <2>1, <2>2, <2>3, <2>4, SentAccepted, VerdictKept
<1>6. ASSUME NEW w \in Workers, CheckSignature(w) PROVE VerdictInv'
  <2>0. PICK c \in Copies : c = worker[w]
    BY <1>6 DEF CheckSignature
  <2>1. c \in Entered /\ c \in Copies /\ stage[c] # "new" /\ UNCHANGED <<passed, req, loop, sendMsg>>
    BY <1>6, <2>0 DEF CheckSignature, Entered
  <2>2. \/ MoveTo(c, "dropped") /\ todo' = todo
        \/ MoveTo(c, "dropped") /\ todo' = [todo EXCEPT ![c] = inlineVals(req[c].vals)]
        \/ /\ MoveTo(c, "inline") /\ req[c].msg.sig # "bad"
           /\ todo' = [todo EXCEPT ![c] = inlineVals(req[c].vals)]
    BY <1>6, <2>0 DEF CheckSignature, markSeen
  <2>3. \A d \in Copies \ {c} : stage'[d] = stage[d] /\ todo'[d] = todo[d]
    BY <2>1, <2>2 DEF MoveTo, TypeOK
  <2>4. \/ stage'[c] = "dropped"
        \/ stage'[c] = "inline" /\ req[c].msg.sig # "bad" /\ todo'[c] = inlineVals(req[c].vals)
    BY <2>1, <2>2 DEF MoveTo, TypeOK
  <2>5. CopyVerdict(c)'
    BY <2>1, <2>4 DEF VerdictInv, CopyVerdict, Marked, inlineVals
  <2> QED
    BY <2>1, <2>3, <2>5, SentAccepted, VerdictKept
<1>7. ASSUME NEW w \in Workers, RunInline(w) PROVE VerdictInv'
  <2>0. PICK c \in Copies : c = worker[w]
    BY <1>7 DEF RunInline
  <2>1. c \in Copies /\ stage[c] = "inline" /\ UNCHANGED <<req, loop, sendMsg>>
    BY <1>7, <2>0 DEF RunInline
  <2>2. PICK v \in todo[c] :
          /\ todo' = [todo EXCEPT ![c] = @ \ {v}]
          /\ \/ passed' = [passed EXCEPT ![c] = @ \cup {v}] /\ stage' = stage
             \/ passed' = passed /\ MoveTo(c, "dropped")
    BY <1>7, <2>0 DEF RunInline
  <2>3. \A d \in Copies \ {c} :
          stage'[d] = stage[d] /\ todo'[d] = todo[d] /\ passed'[d] = passed[d]
    BY <2>1, <2>2 DEF MoveTo, TypeOK
  <2>4. /\ todo'[c] = todo[c] \ {v}
        /\ \/ passed'[c] = passed[c] \cup {v} /\ stage'[c] = stage[c]
           \/ passed'[c] = passed[c] /\ stage'[c] = "dropped"
    BY <2>1, <2>2 DEF MoveTo, TypeOK
  <2>5. CopyVerdict(c)'
    BY <2>1, <2>4 DEF VerdictInv, CopyVerdict, Marked, inlineVals
  <2> QED
    BY <2>1, <2>3, <2>4, <2>5, SentAccepted, VerdictKept
<1>8. ASSUME NEW w \in Workers, Dispatch(w) PROVE VerdictInv'
  <2>0. PICK c \in Copies : c = worker[w]
    BY <1>8 DEF Dispatch
  <2>1. /\ c \in Entered /\ c \in Copies /\ stage[c] = "inline" /\ todo[c] = {}
        /\ UNCHANGED <<passed, req, loop, sendMsg>>
    BY <1>8, <2>0 DEF Dispatch, Entered
  <2>2. \/ MoveTo(c, "wsend") /\ todo' = todo /\ asyncVals(req[c].vals) = {}
        \/ MoveTo(c, "spawn") /\ todo' = [todo EXCEPT ![c] = asyncVals(req[c].vals)]
        \/ MoveTo(c, "dropped") /\ todo' = todo
    BY <1>8, <2>0 DEF Dispatch
  <2>3. \A d \in Copies \ {c} : stage'[d] = stage[d] /\ todo'[d] = todo[d]
    BY <2>1, <2>2 DEF MoveTo, TypeOK
  <2>4. \/ stage'[c] = "wsend" /\ asyncVals(req[c].vals) = {}
        \/ stage'[c] \in {"spawn", "dropped"}
    BY <2>1, <2>2 DEF MoveTo, TypeOK
  <2>5. CopyVerdict(c) /\ inlineVals(req[c].vals) \subseteq passed[c]
    BY <2>1 DEF VerdictInv, CopyVerdict
  <2>6. asyncVals(req[c].vals) = {} => Accepted(c)
    BY <2>1, <2>5, SignatureAccepted DEF asyncVals, inlineVals, Marked
  <2>7. CopyVerdict(c)'
    BY <2>1, <2>4, <2>5, <2>6 DEF CopyVerdict, Accepted, Marked, inlineVals
  <2> QED
    BY <2>1, <2>3, <2>7, SentAccepted, VerdictKept
<1>9. ASSUME NEW w \in Workers, WorkerSend(w) PROVE VerdictInv'
  <2>0. PICK c \in Copies : c = worker[w]
    BY <1>9 DEF WorkerSend
  <2>1. /\ c \in Entered /\ c \in Copies /\ Send(c) /\ stage[c] = "wsend"
        /\ UNCHANGED <<todo, passed, req, loop>>
    BY <1>9, <2>0 DEF WorkerSend, Entered, verdictVars
  <2>2. Accepted(c) /\ CopyVerdict(c)
    BY <2>1 DEF VerdictInv, CopyVerdict
  <2>3. \A d \in Copies : stage'[d] = IF d = c THEN "sent" ELSE stage[d]
    BY <2>1 DEF Send, MoveTo, TypeOK
  <2>4. CopyVerdict(c)'
    BY <2>1, <2>2, <2>3 DEF CopyVerdict, Accepted
  <2> QED
    BY <2>1, <2>2, <2>3, <2>4, SendAccepted, VerdictKept
<1>10. ASSUME NEW c \in Copies, SpawnValidator(c) PROVE VerdictInv'
  <2>1. stage[c] = "spawn" /\ UNCHANGED <<passed, req, loop, sendMsg>>
    BY <1>10 DEF SpawnValidator
  <2>2. stage' = stage \/ \E s \in {"collect", "dropped"} : MoveTo(c, s)
    BY <1>10 DEF SpawnValidator
  <2>3. \A d \in Copies \ {c} : stage'[d] = stage[d] /\ todo'[d] = todo[d]
    BY <1>10, <2>2 DEF SpawnValidator, MoveTo, TypeOK
  <2>4. stage'[c] \in {"spawn", "collect", "dropped"}
    BY <2>1, <2>2 DEF MoveTo, TypeOK
  <2>5. CopyVerdict(c)'
    BY <2>1, <2>4 DEF VerdictInv, CopyVerdict, Marked, inlineVals
  <2> QED
    BY <2>1, <2>3, <2>5, SentAccepted, VerdictKept
<1>11. ASSUME NEW c \in Copies, Collect(c) PROVE VerdictInv'
  <2>1. /\ stage[c] = "collect" /\ c \in Entered
        /\ UNCHANGED <<todo, passed, req, loop, sendMsg>>
    BY <1>11 DEF Collect, Entered, verdictVars
  <2>2. \/ MoveTo(c, "dropped")
        \/ MoveTo(c, "asend") /\ asyncVals(req[c].vals) \subseteq passed[c]
    BY <1>11 DEF Collect, allIn
  <2>3. \A d \in Copies \ {c} : stage'[d] = stage[d]
    BY <2>2 DEF MoveTo, TypeOK
  <2>4. CopyVerdict(c) /\ inlineVals(req[c].vals) \subseteq passed[c]
    BY <2>1 DEF VerdictInv, CopyVerdict
  <2>5. asyncVals(req[c].vals) \subseteq passed[c] => Accepted(c)
    BY <2>1, <2>4, SignatureAccepted DEF asyncVals, inlineVals, Marked
  <2>6. stage'[c] = "dropped" \/ (stage'[c] = "asend" /\ Accepted(c))
    BY <2>2, <2>5 DEF MoveTo, TypeOK
  <2>7. CopyVerdict(c)'
    BY <2>1, <2>4, <2>6 DEF CopyVerdict, Accepted, Marked
  <2> QED
    BY <2>1, <2>3, <2>7, SentAccepted, VerdictKept
<1>12. ASSUME NEW c \in Copies, AsyncSend(c) PROVE VerdictInv'
  <2>1. /\ c \in Entered /\ Send(c) /\ stage[c] = "asend"
        /\ UNCHANGED <<todo, passed, req, loop>>
    BY <1>12 DEF AsyncSend, Entered, verdictVars
  <2>2. Accepted(c) /\ CopyVerdict(c)
    BY <2>1 DEF VerdictInv, CopyVerdict
  <2>3. \A d \in Copies : stage'[d] = IF d = c THEN "sent" ELSE stage[d]
    BY <2>1 DEF Send, MoveTo, TypeOK
  <2>4. CopyVerdict(c)'
    BY <2>1, <2>2, <2>3 DEF CopyVerdict, Accepted
  <2> QED
    BY <2>1, <2>2, <2>3, <2>4, SendAccepted, VerdictKept
<1>13. ASSUME NEW c \in Copies, NEW v \in Calls, FinishValidator(c, v) PROVE VerdictInv'
  <2>1. UNCHANGED <<stage, todo, req, loop, sendMsg>>
    BY <1>13 DEF FinishValidator
  <2>2. \A d \in Copies : passed[d] \subseteq passed'[d] /\ (d # c => passed'[d] = passed[d])
    BY <1>13 DEF FinishValidator, TypeOK
  <2>3. CopyVerdict(c)'
    BY <2>1, <2>2 DEF VerdictInv, CopyVerdict, Accepted, inlineVals
  <2> QED
    BY <2>1, <2>2, <2>3, SentAccepted, VerdictKept
<1> QED
  <2>1. Next \/ UNCHANGED vars
    OBVIOUS
  <2>2. ASSUME \/ UNCHANGED vars \/ Cancel
               \/ \E t \in Topics : Subscription(t) \/ RemoveValidator(t)
               \/ \E p \in Peers : BlacklistPeer(p)
               \/ \E v \in Vals : AddValidator(v)
               \/ \E i \in Ids : Expire(i)
               \/ \E w \in Workers : WorkerExit(w)
               \/ \E c \in Copies : ReleaseGlobal(c)
               \/ \E c \in Copies, v \in Calls : ReleaseValidator(c, v)
        PROVE  UNCHANGED <<stage, todo, passed, req, loop, sendMsg>>
    BY <2>2 DEF vars, Cancel, Subscription, RemoveValidator, BlacklistPeer, AddValidator,
                Expire, WorkerExit, ReleaseGlobal, ReleaseValidator, verdictVars
  <2> QED
    BY NextSteps, <2>1, <2>2, <1>1, <1>2, <1>3, <1>4, <1>5, <1>6, <1>7, <1>8, <1>9, <1>10,
       <1>11, <1>12, <1>13 DEF Steps

\* At every stage the verdicts a copy needs to be there are in, in every behaviour.
THEOREM Verdicts == Spec => []VerdictInv
BY InitTypeOK, NextTypeOK, InitVerdictInv, NextVerdictInv, PTL DEF Spec

\* Whatever is handed to the subscriptions and the router has been validated.
THEOREM Validated == Spec => []FullyValidated
<1>1. VerdictInv => FullyValidated
  BY DEF VerdictInv, CopyVerdict, FullyValidated
<1> QED
  BY <1>1, Verdicts, PTL

-----------------------------------------------------------------------------
(* The throttles bound what they are meant to bound *)

\* Taking a slot that is free, keeping it, and giving it back.
LEMMA SlotCount ==
    ASSUME NEW H, IsFiniteSet(H), NEW h, NEW n \in Nat, Cardinality(H) <= n
    PROVE  /\ Cardinality(H) < n => Cardinality(H \cup {h}) <= n
           /\ \A G \in SUBSET H : Cardinality(G) <= n
<1>1. Cardinality(H) \in Nat
  BY FS_CardinalityType
<1>2. Cardinality(H) < n => Cardinality(H \cup {h}) <= n
  BY <1>1, FS_AddElement
<1>3. ASSUME NEW G \in SUBSET H PROVE Cardinality(G) <= n
  <2>1. Cardinality(G) <= Cardinality(H) /\ Cardinality(G) \in Nat
    BY FS_Subset, FS_CardinalityType
  <2> QED
    BY <1>1, <2>1
<1> QED
  BY <1>2, <1>3

\* The capacities are natural numbers.
LEMMA Capacities ==
    /\ GlobalThrottle \in Nat
    /\ \A v \in Vals : ValThrottle[v] \in Nat
BY ValidationAssumption DEF ValidationAssumption

\* SlotInv holds initially.
LEMMA InitSlotInv == Init => SlotInv
<1> SUFFICES ASSUME Init PROVE SlotInv
  OBVIOUS
<1>1. gheld = {} /\ vheld = {} /\ \A v \in Vals : holders(v) = {}
  BY DEF Init, holders
<1>2. Cardinality({}) = 0 /\ IsFiniteSet({})
  BY FS_EmptySet
<1>3. GlobalThrottle >= 0 /\ \A v \in Vals : ValThrottle[v] >= 0
  BY Capacities
<1> QED
  BY <1>1, <1>2, <1>3 DEF SlotInv

\* Every step keeps SlotInv.
LEMMA NextSlotInv == TypeOK /\ SlotInv /\ [Next]_vars => SlotInv'
<1> SUFFICES ASSUME TypeOK, SlotInv, [Next]_vars PROVE SlotInv'
  OBVIOUS
<1>0. IsFiniteSet(gheld) /\ IsFiniteSet(vheld) /\ \A v \in Vals : IsFiniteSet(holders(v))
  <2>1. IsFiniteSet(gheld)
    BY ValidationAssumption, FS_Subset DEF ValidationAssumption, TypeOK
  <2>2. \A v \in Vals : holders(v) \subseteq vheld
    BY DEF holders
  <2> QED
    BY <2>1, <2>2, FS_Subset DEF SlotInv
<1>1. ASSUME UNCHANGED <<gheld, vheld>> PROVE SlotInv'
  BY <1>1 DEF SlotInv, holders
<1>2. ASSUME NEW w \in Workers, Dispatch(w) PROVE SlotInv'
  <2>1. PICK c \in Copies : c = worker[w]
    BY <1>2 DEF Dispatch
  <2>2. /\ vheld' = vheld
        /\ gheld' = gheld \/ (Cardinality(gheld) < GlobalThrottle /\ gheld' = gheld \cup {c})
    BY <1>2, <2>1 DEF Dispatch
  <2>3. Cardinality(gheld') <= GlobalThrottle
    BY <1>0, <2>2, SlotCount, Capacities DEF SlotInv
  <2> QED
    BY <2>2, <2>3 DEF SlotInv, holders
<1>3. ASSUME NEW c \in Copies, SpawnValidator(c) PROVE SlotInv'
  <2>1. PICK x \in todo[c] :
          \/ vheld' = vheld
          \/ Cardinality(holders(x[1])) < ValThrottle[x[1]] /\ vheld' = vheld \cup {<<c, x>>}
    BY <1>3 DEF SpawnValidator, hasSlot
  <2>2. x \in Calls /\ gheld' = gheld
    BY <1>3 DEF SpawnValidator, TypeOK
  <2>3. PICK v \in Vals : v = x[1]
    BY <2>2 DEF Calls
  <2>4. IsFiniteSet(vheld')
    BY <1>0, <2>1, FS_AddElement
  <2>5. ASSUME NEW u \in Vals PROVE Cardinality(holders(u)') <= ValThrottle[u]
    <3>1. CASE vheld' = vheld
      BY <3>1 DEF SlotInv, holders
    <3>2. CASE Cardinality(holders(v)) < ValThrottle[v] /\ vheld' = vheld \cup {<<c, x>>}
      <4>1. u # v => holders(u)' = holders(u)
        BY <2>3, <3>2 DEF holders
      <4>2. holders(v)' = holders(v) \cup {<<c, x>>}
        BY <2>3, <3>2 DEF holders
      <4>3. Cardinality(holders(v) \cup {<<c, x>>}) <= ValThrottle[v]
        BY <1>0, <3>2, SlotCount, Capacities DEF SlotInv
      <4> QED
        BY <4>1, <4>2, <4>3 DEF SlotInv
    <3> QED
      BY <2>1, <2>3, <3>1, <3>2
  <2> QED
    BY <2>2, <2>4, <2>5 DEF SlotInv
<1>4. ASSUME gheld' \subseteq gheld, vheld' \subseteq vheld PROVE SlotInv'
  <2>1. \A v \in Vals : holders(v)' \in SUBSET holders(v)
    BY <1>4 DEF holders
  <2>2. Cardinality(gheld') <= GlobalThrottle
    BY <1>0, <1>4, SlotCount, Capacities DEF SlotInv
  <2>3. \A v \in Vals : Cardinality(holders(v)') <= ValThrottle[v]
    BY <1>0, <2>1, SlotCount, Capacities DEF SlotInv
  <2>4. IsFiniteSet(vheld')
    BY <1>0, <1>4, FS_Subset
  <2> QED
    BY <2>2, <2>3, <2>4 DEF SlotInv
<1>5. ASSUME NEW c \in Copies, NEW m \in Messages,
             Publish(c, m) \/ \E p \in Peers : Receive(c, p, m)
      PROVE  UNCHANGED <<gheld, vheld>>
  BY <1>5, PushSource DEF pushMsg, asyncVars
<1>6. ASSUME \/ UNCHANGED vars \/ Cancel \/ PushDirect \/ PublishMessage
             \/ \E t \in Topics : Subscription(t) \/ RemoveValidator(t)
             \/ \E p \in Peers : BlacklistPeer(p)
             \/ \E v \in Vals : AddValidator(v)
             \/ \E i \in Ids : Expire(i)
             \/ \E w \in Workers : WorkerTake(w) \/ WorkerExit(w) \/ CheckSignature(w)
             \/ \E w \in Workers : RunInline(w) \/ WorkerSend(w)
             \/ \E c \in Copies : Collect(c) \/ AsyncSend(c)
      PROVE  UNCHANGED <<gheld, vheld>>
  BY <1>6 DEF vars, Cancel, PushDirect, PublishMessage, Subscription, RemoveValidator,
              BlacklistPeer, AddValidator, Expire, WorkerTake, WorkerExit, CheckSignature,
              RunInline, WorkerSend, Collect, AsyncSend, asyncVars
<1>7. ASSUME \/ \E c \in Copies : ReleaseGlobal(c)
             \/ \E c \in Copies, v \in Calls : FinishValidator(c, v) \/ ReleaseValidator(c, v)
      PROVE  gheld' \subseteq gheld /\ vheld' \subseteq vheld
  BY <1>7 DEF ReleaseGlobal, FinishValidator, ReleaseValidator
<1> QED
  BY NextSteps, <1>1, <1>2, <1>3, <1>4, <1>5, <1>6, <1>7 DEF Steps

\* Neither the global throttle nor one of a validator is ever exceeded.
THEOREM Slots == Spec => []SlotInv
BY InitTypeOK, NextTypeOK, InitSlotInv, NextSlotInv, PTL DEF Spec

\* No validator ever runs in more goroutines than its throttle allows.
THEOREM Throttled == Spec => []ValThrottleRespected
<1>1. TypeOK /\ SlotInv => ValThrottleRespected
  <2> SUFFICES ASSUME TypeOK, SlotInv, NEW v \in Vals
               PROVE  Cardinality({h \in running : h[2][1] = v}) <= ValThrottle[v]
    BY DEF ValThrottleRespected
  <2>1. {h \in running : h[2][1] = v} \in SUBSET holders(v)
    BY DEF TypeOK, holders
  <2>2. holders(v) \subseteq vheld /\ Cardinality(holders(v)) <= ValThrottle[v]
    BY DEF SlotInv, holders
  <2>3. IsFiniteSet(holders(v))
    BY <2>2, FS_Subset DEF SlotInv
  <2> QED
    BY <2>1, <2>2, <2>3, SlotCount, Capacities
<1> QED
  BY <1>1, Slots, TypeCorrect, PTL
=============================================================================
