---------------------------- MODULE MessageCache ----------------------------
(***************************************************************************)
(* MessageCache (mcache.go): the messages of the last heartbeats, kept in  *)
(* a sliding window to answer IWANT, of which the younger part is offered  *)
(* in IHAVE.                                                               *)
(***************************************************************************)
EXTENDS Naturals

CONSTANTS
    Ids, Topics, TopicsOf,   \* message ids; the topics of each message
    HistoryLength, HistoryGossip

ASSUME MessageCacheAssumption ==
    /\ TopicsOf \in [Ids -> SUBSET Topics]
    /\ HistoryLength \in Nat /\ HistoryGossip \in Nat
    /\ HistoryGossip > 0 /\ HistoryGossip < HistoryLength

VARIABLES
    msgs,      \* the ids that Get finds
    history,   \* the entries of each slot of the window, the youngest first
    age,       \* history: heartbeats since Put, HistoryLength if that or more
    repeated   \* history: the ids put again while they were in the window

cacheVars == <<msgs, history, age, repeated>>
Slots == 1..HistoryLength

CacheInit ==
    /\ msgs = {}
    /\ history = [n \in Slots |-> {}]
    /\ age = [i \in Ids |-> HistoryLength]
    /\ repeated = {}

\* The window is five heartbeats long and an id stays in seenMessages for two
\* minutes, but a validator may hold a message until its id has left.
Put(i) ==
    /\ msgs' = msgs \cup {i}
    /\ history' = [history EXCEPT ![1] = @ \cup {i}]
    /\ age' = [age EXCEPT ![i] = 0]
    /\ repeated' = IF age[i] < HistoryLength THEN repeated \cup {i} ELSE repeated

GetGossipIDs(t) == {i \in UNION {history[n] : n \in 1..HistoryGossip} : t \in TopicsOf[i]}

moved == [n \in Slots |-> IF n = 1 THEN {} ELSE history[n - 1]]
\* bug: the last slot is cleared after the others have moved
lastAfter == moved[HistoryLength]
last == history[HistoryLength]

Shift ==
    /\ msgs' = msgs \ last
    /\ history' = moved
    /\ age' = [i \in Ids |-> IF age[i] < HistoryLength THEN age[i] + 1 ELSE HistoryLength]
    /\ repeated' = {i \in repeated : age'[i] < HistoryLength}

-----------------------------------------------------------------------------
CacheTypeOK ==
    /\ msgs \subseteq Ids
    /\ history \in [Slots -> SUBSET Ids]
    /\ age \in [Ids -> 0..HistoryLength]
    /\ repeated \subseteq Ids

\* The window holds every id of less than HistoryLength heartbeats, in the slot
\* of its age, and Get finds no other. It finds all of them, and no slot holds
\* an older entry of one, unless it was put again while it was in the window:
\* then the first entry that leaves the window takes the message with it.
CacheExact ==
    /\ \A n \in Slots : \A i \in history[n] : age[i] <= n - 1
    /\ \A i \in Ids : age[i] < HistoryLength => i \in history[age[i] + 1]
    /\ \A i \in msgs \cup repeated : age[i] < HistoryLength
    /\ \A i \in Ids \ repeated :
        /\ age[i] < HistoryLength => i \in msgs
        /\ \A n \in Slots : i \in history[n] => age[i] = n - 1
=============================================================================
