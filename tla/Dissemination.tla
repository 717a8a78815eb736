---------------------------- MODULE Dissemination ----------------------------
(***************************************************************************)
(* What a router promises of a network of nodes: a message starts at its   *)
(* author, is had from then on, and comes to another node only over a      *)
(* link, from a node that has it, and only when that node asked for it.    *)
(***************************************************************************)
EXTENDS Naturals

CONSTANTS
    Nodes, Msgs,
    Links,       \* pairs of nodes that are connected
    Source       \* the author of each message

VARIABLES
    has,         \* the messages that each node has
    interested   \* the nodes that want each message

vars == <<has, interested>>

Init == has = [n \in Nodes |-> {}] /\ interested \in [Msgs -> SUBSET Nodes]

Start(m) ==
    /\ \A n \in Nodes : m \notin has[n]
    /\ has' = [has EXCEPT ![Source[m]] = @ \cup {m}]
    /\ UNCHANGED interested

Hop(p, n, m) ==
    /\ <<p, n>> \in Links /\ m \in has[p]
    /\ n \in interested[m]
    /\ has' = [has EXCEPT ![n] = @ \cup {m}]
    /\ UNCHANGED interested

Quit(n, M) ==
    /\ interested' = [m \in Msgs |-> IF m \in M THEN interested[m] \ {n} ELSE interested[m]]
    /\ UNCHANGED has

Next ==
    \/ \E n \in Nodes, M \in SUBSET Msgs : Quit(n, M)
    \/ \E m \in Msgs : Start(m)
    \/ \E p, n \in Nodes, m \in Msgs : Hop(p, n, m)

Spec == Init /\ [][Next]_vars
=============================================================================
