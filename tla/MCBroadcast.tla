----------------------------- MODULE MCBroadcast -----------------------------
(* Four nodes for TLC: a diamond and a chord *)
EXTENDS Broadcast

CONSTANTS a, b, c, d, m1, m2, t1, t2

Edges == {{a, b}, {a, c}, {b, d}, {c, d}, {b, c}}
Diamond == {l \in Nodes \X Nodes : {l[1], l[2]} \in Edges}
\* a is subscribed to nothing, d floods
Mixed == [n \in Nodes |-> IF n = d THEN "flood" ELSE "random"]
Interests == [n \in Nodes |-> CASE n = a -> {} [] n = b -> {t1} [] OTHER -> {t1, t2}]
Lists == [m \in Msgs |-> IF m = m1 THEN {t1} ELSE {t1, t2}]
Authors == [m \in Msgs |-> IF m = m1 THEN a ELSE b]
\* b may relay m1 again, and its own m2
OneForgets == [n \in Nodes |-> IF n = b THEN 1 ELSE 0]
=============================================================================
