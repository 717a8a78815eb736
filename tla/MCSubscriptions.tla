-------------------------- MODULE MCSubscriptions --------------------------
(* Small instances of Subscriptions for TLC. *)
EXTENDS Subscriptions, TLC

CONSTANTS t1, t2, s1, s2

\* two subscriptions of one topic
Two == (s1 :> t1) @@ (s2 :> t1)

\* s1 may be cancelled twice, s2 stays
TwiceS1 == (s1 :> 2) @@ (s2 :> 0)

\* a message of two topics, one that lists its topic twice
OneTwoTwice == <<<<t2, t1>>, <<t1, t1>>>>
=============================================================================
