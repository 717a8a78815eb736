---------------------------- MODULE MCValidation ----------------------------
(* Small instances of Validation for TLC. *)
EXTENDS Validation, TLC

CONSTANTS c1, c2, p1, me, i1, i2, t1, t2, v1, v2, v3, w1, w2

Msg(i, s, T) == [id |-> i, sig |-> s, topics |-> T]

\* i1 comes from another author, i2 from this host
AuthorOf == (i1 :> p1) @@ (i2 :> me)
AuthorOfOne == (i1 :> p1)

\* one id, in a signed and in an unsigned copy
TwoForms == {Msg(i1, "good", <<t1>>), Msg(i1, "none", <<t1>>)}
\* messages of one topic, of two, and of one that is listed twice
TwoTopics ==
    {Msg(i2, "good", <<t1>>), Msg(i1, "good", <<t1, t2>>), Msg(i1, "good", <<t1, t1>>)}
\* the same, and one with a bad signature
TwoTopicsOrBad == TwoTopics \cup {Msg(i1, "bad", <<t1>>)}

\* one validator per topic
TopicOf == (v1 :> t1) @@ (v2 :> t2)
\* one per topic, and an inline one that may stand in for the first
ThreeOf == TopicOf @@ (v3 :> t1)
OneTopic == (v1 :> t1)
ThirdInline == [v \in Vals |-> v = v3]
NoneInline == [v \in Vals |-> FALSE]
OneSlot == [v \in Vals |-> 1]

CopySymmetry == Permutations(Copies)
=============================================================================
