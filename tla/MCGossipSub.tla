---------------------------- MODULE MCGossipSub ----------------------------
(* Small instances of GossipSub for TLC. *)
EXTENDS GossipSub, TLC

\* messages of this host, in all topics
OwnMessages == [i \in Ids |-> Self]
AllTopics == [i \in Ids |-> Topics]

\* GRAFT and PRUNE in any combination, IHAVE with IWANT
SmallControls ==
    {[ihave |-> {}, iwant |-> {}, graft |-> g, prune |-> r] : g, r \in SUBSET Topics} \cup
    {[ihave |-> Topics \X Ids, iwant |-> Ids, graft |-> {}, prune |-> {}]}

PeerSymmetry == Permutations(Peers)
=============================================================================
