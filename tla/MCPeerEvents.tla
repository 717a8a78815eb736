---------------------------- MODULE MCPeerEvents ----------------------------
(* Small instances of PeerEvents for TLC. *)
EXTENDS PeerEvents, TLC

CONSTANTS p1, p2, s1, s2, n1, n2, n3

\* two callers compete for the events of s1
SharedSub == (n1 :> s1) @@ (n2 :> s1) @@ (n3 :> s2)

PeerSymmetry == Permutations(Peers)
=============================================================================
