----------------------------- MODULE MCPeerConn -----------------------------
(* Small instances of PeerConn for TLC. *)
EXTENDS PeerConn, TLC

WriterSymmetry == Permutations(Writers)
=============================================================================
