----------------------------- MODULE MCAnnounce -----------------------------
(* Small instances of Announce for TLC. *)
EXTENDS Announce, TLC

WriterSymmetry == Permutations(Writers)
=============================================================================
