--------------------------- MODULE MCToolVerifier ---------------------------
(* ToolVerifier for TLC. *)
EXTENDS ToolVerifier, TLC

Symmetry == Permutations(Requests) \cup Permutations(Parties)
=============================================================================
