--------------------------- MODULE MCSqliteOutbox ---------------------------
(* SqliteOutbox for TLC: ids, contents and flushes are model values. *)
EXTENDS SqliteOutbox

Symmetry == Permutations(MessageIds) \cup Permutations(Contents)
              \cup Permutations(Flushers)
=============================================================================
