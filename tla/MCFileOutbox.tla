---------------------------- MODULE MCFileOutbox ----------------------------
(* FileOutbox for TLC: message ids, contents and flushes are model values.   *)
EXTENDS FileOutbox

CONSTANTS m1, m2, c1, c2

\* The application signs two contents under m1, but one under m2.
MCSigned == Message \ {[id |-> m2, content |-> c2]}
MCNext == Next /\ stored' \subseteq MCSigned
MCSpec == Init /\ [][MCNext]_vars /\ Fairness
=============================================================================
