--------------------------- MODULE MCActionClient ---------------------------
(* Instances of ActionClient for TLC. *)
EXTENDS ActionClient, TLC

CONSTANTS c1, c2, c3, k1

\* Every call goes to one key.
OneKey == [c \in Calls |-> k1]
\* Calls of the same kind on the same key are interchangeable.
Symmetry == Permutations(Calls)
=============================================================================
