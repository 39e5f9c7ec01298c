----------------------------- MODULE MCTransfer -----------------------------
(* Values for model checking Transfer. *)
EXTENDS Transfer, TLC

CONSTANTS b1, b2, p1, f1, f2

Batches == {b1, b2}
Peers == {p1}
Files == {f1, f2}

Symmetry == Permutations(Batches) \cup Permutations(Files)
=============================================================================
