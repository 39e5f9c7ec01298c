----------------------------- MODULE MCPinLimit -----------------------------
(* Values for model checking PinLimit. *)
EXTENDS PinLimit, TLC

CONSTANTS i1, i2, i3, h1, h2

Ips == {i1, i2, i3}
Handlers == {h1, h2}

Symmetry == Permutations(Ips) \cup Permutations(Handler)
=============================================================================
