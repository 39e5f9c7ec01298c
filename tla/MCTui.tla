-------------------------------- MODULE MCTui --------------------------------
(* Values for model checking Tui. *)
EXTENDS Tui, TLC

CONSTANTS d1, d2, x1, x2, g1, g2

Devices == {d1, d2}
Paths == {x1, x2}
Entries == {g1, g2}
Folders == {g2}
Roots == {0, 1}

Work == {{"peers", "offers"}, {"picker"}, {"picker", "parent"},
         {"manage", "messages", "settings", "offers"}}

\* A user of the device list.
Peers == {{"peers"}}

Symmetry == Permutations(Devices) \cup Permutations(Paths)
=============================================================================
