------------------------------ MODULE MCEngines ------------------------------
(* Values for model checking Engines. *)
EXTENDS Engines, TLC

CONSTANTS e1, e2, t1

TwoEngines == {e1, e2}
WithTerminal == {e1, e2, t1}
Inodes == 1 .. 4
MoreInodes == 1 .. 5

AllTopics == {"settings", "flags", "messages"}
StartsOverlap == {"settings", "messages"} \X {"start"}
AllOverlap == AllTopics \X {"start", "stop"}

Symmetry == Permutations(Engine)
=============================================================================
