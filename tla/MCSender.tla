------------------------------ MODULE MCSender ------------------------------
(* Values for model checking Sender. *)
EXTENDS Sender

CONSTANTS b1, b2, b3, p1, f1

Batches == {b1, b2, b3}
TwoBatches == {b1, b2}
Peers == {p1}
OneFile == {f1}
=============================================================================
