---------------------------- MODULE MCDiscovery -----------------------------
(***************************************************************************)
(* Small instances of Discovery for TLC.                                   *)
(***************************************************************************)
EXTENDS Discovery

CONSTANTS d1, d2, g1, c1, a1, lan, loop, p1, p2

OneDevice     == {d1}
TwoDevices    == {d1, d2}
OneGoroutine  == {g1}
TwoAddresses  == {lan, loop}
\* One device in the network, one behind tailscaled.
EitherWay     == [d \in Device |-> IF d = d1 THEN {lan, loop} ELSE {lan}]
OnePort       == {p1}
TwoPorts      == {p1, p2}
OneClient     == {c1}
OneAsker      == {a1}
NoOne         == {}
=============================================================================
