----------------------------- MODULE MCEventHub -----------------------------
(***************************************************************************)
(* Small instances of EventHub for TLC.                                    *)
(***************************************************************************)
EXTENDS EventHub, TLC

CONSTANTS c1, c2, o1, m1

OneClient   == {c1}
TwoClients  == {c1, c2}
OneOffer    == {o1}
OneMessage  == {m1}
None        == {}

Interchangeable ==
  Permutations(Client) \cup Permutations(Offer) \cup Permutations(Message)
=============================================================================
