------------------------------ MODULE MCOffers ------------------------------
(***************************************************************************)
(* Small instances of Offers for TLC.                                      *)
(***************************************************************************)
EXTENDS Offers, TLC

CONSTANTS r1, r2

TwoRequests == {r1, r2}

Interchangeable == Permutations(Request)
=============================================================================
