---------------------------- MODULE MCReceiveDir ----------------------------
(***************************************************************************)
(* Names around one stem.  A sender may ask for "a", for the name uniqueAt *)
(* gives to a second "a", and for a name that ends in ".part" itself.      *)
(***************************************************************************)
EXTENDS ReceiveDir, TLC

CONSTANTS u1, u2, u3

TwoUploads   == {u1, u2}
ThreeUploads == {u1, u2, u3}

Numbered == ("a" :> <<"a", "a (1)", "a (2)">>)
Awkward  == Numbered
            @@ ("a (1)" :> <<"a (1)", "a (1) (1)", "a (1) (2)">>)
            @@ ("a.part" :> <<"a.part", "a (1).part", "a (2).part">>)

Stems == {"a", "a (1)", "a (2)", "a (1) (1)", "a (1) (2)"}
Parts == ("a" :> "a.part") @@ ("a (1)" :> "a (1).part")
         @@ ("a (2)" :> "a (2).part") @@ ("a (1) (1)" :> "a (1) (1).part")
         @@ ("a (1) (2)" :> "a (1) (2).part")

\* Names with two suffixes; nobody asks for a third.
Doubled == ("a.part" :> "a.part.part") @@ ("a (1).part" :> "a (1).part.part")
           @@ ("a (2).part" :> "a (2).part.part")

AllNames ==
  Stems \cup {Parts[n] : n \in Stems} \cup {Doubled[n] : n \in DOMAIN Doubled}

AllTemps ==
  [n \in AllNames |-> IF n \in Stems THEN Parts[n]
                      ELSE IF n \in DOMAIN Doubled THEN Doubled[n]
                      ELSE "a"]  \* never the name of a destination

OneRequest      == {"a"}
PartRequests    == {"a", "a.part"}
AwkwardRequests == {"a", "a (1)", "a.part"}

For(requests) == [n \in requests |-> Awkward[n]]

OneCandidates     == For(OneRequest)
PartCandidates    == For(PartRequests)
AwkwardCandidates == For(AwkwardRequests)

Interchangeable == Permutations(Upload)
=============================================================================
