-------------------------- MODULE MCUploadSessions --------------------------
(***************************************************************************)
(* Small instances of UploadSessions for TLC.                              *)
(***************************************************************************)
EXTENDS UploadSessions, TLC

CONSTANTS s1, s2, f1, f2, h1, h2

TwoSessions == {s1, s2}
OneFile     == {f1}
TwoFiles    == {f1, f2}
TwoHandlers == {h1, h2}

Interchangeable ==
  Permutations(Session) \cup Permutations(File) \cup Permutations(Handler)
=============================================================================
