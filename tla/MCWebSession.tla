--------------------------- MODULE MCWebSession ---------------------------
(* A small instance of WebSession. *)
EXTENDS WebSession, TLC

MCSymmetry == Permutations(Id) \cup Permutations(Req)
=============================================================================
