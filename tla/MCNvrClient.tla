----------------------------- MODULE MCNvrClient -----------------------------
(* NvrClient for TLC.                                                         *)
EXTENDS NvrClient, TLC
Symmetric == Permutations(Channel) \cup Permutations(Plate)
=============================================================================
