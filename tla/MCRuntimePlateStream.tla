------------------------- MODULE MCRuntimePlateStream -------------------------
(* Instances of RuntimePlateStream for TLC: the .cfg files give the bounds. *)
EXTENDS RuntimePlateStream
=============================================================================
