--------------------------- MODULE MCTreeStorage ---------------------------
(* Values of the constants of TreeStorage for TLC. *)
EXTENDS TreeStorage, TLC

CONSTANTS t, short, long

MCWidth == (short :> 8) @@ (long :> 9)

MCInitialLeaves == 1 :> long
=============================================================================
