--------------------------- MODULE MCWriteRounds ---------------------------
(***************************************************************************)
(* Small instances of WriteRounds for TLC; their constants are plain       *)
(* values, given in the configurations.                                    *)
(***************************************************************************)
EXTENDS WriteRounds
=============================================================================
