----------------------------- MODULE MCWindows -----------------------------
(***************************************************************************)
(* Small instances of Windows for TLC; their constants are plain values,   *)
(* given in the configurations.                                            *)
(***************************************************************************)
EXTENDS Windows
=============================================================================
