---------------------------- MODULE MCEndpoints ----------------------------
(***************************************************************************)
(* A small instance of Endpoints for TLC: its threads and contexts.        *)
(***************************************************************************)
EXTENDS Endpoints

MCContexts == <<"c1", "c2", "c3">>
=============================================================================
