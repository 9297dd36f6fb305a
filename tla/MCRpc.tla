------------------------------- MODULE MCRpc -------------------------------
(* The client of one session for TLC.                                      *)
EXTENDS Rpc
=============================================================================
