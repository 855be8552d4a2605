------------------------------- MODULE MCHub -------------------------------
(* The hub on a small instance: see the cfg files for the constants.        *)
EXTENDS Hub
=============================================================================
