--------------------------- MODULE MCGenerateDump ---------------------------
(***************************************************************************)
(* GenerateDump for TLC: the constants are given in the configurations.    *)
(***************************************************************************)
EXTENDS GenerateDump
=============================================================================
