---------------------------- MODULE MCMcuSync -----------------------------
(***************************************************************************)
(* McuSync on small models: the constants are given in the .cfg files.     *)
(***************************************************************************)
EXTENDS McuSync
=============================================================================
