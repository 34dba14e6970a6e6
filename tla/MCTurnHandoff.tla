--------------------------- MODULE MCTurnHandoff ---------------------------
(***************************************************************************)
(* TurnHandoff on small models: the constants are given in the .cfg files. *)
(***************************************************************************)
EXTENDS TurnHandoff, TLC

\* The microcontrollers are interchangeable (safety runs only).
Symmetry == Permutations(Mcus)
=============================================================================
