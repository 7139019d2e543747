------------------------------ MODULE MCCharacters ------------------------------
(* Instances of Characters for TLC.                                        *)
EXTENDS Characters, TLC

Symmetry == Permutations(Players)
================================================================================
