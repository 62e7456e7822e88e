------------------------------ MODULE MCAigStore ------------------------------
(* A store of up to three elements.                                        *)
EXTENDS AigStore, TLC

HandleSymmetry == Permutations(Handles)
=============================================================================
