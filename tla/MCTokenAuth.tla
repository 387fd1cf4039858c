---------------------------- MODULE MCTokenAuth ----------------------------
(* The two keys are alike. *)
EXTENDS TokenAuth, TLC

Symmetry == Permutations(Keys)
==============================================================================
