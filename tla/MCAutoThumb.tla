----------------------------- MODULE MCAutoThumb -----------------------------
(***************************************************************************)
(* AutoThumb for TLC: the workers are interchangeable.                     *)
(***************************************************************************)
EXTENDS AutoThumb, TLC

Symmetry == Permutations(Workers)
=============================================================================
