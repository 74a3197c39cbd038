----------------------------- MODULE MCCorrection -----------------------------
(* Small instances of Correction for TLC.                                  *)
EXTENDS Correction, TLC

Symmetry == Permutations(Task) \cup Permutations(Name)
=============================================================================
