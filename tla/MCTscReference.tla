--------------------------- MODULE MCTscReference ---------------------------
(* Model values and symmetry for the runs of TscReference.                  *)
EXTENDS TscReference, TLC

Symmetry == Permutations(Scopes)
=============================================================================
