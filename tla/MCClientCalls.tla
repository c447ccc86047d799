---------------------------- MODULE MCClientCalls ----------------------------
(* Instances of ClientCalls for TLC: callers and keys are model values, and  *)
(* the engine mints any of the keys left, so both are symmetric.            *)
EXTENDS ClientInvariant, TLC

Symmetry == Permutations(Callers) \cup Permutations(Keys)
=============================================================================
