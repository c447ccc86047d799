--------------------------- MODULE MCFirewallGuard ---------------------------
(* Instances of FirewallGuard for TLC: the threads are interchangeable.      *)
EXTENDS FirewallGuard, TLC

Symmetry == Permutations(Callers)
=============================================================================
