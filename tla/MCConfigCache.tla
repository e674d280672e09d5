---------------------------- MODULE MCConfigCache ----------------------------
(* Symmetry for the TLC runs of ConfigCache that check invariants only.    *)
EXTENDS ConfigCache, TLC

Symmetry == Permutations(Instances) \cup Permutations(Clients)
            \cup Permutations(Sources)
=============================================================================
