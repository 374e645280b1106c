------------------------- MODULE MCBackendRegistry -------------------------
(* Small instances of BackendRegistry for TLC. *)
EXTENDS BackendRegistry, TLC

Symmetry == Permutations(Starters) \union Permutations(Backends)
=============================================================================
