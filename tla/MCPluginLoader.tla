--------------------------- MODULE MCPluginLoader ---------------------------
(***************************************************************************)
(* PluginLoader for TLC: plugins, calls and chains are interchangeable.    *)
(***************************************************************************)
EXTENDS PluginLoader, TLC

Symmetry == Permutations(Plugins) \cup Permutations(Callers) \cup Permutations(Chains)
=============================================================================
