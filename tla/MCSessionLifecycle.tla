------------------------ MODULE MCSessionLifecycle ------------------------
(***************************************************************************)
(* SessionLifecycle for TLC: adapters, calls and runs are interchangeable. *)
(***************************************************************************)
EXTENDS SessionLifecycle, TLC

Symmetry ==
    Permutations(Engines) \cup Permutations(Calls) \cup Permutations(Runs)
=============================================================================
