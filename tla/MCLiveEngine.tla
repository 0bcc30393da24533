---------------------------- MODULE MCLiveEngine ----------------------------
(* Instances of LiveEngine for TLC. *)
EXTENDS LiveEngine, TLC

\* flatten calls are interchangeable.
Symmetry == Permutations(Killers)
=============================================================================
