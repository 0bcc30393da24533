---------------------------- MODULE MCController ----------------------------
(* Instances of Controller for TLC. *)
EXTENDS Controller, TLC

\* flatten_all() calls are interchangeable.
Symmetry == Permutations(Calls)
=============================================================================
