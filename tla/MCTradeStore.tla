---------------------------- MODULE MCTradeStore ----------------------------
(* Instances of TradeStore for TLC. *)
EXTENDS TradeStore, TLC

\* Engines are interchangeable until they are built.
Symmetry == Permutations(Engines)
=============================================================================
