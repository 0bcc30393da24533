------------------------------ MODULE MCOffline ------------------------------
(* What the scripts do beside the service: a backtest, and the training of the    *)
(* models with the jobs that start it.  They share no variable, so one run checks *)
(* each alone: part says which one moves, the other keeps its initial state.      *)
EXTENDS Backtest, ModelSupply, TLC

VARIABLE part

OfflineInit == part \in {"backtest", "models"} /\ Init /\ SupplyInit

OfflineNext ==
  /\ UNCHANGED part
  /\ \/ part = "backtest" /\ Next /\ UNCHANGED supplyVars
     \/ part = "models" /\ SupplyNext /\ UNCHANGED vars

OfflineSpec == OfflineInit /\ [][OfflineNext]_<<part, vars, supplyVars>>
=============================================================================
