----------------------------- MODULE MCService ------------------------------
(* The parts of the service beside the engines.  They share no variable, so one  *)
(* run checks each of them alone: part says which one moves.                     *)
EXTENDS TLC, TradeStore, Recorder, Broadcaster, Mt5Bridge, MarketData, MCFeatures, Validation, MCPure

VARIABLE part

\* Engines are interchangeable: only behaviours in which this one is built first are followed.
FirstEngine == CHOOSE e \in Engines : TRUE
BuiltInOrder == life[FirstEngine] = "unborn" => \A e \in Engines : life[e] = "unborn"

\* A clear or a crash, not both.
OneDisturbance == clears + crashes <= 1

\* No pool, a symbol with a longer history, one that trades every other bar, one listed late.
MCPools == {{}, (-2)..18, {2 * k : k \in 1..9}, 6..12}

\* The other parts keep the first of their initial states.
ServiceInit ==
  /\ part \in {"store", "recorder", "broadcaster", "mt5", "history", "features", "validation"}
  /\ StoreInit /\ RecorderInit /\ BroadcastInit /\ BridgeInit /\ DataInit /\ FeatureInit /\ ValidationInit
  /\ part # "mt5" => signal = "none"
  /\ part # "history" => lastClosed = 0 /\ ~forming
  /\ part # "validation" => total = 12 /\ splits = 1 /\ percent = 50 /\ pool = {} /\ ~ownPool

ServiceNext ==
  /\ UNCHANGED part
  /\ \/ part = "store" /\ StoreNext /\ UNCHANGED <<recorderVars, broadcastVars, bridgeVars, dataVars, featureVars, validationVars>>
     \/ part = "recorder" /\ RecorderNext /\ UNCHANGED <<storeVars, broadcastVars, bridgeVars, dataVars, featureVars, validationVars>>
     \/ part = "broadcaster" /\ BroadcastNext /\ UNCHANGED <<storeVars, recorderVars, bridgeVars, dataVars, featureVars, validationVars>>
     \/ part = "mt5" /\ BridgeNext /\ UNCHANGED <<storeVars, recorderVars, broadcastVars, dataVars, featureVars, validationVars>>
     \/ part = "history" /\ DataNext /\ UNCHANGED <<storeVars, recorderVars, broadcastVars, bridgeVars, featureVars, validationVars>>
     \/ part = "features" /\ FeatureNext /\ UNCHANGED <<storeVars, recorderVars, broadcastVars, bridgeVars, dataVars, validationVars>>
     \/ part = "validation" /\ ValidationNext /\ UNCHANGED <<storeVars, recorderVars, broadcastVars, bridgeVars, dataVars, featureVars>>

ServiceSpec ==
  ServiceInit /\ [][ServiceNext]_<<part, storeVars, recorderVars, broadcastVars, bridgeVars, dataVars, featureVars, validationVars>>
=============================================================================
