------------------------------- MODULE MCPure -------------------------------
(* The pure definitions against what they promise, over small inputs.            *)
EXTENDS Labels, Sources, Configuration

\* The loop of make_triple_barrier_labels finds the barrier that is touched first (ml/model.py:61),
\* and a row's window begins at the row and ends in the history.
ASSUME LabelsChecked ==
  \A h \in [1..4 -> [high : {1, 3}, low : {-1, 1}, close : {1}, atr : {1}]] \cup
           [1..3 -> [high : {1, 2}, low : {0, 1}, close : {1}, atr : {0, 1, 2}]] :
    \A i \in DOMAIN h, horizon \in 1..3 :
      LET row == TripleBarrier(h, i, horizon, 1, 1) IN
      /\ row = FirstTouchLabel(h, i, horizon, 1, 1)
      /\ i <= row.end /\ row.end <= Len(h)

\* Every window a trend label compares ends within lookahead bars of its row, so it does not depend
\* on the bars after them, for statistics of either sign (ml/model.py:102).
ASSUME TrendsChecked ==
  LET histories == [1..5 -> 0..1]
      windows == UNION {[1..length -> 0..1] : length \in 3..4}
      ahead(longest) == LookaheadOf("trend_scan", 9, longest)
  IN \A trend \in {[w \in windows |-> w[Len(w)] - w[1]], [w \in windows |-> w[2] - 2 * w[Len(w)]]},
        longest \in 3..4, i \in 1..5 :
       /\ \A t \in TrendReads(5, i, 2, longest) : i <= t /\ t <= 5 /\ t < i + ahead(longest)
       /\ \A h \in histories, g \in histories :
            (\A t \in i..AtMost(i + ahead(longest) - 1, 5) : h[t] = g[t]) =>
              TrendScan(trend, h, i, 2, longest, 1) = TrendScan(trend, g, i, 2, longest, 1)

\* An embargo of the label horizon keeps the windows of the rows the primary model was fitted on
\* from the rows it is judged on (ml/meta.py:123).
ASSUME EmbargoChecked ==
  \A n \in 8..20, horizon \in 1..3 :
    \A i \in 1..Half(n), j \in JudgeRows(n, horizon) : i + LookaheadOf("triple_barrier", horizon, 9) < j

\* No source gives a bar a value from beyond Reach, nor do observations, the newest of them and
\* higher bars; the two ways in which a value comes from after the bar do occur: rows that
\* match no bar and, although "step forward, no leak" (data/sources.py:51), first values.
ASSUME SourcesChecked ==
  LET index == {2, 4, 6}
      times(name, source, bar) == Attached(name, SourceNames, source, index, 2, 3, bar)
  IN /\ \A source \in SUBSET (1..8), bar \in index :
          /\ \A name \in SourceNames : times(name, source, bar) <= Reach(name, source, index, 2, 3, bar)
          /\ Recorded(source, 2, bar) < bar + 2 /\ LatestObservation(source, bar) <= bar
          /\ HigherTimeframe(source \cup index, 3, bar) + 3 <= bar \/ HigherTimeframe(source \cup index, 3, bar) = NoValue
     /\ \A name \in {"use_taker_flow", "use_funding"} : \E source \in SUBSET (1..8), bar \in index :
          times(name, source, bar) > bar

\* Saved API keys take effect unless the environment sets them, config.yaml never gets any, what the
\* dashboard reads shows no secret (api/management.py:156, config.py:384).
ASSUME SettingsChecked ==
  LET names == {<<"exchange", "api_key">>, <<"exchange", "id">>}
      files == UNION {[ks -> {"a", "b"}] : ks \in SUBSET names}
      defaults == [k \in names |-> "default"]
  IN \A env \in files, yaml \in files, updates \in files :
       LET settings == LoadSettings(env, SetKeys("new", "s"), SetConfig(yaml, updates), defaults) IN
       /\ settings[<<"exchange", "api_key">>] =
            IF <<"exchange", "api_key">> \in DOMAIN env THEN env[<<"exchange", "api_key">>] ELSE "new"
       /\ ApiKeys \cap DOMAIN SetConfig(Without(yaml, ApiKeys), updates) = {}
       /\ Redact(settings)[<<"exchange", "api_key">>] = Hidden

\* A model is trained with another symbol whenever pooling is meant (config.py:94), and the gate of
\* start() agrees with the one the dashboard shows (api/server.py:264).
ASSUME ModelsChecked ==
  LET symbols == {"BTC/USDT", "ETH/USDT", "SOL/USDT"}
      models == [symbol : symbols, timeframe : {"1h", "4h"}] \cup {NoModel, NoMeta}
  IN /\ \A s \in symbols, pool \in SUBSET symbols : s \notin PoolFor(s, pool) /\ (pool # {} => PoolFor(s, pool) # {})
     /\ \A own \in models, legacy \in models, s \in symbols :
          LET model == ResolveModel(own, legacy) IN
          (BlockReason(model, s, "4h") = "none") <=> RealOk(model, s, "4h")
=============================================================================
