----------------------------- MODULE MCFeatures -----------------------------
(* Features with the windows of config/config.yaml and the defaults of           *)
(* FeatureConfig (config.py).                                                    *)
EXTENDS Features

ShippedWindows ==
  [atr_period |-> 14, vwap_window |-> 60, extra_momentum |-> 30, volume_spike_window |-> 30,
   zscore_window |-> 60, rsi_fast |-> 7, rsi_slow |-> 30, macd_slow |-> 26,
   stoch_k |-> 14, stoch_d |-> 3, bollinger_window |-> 20, adx_period |-> 14,
   donchian |-> 20, parkinson |-> 20, obv_z |-> 30, amihud |-> 20,
   fracdiff_window |-> 60, trend_ema |-> 50, cross_corr_window |-> 60, vol_pct_window |-> 100,
   htf_lookback_bars |-> 200]
=============================================================================
