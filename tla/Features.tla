------------------------------ MODULE Features ------------------------------
(* The feature engine (data/features.py): which bars every column of transform() *)
(* reads, from which row on it is defined, and what update() answers a live      *)
(* engine that is primed with the last bars (live/engine.py, api/controller.py). *)
(*                                                                               *)
(* A column is what its values are computed from, not the values: rows are       *)
(* counted from 1, it is NaN before row first, and row n reads rows n-back..n,   *)
(* or all rows up to n when whole is TRUE (an exponential average).              *)
EXTENDS Integers, FiniteSetsExt

CONSTANTS
  Windows,          \* FeatureConfig: every indicator's window, by name
  MomentumWindows,  \* features.momentum_windows
  Optional,         \* the optional sources that are switched on
  Sources,          \* those of them that are columns of the frame
  Floor,            \* rows the buffer has at least
  Margin            \* bars fetched beyond warmup

WindowNames ==
  {"atr_period", "vwap_window", "extra_momentum", "volume_spike_window", "zscore_window", "rsi_fast",
   "rsi_slow", "macd_slow", "stoch_k", "stoch_d", "bollinger_window", "adx_period", "donchian",
   "parkinson", "obv_z", "amihud", "fracdiff_window", "trend_ema", "cross_corr_window",
   "vol_pct_window", "htf_lookback_bars"}
OptionalNames ==
  {"use_taker_flow", "use_funding", "use_open_interest", "use_cross_asset", "use_htf", "use_breadth",
   "use_fear_greed", "use_coinbase_premium", "use_recorded"}

ASSUME FeatureAssumption ==
  /\ Windows \in [WindowNames -> Nat \ {0}]
  /\ MomentumWindows \subseteq Nat \ {0} /\ MomentumWindows # {} /\ IsFiniteSet(MomentumWindows)
  /\ Sources \subseteq Optional /\ Optional \subseteq OptionalNames
  /\ Floor \in Nat /\ Margin \in Nat

VARIABLES
  held,      \* bars in the buffer
  answered,  \* TRUE when update() returned a row for the last bar
  stage      \* "new", "primed" (the warm-up bars but the last), "decided" (that one) or "live"

featureVars == <<held, answered, stage>>

-----------------------------------------------------------------------------
(* Series.                                                                      *)

Larger(a, b) == IF a >= b THEN a ELSE b

Raw == [first |-> 1, back |-> 0, whole |-> FALSE]
Shift(s, k) == [first |-> s.first + k, back |-> s.back + k, whole |-> s.whole]
\* rolling(w, min_periods=w)
Rolling(s, w) == Shift(s, w - 1)
\* ewm(min_periods=p), and without
Wilder(s, p) == [first |-> s.first + (p - 1), back |-> s.back, whole |-> TRUE]
Ewm(s) == Wilder(s, 1)
With(s, t) == [first |-> Larger(s.first, t.first), back |-> Larger(s.back, t.back), whole |-> s.whole \/ t.whole]
\* fillna, or a maximum that skips what is missing
Filled(s) == [first |-> 1, back |-> s.back, whole |-> s.whole]

-----------------------------------------------------------------------------
(* transform().                                                                 *)

W == Windows
Shortest == Min(MomentumWindows)
Longest == Max(MomentumWindows)

Change == With(Raw, Shift(Raw, 1))
TrueRange == Filled(Change)
Momentum(w) == With(Raw, Shift(Raw, w))
Rsi(p) == Wilder(Change, p)
ZScore(s, w) == With(s, Rolling(s, w))
Atr == Wilder(TrueRange, W.atr_period)
Directional == Wilder(TrueRange, W.adx_period)
RealizedVol == Rolling(Change, Longest)
VwapDev == With(Raw, Rolling(Raw, W.vwap_window))
Stochastic == With(Raw, Rolling(Raw, W.stoch_k))
Spread(w) == With(Raw, Rolling(Raw, w))

\* The names the code gives them: ret_1, mom_*, mom_accel; rsi, rsi_fast, rsi_slow; macd and its
\* signal; adx, di_diff; atr, realized_vol, parkinson_vol; vwap_dev, vwap_dev_z, price_z;
\* Bollinger and Donchian; stoch_k, stoch_d; fracdiff; ofi_z, vol_z, vol_ratio; obv_z, amihud;
\* the shape of the bar, up_streak, trend_sig and vol_pct.
CoreColumns ==
  {Change, Momentum(W.extra_momentum), With(Momentum(Shortest), Shift(Momentum(Shortest), Shortest))}
  \cup {Momentum(w) : w \in MomentumWindows}
  \cup {Rsi(W.atr_period), Rsi(W.rsi_fast), Rsi(W.rsi_slow), Ewm(Raw)}
  \cup {Wilder(Directional, W.adx_period), Directional, Atr, RealizedVol, Rolling(Raw, W.parkinson)}
  \cup {VwapDev, ZScore(VwapDev, W.zscore_window), ZScore(Raw, W.zscore_window)}
  \cup {Spread(W.bollinger_window), Spread(W.donchian), Stochastic, Rolling(Stochastic, W.stoch_d)}
  \cup {Rolling(Raw, W.fracdiff_window), Spread(W.volume_spike_window)}
  \cup {ZScore(Change, W.obv_z), Rolling(Change, W.amihud)}
  \cup {Raw, Filled(Ewm(Raw)), Filled(Rolling(RealizedVol, W.vol_pct_window))}

\* Without its source an optional column is 0; with it, what is missing is filled with 0.
OptionalColumn(name) ==
  CASE name = "use_taker_flow" -> Rolling(Raw, W.volume_spike_window)
    [] name = "use_funding" -> Rolling(Raw, W.zscore_window)
    [] name = "use_open_interest" -> ZScore(Change, W.zscore_window)
    [] name = "use_cross_asset" -> With(Rolling(Change, W.cross_corr_window), Momentum(Longest))
    [] name = "use_htf" -> Ewm(Raw)
    [] name \in {"use_breadth", "use_fear_greed", "use_coinbase_premium"} -> Change
    [] OTHER -> Raw
OptionalColumns == {IF name \in Sources THEN Filled(OptionalColumn(name)) ELSE Raw : name \in Optional}

Columns == CoreColumns \cup OptionalColumns

\* No column of row n is NaN.
NoneMissing(n) == \A s \in Columns : s.first <= n

-----------------------------------------------------------------------------
(* The engine.                                                                  *)

\* rsi_fast, stoch_k and stoch_d are not among them.
WarmupWindows ==
  {W[name] : name \in WindowNames \ {"rsi_fast", "stoch_k", "stoch_d", "htf_lookback_bars"}}
  \cup {Longest} \cup (IF "use_htf" \in Optional THEN {W.htf_lookback_bars} ELSE {})
WarmupRows == Max(WarmupWindows) + 2
BufferRows == Larger(WarmupRows * 5, Floor)

FeatureInit == held = 0 /\ answered = FALSE /\ stage = "new"

\* Mutant: a row that misses values is answered too.
AnswersAny(n) == n >= WarmupRows

\* update() with n bars in the buffer: a row, if none of its columns is NaN.
Answers(n) == n >= WarmupRows /\ NoneMissing(n)

\* _prime(): the bars the controller fetched, but the last; none when the engine starts cold.
PrimeFeatures ==
  /\ stage = "new"
  /\ \E fetched \in 0..(WarmupRows + Margin) :
       /\ held' = Larger(fetched - 1, 0)
       /\ stage' = IF fetched = 0 THEN "live" ELSE "primed"
       /\ answered' = Answers(held')

\* The strategy's update() for the last warm-up bar, and then for every bar of the stream.
Update ==
  /\ stage # "new"
  /\ held' = IF held < BufferRows THEN held + 1 ELSE held
  /\ answered' = Answers(held')
  /\ stage' = IF stage = "primed" THEN "decided" ELSE "live"

\* reset() is never called: a start builds a new engine.
NewEngine ==
  /\ stage \in {"decided", "live"} /\ stage' = "new"
  /\ held' = 0 /\ answered' = FALSE

FeatureNext == PrimeFeatures \/ Update \/ NewEngine

FeatureSpec == FeatureInit /\ [][FeatureNext]_featureVars

-----------------------------------------------------------------------------
(* Properties.                                                                  *)

FeatureTypeOK ==
  /\ held \in 0..BufferRows /\ answered \in BOOLEAN
  /\ stage \in {"new", "primed", "decided", "live"}

\* A row the strategy gets live was computed like the row of a backtest (data/features.py:14):
\* every windowed column has all the bars of its window, also vol_pct and the optional columns,
\* whose missing values are filled; and an engine whose buffer is full always answers.
LiveRowsAreWhole ==
  /\ answered => \A s \in Columns : s.whole \/ s.back < held
  /\ held = BufferRows => answered

\* The engine primes with history "so that the immediate decision on the latest bar (and the first
\* live bar) has a full backward window" (live/engine.py:213).
FirstDecisionHasWindow == stage = "decided" /\ held = WarmupRows + Margin => answered
=============================================================================
