------------------------------ MODULE Sources -------------------------------
(* How other series are attached to the bars (data/sources.py, data/recorded.py, *)
(* the higher timeframe of data/features.py).  Time is counted in units; a bar   *)
(* of length tf opens at a multiple of tf and closes tf later; it is named by    *)
(* its opening time.  A source is the set of times at which it has a value, and  *)
(* what is attached to a bar is the time of the value; NoValue stands for NaN.   *)
EXTENDS Integers, FiniteSets

NoValue == -1

\* The latest of some times.
Latest(times) == IF times = {} THEN NoValue ELSE CHOOSE t \in times : \A u \in times : u <= t
Earliest(times) == IF times = {} THEN NoValue ELSE CHOOSE t \in times : \A u \in times : t <= u

\* The bin of length size a time falls in, named by its start (resample, label="left").
Bin(size, t) == (t \div size) * size

-----------------------------------------------------------------------------
(* sources.py.                                                                  *)

\* _exact_or_nearest: the value of the bar's own time; when no bar has one, the nearest within a
\* bar's length.
Matched(source, index) == source \cap index
Distance(t, u) == IF t <= u THEN u - t ELSE t - u
Nearest(source, tf, bar) ==
  {t \in source : Distance(t, bar) <= tf /\ \A u \in source : Distance(t, bar) <= Distance(u, bar)}
ExactOrNearest(source, index, tf, bar) ==
  IF Matched(source, index) # {} \/ Cardinality(index) <= 1
  THEN IF bar \in source THEN bar ELSE NoValue
  ELSE Latest(Nearest(source, tf, bar))

\* _align_ffill: the last value up to the bar's opening; before the first one, the first.
AlignForward(source, index, bar) ==
  LET known == {t \in source : t <= bar}
      filled == {b \in index : \E t \in source : t <= b}
  IN IF known # {} THEN Latest(known)
     ELSE IF filled = {} THEN NoValue
     ELSE Latest({t \in source : t <= Earliest(filled)})

\* reindex(method="ffill") of bins without a gap: the bar's own bin, or the last there is, also
\* when it is empty.
BinFor(source, size, bar) ==
  LET newest == Latest({Bin(size, t) : t \in source})
  IN IF Bin(size, bar) <= newest THEN Bin(size, bar) ELSE newest
InBin(source, size, start) == Latest({t \in source : Bin(size, t) = start})

\* enrich_ohlcv, Fear & Greed: days, moved by one.
FearGreed(source, day, bar) ==
  IF source = {} THEN NoValue ELSE InBin(source, day, BinFor(source, day, bar) - day)

\* enrich_ohlcv, Coinbase premium: the last of the finer candles that open inside the bar.
Premium(source, tf, bar) == InBin(source, tf, bar)

\* The other asset's close: the bar's own, else the last one before.
CrossClose(source, index, tf, bar) ==
  LET matched == {b \in index : b <= bar /\ ExactOrNearest(source, index, tf, b) # NoValue}
  IN IF matched = {} THEN NoValue ELSE ExactOrNearest(source, index, tf, Latest(matched))

\* enrich_ohlcv: what a source gives to a bar.  A source that is off, that raises or that has no
\* value leaves the frame as it is, and the others go on.
Attached(name, answering, source, index, tf, day, bar) ==
  IF name \notin answering \/ source = {} THEN NoValue ELSE
  CASE name \in {"use_taker_flow", "use_breadth"} -> ExactOrNearest(source, index, tf, bar)
    [] name \in {"use_funding", "use_open_interest"} -> AlignForward(source, index, bar)
    [] name = "use_cross_asset" -> CrossClose(source, index, tf, bar)
    [] name = "use_coinbase_premium" -> Premium(source, tf, bar)
    [] name = "use_fear_greed" -> FearGreed(source, day, bar)

-----------------------------------------------------------------------------
(* recorded.py.                                                                 *)

\* merge_recorded: the last observation inside the bar; a bar after the last observation takes
\* the one of the last bar that has one.
Recorded(source, tf, bar) ==
  IF source = {} THEN NoValue ELSE InBin(source, tf, BinFor(source, tf, bar))

\* latest_obs_dict of get_observations(symbol, 1): the newest observation at time now.
LatestObservation(source, now) == Latest({t \in source : t <= now})

-----------------------------------------------------------------------------
(* features.py, higher timeframe: the last bar of length big that is over, when  *)
(* the frame spans more than two.                                               *)

HigherCloses(bars, big) == {Bin(big, b) : b \in bars}
HigherTimeframe(bars, big, bar) ==
  IF Cardinality(HigherCloses(bars, big)) <= 2 THEN NoValue
  ELSE Latest({b \in HigherCloses(bars, big) : b < Bin(big, bar)})

-----------------------------------------------------------------------------
(* Properties.                                                                  *)

\* The latest time a value attached to a bar may be of.  The bar's own, an older one or one inside
\* the bar; but where no row has the time of any bar, a row up to a bar's length ahead, and where
\* funding or open interest begin after the bar, the first value there is, carried back.
Reach(name, source, index, tf, day, bar) ==
  CASE name \in {"use_taker_flow", "use_breadth", "use_cross_asset"} ->
         IF Matched(source, index) # {} THEN bar ELSE bar + tf
    [] name \in {"use_funding", "use_open_interest"} ->
         IF \E t \in source : t <= bar THEN bar ELSE Earliest({b \in index : \E t \in source : t <= b})
    [] name = "use_coinbase_premium" -> bar + tf - 1
    [] name = "use_fear_greed" -> Bin(day, bar) - 1

SourceNames == {"use_taker_flow", "use_breadth", "use_funding", "use_open_interest", "use_cross_asset",
                "use_coinbase_premium", "use_fear_greed"}
=============================================================================
