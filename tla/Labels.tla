------------------------------- MODULE Labels -------------------------------
(* The training targets (ml/model.py, ml/meta.py, BarrierConfig of config.py).   *)
(* A history is a sequence of bars with integer prices; atr is 0 where it is not *)
(* finite or not positive.  Rows are counted from 1.                             *)
EXTENDS Integers, Sequences, FiniteSets

AtLeast(a, b) == IF a >= b THEN a ELSE b
AtMost(a, b) == IF a <= b THEN a ELSE b

-----------------------------------------------------------------------------
(* make_triple_barrier_labels.                                                  *)

\* label_barriers: symmetric unless overridden; None and 0 are no override.
LabelMultiplier(override, tp, sl) == IF override # 0 THEN override ELSE AtLeast(tp, sl)

HitsUpper(h, i, tp, j) == h[j].high >= h[i].close + tp * h[i].atr
HitsLower(h, i, sl, j) == h[j].low <= h[i].close - sl * h[i].atr
Touched(h, i, tp, sl, j) == HitsUpper(h, i, tp, j) \/ HitsLower(h, i, sl, j)

\* The loop over the bars after row i: the first one at a barrier ends it.
ScanBarriers(h, i, horizon, tp, sl) ==
  LET scan[j \in (i + 1)..(i + horizon + 1)] ==
        IF j > i + horizon THEN [label |-> 0, end |-> i + horizon]
        ELSE IF HitsUpper(h, i, tp, j) THEN [label |-> 1, end |-> j]
        ELSE IF HitsLower(h, i, sl, j) THEN [label |-> -1, end |-> j]
        ELSE scan[j + 1]
  IN scan[i + 1]

\* A row's label and the last bar of its window; the last rows have no full window.
TripleBarrier(h, i, horizon, tp, sl) ==
  IF i > Len(h) - horizon THEN [label |-> 0, end |-> Len(h)]
  ELSE IF h[i].atr = 0 THEN [label |-> 0, end |-> i + horizon]
  ELSE ScanBarriers(h, i, horizon, tp, sl)

\* What a triple-barrier label is: the barrier that is touched first within the horizon.
IsFirstTouch(h, i, tp, sl, j) ==
  Touched(h, i, tp, sl, j) /\ \A k \in (i + 1)..(j - 1) : ~ Touched(h, i, tp, sl, k)

FirstTouchLabel(h, i, horizon, tp, sl) ==
  LET touches == {j \in (i + 1)..(i + horizon) : IsFirstTouch(h, i, tp, sl, j)} IN
  IF i > Len(h) - horizon THEN [label |-> 0, end |-> Len(h)]
  ELSE IF h[i].atr = 0 \/ touches = {} THEN [label |-> 0, end |-> i + horizon]
  ELSE LET j == CHOOSE k \in touches : TRUE IN
       [label |-> IF HitsUpper(h, i, tp, j) THEN 1 ELSE -1, end |-> j]

-----------------------------------------------------------------------------
(* make_trend_scanning_labels.  trend[w] is the t-statistic of the bars w: an      *)
(* integer, whose sign is the trend's direction.                                *)

TrendLengths(n, shortest, longest) == AtLeast(3, shortest)..AtMost(longest, n - 1)
FittingLengths(n, i, shortest, longest) ==
  {length \in TrendLengths(n, shortest, longest) : i + length - 1 <= n}

TrendWindow(h, i, length) == [k \in 1..length |-> h[i + k - 1]]
Significance(trend, h, i, length) ==
  LET t == trend[TrendWindow(h, i, length)] IN IF t < 0 THEN -t ELSE t

\* The shortest of the windows whose trend is the most significant; 0 when none has one.
BestLength(trend, h, i, shortest, longest) ==
  LET fitting == FittingLengths(Len(h), i, shortest, longest)
      size(length) == Significance(trend, h, i, length)
      best == {a \in fitting : size(a) > 0 /\ \A b \in fitting \ {a} : size(a) > size(b) \/ (size(a) = size(b) /\ a < b)}
  IN IF best = {} THEN 0 ELSE CHOOSE length \in best : TRUE

\* A row's label, the direction of that trend if it is significant enough, and the last bar of its
\* window.
TrendScan(trend, h, i, shortest, longest, threshold) ==
  LET best == BestLength(trend, h, i, shortest, longest) IN
  [label |-> IF best = 0 \/ Significance(trend, h, i, best) < threshold THEN 0
             ELSE IF trend[TrendWindow(h, i, best)] > 0 THEN 1 ELSE -1,
   end |-> AtMost(i + (IF best > 0 THEN best ELSE 1), Len(h))]

\* The bars its label is computed from: every window is compared, whichever wins.
TrendReads(n, i, shortest, longest) ==
  UNION {i..(i + length - 1) : length \in FittingLengths(n, i, shortest, longest)}

\* lookahead: the bars a label may look ahead, which training drops at the end.
LookaheadOf(method, horizon, longest) == IF method = "trend_scan" THEN longest ELSE horizon

-----------------------------------------------------------------------------
(* make_sample_weights: end[i] is the end of row i's window.                    *)

Concurrency(end, p) == Cardinality({i \in DOMAIN end : i <= p /\ p <= end[i]})

-----------------------------------------------------------------------------
(* Splits.                                                                      *)

\* LightGBMPredictor.train: the last rows only measure.
FitRows(n, percent) == 1..((n * (100 - percent)) \div 100)

\* train_meta_labeled: the first half fits the primary model, the second one judges it, after an
\* embargo.
Half(n) == n \div 2
JudgeFrom(n, embargo) == AtMost(Half(n) + embargo, n - 1) + 1
JudgeRows(n, embargo) == JudgeFrom(n, embargo)..n
=============================================================================
