----------------------------- MODULE Validation -----------------------------
(* How a model is trained and scored (scripts/walkforward.py, holdout.py,       *)
(* train_model.py): the history is cut into folds; a fold trains on the bars    *)
(* before its test bars, with the bars other symbols had by then, holds the     *)
(* last rows of the primary symbol out to calibrate, and scores its test bars.  *)
(* The two other scripts are one fold.  Bar t of the primary symbol opens at    *)
(* time t; a frame is the set of times at which a symbol has a bar.             *)
EXTENDS Integers, FiniteSets

CONSTANTS
  Totals,         \* lengths of the primary symbol's history
  SplitCounts,    \* --splits
  Percents,       \* --train-frac, in percent
  Pools,          \* times at which the pooled symbol may have bars; {} is no pool
  Lookahead,      \* barriers.lookahead: bars of a label's window
  Warmup,         \* first rows of a frame whose features are incomplete
  CalPercent,     \* calibration_fraction, in percent
  MinFit, MinCal  \* rows that must be left to fit, and to calibrate with

ASSUME ValidationAssumption ==
  /\ Totals \subseteq Nat /\ SplitCounts \subseteq Nat \ {0}
  /\ Percents \subseteq 0..100 /\ CalPercent \in 0..100
  /\ \A P \in Pools : P \subseteq Int /\ IsFiniteSet(P)
  /\ {Lookahead, Warmup, MinFit, MinCal} \subseteq Nat
  \* in a frame that is shorter than a label's window no row has all its features
  /\ Lookahead <= Warmup

VARIABLES
  total, splits, percent,  \* the history and the arguments
  pool,       \* the pooled symbol's frame
  ownPool,    \* TRUE when the pooled symbol is the primary itself, as holdout.py allows
  fold,       \* the fold the script is at
  phase,      \* "train", "test", "done" or "error"
  fitted,     \* rows <<frame, time>> the trees of the last model were fitted on
  calibrated, \* rows its temperature was fitted on
  scored,     \* times that were scored
  scores      \* how many bars were scored

validationVars == <<total, splits, percent, pool, ownPool, fold, phase, fitted, calibrated, scored, scores>>
arguments == <<total, splits, percent, pool, ownPool>>

ValidationInit ==
  /\ total \in Totals /\ splits \in SplitCounts /\ percent \in Percents
  /\ ownPool \in BOOLEAN
  /\ IF ownPool THEN splits = 1 /\ pool = 1..total ELSE pool \in Pools
  /\ fold = 0 /\ phase = "train"
  /\ fitted = {} /\ calibrated = {} /\ scored = {} /\ scores = 0

-----------------------------------------------------------------------------
(* The folds.                                                                   *)

Initial == (total * percent) \div 100
TestLen == (total - Initial) \div splits

\* Bars before the test bars of fold i, and before the end of them.
TrainEnd(i) == Initial + i * TestLen
TestEnd(i) == IF i = splits - 1 THEN total ELSE TrainEnd(i) + TestLen
TestBars(i) == (TrainEnd(i) + 1)..TestEnd(i)

\* cutoff_ts: the first test bar, or the last bar when there is none.
Cutoff(i) == IF TrainEnd(i) < total THEN TrainEnd(i) + 1 ELSE total

\* Mutant: the pooled symbol keeps the bar that opens with the test.
PooledUpTo(i) == {t \in pool : t <= Cutoff(i)}

\* The pooled symbol's bars a fold may see.
Pooled(i) == {t \in pool : t < Cutoff(i)}

Frame(name, i) == IF name = "primary" THEN 1..TrainEnd(i) ELSE Pooled(i)
Frames == {"primary", "pooled"}

-----------------------------------------------------------------------------
(* Rows.                                                                        *)

Later(frame, t) == {u \in frame : u > t}
Earlier(frame, t) == {u \in frame : u < t}

\* index[: n - lookahead]: a negative bound counts from the end.
Dropped(n) == IF n >= Lookahead THEN Lookahead ELSE Lookahead - n

\* The rows _prepare_one keeps, and those of them that survive dropna() in the trainer.
Kept(frame) == {t \in frame : Cardinality(Later(frame, t)) >= Dropped(Cardinality(frame))}
Complete(frame) == {t \in Kept(frame) : Cardinality(Earlier(frame, t)) >= Warmup}

\* The first frame that has bars gives the rows to calibrate with: the last ones, if
\* enough are left on both sides.
Leading(i) == IF Frame("primary", i) # {} THEN "primary" ELSE "pooled"
HeldOut(i) ==
  LET rows == Kept(Frame(Leading(i), i))
      cut == (Cardinality(rows) * (100 - CalPercent)) \div 100
      tail == {t \in rows : Cardinality(Earlier(rows, t)) >= cut}
  IN IF cut > MinFit /\ Cardinality(rows) - cut >= MinCal
     THEN {<<Leading(i), t>> : t \in tail} ELSE {}

RowsOf(i) == UNION {{<<name, t>> : t \in Complete(Frame(name, i))} : name \in Frames}

-----------------------------------------------------------------------------
(* The script.                                                                  *)

\* train_predictor; without a row pandas or LightGBM raises and the script ends.
TrainFold ==
  /\ phase = "train"
  /\ fitted' = RowsOf(fold) \ HeldOut(fold)
  /\ calibrated' = RowsOf(fold) \cap HeldOut(fold)
  /\ phase' = IF fitted' = {} THEN "error" ELSE "test"
  /\ UNCHANGED <<arguments, fold, scored, scores>>

\* The backtest of the fold's test bars.
TestFold ==
  /\ phase = "test"
  /\ scored' = scored \cup TestBars(fold)
  /\ scores' = scores + Cardinality(TestBars(fold))
  /\ fold' = fold + 1
  /\ phase' = IF fold' = splits THEN "done" ELSE "train"
  /\ UNCHANGED <<arguments, fitted, calibrated>>

ValidationNext == TrainFold \/ TestFold

ValidationSpec == ValidationInit /\ [][ValidationNext]_validationVars

-----------------------------------------------------------------------------
(* Properties.                                                                  *)

ValidationTypeOK ==
  /\ total \in Nat /\ splits \in Nat \ {0} /\ percent \in 0..100
  /\ fold \in 0..splits /\ phase \in {"train", "test", "done", "error"}
  /\ fold = splits <=> phase = "done"
  /\ scored \subseteq 1..total

\* The bars a row's features and label are computed from.
ReadsOf(name, t) ==
  LET frame == Frame(name, fold) IN
  Earlier(frame, t) \cup {t} \cup {u \in frame : u > t /\ Cardinality({v \in frame : v > t /\ v <= u}) <= Lookahead}

\* A model has seen nothing of the bars it is scored on: neither the features nor the label
\* window of a row it was fitted or calibrated on reach its first test bar, also for a pooled
\* symbol with other trading times, and every label had its whole window.  No bar that
\* calibrates was fitted as a row of the primary symbol (it may be as the pooled one, when the
\* primary is pooled with itself).  The folds score every bar after the first training window
\* once (scripts/walkforward.py:238).
TrainedOnThePast ==
  /\ phase = "test" =>
       \A row \in fitted \cup calibrated :
         /\ \A t \in ReadsOf(row[1], row[2]) : \A s \in TestBars(fold) : t < s
         /\ Cardinality(Later(ReadsOf(row[1], row[2]), row[2])) = Lookahead
  /\ \A row \in calibrated : <<"primary", row[2]>> \notin fitted
  /\ scored = (Initial + 1)..(IF phase = "done" THEN total ELSE TrainEnd(fold))
  /\ scores = Cardinality(scored)
=============================================================================
