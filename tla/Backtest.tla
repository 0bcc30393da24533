------------------------------ MODULE Backtest ------------------------------
(***************************************************************************)
(* The event-driven backtester (backtest/engine.py) with the portfolio,    *)
(* the risk manager, the execution simulator and the strategy it wires     *)
(* together.                                                               *)
(*                                                                         *)
(* One bar is three steps, in the order of _step(): OpenBar executes the   *)
(* order queued on the previous bar at this bar's open, CloseBar applies   *)
(* the triple barriers, starts the cooldown and marks the book to the      *)
(* close, Decide queues the next order.                                    *)
(*                                                                         *)
(* Prices are integers.  Rates are in Unit-ths, so that money, counted in  *)
(* Unit-ths of the price unit, stays exact; quantities are whole.          *)
(***************************************************************************)
EXTENDS Integers, Sequences, SequencesExt

CONSTANTS
  Prices,        \* prices of a bar
  Atrs,          \* values of the ATR
  SlMult,        \* barriers.sl_mult
  TpMult,        \* barriers.tp_mult
  Horizon,       \* barriers.horizon (0: no time barrier)
  CooldownBars,  \* risk.cooldown_bars
  Unit,          \* denominator of the rates
  TakerFee, MakerFee, Slippage, LimitOffset,  \* rates, in Unit-ths
  EntryTypes,    \* execution.entry_order_type, as the set of its possible values
  RiskPct,       \* risk.risk_per_trade, in percent
  MaxLeverage,   \* risk.max_leverage (0: off)
  AllowShort,    \* strategy.allow_short
  InitialEquity, \* risk.account_equity, in money
  MaxBars        \* bound: bars of the data

ASSUME BacktestAssumption ==
  /\ Prices \subseteq Nat \ {0} /\ Atrs \subseteq Nat
  /\ SlMult \in Nat /\ TpMult \in Nat /\ Horizon \in Nat /\ CooldownBars \in Nat
  /\ Unit \in Nat \ {0} /\ {TakerFee, MakerFee, Slippage, LimitOffset} \subseteq Nat
  /\ EntryTypes \subseteq {"market", "limit"} /\ AllowShort \in BOOLEAN
  /\ RiskPct \in 0..100 /\ MaxLeverage \in Nat /\ InitialEquity \in Int /\ MaxBars \in Nat

VARIABLES
  phase,     \* "open", "manage", "decide" inside the loop of run(), then "done"
  n,         \* bars so far
  bar,       \* the current bar
  pending,   \* the queued order, NoOrder for None
  position,  \* Portfolio.position, NoPosition for None
  trades,    \* Portfolio.trades
  realized,  \* Portfolio.realized_equity
  marked,    \* the last sample of the equity curve
  cooldown,  \* _cooldown_remaining
  seen,      \* _trades_seen
  report,    \* final_equity of the report
  \* history
  budget,    \* money the risk manager put at risk in the last entry order
  entryFees, \* entry fees paid
  sinceExit  \* bars closed since the last exit, saturating at CooldownBars

bookVars == <<position, trades, realized, entryFees>>
vars == <<phase, n, bar, pending, bookVars, marked, cooldown, seen, report, budget, sinceExit>>

-----------------------------------------------------------------------------
Sides == {-1, 1}
Bars  == {b \in [open : Prices, high : Prices, low : Prices, close : Prices] :
            /\ b.low <= b.open /\ b.open <= b.high
            /\ b.low <= b.close /\ b.close <= b.high}
NoBar      == [open |-> 0, high |-> 0, low |-> 0, close |-> 0]
NoOrder    == [side |-> 0, exit |-> FALSE, qty |-> 0, limit |-> 0, stop |-> 0, target |-> 0]
NoPosition == [side |-> 0, qty |-> 0, entry |-> 0, stop |-> 0, target |-> 0, held |-> 0,
               best |-> 0]
HasPosition == position.side # 0

\* A market order fills with slippage against the trader and the taker fee, a
\* limit order at its price and with the maker fee.
MarketFill(side, base) == base + side * ((base * Slippage) \div Unit)
Fee(qty, price, rate) == qty * price * rate

\* Mark-to-market equity at a price.
EquityOf(cash, pos, price) == cash + pos.side * (price - pos.entry) * pos.qty * Unit
Equity(price) == EquityOf(realized, position, price)

Init ==
  /\ phase = "open" /\ n = 0 /\ bar = NoBar
  /\ pending = NoOrder /\ position = NoPosition /\ trades = << >>
  /\ realized = InitialEquity /\ marked = InitialEquity
  /\ cooldown = 0 /\ seen = 0 /\ report = InitialEquity
  /\ budget = 0 /\ entryFees = 0 /\ sinceExit = CooldownBars

-----------------------------------------------------------------------------
(* The portfolio                                                           *)

\* open_position: the barriers are anchored to the fill.
Open(order, price, rate) ==
  /\ position' = [side |-> order.side, qty |-> order.qty, entry |-> price,
                  stop |-> price - order.side * order.stop,
                  target |-> price + order.side * order.target,
                  held |-> 0, best |-> price]
  /\ realized' = realized - Fee(order.qty, price, rate)
  /\ entryFees' = entryFees + Fee(order.qty, price, rate)
  /\ UNCHANGED trades

\* What closing position pos at an exit price earns, before and after the exit fee.
Gross(pos, price) == pos.side * (price - pos.entry) * pos.qty * Unit
Net(pos, price) == Gross(pos, price) - Fee(pos.qty, price, TakerFee)

\* What a close adds to the realized equity.
BookedGross(pos, price) == Gross(pos, price) \* mutant: the fee stays in the trade
Booked(pos, price) == Net(pos, price)

\* The exit order of pos executed around base, and close_position.
Close(pos, base, reason) ==
  LET price == MarketFill(-pos.side, base)
  IN  /\ trades' = Append(trades, [side |-> pos.side, qty |-> pos.qty, entry |-> pos.entry,
                                   exit |-> price, best |-> pos.best, reason |-> reason,
                                   gross |-> Gross(pos, price), net |-> Net(pos, price)])
      /\ realized' = realized + Booked(pos, price)
      /\ position' = NoPosition
      /\ UNCHANGED entryFees

-----------------------------------------------------------------------------
(* (a) the open of a bar: execute the queued order                         *)

Tick(c) == IF c > 0 THEN c - 1 ELSE 0

OpenBar(b) ==
  /\ phase = "open" /\ n < MaxBars
  /\ phase' = "manage" /\ n' = n + 1 /\ bar' = b
  /\ cooldown' = Tick(cooldown) /\ pending' = NoOrder
  /\ UNCHANGED <<marked, seen, report, budget>>

NothingPending(b) ==
  /\ pending = NoOrder
  /\ OpenBar(b)
  /\ UNCHANGED <<bookVars, sinceExit>>

PendingExit(b) ==
  /\ pending.exit
  /\ OpenBar(b)
  /\ IF HasPosition THEN Close(position, b.open, "signal") /\ sinceExit' = 0
                    ELSE UNCHANGED <<bookVars, sinceExit>>

\* The bar trades through the price of a passive order.
Touched(order, b) == IF order.side = 1 THEN b.low <= order.limit ELSE b.high >= order.limit

PendingEntry(b) ==
  /\ pending # NoOrder /\ ~pending.exit
  /\ OpenBar(b)
  /\ IF pending.limit = 0 THEN Open(pending, MarketFill(pending.side, b.open), TakerFee)
     ELSE IF Touched(pending, b) THEN Open(pending, pending.limit, MakerFee)
     ELSE UNCHANGED bookVars
  /\ UNCHANGED sinceExit

-----------------------------------------------------------------------------
(* (b), (c) the bar's range and close                                      *)

\* The barriers that this bar touches, and the price each exits at.  held
\* already counts this bar.
StopHit(pos, b)   == IF pos.side = 1 THEN b.low <= pos.stop ELSE b.high >= pos.stop
TargetHit(pos, b) == IF pos.side = 1 THEN b.high >= pos.target ELSE b.low <= pos.target
TimeUpLate(pos) == Horizon > 0 /\ pos.held > Horizon \* mutant: one bar late
TimeUp(pos) == Horizon > 0 /\ pos.held >= Horizon

Better(pos, b) == IF pos.side = 1 THEN (IF b.high > pos.best THEN b.high ELSE pos.best)
                                  ELSE (IF b.low < pos.best THEN b.low ELSE pos.best)

\* The stop first, then the target, then the time barrier; the excursion grows
\* when none is hit.
Manage ==
  LET pos == [position EXCEPT !.held = @ + 1]
  IN  IF StopHit(pos, bar) THEN Close(pos, pos.stop, "stop_loss")
      ELSE IF TargetHit(pos, bar) THEN Close(pos, pos.target, "take_profit")
      ELSE IF TimeUp(pos) THEN Close(pos, bar.close, "time_exit")
      ELSE /\ position' = [pos EXCEPT !.best = Better(pos, bar)]
           /\ UNCHANGED <<trades, realized, entryFees>>

\* A trade closed on this bar starts the cooldown.
CooldownAfter(c) == IF Len(trades') > seen THEN CooldownBars ELSE c

\* The book after the barriers, marked to the close.
MarkedBefore == Equity(bar.close) \* mutant: marked before the barriers are applied
Marked == EquityOf(realized', position', bar.close)

CloseBar ==
  /\ phase = "manage"
  /\ IF HasPosition THEN Manage ELSE UNCHANGED bookVars
  /\ cooldown' = CooldownAfter(cooldown) /\ seen' = Len(trades')
  /\ marked' = Marked
  /\ sinceExit' = IF Len(trades') > Len(trades) THEN 0
                  ELSE IF sinceExit < CooldownBars THEN sinceExit + 1 ELSE sinceExit
  /\ phase' = "decide"
  /\ UNCHANGED <<n, bar, pending, report, budget>>

-----------------------------------------------------------------------------
(* (d) the strategy's signal                                               *)

\* The signals _to_signal can give; the filters may drop any of them.
Signals == IF AllowShort THEN {-1, 0, 1} ELSE {0, 1}

Smaller(a, b) == IF a < b THEN a ELSE b

\* The quantity size_order risks RiskPct of the equity on, capped by the leverage.
UnscaledQty(equity, stop, price) == (equity * RiskPct) \div (100 * Unit) \* mutant: ignores the stop
OrderQty(equity, stop, price) ==
  LET risked == (equity * RiskPct) \div (100 * Unit * stop)
  IN  IF MaxLeverage > 0 THEN Smaller(risked, (MaxLeverage * equity) \div (Unit * price))
      ELSE risked

\* The price a passive entry is posted at.
LimitPrice(d, price) == price - d * ((price * LimitOffset) \div Unit)

\* The entry order of size_order; it may also refuse (the gate on expected value,
\* or nothing to risk).
EntryOrder(d, atr, type) ==
  [side |-> d, exit |-> FALSE, qty |-> OrderQty(Equity(bar.close), SlMult * atr, bar.close),
   limit |-> IF type = "limit" THEN LimitPrice(d, bar.close) ELSE 0,
   stop |-> SlMult * atr, target |-> TpMult * atr]

ExitOrder == [side |-> -position.side, exit |-> TRUE, qty |-> position.qty, limit |-> 0,
              stop |-> 0, target |-> 0]

\* Flat and past the cooldown: an entry may be queued.
MayEnterHolding == cooldown = 0 \* mutant: the open position is not looked at
MayEnterCooling == ~HasPosition \* mutant: the cooldown is not looked at
MayEnter == ~HasPosition /\ cooldown = 0

DecideStep ==
  /\ phase = "decide" /\ phase' = "open"
  /\ UNCHANGED <<n, bar, bookVars, marked, cooldown, seen, report, sinceExit>>

DecideNothing == DecideStep /\ pending' = NoOrder /\ UNCHANGED budget

DecideExit ==
  /\ DecideStep
  /\ HasPosition /\ -position.side \in Signals
  /\ pending' = ExitOrder
  /\ UNCHANGED budget

DecideEntry ==
  /\ DecideStep
  /\ MayEnter /\ Equity(bar.close) > 0
  /\ \E d \in Signals \ {0}, atr \in Atrs, type \in EntryTypes :
       /\ SlMult * atr > 0 /\ EntryOrder(d, atr, type).qty > 0
       /\ pending' = EntryOrder(d, atr, type)
  /\ budget' = (Equity(bar.close) * RiskPct) \div 100

-----------------------------------------------------------------------------
\* The data ends: the residual position is closed at the last close, and the
\* report takes its final equity from the equity curve.
End ==
  /\ phase = "open" /\ phase' = "done"
  /\ IF HasPosition THEN Close(position, bar.close, "end_of_data") /\ sinceExit' = 0
                    ELSE UNCHANGED <<bookVars, sinceExit>>
  /\ report' = marked
  /\ UNCHANGED <<n, bar, pending, marked, cooldown, seen, budget>>

Next ==
  \/ \E b \in Bars : NothingPending(b) \/ PendingExit(b) \/ PendingEntry(b)
  \/ CloseBar
  \/ DecideNothing \/ DecideExit \/ DecideEntry
  \/ End

Spec == Init /\ [][Next]_vars

-----------------------------------------------------------------------------
(* Properties                                                              *)

OrderTypes ==
  pending \in [side : {-1, 0, 1}, exit : BOOLEAN, qty : Int, limit : Int, stop : Int,
               target : Int]
BookTypes ==
  /\ position \in [side : {-1, 0, 1}, qty : Int, entry : Int, stop : Int, target : Int,
                   held : Nat, best : Int]
  /\ trades \in Seq([side : Sides, qty : Int, entry : Int, exit : Int, best : Int,
                     reason : {"signal", "stop_loss", "take_profit", "time_exit",
                               "end_of_data"}, gross : Int, net : Int])
  /\ realized \in Int /\ entryFees \in Int
LoopTypes ==
  /\ phase \in {"open", "manage", "decide", "done"} /\ n \in 0..MaxBars
  /\ bar \in Bars \cup {NoBar}
  /\ marked \in Int /\ report \in Int /\ budget \in Int
  /\ cooldown \in 0..CooldownBars /\ seen \in Nat /\ sinceExit \in 0..CooldownBars

\* Every variable has its type.
TypeOK == OrderTypes /\ BookTypes /\ LoopTypes

\* The queued order still fits the book when it is executed: an entry meets a
\* flat book (open_position never raises), an exit meets the position it was made for
\* (backtest/engine.py:154-179, 223-251).
PendingFits ==
  phase = "open" /\ pending # NoOrder =>
    IF pending.exit THEN pending.side = -position.side /\ pending.qty = position.qty
                    ELSE ~HasPosition

\* The realized equity is the initial equity plus what the trades earned, less the
\* entry fees, which no trade carries (portfolio.py:75, 138-140).
EquityExplained ==
  realized = InitialEquity + FoldLeft(LAMBDA sum, t : sum + t.net, 0, trades) - entryFees

\* The final equity of the report is what is left when everything is closed, apart
\* from the cost of the close at the end of the data, which comes after the last mark
\* (backtest/engine.py:106-115, 253-268): slippage and exit fee of that trade.
ForcedClose == trades # << >> /\ Last(trades).reason = "end_of_data"
ForcedCost ==
  LET t == Last(trades)
  IN  t.side * (bar.close - t.exit) * t.qty * Unit + (t.gross - t.net)
ReportExplained ==
  phase = "done" => report = realized + (IF ForcedClose THEN ForcedCost ELSE 0)

\* Between bars a position is younger than the horizon.
HorizonRespected ==
  phase = "open" /\ Horizon > 0 /\ HasPosition => position.held < Horizon

\* A stop-out costs what the risk manager put at risk when the entry was decided, bars
\* earlier, plus the slippage of the exit at most: gaps, the fill of the entry and other
\* trades do not add to it (risk/manager.py:83-86, portfolio.py:84).
StopBounded ==
  [][Len(trades') > Len(trades) /\ Last(trades').reason = "stop_loss" =>
       LET t == Last(trades')
       IN  -t.gross <= budget + t.qty * Unit * ((position.stop * Slippage) \div Unit)]_vars

\* The backtester lives the life of a position the live engine lives, too.
Lifecycle == INSTANCE PositionLifecycle
               WITH Cooldown <- CooldownBars, side <- position.side, rest <- sinceExit
ImplementsLifecycle == Lifecycle!Spec
=============================================================================
