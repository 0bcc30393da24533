--------------------------- MODULE BacktestProofs ---------------------------
(***************************************************************************)
(* Proofs about Backtest, for every data, rates, sizes and horizons.       *)
(***************************************************************************)
EXTENDS Backtest, FoldProofs

-----------------------------------------------------------------------------
(* Types                                                                   *)

OrderRecords == [side : {-1, 0, 1}, exit : BOOLEAN, qty : Int, limit : Int, stop : Int,
                 target : Int]
PositionRecords == [side : {-1, 0, 1}, qty : Int, entry : Int, stop : Int, target : Int,
                    held : Nat, best : Int]
TradeRecords == [side : Sides, qty : Int, entry : Int, exit : Int, best : Int,
                 reason : {"signal", "stop_loss", "take_profit", "time_exit",
                           "end_of_data"}, gross : Int, net : Int]

\* The current bar is one of the data's once the first has been opened.
BarOpened == phase \in {"manage", "decide"} => bar \in Bars

LEMMA DivInt ==
  ASSUME NEW a \in Int, NEW b \in Nat \ {0}
  PROVE  a \div b \in Int
  OBVIOUS

LEMMA Constants ==
  /\ Unit \in Nat \ {0} /\ TakerFee \in Nat /\ MakerFee \in Nat
  /\ Slippage \in Nat /\ LimitOffset \in Nat
  /\ SlMult \in Nat /\ TpMult \in Nat /\ Horizon \in Nat /\ CooldownBars \in Nat
  /\ RiskPct \in Nat /\ MaxLeverage \in Nat /\ InitialEquity \in Int /\ MaxBars \in Nat
  BY BacktestAssumption

LEMMA FillInt ==
  ASSUME NEW d \in {-1, 0, 1}, NEW base \in Int
  PROVE  MarketFill(d, base) \in Int
  <1>1. base * Slippage \in Int
    BY Constants
  <1>2. (base * Slippage) \div Unit \in Int
    BY <1>1, Constants, DivInt
  <1> QED
    BY <1>2 DEF MarketFill

LEMMA BarInts ==
  ASSUME NEW b \in Bars
  PROVE  /\ b.open \in Nat \ {0} /\ b.high \in Nat \ {0}
         /\ b.low \in Nat \ {0} /\ b.close \in Nat \ {0}
  BY BacktestAssumption DEF Bars

LEMMA GrossInt ==
  ASSUME NEW pos \in PositionRecords, NEW price \in Int
  PROVE  Gross(pos, price) \in Int /\ Net(pos, price) \in Int
  <1>1. /\ pos.side \in Int /\ pos.entry \in Int /\ pos.qty \in Int
    BY DEF PositionRecords
  <1>2. price - pos.entry \in Int
    BY <1>1
  <1>3. pos.side * (price - pos.entry) \in Int
    BY <1>1, <1>2
  <1>4. pos.side * (price - pos.entry) * pos.qty \in Int
    BY <1>1, <1>3
  <1>5. Gross(pos, price) \in Int
    BY <1>4, Constants DEF Gross
  <1>6. pos.qty * price * TakerFee \in Int
    BY <1>1, Constants
  <1> QED
    BY <1>5, <1>6 DEF Net, Fee

\* Closing a position keeps the book typed, empties it and adds one trade.
LEMMA CloseStep ==
  ASSUME NEW pos \in PositionRecords, pos.side # 0, NEW base \in Int,
         NEW reason \in {"signal", "stop_loss", "take_profit", "time_exit", "end_of_data"},
         BookTypes, Close(pos, base, reason)
  PROVE  BookTypes' /\ ~HasPosition' /\ Len(trades') = Len(trades) + 1
  <1> DEFINE price == MarketFill(-pos.side, base)
             t == [side |-> pos.side, qty |-> pos.qty, entry |-> pos.entry,
                   exit |-> price, best |-> pos.best, reason |-> reason,
                   gross |-> Gross(pos, price), net |-> Net(pos, price)]
  <1>1. price \in Int
    <2>1. -pos.side \in {-1, 0, 1}
      BY DEF PositionRecords
    <2> QED
      BY <2>1, FillInt
  <1>2. Gross(pos, price) \in Int /\ Net(pos, price) \in Int
    BY <1>1, GrossInt
  <1>3. t \in TradeRecords
    BY <1>1, <1>2 DEF PositionRecords, TradeRecords, Sides
  <1>4. trades \in Seq(TradeRecords) /\ realized \in Int /\ entryFees \in Int
    BY DEF BookTypes, TradeRecords
  <1>5. trades' = Append(trades, t) /\ position' = NoPosition /\ entryFees' = entryFees
        /\ realized' = realized + Net(pos, price)
    BY DEF Close, Booked
  <1> HIDE DEF price, t
  <1>6. trades' \in Seq(TradeRecords) /\ Len(trades') = Len(trades) + 1
    BY <1>3, <1>4, <1>5
  <1>7. realized' \in Int
    BY <1>2, <1>4, <1>5
  <1>8. NoPosition \in PositionRecords /\ NoPosition.side = 0
    BY DEF NoPosition, PositionRecords
  <1> QED
    BY <1>4, <1>5, <1>6, <1>7, <1>8 DEF BookTypes, TradeRecords, PositionRecords, HasPosition

\* Opening a position keeps the book typed.
LEMMA OpenStep ==
  ASSUME NEW ord \in OrderRecords, NEW price \in Int, NEW rate \in Nat,
         BookTypes, Open(ord, price, rate)
  PROVE  BookTypes' /\ position'.side = ord.side /\ trades' = trades /\ position'.held = 0
  <1>1. /\ ord.side \in {-1, 0, 1} /\ ord.qty \in Int /\ ord.stop \in Int
        /\ ord.target \in Int
    BY DEF OrderRecords
  <1> DEFINE fee == Fee(ord.qty, price, rate)
  <1>2. fee \in Int
    BY <1>1 DEF Fee
  <1>3. price - ord.side * ord.stop \in Int /\ price + ord.side * ord.target \in Int
    BY <1>1
  <1>4. position' \in PositionRecords /\ position'.side = ord.side /\ position'.held = 0
    BY <1>1, <1>3 DEF Open, PositionRecords
  <1>5. realized' = realized - fee /\ entryFees' = entryFees + fee /\ trades' = trades
    BY DEF Open
  <1> HIDE DEF fee
  <1>6. realized' \in Int /\ entryFees' \in Int
    BY <1>2, <1>5 DEF BookTypes
  <1> QED
    BY <1>4, <1>5, <1>6 DEF BookTypes, PositionRecords

LEMMA EquityInt ==
  ASSUME BookTypes, NEW price \in Int
  PROVE  Equity(price) \in Int
  <1>1. /\ position.side \in Int /\ position.entry \in Int /\ position.qty \in Int
        /\ realized \in Int
    BY DEF BookTypes
  <1>2. price - position.entry \in Int
    BY <1>1
  <1>3. position.side * (price - position.entry) \in Int
    BY <1>1, <1>2
  <1>4. position.side * (price - position.entry) * position.qty \in Int
    BY <1>1, <1>3
  <1> QED
    BY <1>1, <1>4, Constants DEF Equity, EquityOf

LEMMA QtyInt ==
  ASSUME NEW equity \in Int, NEW stop \in Nat \ {0}, NEW price \in Nat \ {0}
  PROVE  OrderQty(equity, stop, price) \in Int
  <1> DEFINE risked == (equity * RiskPct) \div (100 * Unit * stop)
             capped == (MaxLeverage * equity) \div (Unit * price)
  <1>1. 100 * Unit * stop \in Nat \ {0} /\ Unit * price \in Nat \ {0}
    BY Constants
  <1>2. equity * RiskPct \in Int /\ MaxLeverage * equity \in Int
    BY Constants
  <1>3. risked \in Int
    BY <1>1, <1>2, DivInt
  <1>4. capped \in Int
    BY <1>1, <1>2, DivInt
  <1> HIDE DEF risked, capped
  <1>5. Smaller(risked, capped) \in Int
    BY <1>3, <1>4 DEF Smaller
  <1> QED
    BY <1>3, <1>5 DEF OrderQty, risked, capped

LEMMA EntryTyped ==
  ASSUME BookTypes, bar \in Bars, NEW d \in Signals \ {0}, NEW atr \in Atrs,
         NEW type \in EntryTypes, SlMult * atr > 0
  PROVE  EntryOrder(d, atr, type) \in OrderRecords
  <1>1. atr \in Nat /\ d \in {-1, 0, 1}
    BY BacktestAssumption DEF Signals
  <1>2. SlMult * atr \in Nat \ {0} /\ TpMult * atr \in Int
    BY <1>1, Constants
  <1>3. bar.close \in Nat \ {0}
    BY BarInts
  <1>4. Equity(bar.close) \in Int
    BY <1>3, EquityInt
  <1>5. OrderQty(Equity(bar.close), SlMult * atr, bar.close) \in Int
    BY <1>2, <1>3, <1>4, QtyInt
  <1>6. (bar.close * LimitOffset) \div Unit \in Int
    BY <1>3, Constants, DivInt
  <1>7. LimitPrice(d, bar.close) \in Int
    BY <1>1, <1>3, <1>6 DEF LimitPrice
  <1> QED
    BY <1>1, <1>2, <1>5, <1>7 DEF EntryOrder, OrderRecords

-----------------------------------------------------------------------------
(* Type correctness                                                        *)

TypeInv == TypeOK /\ BarOpened

LEMMA Frame ==
  ASSUME TypeOK
  PROVE  /\ UNCHANGED bookVars => BookTypes'
         /\ UNCHANGED pending => OrderTypes'
         /\ pending \in OrderRecords /\ position \in PositionRecords
  BY DEF TypeOK, OrderTypes, BookTypes, bookVars, OrderRecords, PositionRecords

LEMMA OpenBarTypes ==
  ASSUME TypeInv, NEW b \in Bars, OpenBar(b), sinceExit' \in 0..CooldownBars
  PROVE  OrderTypes' /\ LoopTypes' /\ BarOpened'
  <1>1. NoOrder \in OrderRecords
    BY DEF NoOrder, OrderRecords
  <1>2. Tick(cooldown) \in 0..CooldownBars
    BY Constants DEF TypeInv, TypeOK, LoopTypes, Tick
  <1>3. n' \in 0..MaxBars
    BY Constants DEF OpenBar, TypeInv, TypeOK, LoopTypes
  <1> QED
    BY <1>1, <1>2, <1>3 DEF OpenBar, TypeInv, TypeOK, LoopTypes, OrderTypes, OrderRecords, BarOpened

LEMMA TypeStep ==
  ASSUME TypeInv, [Next]_vars
  PROVE  TypeInv'
  <1> USE DEF TypeInv
  <1>0. /\ pending \in OrderRecords /\ position \in PositionRecords
        /\ BookTypes /\ LoopTypes /\ OrderTypes
    BY Frame DEF TypeOK
  <1>1. sinceExit \in 0..CooldownBars /\ 0 \in 0..CooldownBars /\ Len(trades) \in Nat
    BY <1>0, Constants DEF LoopTypes, BookTypes
  <1>2. ASSUME NEW b \in Bars, NothingPending(b)
        PROVE  TypeInv'
    <2>1. BookTypes' /\ sinceExit' = sinceExit /\ OpenBar(b)
      BY <1>2, Frame DEF NothingPending
    <2> QED
      BY <2>1, <1>1, OpenBarTypes DEF TypeOK
  <1>3. ASSUME NEW b \in Bars, PendingExit(b)
        PROVE  TypeInv'
    <2>1. OpenBar(b) /\ sinceExit' \in 0..CooldownBars
      BY <1>1, <1>3 DEF PendingExit
    <2>2. BookTypes'
      <3>1. CASE HasPosition
        <4>1. Close(position, b.open, "signal") /\ position.side # 0
          BY <1>3, <3>1 DEF PendingExit, HasPosition
        <4> QED
          BY <4>1, <1>0, BarInts, CloseStep
      <3>2. CASE ~HasPosition
        BY <1>3, <3>2, Frame DEF PendingExit
      <3> QED
        BY <3>1, <3>2
    <2> QED
      BY <2>1, <2>2, OpenBarTypes DEF TypeOK
  <1>4. ASSUME NEW b \in Bars, PendingEntry(b)
        PROVE  TypeInv'
    <2>1. OpenBar(b) /\ sinceExit' = sinceExit
      BY <1>4 DEF PendingEntry
    <2>2. pending.side \in {-1, 0, 1} /\ pending.limit \in Int
      BY <1>0 DEF OrderRecords
    <2>3. MarketFill(pending.side, b.open) \in Int
      BY <2>2, BarInts, FillInt
    <2>4. \/ Open(pending, MarketFill(pending.side, b.open), TakerFee)
          \/ Open(pending, pending.limit, MakerFee)
          \/ UNCHANGED bookVars
      BY <1>4 DEF PendingEntry
    <2>5. BookTypes'
      BY <2>2, <2>3, <2>4, <1>0, Constants, OpenStep, Frame
    <2> QED
      BY <2>1, <2>5, <1>1, OpenBarTypes DEF TypeOK
  <1>5. CASE CloseBar
    <2>1. bar \in Bars /\ phase' = "decide" /\ bar' = bar
      BY <1>5 DEF CloseBar, BarOpened
    <2>2. BookTypes'
      <3>1. CASE HasPosition
        <4> DEFINE pos == [position EXCEPT !.held = @ + 1]
        <4>1. pos \in PositionRecords /\ pos.side # 0 /\ pos.stop \in Int /\ pos.target \in Int
          BY <1>0, <3>1 DEF PositionRecords, HasPosition
        <4>2. \/ Close(pos, pos.stop, "stop_loss")
              \/ Close(pos, pos.target, "take_profit")
              \/ Close(pos, bar.close, "time_exit")
              \/ /\ position' = [pos EXCEPT !.best = Better(pos, bar)]
                 /\ UNCHANGED <<trades, realized, entryFees>>
          BY <1>5, <3>1 DEF CloseBar, Manage
        <4>3. Better(pos, bar) \in Int
          BY <2>1, <4>1, BarInts DEF Better, PositionRecords
        <4> HIDE DEF pos
        <4>4. ASSUME position' = [pos EXCEPT !.best = Better(pos, bar)],
                     UNCHANGED <<trades, realized, entryFees>>
              PROVE  BookTypes'
          <5>1. position' \in PositionRecords
            BY <4>1, <4>3, <4>4 DEF PositionRecords
          <5> QED
            BY <5>1, <4>4, <1>0 DEF BookTypes, PositionRecords
        <4> QED
          BY <4>1, <4>2, <4>4, <2>1, <1>0, BarInts, CloseStep
      <3>2. CASE ~HasPosition
        BY <1>5, <3>2, Frame DEF CloseBar
      <3> QED
        BY <3>1, <3>2
    <2>3. realized' \in Int /\ position' \in PositionRecords /\ Len(trades') \in Nat
      BY <2>2 DEF BookTypes, PositionRecords
    <2>4. marked' \in Int
      <3>1. /\ position'.side \in Int /\ position'.entry \in Int /\ position'.qty \in Int
            /\ bar.close \in Int
        BY <2>1, <2>3, BarInts DEF PositionRecords
      <3>2. bar.close - position'.entry \in Int
        BY <3>1
      <3>3. position'.side * (bar.close - position'.entry) \in Int
        BY <3>1, <3>2
      <3>4. position'.side * (bar.close - position'.entry) * position'.qty \in Int
        BY <3>1, <3>3
      <3> QED
        BY <1>5, <2>3, <3>4, Constants DEF CloseBar, Marked, EquityOf
    <2>5. cooldown' \in 0..CooldownBars /\ sinceExit' \in 0..CooldownBars
      BY <1>5, <1>0, Constants DEF CloseBar, CooldownAfter, LoopTypes
    <2> QED
      BY <1>5, <1>0, <2>1, <2>2, <2>3, <2>4, <2>5
      DEF CloseBar, TypeOK, LoopTypes, OrderTypes, BarOpened
  <1>6. ASSUME DecideStep, pending' \in OrderRecords, budget' \in Int
        PROVE  TypeInv'
    BY <1>6, <1>0, Frame DEF DecideStep, TypeOK, LoopTypes, OrderTypes, OrderRecords, BarOpened
  <1>7. CASE DecideNothing
    <2>1. pending' \in OrderRecords /\ budget' \in Int
      BY <1>7, <1>0 DEF DecideNothing, NoOrder, OrderRecords, LoopTypes
    <2> QED
      BY <1>7, <2>1, <1>6 DEF DecideNothing
  <1>8. CASE DecideExit
    <2>1. -position.side \in {-1, 0, 1} /\ position.qty \in Int
      BY <1>0 DEF PositionRecords
    <2>2. ExitOrder \in OrderRecords
      BY <2>1 DEF ExitOrder, NoOrder, OrderRecords
    <2>3. pending' \in OrderRecords /\ budget' \in Int
      BY <1>8, <1>0, <2>2 DEF DecideExit, LoopTypes
    <2> QED
      BY <1>8, <2>3, <1>6 DEF DecideExit
  <1>9. CASE DecideEntry
    <2>1. bar \in Bars
      BY <1>9 DEF DecideEntry, DecideStep, BarOpened
    <2>2. pending' \in OrderRecords
      BY <1>9, <1>0, <2>1, EntryTyped DEF DecideEntry
    <2>3. budget' \in Int
      <3>1. Equity(bar.close) \in Int
        BY <2>1, <1>0, BarInts, EquityInt
      <3>2. (Equity(bar.close) * RiskPct) \div 100 \in Int
        BY <3>1, Constants, DivInt
      <3> QED
        BY <1>9, <3>2 DEF DecideEntry
    <2> QED
      BY <1>9, <2>2, <2>3, <1>6 DEF DecideEntry
  <1>10. CASE End
    <2>1. BookTypes'
      <3>1. CASE HasPosition
        <4>1. Close(position, bar.close, "end_of_data") /\ position.side # 0
          BY <1>10, <3>1 DEF End, HasPosition
        <4>2. bar.close \in Int
          BY <1>0, BarInts DEF LoopTypes, NoBar
        <4> QED
          BY <4>1, <4>2, <1>0, CloseStep
      <3>2. CASE ~HasPosition
        BY <1>10, <3>2, Frame DEF End
      <3> QED
        BY <3>1, <3>2
    <2> QED
      BY <1>10, <1>0, <1>1, <2>1 DEF End, TypeOK, LoopTypes, OrderTypes, BarOpened
  <1>11. CASE UNCHANGED vars
    BY <1>11, <1>0, Frame DEF vars, bookVars, TypeOK, LoopTypes, OrderTypes, BarOpened
  <1> QED
    BY <1>2, <1>3, <1>4, <1>5, <1>7, <1>8, <1>9, <1>10, <1>11 DEF Next

LEMMA Initially == Init => TypeInv
  BY Constants DEF Init, TypeInv, TypeOK, OrderTypes, BookTypes, LoopTypes, BarOpened, NoOrder,
     NoPosition

\* Type correctness for every data, rates and settings.
THEOREM TypeCorrect == Spec => []TypeOK
  <1>1. Init => TypeInv
    BY Initially
  <1>2. TypeInv /\ [Next]_vars => TypeInv'
    BY TypeStep
  <1>3. TypeInv => TypeOK
    BY DEF TypeInv
  <1> QED
    BY <1>1, <1>2, <1>3, PTL DEF Spec

-----------------------------------------------------------------------------
(* The queued order, the horizon, the lifecycle                            *)

\* The queued order fits the book it will meet, in every backtest.
THEOREM OrdersFit == Spec => []PendingFits
  <1>1. Init => PendingFits
    BY DEF Init, PendingFits
  <1>2. PendingFits /\ [Next]_vars => PendingFits'
    <2> SUFFICES ASSUME PendingFits, [Next]_vars PROVE PendingFits'
      OBVIOUS
    <2>1. ASSUME NEW b \in Bars, OpenBar(b) PROVE PendingFits'
      BY <2>1 DEF OpenBar, PendingFits
    <2>2. CASE CloseBar
      BY <2>2 DEF CloseBar, PendingFits
    <2>3. CASE DecideNothing
      BY <2>3 DEF DecideNothing, PendingFits
    <2>4. CASE DecideExit
      BY <2>4 DEF DecideExit, DecideStep, bookVars, ExitOrder, NoOrder, PendingFits
    <2>5. CASE DecideEntry
      BY <2>5 DEF DecideEntry, DecideStep, bookVars, MayEnter, HasPosition, EntryOrder, PendingFits
    <2>6. CASE End
      BY <2>6 DEF End, PendingFits
    <2>7. CASE UNCHANGED vars
      BY <2>7 DEF vars, bookVars, PendingFits, HasPosition
    <2> QED
      BY <2>1, <2>2, <2>3, <2>4, <2>5, <2>6, <2>7
      DEF Next, NothingPending, PendingExit, PendingEntry
  <1> QED
    BY <1>1, <1>2, PTL DEF Spec

\* What OpenBar leaves of the book: opened at age 0, or closed, or as it was.
LEMMA OpenBarBook ==
  ASSUME TypeInv, NEW b \in Bars,
         NothingPending(b) \/ PendingExit(b) \/ PendingEntry(b)
  PROVE  \/ position' = position /\ trades' = trades /\ sinceExit' = sinceExit
         \/ /\ HasPosition /\ ~HasPosition' /\ Len(trades') = Len(trades) + 1
            /\ sinceExit' = 0
         \/ /\ pending # NoOrder /\ ~pending.exit
            /\ position'.side = pending.side /\ position'.held = 0
            /\ trades' = trades /\ sinceExit' = sinceExit
  <1>0. pending \in OrderRecords /\ position \in PositionRecords /\ BookTypes
    BY Frame DEF TypeInv, TypeOK
  <1>1. CASE NothingPending(b)
    BY <1>1 DEF NothingPending, bookVars
  <1>2. CASE PendingExit(b)
    <2>1. CASE HasPosition
      <3>1. Close(position, b.open, "signal") /\ sinceExit' = 0 /\ position.side # 0
        BY <1>2, <2>1 DEF PendingExit, HasPosition
      <3> QED
        BY <2>1, <3>1, <1>0, BarInts, CloseStep
    <2>2. CASE ~HasPosition
      BY <1>2, <2>2 DEF PendingExit, bookVars
    <2> QED
      BY <2>1, <2>2
  <1>3. CASE PendingEntry(b)
    <2>1. pending # NoOrder /\ ~pending.exit /\ sinceExit' = sinceExit
      BY <1>3 DEF PendingEntry
    <2>2. pending.side \in {-1, 0, 1} /\ pending.limit \in Int
      BY <1>0 DEF OrderRecords
    <2>3. MarketFill(pending.side, b.open) \in Int
      BY <2>2, BarInts, FillInt
    <2>4. \/ Open(pending, MarketFill(pending.side, b.open), TakerFee)
          \/ Open(pending, pending.limit, MakerFee)
          \/ UNCHANGED bookVars
      BY <1>3 DEF PendingEntry
    <2>5. CASE UNCHANGED bookVars
      BY <2>1, <2>5 DEF bookVars
    <2> QED
      BY <2>1, <2>2, <2>3, <2>4, <2>5, <1>0, Constants, OpenStep
  <1> QED
    BY <1>1, <1>2, <1>3

\* What CloseBar leaves of an open position: closed, or one bar older and, with a
\* horizon, younger than it.
LEMMA CloseBarBook ==
  ASSUME TypeInv, CloseBar
  PROVE  \/ HasPosition /\ ~HasPosition' /\ Len(trades') = Len(trades) + 1
         \/ /\ HasPosition /\ position'.side = position.side /\ trades' = trades
            /\ Horizon > 0 => position'.held < Horizon
         \/ ~HasPosition /\ position' = position /\ trades' = trades
  <1>0. position \in PositionRecords /\ BookTypes /\ bar \in Bars
    BY Frame DEF TypeInv, TypeOK, CloseBar, BarOpened
  <1>1. CASE HasPosition
    <2> DEFINE pos == [position EXCEPT !.held = @ + 1]
    <2>1. /\ pos \in PositionRecords /\ pos.side # 0 /\ pos.stop \in Int
          /\ pos.target \in Int /\ pos.side = position.side /\ pos.held \in Nat
      BY <1>0, <1>1 DEF PositionRecords, HasPosition
    <2>2. \/ Close(pos, pos.stop, "stop_loss")
          \/ Close(pos, pos.target, "take_profit")
          \/ Close(pos, bar.close, "time_exit")
          \/ /\ position' = [pos EXCEPT !.best = Better(pos, bar)]
             /\ trades' = trades /\ ~TimeUp(pos)
      BY <1>1 DEF CloseBar, Manage
    <2> HIDE DEF pos
    <2>3. ASSUME position' = [pos EXCEPT !.best = Better(pos, bar)],
                 trades' = trades, ~TimeUp(pos)
          PROVE  /\ position'.side = position.side
                 /\ Horizon > 0 => position'.held < Horizon
      <3>1. position'.side = pos.side /\ position'.held = pos.held
        BY <2>1, <2>3 DEF PositionRecords
      <3> QED
        BY <2>1, <2>3, <3>1, Constants DEF TimeUp
    <2> QED
      BY <1>0, <1>1, <2>1, <2>2, <2>3, BarInts, CloseStep
  <1>2. CASE ~HasPosition
    BY <1>2 DEF CloseBar, bookVars
  <1> QED
    BY <1>1, <1>2

HorizonInv ==
  phase # "done" /\ Horizon > 0 /\ HasPosition => position.held < Horizon

\* A position never reaches the next bar at the age of the horizon, in every backtest.
THEOREM HorizonHolds == Spec => []HorizonRespected
  <1>1. Init => HorizonInv
    BY DEF Init, HorizonInv, HasPosition, NoPosition
  <1>2. TypeInv /\ HorizonInv /\ [Next]_vars => HorizonInv'
    <2> SUFFICES ASSUME TypeInv, HorizonInv, [Next]_vars PROVE HorizonInv'
      OBVIOUS
    <2>1. ASSUME NEW b \in Bars, NothingPending(b) \/ PendingExit(b) \/ PendingEntry(b)
          PROVE  HorizonInv'
      <3>1. phase # "done"
        BY <2>1 DEF NothingPending, PendingExit, PendingEntry, OpenBar
      <3> QED
        BY <2>1, <3>1, OpenBarBook, Constants DEF HorizonInv, HasPosition
    <2>2. CASE CloseBar
      BY <2>2, CloseBarBook DEF HorizonInv, HasPosition
    <2>3. CASE DecideStep
      BY <2>3 DEF DecideStep, bookVars, HorizonInv, HasPosition
    <2>4. CASE End
      BY <2>4 DEF End, HorizonInv
    <2>5. CASE UNCHANGED vars
      BY <2>5 DEF vars, bookVars, HorizonInv, HasPosition
    <2> QED
      BY <2>1, <2>2, <2>3, <2>4, <2>5 DEF Next, DecideNothing, DecideExit, DecideEntry
  <1>3. HorizonInv => HorizonRespected
    BY DEF HorizonInv, HorizonRespected
  <1>4. Init /\ [][Next]_vars => []TypeInv
    <2>1. Init => TypeInv
      BY Constants DEF Init, TypeInv, TypeOK, OrderTypes, BookTypes, LoopTypes, BarOpened, NoOrder,
           NoPosition
    <2> QED
      BY <2>1, TypeStep, PTL
  <1> QED
    BY <1>1, <1>2, <1>3, <1>4, PTL DEF Spec

\* A flat book has rested, or the cooldown covers the bars still missing; the
\* history lags one bar behind the cooldown between the open and the close.
RestInv ==
  /\ phase = "open" => seen = Len(trades) /\ (pending # NoOrder /\ ~pending.exit
                                                 => sinceExit = CooldownBars)
  /\ phase = "open" /\ pending # NoOrder => (pending.exit \/ pending.side # 0)
  /\ phase \in {"open", "decide"} /\ ~HasPosition => cooldown + sinceExit >= CooldownBars
  /\ phase = "decide" => seen = Len(trades)
  /\ phase = "manage" => Len(trades) >= seen
  /\ phase = "manage" /\ Len(trades) = seen /\ ~HasPosition
       => cooldown + sinceExit + 1 >= CooldownBars

LEMMA RestInit == Init => RestInv
  BY Constants DEF Init, RestInv, NoOrder, NoPosition, HasPosition

LEMMA RestStep ==
  ASSUME TypeInv, RestInv, [Next]_vars
  PROVE  RestInv'
  <1>0. /\ cooldown \in 0..CooldownBars /\ sinceExit \in 0..CooldownBars
        /\ CooldownBars \in Nat /\ Len(trades) \in Nat /\ seen \in Nat
    BY Constants DEF TypeInv, TypeOK, LoopTypes, BookTypes
  <1>1. ASSUME NEW b \in Bars, NothingPending(b) \/ PendingExit(b) \/ PendingEntry(b)
        PROVE  RestInv'
    <2>1. phase = "open" /\ phase' = "manage" /\ cooldown' = Tick(cooldown) /\ seen' = seen
      BY <1>1 DEF NothingPending, PendingExit, PendingEntry, OpenBar
    <2>2. cooldown' \in Nat /\ cooldown' + 1 >= cooldown
      BY <2>1, <1>0 DEF Tick
    <2>3. Len(trades') \in {Len(trades), Len(trades) + 1}
      BY <1>1, OpenBarBook
    <2>4. ASSUME Len(trades') = seen', ~HasPosition'
          PROVE  cooldown' + sinceExit' + 1 >= CooldownBars
      <3>1. /\ sinceExit' = sinceExit
            /\ \/ position' = position
               \/ pending # NoOrder /\ ~pending.exit
        BY <2>1, <2>4, <1>1, <1>0, OpenBarBook DEF RestInv
      <3>2. CASE position' = position
        BY <2>1, <2>2, <2>4, <3>1, <3>2, <1>0 DEF RestInv, HasPosition
      <3>3. CASE pending # NoOrder /\ ~pending.exit
        BY <2>1, <2>2, <3>1, <3>3, <1>0 DEF RestInv
      <3> QED
        BY <3>1, <3>2, <3>3
    <2> QED
      BY <2>1, <2>3, <2>4, <1>0 DEF RestInv
  <1>2. CASE CloseBar
    <2>1. /\ phase = "manage" /\ phase' = "decide" /\ seen' = Len(trades')
          /\ cooldown' = (IF Len(trades') > seen THEN CooldownBars ELSE cooldown)
          /\ sinceExit' = (IF Len(trades') > Len(trades) THEN 0
                           ELSE IF sinceExit < CooldownBars THEN sinceExit + 1 ELSE sinceExit)
      BY <1>2 DEF CloseBar, CooldownAfter
    <2>2. \/ Len(trades') = Len(trades) + 1
          \/ Len(trades') = Len(trades) /\ (HasPosition' <=> HasPosition)
      BY <1>2, CloseBarBook DEF HasPosition
    <2>3. ~HasPosition' => cooldown' + sinceExit' >= CooldownBars
      BY <2>1, <2>2, <1>0 DEF RestInv
    <2> QED
      BY <2>1, <2>3 DEF RestInv
  <1>3. ASSUME DecideStep, (pending' # NoOrder /\ ~pending'.exit
                             => sinceExit = CooldownBars /\ pending'.side # 0)
        PROVE  RestInv'
    BY <1>3 DEF DecideStep, bookVars, RestInv, HasPosition
  <1>4. CASE DecideNothing
    BY <1>4, <1>3 DEF DecideNothing
  <1>5. CASE DecideExit
    <2>1. pending'.exit
      BY <1>5 DEF DecideExit, ExitOrder, NoOrder
    <2> QED
      BY <1>5, <2>1, <1>3 DEF DecideExit
  <1>6. CASE DecideEntry
    <2>1. sinceExit = CooldownBars
      BY <1>6, <1>0 DEF DecideEntry, DecideStep, MayEnter, RestInv
    <2>2. pending'.side # 0
      BY <1>6 DEF DecideEntry, EntryOrder, Signals
    <2> QED
      BY <1>6, <2>1, <2>2, <1>3 DEF DecideEntry
  <1>7. CASE End
    BY <1>7 DEF End, RestInv
  <1>8. CASE UNCHANGED vars
    BY <1>8 DEF vars, bookVars, RestInv, HasPosition
  <1> QED
    BY <1>1, <1>2, <1>4, <1>5, <1>6, <1>7, <1>8 DEF Next

\* Every backtest is a life of a position: no stacked entry, no reversal, and the
\* cooldown between a close and the next entry.
THEOREM BacktestLives == Spec => ImplementsLifecycle
  <1>1. Init => Lifecycle!Init
    BY DEF Init, Lifecycle!Init, NoPosition
  <1>2. TypeInv /\ RestInv /\ PendingFits /\ [Next]_vars
          => [Lifecycle!Next]_<<position.side, sinceExit>>
    <2> SUFFICES ASSUME TypeInv, RestInv, PendingFits, [Next]_vars
                 PROVE  [Lifecycle!Next]_<<position.side, sinceExit>>
      OBVIOUS
    <2> USE DEF HasPosition
    <2>0. position.side \in {-1, 0, 1} /\ pending.side \in {-1, 0, 1}
      BY DEF TypeInv, TypeOK, BookTypes, OrderTypes
    <2>1. ASSUME NEW b \in Bars, NothingPending(b) \/ PendingExit(b) \/ PendingEntry(b)
          PROVE  [Lifecycle!Next]_<<position.side, sinceExit>>
      <3>1. phase = "open"
        BY <2>1 DEF NothingPending, PendingExit, PendingEntry, OpenBar
      <3>2. CASE position' = position /\ sinceExit' = sinceExit
        BY <3>2
      <3>3. CASE position.side # 0 /\ position'.side = 0 /\ sinceExit' = 0
        BY <3>3 DEF Lifecycle!Next, Lifecycle!Exit
      <3>4. CASE /\ pending # NoOrder /\ ~pending.exit
                 /\ position'.side = pending.side /\ sinceExit' = sinceExit
        BY <3>1, <3>4, <2>0 DEF RestInv, PendingFits, Lifecycle!Next, Lifecycle!Enter
      <3> QED
        BY <2>1, <3>2, <3>3, <3>4, OpenBarBook
    <2>2. CASE CloseBar
      <3>1. sinceExit' = (IF Len(trades') > Len(trades) THEN 0
                          ELSE IF sinceExit < CooldownBars THEN sinceExit + 1 ELSE sinceExit)
        BY <2>2 DEF CloseBar
      <3>2. Len(trades) \in Nat
        BY DEF TypeInv, TypeOK, BookTypes
      <3>3. CASE HasPosition /\ ~HasPosition' /\ Len(trades') = Len(trades) + 1
        BY <3>1, <3>2, <3>3 DEF Lifecycle!Next, Lifecycle!Exit
      <3>4. CASE position'.side = position.side /\ trades' = trades
        BY <3>1, <3>2, <3>4 DEF Lifecycle!Next, Lifecycle!Bar
      <3> QED
        BY <2>2, <3>3, <3>4, CloseBarBook
    <2>3. CASE DecideStep
      BY <2>3 DEF DecideStep, bookVars
    <2>4. CASE End
      <3>1. CASE HasPosition
        <4>1. Close(position, bar.close, "end_of_data") /\ sinceExit' = 0
          BY <2>4, <3>1 DEF End
        <4>2. position'.side = 0
          BY <4>1 DEF Close, NoPosition
        <4> QED
          BY <3>1, <4>1, <4>2 DEF Lifecycle!Next, Lifecycle!Exit
      <3>2. CASE ~HasPosition
        BY <2>4, <3>2 DEF End, bookVars
      <3> QED
        BY <3>1, <3>2
    <2>5. CASE UNCHANGED vars
      BY <2>5 DEF vars, bookVars
    <2> QED
      BY <2>1, <2>2, <2>3, <2>4, <2>5 DEF Next, DecideNothing, DecideExit, DecideEntry
  <1>3. Init => TypeInv
    BY Initially
  <1>4. Spec => []PendingFits
    BY OrdersFit
  <1> QED
    BY <1>1, <1>2, <1>3, <1>4, TypeStep, RestInit, RestStep, PTL
    DEF Spec, ImplementsLifecycle, Lifecycle!Spec

-----------------------------------------------------------------------------
(* The report                                                              *)

LEMMA Distributes ==
  ASSUME NEW a \in Int, NEW b \in Int, NEW k \in Int
  PROVE  (a + b) * k = a * k + b * k
  OBVIOUS

\* What a position is worth at price p and what p differs from the mark c.
LEMMA WorthSplits ==
  ASSUME NEW s \in Int, NEW e \in Int, NEW p \in Int, NEW c \in Int, NEW q \in Int,
         NEW u \in Int
  PROVE  s * (c - e) * q * u = s * (p - e) * q * u + s * (c - p) * q * u
  <1> DEFINE a == s * (p - e)
             b == s * (c - p)
  <1>1. a \in Int /\ b \in Int /\ s * (c - e) = a + b
    <2>1. (c - e) = (p - e) + (c - p)
      OBVIOUS
    <2>2. s * ((p - e) + (c - p)) = s * (p - e) + s * (c - p)
      OBVIOUS
    <2> QED
      BY <2>1, <2>2
  <1> HIDE DEF a, b
  <1>2. a * q \in Int /\ b * q \in Int /\ (a + b) * q = a * q + b * q
    BY <1>1, Distributes
  <1>3. (a * q + b * q) * u = a * q * u + b * q * u
    BY <1>2, Distributes
  <1> QED
    BY <1>1, <1>2, <1>3 DEF a, b

\* The trade a close appends.
LEMMA ClosedLast ==
  ASSUME NEW pos \in PositionRecords, pos.side # 0, NEW base \in Int,
         NEW reason \in {"signal", "stop_loss", "take_profit", "time_exit", "end_of_data"},
         BookTypes, Close(pos, base, reason)
  PROVE  /\ trades' # << >>
         /\ Last(trades') =
              [side |-> pos.side, qty |-> pos.qty, entry |-> pos.entry,
               exit |-> MarketFill(-pos.side, base), best |-> pos.best, reason |-> reason,
               gross |-> Gross(pos, MarketFill(-pos.side, base)),
               net |-> Net(pos, MarketFill(-pos.side, base))]
  <1> DEFINE price == MarketFill(-pos.side, base)
             t == [side |-> pos.side, qty |-> pos.qty, entry |-> pos.entry,
                   exit |-> price, best |-> pos.best, reason |-> reason,
                   gross |-> Gross(pos, price), net |-> Net(pos, price)]
  <1>1. price \in Int
    <2>1. -pos.side \in {-1, 0, 1}
      BY DEF PositionRecords
    <2> QED
      BY <2>1, FillInt
  <1>2. t \in TradeRecords
    <2>1. Gross(pos, price) \in Int /\ Net(pos, price) \in Int
      BY <1>1, GrossInt
    <2> QED
      BY <1>1, <2>1 DEF PositionRecords, TradeRecords, Sides
  <1>3. trades \in Seq(TradeRecords) /\ trades' = Append(trades, t)
    BY DEF BookTypes, TradeRecords, Close
  <1> HIDE DEF t
  <1>4. trades' # << >> /\ trades'[Len(trades')] = t
    BY <1>2, <1>3
  <1> QED
    BY <1>4 DEF Last, t

\* The last mark is the equity at the last close, until the data ends; only the close at the
\* end of the data is one.
MarkInv ==
  /\ phase \in {"open", "decide"} => marked = EquityOf(realized, position, bar.close)
  /\ phase # "done" => ~ForcedClose
  /\ ReportExplained

LEMMA MarkInit == Init => MarkInv
  <1> SUFFICES ASSUME Init PROVE MarkInv
    OBVIOUS
  <1>1. EquityOf(InitialEquity, NoPosition, 0) = InitialEquity
    BY Constants DEF EquityOf, NoPosition
  <1> QED
    BY <1>1 DEF Init, NoBar, MarkInv, ForcedClose, ReportExplained

\* A step that leaves the trades alone or adds one that is not a forced close.
LEMMA NotForced ==
  ASSUME TypeInv, ~ForcedClose, NEW b \in Bars,
         \/ trades' = trades
         \/ \E pos \in PositionRecords, base \in Int,
               reason \in {"signal", "stop_loss", "take_profit", "time_exit"} :
              pos.side # 0 /\ Close(pos, base, reason)
  PROVE  ~ForcedClose'
  <1>1. CASE trades' = trades
    BY <1>1 DEF ForcedClose
  <1>2. ASSUME NEW pos \in PositionRecords, NEW base \in Int, pos.side # 0,
               NEW reason \in {"signal", "stop_loss", "take_profit", "time_exit"},
               Close(pos, base, reason)
        PROVE  ~ForcedClose'
    <2>1. Last(trades').reason = reason
      BY <1>2, ClosedLast DEF TypeInv, TypeOK
    <2> QED
      BY <2>1 DEF ForcedClose
  <1> QED
    BY <1>1, <1>2

LEMMA MarkStep ==
  ASSUME TypeInv, MarkInv, [Next]_vars
  PROVE  MarkInv'
  <1>0. position \in PositionRecords /\ BookTypes /\ LoopTypes
    BY Frame DEF TypeInv, TypeOK
  <1>1. ASSUME NEW b \in Bars, NothingPending(b) \/ PendingExit(b) \/ PendingEntry(b)
        PROVE  MarkInv'
    <2>1. phase = "open" /\ phase' = "manage"
      BY <1>1 DEF NothingPending, PendingExit, PendingEntry, OpenBar
    <2>2. \/ trades' = trades
          \/ HasPosition /\ Close(position, b.open, "signal")
      BY <1>1 DEF NothingPending, PendingExit, PendingEntry, bookVars, Open
    <2>3. ~ForcedClose'
      BY <1>0, <2>1, <2>2, BarInts, NotForced DEF MarkInv, HasPosition
    <2> QED
      BY <2>1, <2>3 DEF MarkInv, ReportExplained
  <1>2. CASE CloseBar
    <2>1. phase = "manage" /\ phase' = "decide" /\ bar' = bar /\ bar \in Bars
      BY <1>2 DEF CloseBar, TypeInv, BarOpened
    <2>2. marked' = EquityOf(realized', position', bar'.close)
      BY <1>2, <2>1 DEF CloseBar, Marked
    <2>3. ~ForcedClose'
      <3> DEFINE pos == [position EXCEPT !.held = @ + 1]
      <3>1. CASE HasPosition
        <4>1. /\ pos \in PositionRecords /\ pos.side # 0
              /\ pos.stop \in Int /\ pos.target \in Int /\ bar.close \in Int
          BY <1>0, <2>1, <3>1, BarInts DEF PositionRecords, HasPosition
        <4>2. \/ trades' = trades
              \/ Close(pos, pos.stop, "stop_loss")
              \/ Close(pos, pos.target, "take_profit")
              \/ Close(pos, bar.close, "time_exit")
          BY <1>2, <3>1 DEF CloseBar, Manage
        <4> HIDE DEF pos
        <4> QED
          BY <2>1, <4>1, <4>2, NotForced DEF MarkInv
      <3>2. CASE ~HasPosition
        BY <1>2, <2>1, <3>2, NotForced DEF CloseBar, bookVars, MarkInv
      <3> QED
        BY <3>1, <3>2
    <2> QED
      BY <2>1, <2>2, <2>3 DEF MarkInv, ReportExplained
  <1>3. CASE DecideStep
    BY <1>3 DEF DecideStep, bookVars, MarkInv, ForcedClose, ReportExplained
  <1>4. CASE End
    <2>1. /\ phase = "open" /\ phase' = "done" /\ bar' = bar
          /\ report' = EquityOf(realized, position, bar.close)
      BY <1>4 DEF End, MarkInv
    <2>2. CASE HasPosition
      <3> DEFINE price == MarketFill(-position.side, bar.close)
                 fee == Fee(position.qty, price, TakerFee)
                 lost == position.side * (bar.close - price) * position.qty * Unit
      <3>1. bar.close \in Int
        BY <1>0, BarInts DEF LoopTypes, NoBar
      <3>2. /\ position.side \in Int /\ position.entry \in Int /\ position.qty \in Int
            /\ realized \in Int /\ Unit \in Int /\ -position.side \in {-1, 0, 1}
        BY <1>0, Constants DEF PositionRecords, BookTypes
      <3>3. price \in Int
        BY <3>1, <3>2, FillInt
      <3>4. Close(position, bar.close, "end_of_data")
        BY <1>4, <2>2 DEF End
      <3>5. /\ trades' # << >>
            /\ Last(trades').reason = "end_of_data" /\ Last(trades').side = position.side
            /\ Last(trades').exit = price /\ Last(trades').qty = position.qty
            /\ Last(trades').gross = Gross(position, price)
            /\ Last(trades').net = Net(position, price)
        BY <1>0, <2>2, <3>1, <3>4, ClosedLast DEF HasPosition
      <3>6. realized' = realized + Net(position, price)
        BY <3>4 DEF Close, Booked
      <3>7. Net(position, price) = Gross(position, price) - fee
        BY DEF Net
      <3>8. Gross(position, price) \in Int /\ fee \in Int
        <4>1. position.qty * price * TakerFee \in Int
          BY <3>2, <3>3, Constants
        <4> QED
          BY <1>0, <3>3, <4>1, GrossInt DEF Fee
      <3>9. lost \in Int
        <4>1. position.side * (bar.close - price) \in Int
          BY <3>1, <3>2, <3>3
        <4>2. position.side * (bar.close - price) * position.qty \in Int
          BY <3>2, <4>1
        <4> QED
          BY <3>2, <4>2
      <3>10. report' = realized + (Gross(position, price) + lost)
        BY <2>1, <3>1, <3>2, <3>3, WorthSplits DEF EquityOf, Gross
      <3>11. ForcedClose' /\ ForcedCost' = lost + (Gross(position, price) - Net(position, price))
        BY <2>1, <3>5 DEF ForcedClose, ForcedCost
      <3> HIDE DEF price, fee, lost
      <3>12. report' = realized' + ForcedCost'
        BY <3>2, <3>6, <3>7, <3>8, <3>9, <3>10, <3>11
      <3> QED
        BY <2>1, <3>11, <3>12 DEF MarkInv, ReportExplained
    <2>3. CASE ~HasPosition
      <3>1. /\ position.side = 0 /\ position.entry \in Int /\ position.qty \in Int
            /\ realized \in Int /\ bar.close \in Int
        BY <1>0, <2>3, BarInts DEF PositionRecords, BookTypes, HasPosition, LoopTypes, NoBar
      <3>2. EquityOf(realized, position, bar.close) = realized
        BY <3>1, Constants DEF EquityOf
      <3>3. UNCHANGED <<realized, trades>> /\ ~ForcedClose'
        BY <1>4, <2>1, <2>3 DEF End, bookVars, MarkInv, ForcedClose
      <3> QED
        BY <2>1, <3>1, <3>2, <3>3 DEF MarkInv, ReportExplained
    <2> QED
      BY <2>2, <2>3
  <1>5. CASE UNCHANGED vars
    BY <1>5 DEF vars, bookVars, MarkInv, ForcedClose, ForcedCost, ReportExplained
  <1> QED
    BY <1>1, <1>2, <1>3, <1>4, <1>5 DEF Next, DecideNothing, DecideExit, DecideEntry

\* The final equity of every report is what is left after the forced close, plus exactly
\* the slippage and the exit fee of that close.
THEOREM ReportHolds == Spec => []ReportExplained
  <1>1. MarkInv => ReportExplained
    BY DEF MarkInv
  <1>2. Init => TypeInv
    BY Initially
  <1> QED
    BY <1>1, <1>2, TypeStep, MarkInit, MarkStep, PTL DEF Spec

-----------------------------------------------------------------------------
(* The earnings                                                            *)

\* What the trades earned, as EquityExplained adds it up.
Earnings(ts) == FoldLeft(LAMBDA sum, t : sum + t.net, 0, ts)

\* The trades are added up from the first to the last.
Latest(len) == [s \in SUBSET (1..len) |-> Max(s)]
Nets(ts) == [i \in DOMAIN ts |-> ts[i].net]
SumUpTo(ts) == SumsOf(1..Len(ts), Latest(Len(ts)), Nets(ts))

LEMMA LatestPicks ==
  ASSUME NEW len \in Nat
  PROVE  /\ Picks(Latest(len), 1..len) /\ IsFiniteSet(1..len)
         /\ \A s \in SUBSET (1..len) : Latest(len)[s] = Max(s)
         /\ Latest(len + 1)[1..(len + 1)] = len + 1
  <1>1. ASSUME NEW m \in Nat, NEW s \in SUBSET (1..m), s # {}
        PROVE  Max(s) \in s /\ \A x \in s : x <= Max(s)
    <2>1. s \in SUBSET Nat /\ \A x \in s : x <= m
      OBVIOUS
    <2>2. \E k \in s : \A x \in s : x <= k
      BY <1>1, <2>1, GreatestElement
    <2>3. \E k \in s : \A x \in s : k >= x
      BY <2>1, <2>2
    <2>4. Max(s) \in s /\ \A x \in s : Max(s) >= x
      BY <2>3 DEF Max
    <2> QED
      BY <2>1, <2>4
  <1>2. Picks(Latest(len), 1..len)
    <2> SUFFICES ASSUME NEW s \in SUBSET (1..len), s # {} PROVE Latest(len)[s] \in s
      BY DEF Picks
    <2> QED
      BY <1>1 DEF Latest
  <1>3. Latest(len + 1)[1..(len + 1)] = len + 1
    <2> DEFINE S == 1..(len + 1)
    <2>1. S # {} /\ len + 1 \in S /\ len + 1 \in Nat
      OBVIOUS
    <2>2. Max(S) \in S /\ len + 1 <= Max(S)
      BY <1>1, <2>1
    <2> DEFINE k == Max(S)
    <2>3. k \in S /\ len + 1 <= k
      BY <2>2
    <2> HIDE DEF k
    <2>4. k = len + 1
      BY <2>3
    <2> QED
      BY <2>4 DEF Latest, k
  <1>4. IsFiniteSet(1..len)
    BY FS_Interval
  <1> QED
    BY <1>2, <1>3, <1>4 DEF Latest

LEMMA EarningsAreASum ==
  ASSUME NEW ts \in Seq(TradeRecords)
  PROVE  /\ Earnings(ts) = SumUpTo(ts)[1..Len(ts)] /\ Earnings(ts) \in Int
         /\ IsSums(SumUpTo(ts), 1..Len(ts), Latest(Len(ts)), Nets(ts))
  <1> DEFINE S == 1..Len(ts)
             pick == Latest(Len(ts))
             val == Nets(ts)
  <1>1. /\ Picks(pick, S) /\ IsFiniteSet(S) /\ DOMAIN ts = S
        /\ \A s \in SUBSET S : pick[s] = Max(s)
    BY LatestPicks
  <1>2. \A x \in S : val[x] = ts[x].net /\ val[x] \in Int
    <2> SUFFICES ASSUME NEW x \in S PROVE val[x] = ts[x].net /\ val[x] \in Int
      OBVIOUS
    <2>1. x \in DOMAIN ts /\ ts[x] \in TradeRecords
      OBVIOUS
    <2>2. val[x] = ts[x].net
      BY <2>1 DEF Nets
    <2>3. ts[x].net \in Int
      BY <2>1 DEF TradeRecords
    <2> QED
      BY <2>2, <2>3
  <1>3. \A s \in SUBSET S : s # {} => pick[s] \in S
    BY <1>1 DEF Picks
  <1>4. Earnings(ts) = LeftSumsOf(S, pick, val)[S]
    <2> DEFINE Left(g) == g = [s \in SUBSET S |-> IF s = {} THEN 0 ELSE g[s \ {Max(s)}] + ts[Max(s)].net]
               Right(g) == g = [s \in SUBSET S |-> IF s = {} THEN 0 ELSE g[s \ {pick[s]}] + val[pick[s]]]
    <2>1. ASSUME NEW g PROVE Left(g) <=> Right(g)
      <3>1. \A s \in SUBSET S : s # {} => pick[s] = Max(s) /\ val[pick[s]] = ts[Max(s)].net
        BY <1>1, <1>2, <1>3
      <3> HIDE DEF S, pick, val
      <3> QED
        BY <3>1
    <2>2. (CHOOSE g : Left(g)) = CHOOSE g : Right(g)
      <3> HIDE DEF Left, Right
      <3> QED
        BY <2>1
    <2>3. Earnings(ts) = (CHOOSE g : Left(g))[S]
      BY <1>1 DEF Earnings, FoldLeft, MapThenFoldSet
    <2> QED
      BY <2>2, <2>3 DEF LeftSumsOf
  <1> HIDE DEF S, pick, val
  <1>5. LeftSumsOf(S, pick, val)[S] = SumsOf(S, pick, val)[S] /\ IsSums(SumsOf(S, pick, val), S, pick, val)
    BY <1>1, <1>2, LeftSums, SumsExist
  <1>6. SumsOf(S, pick, val)[S] \in Int
    BY <1>1, <1>2, <1>5, SumType
  <1> QED
    BY <1>4, <1>5, <1>6 DEF SumUpTo, S, pick, val

\* A trade adds what it earned.
LEMMA EarningsGrow ==
  ASSUME NEW ts \in Seq(TradeRecords), NEW t \in TradeRecords
  PROVE  Earnings(Append(ts, t)) = Earnings(ts) + t.net
  <1> DEFINE len == Len(ts)
             us == Append(ts, t)
             g == SumUpTo(ts)
             h == SumUpTo(us)
  <1>1. /\ len \in Nat /\ us \in Seq(TradeRecords) /\ Len(us) = len + 1
        /\ us[len + 1] = t /\ \A i \in 1..len : us[i] = ts[i]
    OBVIOUS
  <1>2. /\ Earnings(ts) = g[1..len] /\ Earnings(ts) \in Int /\ IsSums(g, 1..len, Latest(len), Nets(ts))
    BY EarningsAreASum
  <1> HIDE DEF us, len
  <1>3. /\ Earnings(us) = h[1..(len + 1)] /\ IsSums(h, 1..(len + 1), Latest(len + 1), Nets(us))
    BY <1>1, EarningsAreASum
  <1>4. /\ \A i \in 1..len : Nets(ts)[i] = Nets(us)[i]
        /\ Nets(us)[len + 1] = t.net
    BY <1>1 DEF Nets, len
  <1>5. /\ Picks(Latest(len), 1..len) /\ IsFiniteSet(1..len) /\ 1..len \in SUBSET (1..(len + 1))
        /\ \A s \in SUBSET (1..len) : Latest(len + 1)[s] = Latest(len)[s]
        /\ Latest(len + 1)[1..(len + 1)] = len + 1
    <2>1. 1..len \in SUBSET (1..(len + 1)) /\ len + 1 \in Nat
      BY <1>1
    <2>2. \A s \in SUBSET (1..len) : s \in SUBSET (1..(len + 1))
      BY <2>1
    <2> QED
      BY <1>1, <2>1, <2>2, LatestPicks
  <1> HIDE DEF g, h
  <1>6. g[1..len] = h[1..len]
    <2> DEFINE S == 1..len
               T == 1..(len + 1)
               pick == Latest(len)
               from == Latest(len + 1)
               val == Nets(ts)
               other == Nets(us)
    <2>1. IsFiniteSet(S) /\ S \in SUBSET T /\ Picks(pick, S)
      BY <1>5
    <2>2. (\A s \in SUBSET S : from[s] = pick[s]) /\ \A x \in S : val[x] = other[x]
      BY <1>4, <1>5
    <2>3. IsSums(g, S, pick, val) /\ IsSums(h, T, from, other)
      BY <1>2, <1>3
    <2> HIDE DEF S, T, pick, from, val, other
    <2>4. g[S] = h[S]
      BY <2>1, <2>2, <2>3, SumsAgree
    <2> QED
      BY <2>4 DEF S
  <1>7. h[1..(len + 1)] = Nets(us)[len + 1] + h[1..len]
    <2> DEFINE T == 1..(len + 1)
               last == Latest(len + 1)
    <2>1. len \in Nat /\ last[T] = len + 1
      BY <1>1, <1>5
    <2>2. IsSums(h, T, last, Nets(us))
      BY <1>3
    <2>3. T # {} /\ T \ {len + 1} = 1..len
      BY <2>1
    <2> HIDE DEF T, last
    <2>4. h[T] = Nets(us)[last[T]] + h[T \ {last[T]}]
      BY <2>2, <2>3, SumLast
    <2> QED
      BY <2>1, <2>3, <2>4 DEF T
  <1>8. t.net \in Int
    BY DEF TradeRecords
  <1> QED
    BY <1>2, <1>3, <1>4, <1>6, <1>7, <1>8 DEF us

LEMMA NoEarnings == Earnings(<< >>) = 0
  <1>1. /\ Earnings(<< >>) = SumUpTo(<< >>)[1..Len(<< >>)]
        /\ IsSums(SumUpTo(<< >>), 1..Len(<< >>), Latest(Len(<< >>)), Nets(<< >>))
    <2>1. << >> \in Seq(TradeRecords)
      OBVIOUS
    <2> QED
      BY <2>1, EarningsAreASum
  <1>2. 1..Len(<< >>) = {}
    OBVIOUS
  <1> QED
    BY <1>1, <1>2, SumLast

\* A step of the book: nothing, an entry fee, or a trade.
BookStep ==
  \/ UNCHANGED <<trades, realized, entryFees>>
  \/ \E fee \in Int : realized' = realized - fee /\ entryFees' = entryFees + fee /\ trades' = trades
  \/ \E t \in TradeRecords :
       realized' = realized + t.net /\ trades' = Append(trades, t) /\ entryFees' = entryFees

LEMMA CloseBooks ==
  ASSUME NEW pos \in PositionRecords, pos.side # 0, NEW base \in Int,
         NEW reason \in {"signal", "stop_loss", "take_profit", "time_exit", "end_of_data"},
         Close(pos, base, reason)
  PROVE  BookStep
  <1> DEFINE price == MarketFill(-pos.side, base)
             t == [side |-> pos.side, qty |-> pos.qty, entry |-> pos.entry,
                   exit |-> price, best |-> pos.best, reason |-> reason,
                   gross |-> Gross(pos, price), net |-> Net(pos, price)]
  <1>1. price \in Int
    <2>1. -pos.side \in {-1, 0, 1}
      BY DEF PositionRecords
    <2> QED
      BY <2>1, FillInt
  <1>2. Gross(pos, price) \in Int /\ Net(pos, price) \in Int
    BY <1>1, GrossInt
  <1>3. t \in TradeRecords /\ t.net = Net(pos, price)
    BY <1>1, <1>2 DEF PositionRecords, TradeRecords, Sides
  <1>4. trades' = Append(trades, t) /\ entryFees' = entryFees /\ realized' = realized + Net(pos, price)
    BY DEF Close, Booked
  <1> HIDE DEF price, t
  <1> QED
    BY <1>3, <1>4 DEF BookStep

LEMMA OpenBooks ==
  ASSUME NEW ord \in OrderRecords, NEW price \in Int, NEW rate \in Nat, Open(ord, price, rate)
  PROVE  BookStep
  <1> DEFINE fee == Fee(ord.qty, price, rate)
  <1>1. fee \in Int
    BY DEF Fee, OrderRecords
  <1>2. realized' = realized - fee /\ entryFees' = entryFees + fee /\ trades' = trades
    BY DEF Open
  <1> HIDE DEF fee
  <1> QED
    BY <1>1, <1>2 DEF BookStep

\* Every step of a backtest is a step of the book.
LEMMA BookSteps ==
  ASSUME TypeInv, [Next]_vars
  PROVE  BookStep
  <1>0. /\ pending \in OrderRecords /\ position \in PositionRecords
        /\ BookTypes /\ LoopTypes
    BY Frame DEF TypeInv, TypeOK
  <1>1. UNCHANGED bookVars => BookStep
    BY DEF bookVars, BookStep
  <1>2. ASSUME NEW b \in Bars, PendingExit(b) PROVE BookStep
    <2>1. CASE HasPosition
      <3>1. Close(position, b.open, "signal") /\ position.side # 0 /\ b.open \in Int
        BY <1>2, <2>1, BarInts DEF PendingExit, HasPosition
      <3> QED
        BY <3>1, <1>0, CloseBooks
    <2>2. CASE ~HasPosition
      BY <1>1, <1>2, <2>2 DEF PendingExit
    <2> QED
      BY <2>1, <2>2
  <1>3. ASSUME NEW b \in Bars, PendingEntry(b) PROVE BookStep
    <2>1. pending.side \in {-1, 0, 1} /\ pending.limit \in Int /\ TakerFee \in Nat /\ MakerFee \in Nat
      BY <1>0, Constants DEF OrderRecords
    <2>2. MarketFill(pending.side, b.open) \in Int
      BY <2>1, BarInts, FillInt
    <2>3. \/ Open(pending, MarketFill(pending.side, b.open), TakerFee)
          \/ Open(pending, pending.limit, MakerFee)
          \/ UNCHANGED bookVars
      BY <1>3 DEF PendingEntry
    <2> QED
      BY <1>0, <1>1, <2>1, <2>2, <2>3, OpenBooks
  <1>4. CASE CloseBar
    <2>1. CASE HasPosition
      <3> DEFINE pos == [position EXCEPT !.held = @ + 1]
      <3>1. /\ pos \in PositionRecords /\ pos.side # 0 /\ pos.stop \in Int /\ pos.target \in Int
            /\ bar.close \in Int
        BY <1>0, <2>1, BarInts DEF PositionRecords, HasPosition, LoopTypes, NoBar
      <3>2. \/ Close(pos, pos.stop, "stop_loss")
            \/ Close(pos, pos.target, "take_profit")
            \/ Close(pos, bar.close, "time_exit")
            \/ UNCHANGED <<trades, realized, entryFees>>
        BY <1>4, <2>1 DEF CloseBar, Manage
      <3> HIDE DEF pos
      <3> QED
        BY <3>1, <3>2, CloseBooks DEF BookStep
    <2>2. CASE ~HasPosition
      BY <1>1, <1>4, <2>2 DEF CloseBar
    <2> QED
      BY <2>1, <2>2
  <1>5. CASE End
    <2>1. CASE HasPosition
      <3>1. Close(position, bar.close, "end_of_data") /\ position.side # 0 /\ bar.close \in Int
        BY <1>0, <1>5, <2>1, BarInts DEF End, HasPosition, LoopTypes, NoBar
      <3> QED
        BY <3>1, <1>0, CloseBooks
    <2>2. CASE ~HasPosition
      BY <1>1, <1>5, <2>2 DEF End
    <2> QED
      BY <2>1, <2>2
  <1>6. \/ UNCHANGED bookVars \/ CloseBar \/ End
        \/ \E b \in Bars : PendingExit(b) \/ PendingEntry(b)
    BY DEF Next, NothingPending, DecideNothing, DecideExit, DecideEntry, DecideStep, vars
  <1> QED
    BY <1>1, <1>2, <1>3, <1>4, <1>5, <1>6

Explained == realized = InitialEquity + Earnings(trades) - entryFees

\* The realized equity of every backtest is the initial equity, plus what the trades earned,
\* less the entry fees.
THEOREM EquityIsExplained == Spec => []EquityExplained
  <1>1. Init => Explained
    BY NoEarnings, Constants DEF Init, Explained
  <1>2. TypeInv /\ Explained /\ [Next]_vars => Explained'
    <2> SUFFICES ASSUME TypeInv, Explained, [Next]_vars PROVE Explained'
      OBVIOUS
    <2>1. /\ trades \in Seq(TradeRecords) /\ realized \in Int /\ entryFees \in Int /\ InitialEquity \in Int
      BY Constants DEF TypeInv, TypeOK, BookTypes, TradeRecords
    <2> DEFINE was == Earnings(trades)
    <2>2. was \in Int /\ realized = InitialEquity + was - entryFees
      BY <2>1, EarningsAreASum DEF Explained
    <2>3. CASE UNCHANGED <<trades, realized, entryFees>>
      BY <2>3 DEF Explained
    <2>4. ASSUME NEW fee \in Int, realized' = realized - fee, entryFees' = entryFees + fee, trades' = trades
          PROVE  Explained'
      <3>1. Earnings(trades') = was
        BY <2>4
      <3> HIDE DEF was
      <3>2. realized' = InitialEquity + was - entryFees'
        BY <2>1, <2>2, <2>4
      <3> QED
        BY <3>1, <3>2 DEF Explained
    <2>5. ASSUME NEW t \in TradeRecords, realized' = realized + t.net, trades' = Append(trades, t),
                 entryFees' = entryFees
          PROVE  Explained'
      <3>1. Earnings(trades') = was + t.net /\ t.net \in Int
        BY <2>1, <2>5, EarningsGrow DEF TradeRecords
      <3> HIDE DEF was
      <3>2. realized' = InitialEquity + (was + t.net) - entryFees'
        BY <2>1, <2>2, <2>5, <3>1
      <3> QED
        BY <3>1, <3>2 DEF Explained
    <2> QED
      BY <2>3, <2>4, <2>5, BookSteps DEF BookStep
  <1>3. Explained => EquityExplained
    BY DEF Explained, EquityExplained, Earnings
  <1> QED
    BY <1>1, <1>2, <1>3, Initially, TypeStep, PTL DEF Spec

-----------------------------------------------------------------------------
(* What a stop costs                                                       *)

LEMMA Grows ==
  ASSUME NEW a \in Int, NEW b \in Int, NEW k \in Nat, a <= b
  PROVE  a * k <= b * k
  <1>1. (b - a) * k >= 0 /\ (b - a) * k = b * k - a * k /\ a * k \in Int /\ b * k \in Int
    OBVIOUS
  <1> QED
    BY <1>1

LEMMA Divided ==
  ASSUME NEW a \in Int, NEW b \in Nat \ {0}
  PROVE  (a \div b) * b <= a
  OBVIOUS

LEMMA DividedMost ==
  ASSUME NEW a \in Int, NEW b \in Nat \ {0}, NEW x \in Int, x * b <= a
  PROVE  x <= a \div b
  <1> DEFINE d == a \div b
  <1>1. d \in Int /\ a < (d + 1) * b
    OBVIOUS
  <1> HIDE DEF d
  <1>2. ASSUME d + 1 <= x PROVE FALSE
    <2>1. (d + 1) * b <= x * b
      BY <1>1, <1>2, Grows
    <2>2. (d + 1) * b \in Int /\ x * b \in Int
      BY <1>1
    <2> QED
      BY <1>1, <2>1, <2>2
  <1> QED
    BY <1>1, <1>2 DEF d

\* An order of size_order risks the budget at most.
LEMMA SizedToBudget ==
  ASSUME NEW equity \in Int, NEW stop \in Nat \ {0}, NEW price \in Nat \ {0}
  PROVE  OrderQty(equity, stop, price) * stop * Unit <= (equity * RiskPct) \div 100
  <1> DEFINE a == equity * RiskPct
             k == 100 * Unit * stop
             risked == a \div k
             qty == OrderQty(equity, stop, price)
  <1>1. a \in Int /\ k \in Nat \ {0} /\ stop * Unit \in Nat /\ Unit \in Nat
    BY Constants
  <1>2. qty \in Int
    BY QtyInt
  <1>3. risked \in Int /\ risked * k <= a
    <2> HIDE DEF a, k
    <2> QED
      BY <1>1, DivInt, Divided
  <1>4. qty <= risked
    <2> DEFINE capped == (MaxLeverage * equity) \div (Unit * price)
    <2>1. MaxLeverage * equity \in Int /\ Unit * price \in Nat \ {0}
      BY Constants
    <2>2. capped \in Int
      BY <2>1, DivInt
    <2>3. qty = IF MaxLeverage > 0 THEN Smaller(risked, capped) ELSE risked
      BY DEF OrderQty
    <2> HIDE DEF risked, capped, qty
    <2> QED
      BY <1>3, <2>2, <2>3 DEF Smaller
  <1> HIDE DEF risked, qty
  <1>5. qty * k <= a
    <2> HIDE DEF k, a
    <2>1. qty * k <= risked * k /\ qty * k \in Int /\ risked * k \in Int
      BY <1>1, <1>2, <1>3, <1>4, Grows
    <2> QED
      BY <1>1, <1>3, <2>1
  <1>6. qty * k = (qty * stop * Unit) * 100 /\ qty * stop * Unit \in Int
    BY <1>1, <1>2
  <1>7. (qty * stop * Unit) * 100 <= a
    BY <1>5, <1>6
  <1>8. qty * stop * Unit <= a \div 100
    <2> HIDE DEF a
    <2> QED
      BY <1>1, <1>6, <1>7, DividedMost
  <1> QED
    BY <1>8 DEF qty

\* The risk of a queued entry and of an open position is within the budget; an order at
\* rest or a position keeps the quantity it was sized with.
RiskInv ==
  /\ pending # NoOrder /\ ~pending.exit => pending.qty * pending.stop * Unit <= budget
  /\ HasPosition =>
       \E s \in Int : position.stop = position.entry - position.side * s
                      /\ position.qty * s * Unit <= budget

LEMMA OpenRisk ==
  ASSUME NEW ord \in OrderRecords, NEW price \in Int, NEW rate,
         Open(ord, price, rate), ord.qty * ord.stop * Unit <= budget, budget' = budget
  PROVE  \E s \in Int : position'.stop = position'.entry - position'.side * s
                        /\ position'.qty * s * Unit <= budget'
  <1>1. /\ position'.stop = position'.entry - position'.side * ord.stop
        /\ position'.qty = ord.qty /\ ord.stop \in Int
    BY DEF Open, OrderRecords
  <1> QED
    BY <1>1

LEMMA RiskStep ==
  ASSUME TypeInv, RiskInv, [Next]_vars
  PROVE  RiskInv'
  <1>0. /\ pending \in OrderRecords /\ position \in PositionRecords
        /\ BookTypes /\ LoopTypes /\ NoPosition.side = 0
    BY Frame DEF TypeInv, TypeOK, NoPosition
  <1>1. ASSUME budget' = budget, pending' = NoOrder \/ pending'.exit \/ pending' = pending,
               \/ ~HasPosition'
               \/ position' = position
               \/ /\ position'.stop = position.stop /\ position'.entry = position.entry
                  /\ position'.side = position.side /\ position'.qty = position.qty
        PROVE  RiskInv'
    BY <1>1 DEF RiskInv, HasPosition
  <1>2. ASSUME NEW pos, NEW base, NEW reason, Close(pos, base, reason) PROVE ~HasPosition'
    BY <1>0, <1>2 DEF Close, HasPosition
  <1>3. ASSUME NEW b \in Bars, PendingEntry(b) PROVE RiskInv'
    <2>1. /\ pending.qty * pending.stop * Unit <= budget /\ budget' = budget /\ pending' = NoOrder
          /\ pending.side \in {-1, 0, 1} /\ pending.limit \in Int
      BY <1>0, <1>3 DEF PendingEntry, OpenBar, RiskInv, OrderRecords
    <2>2. MarketFill(pending.side, b.open) \in Int
      BY <2>1, BarInts, FillInt
    <2>3. \/ Open(pending, MarketFill(pending.side, b.open), TakerFee)
          \/ Open(pending, pending.limit, MakerFee)
          \/ UNCHANGED bookVars
      BY <1>3 DEF PendingEntry
    <2>4. ASSUME UNCHANGED bookVars PROVE RiskInv'
      BY <1>1, <2>1, <2>4 DEF bookVars
    <2>5. ASSUME NEW price \in Int, NEW rate, Open(pending, price, rate) PROVE RiskInv'
      <3>1. \E s \in Int : position'.stop = position'.entry - position'.side * s
                           /\ position'.qty * s * Unit <= budget'
        BY <1>0, <2>1, <2>5, OpenRisk
      <3> QED
        BY <2>1, <3>1 DEF RiskInv
    <2> QED
      BY <2>1, <2>2, <2>3, <2>4, <2>5
  <1>4. ASSUME NEW b \in Bars, NothingPending(b) \/ PendingExit(b) PROVE RiskInv'
    BY <1>1, <1>2, <1>4 DEF NothingPending, PendingExit, OpenBar, bookVars
  <1>5. CASE CloseBar
    <2>1. budget' = budget /\ pending' = pending
      BY <1>5 DEF CloseBar
    <2>2. CASE HasPosition
      <3> DEFINE pos == [position EXCEPT !.held = @ + 1]
      <3>1. /\ pos.stop = position.stop /\ pos.entry = position.entry
            /\ pos.side = position.side /\ pos.qty = position.qty
            /\ DOMAIN pos = DOMAIN position
            /\ {"stop", "entry", "side", "qty"} \subseteq DOMAIN position
        BY <1>0 DEF PositionRecords
      <3>2. \/ \E base, reason : Close(pos, base, reason)
            \/ position' = [pos EXCEPT !.best = Better(pos, bar)]
        BY <1>5, <2>2 DEF CloseBar, Manage
      <3> HIDE DEF pos
      <3>3. \/ ~HasPosition'
            \/ /\ position'.stop = position.stop /\ position'.entry = position.entry
               /\ position'.side = position.side /\ position'.qty = position.qty
        BY <1>2, <3>1, <3>2
      <3> QED
        BY <1>1, <2>1, <3>3
    <2>3. CASE ~HasPosition
      BY <1>1, <1>5, <2>1, <2>3 DEF CloseBar, bookVars
    <2> QED
      BY <2>2, <2>3
  <1>6. CASE DecideNothing \/ DecideExit
    BY <1>1, <1>6 DEF DecideNothing, DecideExit, DecideStep, ExitOrder, bookVars
  <1>7. CASE DecideEntry
    <2>1. ~HasPosition' /\ bar \in Bars
      BY <1>7 DEF DecideEntry, DecideStep, MayEnter, HasPosition, bookVars, TypeInv, BarOpened
    <2>2. PICK d \in Signals \ {0}, atr \in Atrs, type \in EntryTypes :
            SlMult * atr > 0 /\ pending' = EntryOrder(d, atr, type)
      BY <1>7 DEF DecideEntry
    <2> DEFINE equity == Equity(bar.close)
               stop == SlMult * atr
    <2>3. equity \in Int /\ stop \in Nat \ {0} /\ bar.close \in Nat \ {0}
      BY <1>0, <2>1, <2>2, Constants, BacktestAssumption, BarInts, EquityInt
    <2>4. pending'.qty = OrderQty(equity, stop, bar.close) /\ pending'.stop = stop
      BY <2>2 DEF EntryOrder
    <2>5. budget' = (equity * RiskPct) \div 100
      BY <1>7 DEF DecideEntry
    <2> HIDE DEF equity, stop
    <2>6. pending'.qty * pending'.stop * Unit <= budget'
      BY <2>3, <2>4, <2>5, SizedToBudget
    <2> QED
      BY <2>1, <2>6 DEF RiskInv
  <1>8. CASE End
    BY <1>1, <1>2, <1>8 DEF End, bookVars
  <1>9. CASE UNCHANGED vars
    BY <1>1, <1>9 DEF vars, bookVars
  <1> QED
    BY <1>3, <1>4, <1>5, <1>6, <1>7, <1>8, <1>9 DEF Next

\* Only the stop of the open position closes a trade with that reason.
LEMMA StoppedOnly ==
  ASSUME TypeInv, [Next]_vars, Len(trades') > Len(trades), Last(trades').reason = "stop_loss"
  PROVE  \E pos \in PositionRecords :
           /\ pos.side # 0 /\ pos.side = position.side /\ pos.entry = position.entry
           /\ pos.qty = position.qty /\ pos.stop = position.stop
           /\ Close(pos, pos.stop, "stop_loss")
  <1>0. /\ pending \in OrderRecords /\ position \in PositionRecords
        /\ BookTypes /\ LoopTypes /\ Len(trades) \in Nat
    BY Frame DEF TypeInv, TypeOK, BookTypes
  <1>1. trades' # trades
    BY <1>0
  <1>2. ASSUME NEW pos \in PositionRecords, pos.side # 0, NEW base \in Int,
               NEW reason \in {"signal", "time_exit", "take_profit", "end_of_data"}
        PROVE  ~Close(pos, base, reason)
    <2> SUFFICES ASSUME Close(pos, base, reason) PROVE FALSE
      OBVIOUS
    <2>1. Last(trades').reason = reason
      BY <1>0, <1>2, ClosedLast
    <2> QED
      BY <2>1, <1>2
  <1>3. ASSUME NEW b \in Bars, PendingExit(b) PROVE FALSE
    <2>1. Close(position, b.open, "signal") /\ position.side # 0 /\ b.open \in Int
      BY <1>1, <1>3, BarInts DEF PendingExit, HasPosition, bookVars
    <2> QED
      BY <2>1, <1>0, <1>2
  <1>4. ASSUME End PROVE FALSE
    <2>1. Close(position, bar.close, "end_of_data") /\ position.side # 0 /\ bar.close \in Int
      BY <1>0, <1>1, <1>4, BarInts DEF End, HasPosition, LoopTypes, NoBar, bookVars
    <2> QED
      BY <2>1, <1>0, <1>2
  <1>5. CloseBar
    BY <1>1, <1>3, <1>4
    DEF Next, NothingPending, PendingEntry, Open, DecideNothing, DecideExit, DecideEntry, DecideStep,
        vars, bookVars
  <1>6. HasPosition
    BY <1>1, <1>5 DEF CloseBar, bookVars
  <1> DEFINE pos == [position EXCEPT !.held = @ + 1]
  <1>7. /\ pos \in PositionRecords /\ pos.side # 0 /\ pos.stop \in Int /\ pos.target \in Int
        /\ pos.side = position.side /\ pos.entry = position.entry
        /\ pos.qty = position.qty /\ pos.stop = position.stop /\ bar.close \in Int
    <2>1. bar.close \in Int
      BY <1>0, BarInts DEF LoopTypes, NoBar
    <2>2. /\ pos \in PositionRecords
          /\ pos.side = position.side /\ pos.entry = position.entry
          /\ pos.qty = position.qty /\ pos.stop = position.stop
      BY <1>0 DEF PositionRecords
    <2>3. pos.stop \in Int /\ pos.target \in Int
      BY <2>2 DEF PositionRecords
    <2> QED
      BY <1>6, <2>1, <2>2, <2>3 DEF HasPosition
  <1>8. \/ Close(pos, pos.stop, "stop_loss")
        \/ Close(pos, pos.target, "take_profit")
        \/ Close(pos, bar.close, "time_exit")
        \/ trades' = trades
    BY <1>5, <1>6 DEF CloseBar, Manage
  <1> HIDE DEF pos
  <1>9. Close(pos, pos.stop, "stop_loss")
    BY <1>1, <1>2, <1>7, <1>8
  <1> QED
    BY <1>7, <1>9

\* What the price of a stop, and the slippage against it, costs.
LEMMA StopCost ==
  ASSUME NEW d \in {-1, 1}, NEW entry \in Int, NEW s \in Int, NEW slip \in Int, NEW q \in Int,
         NEW u \in Int
  PROVE  -(d * (((entry - d * s) + (-d) * slip) - entry) * q * u) = q * s * u + q * u * slip
  <1>1. d * (((entry - d * s) + (-d) * slip) - entry) = -(s + slip)
    BY d = 1 \/ d = -1
  <1>2. -((-(s + slip)) * q * u) = (s + slip) * q * u
    <2>1. (-(s + slip)) * q = -((s + slip) * q) /\ (s + slip) * q \in Int
      OBVIOUS
    <2> DEFINE x == (s + slip) * q
    <2> HIDE DEF x
    <2>2. x \in Int
      BY <2>1 DEF x
    <2>3. -((-x) * u) = x * u
      BY <2>2
    <2> QED
      BY <2>1, <2>3 DEF x
  <1>3. (s + slip) * q * u = q * s * u + q * u * slip
    <2>1. (s + slip) * q = q * s + q * slip /\ q * s \in Int /\ q * slip \in Int
      OBVIOUS
    <2>2. (q * s + q * slip) * u = q * s * u + q * slip * u
      BY <2>1
    <2>3. q * slip * u = q * u * slip
      OBVIOUS
    <2> QED
      BY <2>1, <2>2, <2>3
  <1> QED
    BY <1>1, <1>2, <1>3

\* A stop-out costs the budget of its entry and the slippage of the exit at most, for every
\* data, stop distance, leverage and rate: gaps and the fill of the entry do not add to it.
THEOREM StopsAreBounded == Spec => StopBounded
  <1>1. Init => RiskInv
    BY DEF Init, RiskInv, HasPosition, NoPosition
  <1>2. TypeInv /\ RiskInv /\ [Next]_vars =>
          [Len(trades') > Len(trades) /\ Last(trades').reason = "stop_loss" =>
             LET t == Last(trades')
             IN  -t.gross <= budget + t.qty * Unit * ((position.stop * Slippage) \div Unit)]_vars
    <2> SUFFICES ASSUME TypeInv, RiskInv, [Next]_vars, Len(trades') > Len(trades),
                        Last(trades').reason = "stop_loss"
                 PROVE  -Last(trades').gross <=
                          budget + Last(trades').qty * Unit * ((position.stop * Slippage) \div Unit)
      OBVIOUS
    <2>1. PICK pos \in PositionRecords :
            /\ pos.side # 0 /\ pos.side = position.side /\ pos.entry = position.entry
            /\ pos.qty = position.qty /\ pos.stop = position.stop
            /\ Close(pos, pos.stop, "stop_loss")
      BY StoppedOnly
    <2> DEFINE slip == (pos.stop * Slippage) \div Unit
               price == pos.stop + (-pos.side) * slip
               t == Last(trades')
    <2>2. /\ pos.side \in {-1, 1} /\ pos.entry \in Int /\ pos.qty \in Int /\ pos.stop \in Int
          /\ budget \in Int /\ BookTypes /\ Unit \in Int
      BY <2>1, Constants DEF PositionRecords, TypeInv, TypeOK, LoopTypes
    <2>3. slip \in Int
      BY <2>2, Constants, DivInt
    <2>4. t.qty = pos.qty /\ t.gross = pos.side * (price - pos.entry) * pos.qty * Unit
      BY <2>1, <2>2, ClosedLast DEF MarketFill, Gross
    <2>5. PICK s \in Int : pos.stop = pos.entry - pos.side * s /\ pos.qty * s * Unit <= budget
      BY <2>1 DEF RiskInv, HasPosition
    <2> HIDE DEF slip, t
    <2>6. -t.gross = pos.qty * s * Unit + pos.qty * Unit * slip
      <3>1. t.gross = pos.side * (((pos.entry - pos.side * s) + (-pos.side) * slip) - pos.entry)
                        * pos.qty * Unit
        BY <2>4, <2>5
      <3> DEFINE d == pos.side
                 e == pos.entry
                 q == pos.qty
      <3>2. d \in {-1, 1} /\ e \in Int /\ q \in Int /\ Unit \in Int
        BY <2>2
      <3>3. t.gross = d * (((e - d * s) + (-d) * slip) - e) * q * Unit
        BY <3>1
      <3> HIDE DEF d, e, q
      <3>4. -(d * (((e - d * s) + (-d) * slip) - e) * q * Unit) = q * s * Unit + q * Unit * slip
        BY <2>3, <3>2, StopCost
      <3> QED
        BY <3>3, <3>4 DEF q
    <2>7. pos.qty * s * Unit \in Int /\ pos.qty * Unit * slip \in Int
      BY <2>2, <2>3
    <2>8. -t.gross <= budget + pos.qty * Unit * slip
      BY <2>2, <2>5, <2>6, <2>7
    <2> QED
      BY <2>1, <2>4, <2>8 DEF slip, t
  <1> QED
    BY <1>1, <1>2, Initially, TypeStep, RiskStep, PTL DEF Spec, StopBounded

=============================================================================
