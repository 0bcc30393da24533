------------------------------ MODULE LiveEngine ------------------------------
(***************************************************************************)
(* One live trading engine (live/engine.py) on the asyncio event loop,     *)
(* with the execution handler it drives (execution/live.py or              *)
(* execution/paper.py), the flatten() calls the controller makes on it,    *)
(* and the exchange behind the handler.                                    *)
(*                                                                         *)
(* asyncio is cooperative: a task runs alone until it awaits something     *)
(* that really suspends.  `running` names the task that holds the event    *)
(* loop inside such a stretch and is NoTask while every task is suspended; *)
(* pc[p] names the await (or the point of the stretch) where task p is.    *)
(* The bar task runs LiveTradingEngine.run(); each killer is one           *)
(* flatten() call, of the kill-switch or of the circuit breaker.           *)
(*                                                                         *)
(* Quantities are abstracted to a signed number of units: an entry asks    *)
(* for Size units, a position or an order is a signed integer.  Prices are *)
(* abstracted to what a bar does to the barriers of the open position.     *)
(***************************************************************************)
EXTENDS Integers, FiniteSets, Sequences, Functions

CONSTANTS
  BarTask,        \* the task that runs LiveTradingEngine.run()
  Killers,        \* flatten() calls, one task each
  NoTask,         \* nobody holds the event loop
  RealOrders,     \* CCXTExecutionHandler, else PaperExecutionHandler
  Adoption,       \* the exchange reports positions that a start can adopt
  UseRecorded,    \* the strategy awaits the latest recorded observation
  CooldownBars,   \* risk.cooldown_bars
  Horizon,        \* barriers.horizon (0: no time barrier)
  Attempts,       \* attempts of _create_with_retry
  Size,           \* units an entry asks for
  PartialFills,   \* a market order may fill in part
  LostAcks,       \* a request may time out after the exchange executed it
  LostReads,      \* a start may fail to read the account
  NativeTriggers, \* the exchange may trigger a protective order
  OrderIds,       \* ids of protective orders (the exchange's open-order limit)
  MaxBars,        \* bound: bars the stream delivers
  MaxFaults,      \* bound: failed requests
  MaxStarts       \* bound: starts of the engine

Tasks == {BarTask} \cup Killers

ASSUME TasksAssumption == BarTask \notin Killers /\ NoTask \notin Tasks
\* A program makes finitely many calls.
ASSUME CallsAssumption == IsFiniteSet(Killers)
ASSUME SwitchAssumption ==
  {RealOrders, Adoption, UseRecorded, PartialFills, LostAcks, LostReads, NativeTriggers}
    \subseteq BOOLEAN
ASSUME NumberAssumption ==
  /\ CooldownBars \in Nat /\ Horizon \in Nat /\ Attempts \in Nat \ {0}
  /\ Size \in Nat \ {0}
  /\ MaxBars \in Nat /\ MaxFaults \in Nat /\ MaxStarts \in Nat
  /\ OrderIds \subseteq Nat

VARIABLES
  \* the tasks
  pc, running,
  ret,         \* where _exit or place_protective returns to
  order,       \* signed quantity of the market order in flight
  attempt,     \* attempt of _create_with_retry in flight
  todo,        \* popped protective ids still to be cancelled
  placed,      \* ids collected by place_protective so far
  \* the engine and its portfolio
  pos,         \* signed quantity of Portfolio.position, 0 for None
  held,        \* Position.bars_held
  halted, stopReq, cooldown,
  trades,      \* len(Portfolio.trades)
  seen,        \* _trades_seen
  saved,       \* trades recorded in the store by this run
  lastBar,     \* timestamp of _last_bar (= _last_ts), 0 for None
  adopt,       \* signed quantity of initial_position, 0 for None
  \* the handler and the exchange
  protective,  \* ids in CCXTExecutionHandler._protective[symbol]
  exPos,       \* net quantity executed on the account
  exOrders,    \* protective orders live on the exchange
  stray,       \* requests that flatten calls on an earlier engine still have to make
  \* bounds
  faults, starts,
  \* history
  spared,      \* a halted engine may hold a position: the last flatten() left it
  lastTry,     \* bar of the last exit attempt of the open position, 0 if none
  sinceExit    \* bars since the last close, saturating at CooldownBars

taskVars     == <<pc, running, ret, order, attempt, todo, placed>>
bookVars     == <<pos, held, trades, lastTry, sinceExit>>
controlVars  == <<halted, stopReq, cooldown, seen, saved, lastBar, adopt, spared>>
exchangeVars == <<protective, exPos, exOrders, stray>>
boundVars    == <<faults, starts>>
vars == <<taskVars, bookVars, controlVars, exchangeVars, boundVars>>

-----------------------------------------------------------------------------
Kinds   == {"STOP", "TP"}
OrderRecord == [id : OrderIds, kind : Kinds, qty : Int]
StrayRecord == [order : Int, attempt : 1..Attempts, todo : Seq(OrderIds)]
NoStray     == [order |-> 0, attempt |-> 1, todo |-> << >>]
InSync  == {"exit", "post", "decide"}          \* inside a stretch
Ended   == {"stopped", "error", "down"}         \* the bar task is over
Awaits  == {"boot", "stream", "obs", "cancel", "exec", "rec", "entry",
            "pcancel", "pstop", "ptp", "sync"}
Labels  == InSync \cup Ended \cup Awaits \cup {"idle", "done"}
Returns == {"post", "sync", "stream"}

\* What a market order of signed quantity q may execute.
Fills(q)    == {q} \cup (IF PartialFills THEN 1..q \cup q..-1 ELSE {})
HasPosition == pos # 0
LiveIds     == {o.id : o \in exOrders}
UsedIds     == LiveIds \cup Range(protective) \cup Range(placed)
                 \cup UNION {Range(todo[p]) : p \in Tasks}
                 \cup UNION {Range(stray[k].todo) : k \in Killers}
FreeIds     == OrderIds \ UsedIds
\* The id the exchange gives to the next order, if it accepts another one.
NewId       == IF FreeIds = {} THEN {} ELSE {CHOOSE i \in FreeIds : TRUE}

\* Task p is suspended at await l and the loop is free to resume it / p runs at l.
Awaiting(p, l) == pc[p] = l /\ running = NoTask
At(p, l)       == pc[p] = l /\ running = p

Suspend(p, l) == pc' = [pc EXCEPT ![p] = l] /\ running' = NoTask
Proceed(p, l) == pc' = [pc EXCEPT ![p] = l] /\ running' = p

\* An exception leaves task p: run() ends with status "error"; flatten_all
\* catches what flatten() raises.
Raise(p) == Suspend(p, IF p = BarTask THEN "error" ELSE "done")

\* _exit returns: into _on_bar after _manage_position, or to the final sync.
Return(p) == IF ret[p] = "post" THEN Proceed(p, "post") ELSE Suspend(p, ret[p])

BookOpen(q) == /\ pos' = q /\ held' = 0 /\ lastTry' = 0
               /\ UNCHANGED <<trades, sinceExit>>
BookClose   == /\ pos' = 0 /\ trades' = trades + 1 /\ sinceExit' = 0 /\ lastTry' = 0
               /\ UNCHANGED held

Init ==
  /\ pc = [p \in Tasks |-> IF p = BarTask THEN "boot" ELSE "idle"]
  /\ running = NoTask
  /\ ret = [p \in Tasks |-> "sync"]
  /\ order = [p \in Tasks |-> 0]
  /\ attempt = [p \in Tasks |-> 1]
  /\ todo = [p \in Tasks |-> << >>]
  /\ placed = << >>
  /\ pos = 0 /\ held = 0 /\ trades = 0 /\ lastTry = 0 /\ sinceExit = CooldownBars
  /\ halted = FALSE /\ stopReq = FALSE /\ cooldown = 0 /\ seen = 0 /\ saved = 0
  /\ lastBar = 0 /\ adopt = 0 /\ spared = FALSE
  /\ protective = << >> /\ exPos = 0 /\ exOrders = {}
  /\ stray = [k \in Killers |-> NoStray]
  /\ faults = 0 /\ starts = 1

-----------------------------------------------------------------------------
(* run(): start, stream, stop                                              *)

\* start_run returned: prime, adopt the reported position if there is one and
\* place its protective orders (a fresh handler has none to cancel), and go on
\* to the stream.
Boot ==
  /\ Awaiting(BarTask, "boot")
  /\ IF adopt = 0
       THEN Suspend(BarTask, "stream") /\ UNCHANGED <<bookVars, ret, order>>
       ELSE /\ BookOpen(adopt)
            /\ ret' = [ret EXCEPT ![BarTask] = "stream"]
            /\ order' = [order EXCEPT ![BarTask] = adopt]
            /\ Suspend(BarTask, "pstop")
  /\ UNCHANGED <<attempt, todo, placed, controlVars, exchangeVars, boundVars>>

\* One bar of the cooldown passes.
Tick(c) == IF c > 0 THEN c - 1 ELSE 0

\* The bar about to be counted is the last one the position may be held.
TimeUpLate == Horizon > 0 /\ held >= Horizon \* mutant: tested before bars_held += 1
TimeUp == Horizon > 0 /\ held + 1 >= Horizon

\* _on_bar up to _manage_position: a bar newer than _last_ts arrives; an open
\* position is one bar older and leaves through a barrier the bar touches or
\* through the time barrier.
OnBar ==
  /\ Awaiting(BarTask, "stream") /\ ~stopReq
  /\ \E ts \in 1..MaxBars, barrierHit \in BOOLEAN :
       /\ ts > lastBar
       /\ lastBar' = ts
       /\ IF HasPosition /\ (barrierHit \/ TimeUp)
            THEN Proceed(BarTask, "exit")
            ELSE Proceed(BarTask, "post")
  /\ held' = IF HasPosition THEN held + 1 ELSE held
  /\ ret' = [ret EXCEPT ![BarTask] = "post"]
  /\ cooldown' = Tick(cooldown)
  /\ sinceExit' = IF sinceExit < CooldownBars THEN sinceExit + 1 ELSE sinceExit
  /\ UNCHANGED <<order, attempt, todo, placed, pos, trades, lastTry, halted, stopReq,
                 seen, saved, adopt, spared, exchangeVars, boundVars>>

\* The stream delivers an event after stop(): the loop breaks.
StreamStops ==
  /\ Awaiting(BarTask, "stream") /\ stopReq
  /\ Suspend(BarTask, "stopped")
  /\ UNCHANGED <<ret, order, attempt, todo, placed, bookVars, controlVars,
                 exchangeVars, boundVars>>

\* The data handler raises in the middle of the stream (a network error).
StreamFails ==
  /\ Awaiting(BarTask, "stream") /\ faults < MaxFaults
  /\ faults' = faults + 1
  /\ Raise(BarTask)
  /\ UNCHANGED <<ret, order, attempt, todo, placed, bookVars, controlVars,
                 exchangeVars, starts>>

-----------------------------------------------------------------------------
(* _on_bar after the barriers                                              *)

\* A trade closed since the last look: start the cooldown.
Post ==
  /\ At(BarTask, "post")
  /\ seen' = trades
  /\ cooldown' = IF trades > seen THEN CooldownBars ELSE cooldown
  /\ IF UseRecorded THEN Suspend(BarTask, "obs") ELSE Proceed(BarTask, "decide")
  /\ UNCHANGED <<ret, order, attempt, todo, placed, bookVars, halted, stopReq, saved,
                 lastBar, adopt, spared, exchangeVars, boundVars>>

\* The latest observation arrived.
ObsReply ==
  /\ Awaiting(BarTask, "obs")
  /\ Proceed(BarTask, "decide")
  /\ UNCHANGED <<ret, order, attempt, todo, placed, bookVars, controlVars,
                 exchangeVars, boundVars>>

\* mutants: one condition of the entry is dropped
EnterHalted    == ~HasPosition /\ cooldown = 0
EnterCooling   == ~HasPosition /\ ~halted
EnterOnTop     == cooldown = 0 /\ ~halted
CanEnter == ~HasPosition /\ cooldown = 0 /\ ~halted

\* The signal asks for an entry in direction d and size_order returned an order.
TryEnter(d) ==
  /\ At(BarTask, "decide") /\ CanEnter
  /\ IF RealOrders
       THEN /\ order' = [order EXCEPT ![BarTask] = d * Size]
            /\ attempt' = [attempt EXCEPT ![BarTask] = 1]
            /\ Suspend(BarTask, "entry")
            /\ UNCHANGED <<bookVars, exPos>>
       ELSE /\ BookOpen(d * Size) /\ exPos' = exPos + d * Size
            /\ Suspend(BarTask, "sync")
            /\ UNCHANGED <<order, attempt>>
  /\ UNCHANGED <<ret, todo, placed, controlVars, protective, exOrders, stray,
                 boundVars>>

\* The signal opposes the open position.
SignalExit ==
  /\ At(BarTask, "decide") /\ HasPosition
  /\ ret' = [ret EXCEPT ![BarTask] = "sync"]
  /\ Proceed(BarTask, "exit")
  /\ UNCHANGED <<order, attempt, todo, placed, bookVars, controlVars, exchangeVars, boundVars>>

\* A flat signal, a signal that agrees with the position, or no order from the
\* risk manager: mark the book and sync the state.
NoTrade ==
  /\ At(BarTask, "decide")
  /\ Suspend(BarTask, "sync")
  /\ UNCHANGED <<ret, order, attempt, todo, placed, bookVars, controlVars,
                 exchangeVars, boundVars>>

\* Where a task goes when its state is published.
AfterSyncReturn(p) == "done"   \* mutant: the bar loop returns after one bar
AfterSyncLoop(p)   == "stream" \* mutant: flatten never returns
AfterSync(p) == IF p = BarTask THEN "stream" ELSE "done"

\* record_equity returned: publish; the bar (or the flatten) is over.
SyncReply(p) ==
  /\ Awaiting(p, "sync")
  /\ Suspend(p, AfterSync(p))
  /\ ret' = [ret EXCEPT ![p] = "sync"]
  /\ order' = [order EXCEPT ![p] = 0] /\ attempt' = [attempt EXCEPT ![p] = 1]
  /\ UNCHANGED <<todo, placed, bookVars, controlVars, exchangeVars, boundVars>>

-----------------------------------------------------------------------------
(* _exit                                                                   *)

\* The order that closes the open position.
ExitOrder == -pos

\* The first await after close_position.
AfterCloseUnrecorded(p) == IF p = BarTask THEN "rec" ELSE "sync" \* mutant: flatten records nothing
AfterClose(p) == "rec"

\* _exit up to its first suspension: a paper handler closes at once and the
\* trade goes to the store; a real one first pops and cancels the protective
\* orders, or sends the market order when there are none.
ExitBegin(p) ==
  /\ At(p, "exit")
  /\ IF RealOrders
       THEN /\ order' = [order EXCEPT ![p] = ExitOrder]
            /\ attempt' = [attempt EXCEPT ![p] = 1]
            /\ todo' = [todo EXCEPT ![p] = protective]
            /\ protective' = << >>
            /\ Suspend(p, IF protective = << >> THEN "exec" ELSE "cancel")
            /\ lastTry' = lastBar
            /\ UNCHANGED <<pos, held, trades, sinceExit, exPos>>
       ELSE /\ BookClose /\ exPos' = exPos + ExitOrder
            /\ Suspend(p, AfterClose(p))
            /\ UNCHANGED <<order, attempt, todo, protective>>
  /\ UNCHANGED <<ret, placed, controlVars, exOrders, stray, boundVars>>

\* One cancel_order returned: cancelled, already gone, or failed (swallowed).
CancelHead(p) ==
  /\ todo[p] # << >>
  /\ todo' = [todo EXCEPT ![p] = Tail(@)]
  /\ \/ /\ exOrders' = {o \in exOrders : o.id # Head(todo[p])}
        /\ UNCHANGED faults
     \/ /\ faults < MaxFaults /\ faults' = faults + 1
        /\ UNCHANGED exOrders

CancelReply(p) ==
  /\ Awaiting(p, "cancel")
  /\ CancelHead(p)
  /\ Suspend(p, IF Len(todo[p]) = 1 THEN "exec" ELSE "cancel")
  /\ UNCHANGED <<ret, order, attempt, placed, bookVars, controlVars, protective, exPos, stray,
                 starts>>

\* The exit order executed, in full or in part: close the whole position and
\* record the trade; close_position raises when there is nothing to close.
ExitFill(p) ==
  /\ Awaiting(p, "exec")
  /\ \E q \in Fills(order[p]) : exPos' = exPos + q
  /\ IF HasPosition THEN BookClose /\ Suspend(p, AfterClose(p))
                    ELSE Raise(p) /\ UNCHANGED bookVars
  /\ UNCHANGED <<ret, order, attempt, todo, placed, controlVars, protective, exOrders, stray,
                 boundVars>>

\* record_trade committed.
RecordReply(p) ==
  /\ Awaiting(p, "rec")
  /\ saved' = saved + 1
  /\ Return(p)
  /\ UNCHANGED <<ret, order, attempt, todo, placed, bookVars, halted, stopReq, cooldown,
                 seen, lastBar, adopt, spared, exchangeVars, boundVars>>

\* The store raises in record_trade, record_equity or, before any bar, start_run.
StoreFails(p) ==
  /\ \E l \in {"rec", "sync", "boot"} : Awaiting(p, l)
  /\ faults < MaxFaults /\ faults' = faults + 1
  /\ Raise(p)
  /\ UNCHANGED <<ret, order, attempt, todo, placed, bookVars, controlVars,
                 exchangeVars, starts>>

-----------------------------------------------------------------------------
(* execute: the market order                                               *)

\* A transient error, and another attempt left: sleep and send again.  The lost
\* answer may hide an execution.
OrderRetry(p) ==
  /\ \E l \in {"entry", "exec"} : Awaiting(p, l)
  /\ faults < MaxFaults /\ faults' = faults + 1
  /\ attempt[p] < Attempts
  /\ attempt' = [attempt EXCEPT ![p] = @ + 1]
  /\ exPos' \in {exPos} \cup (IF LostAcks THEN {exPos + order[p]} ELSE {})
  /\ UNCHANGED <<pc, running, ret, order, todo, placed, bookVars, controlVars,
                 protective, exOrders, stray, starts>>

\* A rejection, or a transient error of the last attempt: execute raises; the
\* entry is skipped, the exit returns with the position still open.
OrderFails(p) ==
  /\ faults < MaxFaults /\ faults' = faults + 1
  /\ exPos' \in {exPos} \cup
       (IF LostAcks /\ attempt[p] = Attempts THEN {exPos + order[p]} ELSE {})
  /\ \/ Awaiting(p, "entry") /\ Suspend(p, "sync") /\ UNCHANGED spared
     \/ Awaiting(p, "exec") /\ Return(p) /\ spared' = (spared \/ p \in Killers)
  /\ UNCHANGED <<ret, order, attempt, todo, placed, bookVars, halted, stopReq, cooldown,
                 seen, saved, lastBar, adopt, protective, exOrders, stray, starts>>

\* The entry order executed: open the position that was filled, then
\* place_protective for it, which first cancels what it still has on record.
EntryFill ==
  /\ Awaiting(BarTask, "entry")
  /\ \E q \in Fills(order[BarTask]) :
       /\ exPos' = exPos + q
       /\ order' = [order EXCEPT ![BarTask] = q]
       /\ IF HasPosition THEN UNCHANGED bookVars ELSE BookOpen(q)
  /\ IF HasPosition
       THEN Raise(BarTask) /\ UNCHANGED <<ret, todo, protective>>
       ELSE /\ ret' = [ret EXCEPT ![BarTask] = "sync"]
            /\ todo' = [todo EXCEPT ![BarTask] = protective]
            /\ protective' = << >>
            /\ Suspend(BarTask, IF protective = << >> THEN "pstop" ELSE "pcancel")
  /\ UNCHANGED <<attempt, placed, controlVars, exOrders, stray, boundVars>>

-----------------------------------------------------------------------------
(* place_protective                                                        *)

ReplaceCancelReply ==
  /\ Awaiting(BarTask, "pcancel")
  /\ CancelHead(BarTask)
  /\ Suspend(BarTask, IF Len(todo[BarTask]) = 1 THEN "pstop" ELSE "pcancel")
  /\ UNCHANGED <<ret, order, attempt, placed, bookVars, controlVars, protective, exPos, stray,
                 starts>>

\* create_order accepted a protective order for the position the call was made
\* for ...
Accepted(i, kind) ==
  /\ exOrders' = exOrders \cup {[id |-> i, kind |-> kind, qty |-> order[BarTask]]}
  /\ UNCHANGED faults

\* ... or answered with an error (swallowed), which may hide that it accepted the
\* order; at the open-order limit it always does.
Refused(kind) ==
  \/ NewId = {} /\ UNCHANGED <<exOrders, faults>>
  \/ /\ faults < MaxFaults /\ faults' = faults + 1
     /\ \/ UNCHANGED exOrders
        \/ /\ LostAcks
           /\ \E i \in NewId :
                exOrders' = exOrders \cup {[id |-> i, kind |-> kind, qty |-> order[BarTask]]}

StopReply ==
  /\ Awaiting(BarTask, "pstop")
  /\ \/ \E i \in NewId : Accepted(i, "STOP") /\ placed' = <<i>>
     \/ Refused("STOP") /\ placed' = << >>
  /\ Suspend(BarTask, "ptp")
  /\ UNCHANGED <<ret, order, attempt, todo, bookVars, controlVars, protective, exPos, stray,
                 starts>>

\* The ids recorded when the take-profit was accepted as order i.
OnlyStopId(i) == placed \* mutant: the id of the take-profit is dropped
BothIds(i)    == Append(placed, i)

\* The take-profit answered; only now does the handler store the ids.
TakeProfitReply ==
  /\ Awaiting(BarTask, "ptp")
  /\ \/ \E i \in NewId : Accepted(i, "TP") /\ protective' = BothIds(i)
     \/ Refused("TP") /\ protective' = placed
  /\ placed' = << >>
  /\ Suspend(BarTask, ret[BarTask])
  /\ UNCHANGED <<ret, order, attempt, todo, bookVars, controlVars, exPos, stray, starts>>

-----------------------------------------------------------------------------
(* flatten, resume, stop                                                   *)

\* What flatten() closes: a position, once a bar has set the price to close at.
CanFlatten == HasPosition /\ lastBar # 0

\* What flatten() leaves to itself: an entry in flight, a position a start is about
\* to adopt, or one that has no price yet.
Spares == \/ pc[BarTask] = "entry"
          \/ pc[BarTask] = "boot" /\ adopt # 0
          \/ HasPosition /\ lastBar = 0

\* flatten(): halt, and close what the portfolio shows now.
Flatten(k) ==
  /\ Awaiting(k, "idle") /\ pc[BarTask] \notin {"stopped", "down"}
  /\ halted' = TRUE /\ spared' = Spares
  /\ IF CanFlatten THEN Proceed(k, "exit") ELSE Suspend(k, "done")
  /\ UNCHANGED <<ret, order, attempt, todo, placed, bookVars, stopReq, cooldown, seen,
                 saved, lastBar, adopt, exchangeVars, boundVars>>

Resume ==
  /\ running = NoTask /\ halted
  /\ halted' = FALSE
  /\ UNCHANGED <<taskVars, bookVars, stopReq, cooldown, seen, saved, lastBar, adopt,
                 spared, exchangeVars, boundVars>>

Stop ==
  /\ running = NoTask /\ ~stopReq /\ pc[BarTask] \notin Ended
  /\ stopReq' = TRUE
  /\ UNCHANGED <<taskVars, bookVars, halted, cooldown, seen, saved, lastBar, adopt,
                 spared, exchangeVars, boundVars>>

\* stop() was requested and the task has not ended.
NoTimeout == FALSE \* mutant: stop() waits for the task without a timeout
StopTimesOut == stopReq /\ pc[BarTask] \notin Ended

\* controller.stop() waited 12 s for the task and cancels it wherever it waits.
\* (A request in flight at that moment that the exchange still executes has the
\* same effect as its reply followed by the cancellation.)
CancelTask ==
  /\ running = NoTask /\ StopTimesOut
  /\ Suspend(BarTask, "stopped")
  /\ UNCHANGED <<ret, order, attempt, todo, placed, bookVars, controlVars,
                 exchangeVars, boundVars>>

-----------------------------------------------------------------------------
(* The world outside the process                                           *)

\* The price touches a protective order and the exchange executes it.
NativeTrigger ==
  /\ NativeTriggers /\ running = NoTask
  /\ \E o \in exOrders : /\ exOrders' = exOrders \ {o}
                         /\ exPos' = exPos - o.qty
  /\ UNCHANGED <<taskVars, bookVars, controlVars, protective, stray, boundVars>>

\* The process dies; pending flatten calls die with it.  (As for CancelTask, an
\* order in flight executes before its task dies, or never.)
Crash ==
  /\ running = NoTask /\ pc[BarTask] \notin Ended /\ starts < MaxStarts
  /\ pc' = [p \in Tasks |-> IF p = BarTask THEN "down"
                            ELSE IF pc[p] = "idle" THEN "idle" ELSE "done"]
  /\ stray' = [k \in Killers |-> NoStray]
  /\ UNCHANGED <<running, ret, order, attempt, todo, placed, bookVars, controlVars,
                 protective, exPos, exOrders, boundVars>>

\* The position a start adopts.
NothingReported == 0 \* mutant: the account is not read
ReportedPosition == IF RealOrders /\ Adoption THEN exPos ELSE 0

\* What flatten call k on the old engine still asks of the exchange.
StrayOf(k) == IF pc[k] \in {"cancel", "exec"}
              THEN [order |-> order[k], attempt |-> attempt[k], todo |-> todo[k]]
              ELSE stray[k]

\* controller.start(), which looks at the engine tasks alone: a new engine on a new
\* handler, told of the derivative position the exchange reports, or of none when
\* the account cannot be read.  A paper account starts from nothing.  The flatten
\* calls on the old engine no longer see the book, but the exchange sees them.
Start ==
  /\ running = NoTask /\ pc[BarTask] \in Ended /\ starts < MaxStarts
  /\ starts' = starts + 1
  /\ pc' = [p \in Tasks |-> IF p = BarTask THEN "boot"
                            ELSE IF pc[p] = "idle" THEN "idle" ELSE "done"]
  /\ stray' = [k \in Killers |-> StrayOf(k)]
  /\ adopt' \in {ReportedPosition} \cup (IF LostReads THEN {0} ELSE {})
  /\ exPos' = IF RealOrders THEN exPos ELSE 0
  /\ ret' = [p \in Tasks |-> "sync"]
  /\ order' = [p \in Tasks |-> 0]
  /\ attempt' = [p \in Tasks |-> 1]
  /\ todo' = [p \in Tasks |-> << >>]
  /\ placed' = << >> /\ protective' = << >>
  /\ pos' = 0 /\ held' = 0 /\ trades' = 0 /\ lastTry' = 0 /\ sinceExit' = CooldownBars
  /\ halted' = FALSE /\ stopReq' = FALSE /\ cooldown' = 0 /\ seen' = 0 /\ saved' = 0
  /\ lastBar' = 0 /\ spared' = FALSE
  /\ UNCHANGED <<running, exOrders, faults>>

-----------------------------------------------------------------------------
(* Flatten calls on an engine that is gone: _exit goes on with its handler  *)

SetStray(k, s) == stray' = [stray EXCEPT ![k] = s]

\* One cancel_order returned, as in CancelHead.
StrayCancel(k) ==
  /\ running = NoTask /\ stray[k].todo # << >>
  /\ SetStray(k, [stray[k] EXCEPT !.todo = Tail(@)])
  /\ \/ exOrders' = {o \in exOrders : o.id # Head(stray[k].todo)} /\ UNCHANGED faults
     \/ faults < MaxFaults /\ faults' = faults + 1 /\ UNCHANGED exOrders
  /\ UNCHANGED <<taskVars, bookVars, controlVars, protective, exPos, starts>>

StraySent(k) == running = NoTask /\ stray[k].order # 0 /\ stray[k].todo = << >>

\* Its market order executed, as in ExitFill.
StrayFill(k) ==
  /\ StraySent(k)
  /\ \E q \in Fills(stray[k].order) : exPos' = exPos + q
  /\ SetStray(k, NoStray)
  /\ UNCHANGED <<taskVars, bookVars, controlVars, protective, exOrders, boundVars>>

\* Its market order failed, as in OrderRetry and OrderFails.
StrayFails(k) ==
  /\ StraySent(k) /\ faults < MaxFaults /\ faults' = faults + 1
  /\ \/ /\ stray[k].attempt < Attempts
        /\ SetStray(k, [stray[k] EXCEPT !.attempt = @ + 1])
        /\ exPos' \in {exPos} \cup (IF LostAcks THEN {exPos + stray[k].order} ELSE {})
     \/ /\ SetStray(k, NoStray)
        /\ exPos' \in {exPos} \cup (IF LostAcks /\ stray[k].attempt = Attempts
                                    THEN {exPos + stray[k].order} ELSE {})
  /\ UNCHANGED <<taskVars, bookVars, controlVars, protective, exOrders, starts>>

StrayReply(k) == StrayCancel(k) \/ StrayFill(k)

-----------------------------------------------------------------------------
BarStep ==
  \/ Boot \/ Post \/ ObsReply \/ SignalExit \/ NoTrade
  \/ \E d \in {-1, 1} : TryEnter(d)
  \/ EntryFill \/ ReplaceCancelReply \/ StopReply \/ TakeProfitReply

TaskStep(p) ==
  \/ ExitBegin(p) \/ CancelReply(p) \/ ExitFill(p) \/ RecordReply(p) \/ SyncReply(p)

Fault ==
  \/ StreamFails
  \/ \E p \in Tasks : StoreFails(p) \/ OrderRetry(p) \/ OrderFails(p)
  \/ \E k \in Killers : StrayFails(k)

Next ==
  \/ OnBar \/ BarStep \/ StreamStops \/ CancelTask
  \/ \E p \in Tasks : TaskStep(p)
  \/ \E k \in Killers : Flatten(k) \/ StrayReply(k)
  \/ Resume \/ Stop \/ Fault \/ NativeTrigger \/ Crash \/ Start

Spec == Init /\ [][Next]_vars

\* A task that waits for a reply gets it (the requests have timeouts), the loop
\* runs a task until it suspends, and controller.stop() gives up after 12 s.  No
\* fairness for the stream, the operator, faults or the exchange's triggers.
Fairness ==
  /\ WF_vars(BarStep)
  /\ \A p \in Tasks : WF_vars(TaskStep(p))
  /\ \A k \in Killers : WF_vars(StrayReply(k))
  /\ WF_vars(CancelTask)

FairSpec == Spec /\ Fairness

-----------------------------------------------------------------------------
(* Properties                                                              *)

TaskTypes ==
  /\ pc \in [Tasks -> Labels] /\ running \in Tasks \cup {NoTask}
  /\ ret \in [Tasks -> Returns]
  /\ order \in [Tasks -> Int] /\ attempt \in [Tasks -> 1..Attempts]
  /\ todo \in [Tasks -> Seq(OrderIds)] /\ placed \in Seq(OrderIds)
BookTypes ==
  /\ pos \in Int /\ held \in Nat /\ trades \in Nat
  /\ lastTry \in 0..MaxBars /\ sinceExit \in 0..CooldownBars
ControlTypes ==
  /\ halted \in BOOLEAN /\ stopReq \in BOOLEAN /\ cooldown \in 0..CooldownBars
  /\ seen \in Nat /\ saved \in Nat /\ lastBar \in 0..MaxBars /\ adopt \in Int
  /\ spared \in BOOLEAN
ExchangeTypes ==
  /\ protective \in Seq(OrderIds) /\ exPos \in Int /\ exOrders \subseteq OrderRecord
  /\ stray \in [Killers -> StrayRecord]
BoundTypes == faults \in 0..MaxFaults /\ starts \in Nat

\* Every variable has its type.
TypeOK == TaskTypes /\ BookTypes /\ ControlTypes /\ ExchangeTypes /\ BoundTypes

\* Portfolio.open_position never raises: between the flat check of _on_bar and
\* the fill of the entry no other task opens a position (engine.py:259-305).
EntryOnlyWhenFlat == pc[BarTask] = "entry" => ~HasPosition

\* A halted engine has a position only while a flatten call still has its exit in
\* hand, or when flatten() left it: its exit order failed, no bar had set a price, or
\* the position came of an entry or an adoption already under way (engine.py:179-188,
\* 258-260, 300-305).
FlattenCloses ==
  halted /\ HasPosition /\ pc[BarTask] # "down" =>
    spared \/ \E k \in Killers : pc[k] \in {"exit", "cancel", "exec"}

\* After a close the engine lets CooldownBars bars pass before the next entry
\* (engine.py:231-241, 259), whoever closed the position, unless a flatten closes it
\* and resume() follows while the bar awaits a recorded observation.
CooldownRespected ==
  [][~HasPosition /\ pos' # 0 /\ pc[BarTask] # "boot" => sinceExit >= CooldownBars]_vars

\* The engine lives the life of a position the backtester lives, too (engine.py:4,
\* "Mirrors the backtester's decision logic"): no stacked entry, no reversal without
\* a close, and the cooldown, through faults and restarts.
Direction == IF pos > 0 THEN 1 ELSE IF pos < 0 THEN -1 ELSE 0
Lifecycle == INSTANCE PositionLifecycle
               WITH Cooldown <- CooldownBars, side <- Direction, rest <- sinceExit
ImplementsLifecycle == Lifecycle!Spec

\* Every closed trade is recorded in the store once, the ones being written apart;
\* each trade that is missing cost a failure of the store (engine.py:345-347).
TradesReachTheStore ==
  pc[BarTask] \notin {"stopped", "down"} =>
    LET written == saved + Cardinality({p \in Tasks : pc[p] = "rec"})
    IN  trades \in written..(written + faults)

\* Without failures a position is never carried past the time barrier: when the
\* engine waits for the next bar, the open position is younger than Horizon.
HorizonRespected ==
  faults = 0 /\ Horizon > 0 /\ HasPosition /\ pc[BarTask] = "stream" => held < Horizon

\* While the engine lives its portfolio agrees with the account.
BooksAgree == pc[BarTask] \notin Ended \cup {"boot"} => exPos = pos

\* Between bars, without failures and restarts, the exchange holds exactly the
\* protective orders of the open position, and the handler knows their ids.
ProtectionMatches ==
  faults = 0 /\ starts = 1 /\ pc[BarTask] = "stream" =>
    /\ {<<o.kind, o.qty>> : o \in exOrders}
         = IF HasPosition THEN {<<k, pos>> : k \in Kinds} ELSE {}
    /\ LiveIds = Range(protective)

\* A flatten call ends ...
FlattenEnds ==
  \A k \in Killers : pc[k] # "idle" ~> pc[k] = "done" /\ stray[k] = NoStray
\* ... every bar ends ...
BarEnds == pc[BarTask] # "stream" ~> pc[BarTask] \in Ended \cup {"stream"}
\* ... and a requested stop ends the engine, even when no bar arrives any more.
StopEnds == stopReq ~> pc[BarTask] \in Ended

\* ------ claims of comments and docs that the code does not meet ------

\* engine.py:322-323: the protective orders are cancelled first so that the
\* position is not exited twice: a flat engine at rest has a flat account.
NoDoubleExit ==
  ~HasPosition /\ pc[BarTask] \in Ended \cup {"stream"}
    /\ (\A k \in Killers : pc[k] \in {"idle", "done"} /\ stray[k] = NoStray) => exPos = 0

=============================================================================
