-------------------------- MODULE LiveEngineProofs --------------------------
(***************************************************************************)
(* Proofs about LiveEngine, for every number of flatten calls, bars,       *)
(* faults and starts.                                                      *)
(***************************************************************************)
EXTENDS LiveEngine, TLAPS

-----------------------------------------------------------------------------
(* Lemmas on the building blocks of the actions                            *)

LEMMA LabelsKnown ==
  /\ {"exit", "post", "decide", "stopped", "error", "down", "boot", "stream", "obs",
      "cancel", "exec", "rec", "entry", "pcancel", "pstop", "ptp", "sync", "idle",
      "done"} \subseteq Labels
  /\ Returns \subseteq Labels
  BY DEF Labels, InSync, Ended, Awaits, Returns

\* A step of one task moves only that task, to the label it names.
LEMMA Control ==
  ASSUME NEW p \in Tasks, NEW l \in Labels, TaskTypes, Suspend(p, l) \/ Proceed(p, l)
  PROVE  /\ pc' \in [Tasks -> Labels] /\ running' \in Tasks \cup {NoTask}
         /\ pc'[p] = l /\ \A q \in Tasks \ {p} : pc'[q] = pc[q]
  BY DEF TaskTypes, Suspend, Proceed

\* Groups of variables an action leaves alone stay typed.
LEMMA TypeFrame ==
  ASSUME TypeOK
  PROVE  /\ UNCHANGED taskVars => TaskTypes'
         /\ UNCHANGED bookVars => BookTypes'
         /\ UNCHANGED controlVars => ControlTypes'
         /\ UNCHANGED exchangeVars => ExchangeTypes'
         /\ UNCHANGED boundVars => BoundTypes'
  BY DEF TypeOK, TaskTypes, BookTypes, ControlTypes, ExchangeTypes, BoundTypes,
         taskVars, bookVars, controlVars, exchangeVars, boundVars

\* The late requests of an earlier engine's flatten calls touch the exchange alone.
LEMMA StrayFrame ==
  ASSUME NEW k \in Killers, StrayReply(k) \/ StrayFails(k)
  PROVE  UNCHANGED <<taskVars, bookVars, controlVars, protective, starts>>
  BY DEF StrayReply, StrayCancel, StrayFill, StrayFails, boundVars

\* Opening and closing keep the book typed.
LEMMA BookSteps ==
  ASSUME BookTypes
  PROVE  /\ \A q \in Int : BookOpen(q) => BookTypes' /\ pos' = q
         /\ BookClose => BookTypes' /\ pos' = 0
  BY NumberAssumption DEF BookTypes, BookOpen, BookClose

\* What Raise and Return do to the tasks.
LEMMA Moves ==
  ASSUME NEW p \in Tasks, TaskTypes
  PROVE  /\ Raise(p) => \E l \in {"error", "done"} : Suspend(p, l)
         /\ Return(p) => \E l \in Returns : Suspend(p, l) \/ Proceed(p, l)
  BY DEF TaskTypes, Raise, Return, Returns

\* What an order executes is an integer; without partial fills it is the order.
LEMMA FillsTypes ==
  ASSUME NEW q \in Int
  PROVE  Fills(q) \subseteq Int /\ (~PartialFills => Fills(q) = {q})
  BY DEF Fills

\* The quantities of the entries.
LEMMA EntryTypes ==
  ASSUME NEW d \in {-1, 1}
  PROVE  d * Size \in Int
  BY NumberAssumption

\* A finished call has nothing left to ask of the exchange.
LEMMA StrayTypes == NoStray \in StrayRecord
  <1>1. << >> \in Seq(OrderIds) /\ 1 \in 1..Attempts
    BY NumberAssumption
  <1> QED
    BY <1>1 DEF NoStray, StrayRecord

\* A step that only moves a task keeps the tasks typed.
LEMMA MoveTypes ==
  ASSUME NEW p \in Tasks, NEW l \in Labels, TaskTypes, Suspend(p, l) \/ Proceed(p, l),
         UNCHANGED <<ret, order, attempt, todo, placed>>
  PROVE  TaskTypes'
  BY Control DEF TaskTypes

-----------------------------------------------------------------------------
(* Type correctness                                                        *)

LEMMA TypeInit == Init => TypeOK
  <1> SUFFICES ASSUME Init PROVE TypeOK
    OBVIOUS
  <1>1. \A p \in Tasks : (IF p = BarTask THEN "boot" ELSE "idle") \in Labels
    BY LabelsKnown
  <1>2. pc \in [Tasks -> Labels] /\ running \in Tasks \cup {NoTask}
    BY <1>1 DEF Init
  <1>3. << >> \in Seq(OrderIds) /\ {} \subseteq OrderRecord
    OBVIOUS
  <1>4. TaskTypes
    <2>1. ret \in [Tasks -> Returns]
      BY DEF Init, Returns
    <2>2. order \in [Tasks -> Int] /\ attempt \in [Tasks -> 1..Attempts]
      BY NumberAssumption DEF Init
    <2>3. todo \in [Tasks -> Seq(OrderIds)] /\ placed \in Seq(OrderIds)
      BY <1>3 DEF Init
    <2> QED
      BY <1>2, <2>1, <2>2, <2>3 DEF TaskTypes
  <1>5. BookTypes /\ BoundTypes
    BY NumberAssumption DEF Init, BookTypes, BoundTypes
  <1>6. ControlTypes
    <2>1. halted \in BOOLEAN /\ stopReq \in BOOLEAN /\ spared \in BOOLEAN
      BY DEF Init
    <2> QED
      BY <2>1, NumberAssumption DEF Init, ControlTypes
  <1>7. ExchangeTypes
    BY <1>3, StrayTypes DEF Init, ExchangeTypes
  <1> QED
    BY <1>4, <1>5, <1>6, <1>7 DEF TypeOK

LEMMA TypeNext == TypeOK /\ [Next]_vars => TypeOK'
  <1> SUFFICES ASSUME TypeOK, [Next]_vars PROVE TypeOK'
    OBVIOUS
  <1> USE LabelsKnown, TypeFrame
  <1>a. TaskTypes /\ BookTypes /\ ControlTypes /\ ExchangeTypes /\ BoundTypes
    BY DEF TypeOK
  <1>b. BarTask \in Tasks /\ Killers \subseteq Tasks
    BY DEF Tasks
  <1>c. \A p \in Tasks : ret[p] \in Returns /\ order[p] \in Int
    BY <1>a DEF TaskTypes
  <1>d. << >> \in Seq(OrderIds) /\ 1 \in 1..Attempts
    BY NumberAssumption
  <1>1. ASSUME Boot PROVE TypeOK'
    <2>1. pc' \in [Tasks -> Labels] /\ running' \in Tasks \cup {NoTask}
      BY <1>1, <1>a, <1>b, Control DEF Boot
    <2>2. ret' \in [Tasks -> Returns] /\ order' \in [Tasks -> Int]
      BY <1>1, <1>a, <1>b DEF Boot, TaskTypes, ControlTypes, Returns
    <2>3. BookTypes'
      BY <1>1, <1>a, BookSteps DEF Boot, ControlTypes
    <2> QED
      BY <1>1, <1>a, <2>1, <2>2, <2>3 DEF Boot, TypeOK, TaskTypes
  <1>2. ASSUME OnBar PROVE TypeOK'
    <2>1. pc' \in [Tasks -> Labels] /\ running' \in Tasks \cup {NoTask}
      BY <1>2, <1>a, <1>b, Control DEF OnBar
    <2>2. ret' \in [Tasks -> Returns]
      BY <1>2, <1>a, <1>b DEF OnBar, TaskTypes, Returns
    <2>3. TaskTypes'
      BY <1>2, <1>a, <2>1, <2>2 DEF OnBar, TaskTypes
    <2>4. BookTypes'
      BY <1>2, <1>a, NumberAssumption DEF OnBar, BookTypes
    <2>5. ControlTypes'
      BY <1>2, <1>a, NumberAssumption DEF OnBar, ControlTypes, Tick
    <2> QED
      BY <1>2, <2>3, <2>4, <2>5 DEF OnBar, TypeOK
  <1>3. ASSUME StreamStops \/ ObsReply \/ NoTrade \/ CancelTask PROVE TypeOK'
    <2>1. TaskTypes'
      BY <1>3, <1>a, <1>b, MoveTypes DEF StreamStops, ObsReply, NoTrade, CancelTask
    <2> QED
      BY <1>3, <2>1 DEF StreamStops, ObsReply, NoTrade, CancelTask, TypeOK
  <1>4. ASSUME StreamFails PROVE TypeOK'
    <2>1. TaskTypes'
      BY <1>4, <1>a, <1>b, Moves, MoveTypes DEF StreamFails
    <2>2. BoundTypes'
      BY <1>4, <1>a, NumberAssumption DEF StreamFails, BoundTypes
    <2> QED
      BY <1>4, <2>1, <2>2 DEF StreamFails, TypeOK
  <1>5. ASSUME Post PROVE TypeOK'
    <2>1. TaskTypes'
      BY <1>5, <1>a, <1>b, MoveTypes DEF Post
    <2>2. ControlTypes'
      BY <1>5, <1>a, NumberAssumption DEF Post, ControlTypes, BookTypes
    <2> QED
      BY <1>5, <2>1, <2>2 DEF Post, TypeOK
  <1>6. ASSUME NEW d \in {-1, 1}, TryEnter(d) PROVE TypeOK'
    <2>1. pc' \in [Tasks -> Labels] /\ running' \in Tasks \cup {NoTask}
      BY <1>6, <1>a, <1>b, Control DEF TryEnter
    <2>2. order' \in [Tasks -> Int] /\ attempt' \in [Tasks -> 1..Attempts]
      <3>1. CASE RealOrders
        <4>1. order' = [order EXCEPT ![BarTask] = d * Size]
              /\ attempt' = [attempt EXCEPT ![BarTask] = 1]
          BY <1>6, <3>1 DEF TryEnter
        <4>2. d * Size \in Int
          BY EntryTypes
        <4> QED
          BY <1>a, <1>b, <1>d, <4>1, <4>2 DEF TaskTypes
      <3>2. CASE ~RealOrders
        BY <1>6, <1>a, <3>2 DEF TryEnter, TaskTypes
      <3> QED
        BY <3>1, <3>2
    <2>3. TaskTypes'
      BY <1>6, <1>a, <2>1, <2>2 DEF TryEnter, TaskTypes
    <2>4. BookTypes' /\ exPos' \in Int
      <3>1. CASE RealOrders
        BY <1>6, <1>a, <3>1 DEF TryEnter, ExchangeTypes
      <3>2. CASE ~RealOrders
        <4>1. BookOpen(d * Size) /\ exPos' = exPos + d * Size
          BY <1>6, <3>2 DEF TryEnter
        <4>2. BookTypes'
          BY <4>1, <1>a, BookSteps, EntryTypes
        <4>3. exPos' \in Int
          BY <4>1, <1>a, EntryTypes DEF ExchangeTypes
        <4> QED
          BY <4>2, <4>3
      <3> QED
        BY <3>1, <3>2
    <2>5. ExchangeTypes'
      BY <1>6, <1>a, <2>4 DEF TryEnter, ExchangeTypes
    <2> QED
      BY <1>6, <2>3, <2>4, <2>5 DEF TryEnter, TypeOK
  <1>7. ASSUME SignalExit PROVE TypeOK'
    <2>1. pc' \in [Tasks -> Labels] /\ running' \in Tasks \cup {NoTask}
      BY <1>7, <1>a, <1>b, Control DEF SignalExit
    <2>2. TaskTypes'
      BY <1>7, <1>a, <1>b, <2>1 DEF SignalExit, TaskTypes, Returns
    <2> QED
      BY <1>7, <2>2 DEF SignalExit, TypeOK
  <1>8. ASSUME NEW p \in Tasks, SyncReply(p) PROVE TypeOK'
    <2>1. AfterSync(p) \in Labels
      BY DEF AfterSync
    <2>2. pc' \in [Tasks -> Labels] /\ running' \in Tasks \cup {NoTask}
      BY <1>8, <1>a, <2>1, Control DEF SyncReply
    <2>3. TaskTypes'
      BY <1>8, <1>a, <2>2, NumberAssumption DEF SyncReply, TaskTypes, Returns
    <2> QED
      BY <1>8, <2>3 DEF SyncReply, TypeOK
  <1>9. ASSUME NEW p \in Tasks, ExitBegin(p) PROVE TypeOK'
    <2>1. pc' \in [Tasks -> Labels] /\ running' \in Tasks \cup {NoTask}
      BY <1>9, <1>a, Control DEF ExitBegin, AfterClose
    <2>2. order' \in [Tasks -> Int] /\ attempt' \in [Tasks -> 1..Attempts]
      <3>1. CASE RealOrders
        <4>1. order' = [order EXCEPT ![p] = -pos]
              /\ attempt' = [attempt EXCEPT ![p] = 1]
          BY <1>9, <3>1 DEF ExitBegin, ExitOrder
        <4>2. -pos \in Int
          BY <1>a DEF BookTypes
        <4> QED
          BY <1>a, <1>d, <4>1, <4>2 DEF TaskTypes
      <3>2. CASE ~RealOrders
        BY <1>9, <1>a, <3>2 DEF ExitBegin, TaskTypes
      <3> QED
        BY <3>1, <3>2
    <2>3. todo' \in [Tasks -> Seq(OrderIds)]
      BY <1>9, <1>a DEF ExitBegin, TaskTypes, ExchangeTypes
    <2>4. TaskTypes'
      BY <1>9, <1>a, <2>1, <2>2, <2>3 DEF ExitBegin, TaskTypes
    <2>5. BookTypes'
      BY <1>9, <1>a, BookSteps DEF ExitBegin, BookTypes, ControlTypes
    <2>6. protective' \in Seq(OrderIds)
      BY <1>9, <1>a, <1>d DEF ExitBegin, ExchangeTypes
    <2>7. ExchangeTypes'
      BY <1>9, <1>a, <2>6 DEF ExitBegin, ExitOrder, ExchangeTypes, BookTypes
    <2> QED
      BY <1>9, <2>4, <2>5, <2>7 DEF ExitBegin, TypeOK
  <1>10. ASSUME NEW p \in Tasks, CancelReply(p) \/ (p = BarTask /\ ReplaceCancelReply)
         PROVE TypeOK'
    <2>1. pc' \in [Tasks -> Labels] /\ running' \in Tasks \cup {NoTask}
      BY <1>10, <1>a, Control DEF CancelReply, ReplaceCancelReply
    <2>2. CancelHead(p)
      BY <1>10 DEF CancelReply, ReplaceCancelReply
    <2>3. todo' \in [Tasks -> Seq(OrderIds)]
      <3>1. Tail(todo[p]) \in Seq(OrderIds)
        BY <1>a, <2>2 DEF CancelHead, TaskTypes
      <3> QED
        BY <1>a, <2>2, <3>1 DEF CancelHead, TaskTypes
    <2>4. TaskTypes'
      BY <1>10, <1>a, <2>1, <2>3 DEF CancelReply, ReplaceCancelReply, TaskTypes
    <2>5. ExchangeTypes' /\ BoundTypes'
      BY <1>10, <1>a, <2>2, NumberAssumption
      DEF CancelReply, ReplaceCancelReply, CancelHead, ExchangeTypes, BoundTypes
    <2> QED
      BY <1>10, <2>4, <2>5 DEF CancelReply, ReplaceCancelReply, TypeOK
  <1>11. ASSUME NEW p \in Tasks, ExitFill(p) PROVE TypeOK'
    <2>1. TaskTypes'
      BY <1>11, <1>a, Moves, MoveTypes DEF ExitFill, AfterClose
    <2>2. BookTypes'
      BY <1>11, <1>a, BookSteps DEF ExitFill
    <2>3. ExchangeTypes'
      BY <1>11, <1>a, <1>c, FillsTypes DEF ExitFill, ExchangeTypes
    <2> QED
      BY <1>11, <2>1, <2>2, <2>3 DEF ExitFill, TypeOK
  <1>12. ASSUME NEW p \in Tasks, RecordReply(p) PROVE TypeOK'
    <2>1. TaskTypes'
      BY <1>12, <1>a, Moves, MoveTypes DEF RecordReply
    <2>2. ControlTypes'
      BY <1>12, <1>a DEF RecordReply, ControlTypes
    <2> QED
      BY <1>12, <2>1, <2>2 DEF RecordReply, TypeOK
  <1>13. ASSUME NEW p \in Tasks, StoreFails(p) PROVE TypeOK'
    <2>1. TaskTypes'
      BY <1>13, <1>a, Moves, MoveTypes DEF StoreFails
    <2>2. BoundTypes'
      BY <1>13, <1>a, NumberAssumption DEF StoreFails, BoundTypes
    <2> QED
      BY <1>13, <2>1, <2>2 DEF StoreFails, TypeOK
  <1>14. ASSUME NEW p \in Tasks, OrderRetry(p) PROVE TypeOK'
    <2>1. TaskTypes'
      BY <1>14, <1>a, NumberAssumption DEF OrderRetry, TaskTypes
    <2>2. ExchangeTypes' /\ BoundTypes'
      BY <1>14, <1>a, <1>c, NumberAssumption DEF OrderRetry, ExchangeTypes, BoundTypes
    <2> QED
      BY <1>14, <2>1, <2>2 DEF OrderRetry, TypeOK
  <1>15. ASSUME NEW p \in Tasks, OrderFails(p) PROVE TypeOK'
    <2>1. TaskTypes'
      BY <1>15, <1>a, Moves, MoveTypes DEF OrderFails
    <2>2. ExchangeTypes' /\ BoundTypes'
      BY <1>15, <1>a, <1>c, NumberAssumption DEF OrderFails, ExchangeTypes, BoundTypes
    <2>3. spared' \in BOOLEAN
      BY <1>15, <1>a DEF OrderFails, ControlTypes
    <2>4. ControlTypes'
      BY <1>15, <1>a, <2>3 DEF OrderFails, ControlTypes
    <2> QED
      BY <1>15, <2>1, <2>2, <2>4 DEF OrderFails, TypeOK
  <1>16. ASSUME EntryFill PROVE TypeOK'
    <2>1. pc' \in [Tasks -> Labels] /\ running' \in Tasks \cup {NoTask}
      BY <1>16, <1>a, <1>b, Control, Moves DEF EntryFill
    <2>2. ret' \in [Tasks -> Returns] /\ todo' \in [Tasks -> Seq(OrderIds)]
      BY <1>16, <1>a, <1>b DEF EntryFill, TaskTypes, ExchangeTypes, Returns
    <2>a. PICK q \in Fills(order[BarTask]) :
            /\ exPos' = exPos + q
            /\ order' = [order EXCEPT ![BarTask] = q]
            /\ IF HasPosition THEN UNCHANGED bookVars ELSE BookOpen(q)
      BY <1>16 DEF EntryFill
    <2>b. q \in Int
      BY <1>b, <1>c, FillsTypes
    <2>3. TaskTypes'
      <3>1. order' \in [Tasks -> Int]
        BY <2>a, <2>b, <1>a DEF TaskTypes
      <3> QED
        BY <1>16, <1>a, <2>1, <2>2, <3>1 DEF EntryFill, TaskTypes
    <2>4. BookTypes'
      BY <2>a, <2>b, <1>a, BookSteps
    <2>5. protective' \in Seq(OrderIds)
      BY <1>16, <1>a, <1>d DEF EntryFill, ExchangeTypes
    <2>6. ExchangeTypes'
      BY <1>16, <1>a, <2>a, <2>b, <2>5 DEF EntryFill, ExchangeTypes
    <2> QED
      BY <1>16, <2>3, <2>4, <2>6 DEF EntryFill, TypeOK
  <1>g. NewId \subseteq OrderIds
    BY DEF NewId, FreeIds
  <1>e. ASSUME NEW i \in OrderIds, NEW kind \in Kinds, Accepted(i, kind)
        PROVE  exOrders' \subseteq OrderRecord /\ UNCHANGED faults
    BY <1>e, <1>a, <1>b, <1>c DEF Accepted, ExchangeTypes, OrderRecord
  <1>f. ASSUME NEW kind \in Kinds, Refused(kind), UNCHANGED starts
        PROVE  exOrders' \subseteq OrderRecord /\ BoundTypes'
    <2>1. ASSUME NEW i \in NewId,
                 exOrders' = exOrders \cup {[id |-> i, kind |-> kind, qty |-> order[BarTask]]}
          PROVE  exOrders' \subseteq OrderRecord
      BY <2>1, <1>a, <1>b, <1>c, <1>g DEF ExchangeTypes, OrderRecord
    <2>2. exOrders' \subseteq OrderRecord
      BY <1>f, <1>a, <2>1 DEF Refused, ExchangeTypes
    <2>3. BoundTypes'
      BY <1>f, <1>a, NumberAssumption DEF Refused, BoundTypes
    <2> QED
      BY <2>2, <2>3
  <1>17. ASSUME StopReply PROVE TypeOK'
    <2>1. pc' \in [Tasks -> Labels] /\ running' \in Tasks \cup {NoTask}
      BY <1>17, <1>a, <1>b, Control DEF StopReply
    <2>2. /\ placed' \in Seq(OrderIds)
          /\ exOrders' \subseteq OrderRecord /\ BoundTypes'
      <3>1. CASE \E i \in NewId : Accepted(i, "STOP") /\ placed' = <<i>>
        BY <1>17, <1>a, <1>g, <1>e, <3>1 DEF StopReply, Kinds, BoundTypes
      <3>2. CASE Refused("STOP") /\ placed' = << >>
        BY <1>17, <1>f, <3>2 DEF StopReply, Kinds
      <3> QED
        BY <1>17, <3>1, <3>2 DEF StopReply
    <2>3. TaskTypes'
      BY <1>17, <1>a, <2>1, <2>2 DEF StopReply, TaskTypes
    <2> QED
      BY <1>17, <1>a, <2>2, <2>3 DEF StopReply, TypeOK, ExchangeTypes
  <1>18. ASSUME TakeProfitReply PROVE TypeOK'
    <2>1. pc' \in [Tasks -> Labels] /\ running' \in Tasks \cup {NoTask}
      BY <1>18, <1>a, <1>b, <1>c, Control DEF TakeProfitReply
    <2>2. /\ protective' \in Seq(OrderIds)
          /\ exOrders' \subseteq OrderRecord /\ BoundTypes'
      <3>1. CASE \E i \in NewId : Accepted(i, "TP") /\ protective' = BothIds(i)
        BY <1>18, <1>a, <1>g, <1>e, <3>1
        DEF TakeProfitReply, Kinds, BoundTypes, TaskTypes, BothIds
      <3>2. CASE Refused("TP") /\ protective' = placed
        BY <1>18, <1>a, <1>f, <3>2 DEF TakeProfitReply, TaskTypes, Kinds
      <3> QED
        BY <1>18, <3>1, <3>2 DEF TakeProfitReply
    <2>3. TaskTypes'
      BY <1>18, <1>a, <2>1 DEF TakeProfitReply, TaskTypes
    <2> QED
      BY <1>18, <1>a, <2>2, <2>3 DEF TakeProfitReply, TypeOK, ExchangeTypes
  <1>19. ASSUME NEW k \in Killers, Flatten(k) PROVE TypeOK'
    <2>1. TaskTypes'
      BY <1>19, <1>a, <1>b, MoveTypes DEF Flatten
    <2>3. halted' \in BOOLEAN /\ spared' \in BOOLEAN
      BY <1>19 DEF Flatten, Spares
    <2>2. ControlTypes'
      BY <1>19, <1>a, <2>3 DEF Flatten, ControlTypes
    <2> QED
      BY <1>19, <2>1, <2>2 DEF Flatten, TypeOK
  <1>20. ASSUME Resume \/ Stop PROVE TypeOK'
    <2>1. ControlTypes'
      BY <1>20, <1>a DEF Resume, Stop, ControlTypes
    <2> QED
      BY <1>20, <2>1 DEF Resume, Stop, TypeOK
  <1>21. ASSUME NativeTrigger PROVE TypeOK'
    <2>1. ExchangeTypes'
      BY <1>21, <1>a DEF NativeTrigger, ExchangeTypes, OrderRecord
    <2> QED
      BY <1>21, <2>1 DEF NativeTrigger, TypeOK
  <1>22. ASSUME Crash PROVE TypeOK'
    <2>1. pc' \in [Tasks -> Labels]
      BY <1>22 DEF Crash
    <2>2. TaskTypes'
      BY <1>22, <1>a, <2>1 DEF Crash, TaskTypes
    <2>3. ExchangeTypes'
      BY <1>22, <1>a, StrayTypes DEF Crash, ExchangeTypes
    <2> QED
      BY <1>22, <2>2, <2>3 DEF Crash, TypeOK
  <1>23. ASSUME Start PROVE TypeOK'
    <2>1. pc' \in [Tasks -> Labels] /\ running' \in Tasks \cup {NoTask}
      BY <1>23, <1>a DEF Start, TaskTypes
    <2>2. ret' \in [Tasks -> Returns] /\ order' \in [Tasks -> Int]
          /\ attempt' \in [Tasks -> 1..Attempts] /\ todo' \in [Tasks -> Seq(OrderIds)]
      BY <1>23, NumberAssumption DEF Start, Returns
    <2>3. TaskTypes'
      BY <1>23, <2>1, <2>2 DEF Start, TaskTypes
    <2>4. BookTypes'
      BY <1>23, NumberAssumption DEF Start, BookTypes
    <2>5. ControlTypes'
      <3>1. halted' \in BOOLEAN /\ stopReq' \in BOOLEAN /\ spared' \in BOOLEAN
        BY <1>23 DEF Start
      <3>2. adopt' \in Int
        BY <1>23, <1>a DEF Start, ExchangeTypes, ReportedPosition
      <3> QED
        BY <1>23, <3>1, <3>2, NumberAssumption DEF Start, ControlTypes
    <2>7. ASSUME NEW k \in Killers PROVE StrayOf(k) \in StrayRecord
      BY <1>a, <1>b DEF StrayOf, StrayRecord, TaskTypes, ExchangeTypes
    <2>6. ExchangeTypes' /\ BoundTypes'
      BY <1>23, <1>a, <2>7 DEF Start, ExchangeTypes, BoundTypes
    <2> QED
      BY <2>3, <2>4, <2>5, <2>6 DEF TypeOK
  <1>25. ASSUME NEW k \in Killers, StrayReply(k) \/ StrayFails(k) PROVE TypeOK'
    <2>1. /\ stray[k] \in StrayRecord /\ stray \in [Killers -> StrayRecord]
          /\ stray[k].order \in Int /\ stray[k].attempt \in 1..Attempts
          /\ stray[k].todo \in Seq(OrderIds)
      BY <1>a DEF ExchangeTypes, StrayRecord
    <2>2. ASSUME NEW s \in StrayRecord, SetStray(k, s) PROVE stray' \in [Killers -> StrayRecord]
      BY <2>1, <2>2 DEF SetStray
    <2>3. stray' \in [Killers -> StrayRecord]
      <3>1. CASE StrayCancel(k)
        <4> DEFINE rest == Tail(stray[k].todo)
        <4>1. rest \in Seq(OrderIds)
          BY <2>1, <3>1 DEF StrayCancel
        <4>2. SetStray(k, [stray[k] EXCEPT !.todo = rest])
          BY <3>1 DEF StrayCancel
        <4> HIDE DEF rest
        <4>3. [stray[k] EXCEPT !.todo = rest] \in StrayRecord
          BY <2>1, <4>1 DEF StrayRecord
        <4> QED
          BY <2>2, <4>2, <4>3
      <3>2. CASE StrayFill(k)
        BY <2>2, <3>2, StrayTypes DEF StrayFill
      <3>3. CASE StrayFails(k) /\ SetStray(k, NoStray)
        BY <2>2, <3>3, StrayTypes
      <3>4. CASE /\ StrayFails(k) /\ stray[k].attempt < Attempts
                 /\ SetStray(k, [stray[k] EXCEPT !.attempt = @ + 1])
        <4> DEFINE next == stray[k].attempt + 1
        <4>1. next \in 1..Attempts
          BY <2>1, <3>4, NumberAssumption
        <4>2. SetStray(k, [stray[k] EXCEPT !.attempt = next])
          BY <3>4
        <4> HIDE DEF next
        <4>3. [stray[k] EXCEPT !.attempt = next] \in StrayRecord
          BY <2>1, <4>1 DEF StrayRecord
        <4> QED
          BY <2>2, <4>2, <4>3
      <3> QED
        BY <1>25, <3>1, <3>2, <3>3, <3>4 DEF StrayReply, StrayFails
    <2>4. exPos' \in Int
      <3>1. CASE StrayFill(k)
        BY <1>a, <2>1, <3>1, FillsTypes DEF StrayFill, ExchangeTypes
      <3>2. CASE StrayCancel(k) \/ StrayFails(k)
        BY <1>a, <2>1, <3>2 DEF StrayCancel, StrayFails, ExchangeTypes
      <3> QED
        BY <1>25, <3>1, <3>2 DEF StrayReply
    <2>5. exOrders' \subseteq OrderRecord /\ UNCHANGED protective
      BY <1>25, <1>a DEF StrayReply, StrayCancel, StrayFill, StrayFails, ExchangeTypes
    <2>6. BoundTypes'
      BY <1>25, <1>a, NumberAssumption
      DEF StrayReply, StrayCancel, StrayFill, StrayFails, BoundTypes, boundVars
    <2>7. ExchangeTypes'
      BY <1>a, <2>3, <2>4, <2>5 DEF ExchangeTypes
    <2> QED
      BY <1>25, <2>6, <2>7 DEF StrayReply, StrayCancel, StrayFill, StrayFails, TypeOK
  <1>24. CASE UNCHANGED vars
    BY <1>24 DEF vars, TypeOK
  <1> QED
    BY <1>1, <1>2, <1>3, <1>4, <1>5, <1>6, <1>7, <1>8, <1>9, <1>10, <1>11, <1>12, <1>13,
       <1>14, <1>15, <1>16, <1>17, <1>18, <1>19, <1>20, <1>21, <1>22, <1>23, <1>24, <1>25, <1>b
    DEF Next, BarStep, TaskStep, Fault

\* Every variable of the engine, its handler and the exchange keeps its type.
THEOREM TypeCorrect == Spec => []TypeOK
  <1> QED
    BY TypeInit, TypeNext, PTL DEF Spec

-----------------------------------------------------------------------------
(* Entries                                                                 *)

\* Only _try_enter sends an entry, and only an adoption, the fill of an entry
\* or a paper entry changes the position to anything but flat.
LEMMA Openings ==
  ASSUME TypeOK, [Next]_vars
  PROVE  /\ \/ pos' = pos \/ pos' = 0
            \/ Boot \/ EntryFill \/ \E d \in {-1, 1} : TryEnter(d)
         /\ \/ pc'[BarTask] # "entry"
            \/ pc[BarTask] = "entry" /\ (pos' = pos \/ pos' = 0)
            \/ \E d \in {-1, 1} : TryEnter(d)
  <1> DEFINE Book  == \/ pos' = pos \/ pos' = 0
                      \/ Boot \/ EntryFill \/ \E d \in {-1, 1} : TryEnter(d)
             Entry == \/ pc'[BarTask] # "entry"
                      \/ pc[BarTask] = "entry" /\ (pos' = pos \/ pos' = 0)
                      \/ \E d \in {-1, 1} : TryEnter(d)
  <1>a. TaskTypes /\ BarTask \in Tasks /\ Killers \subseteq Tasks /\ BarTask \notin Killers
    BY TasksAssumption DEF TypeOK, Tasks
  <1>b. \A p \in Tasks : ret[p] \in {"post", "sync", "stream"}
    BY <1>a DEF TaskTypes, Returns
  <1>c. ASSUME NEW p \in Tasks, NEW l \in Labels \ {"entry"}, Suspend(p, l) \/ Proceed(p, l)
        PROVE  pc'[BarTask] # "entry" \/ pc'[BarTask] = pc[BarTask]
    BY <1>a, <1>c, Control
  <1> USE LabelsKnown
  <1>1. CASE Boot \/ EntryFill
    <2>1. pc'[BarTask] # "entry"
      BY <1>1, <1>a, Control, Moves DEF Boot, EntryFill
    <2> QED
      BY <1>1, <2>1
  <1>2. CASE OnBar \/ SignalExit \/ Post \/ ObsReply \/ NoTrade \/ StreamStops \/ CancelTask
             \/ StreamFails \/ StopReply \/ TakeProfitReply \/ ReplaceCancelReply
    <2>1. pos' = pos
      BY <1>2 DEF OnBar, SignalExit, Post, ObsReply, NoTrade, StreamStops, CancelTask,
                  StreamFails, StopReply, TakeProfitReply, ReplaceCancelReply, bookVars
    <2>2. pc'[BarTask] # "entry"
      <3>1. CASE OnBar \/ SignalExit \/ Post \/ ObsReply \/ NoTrade \/ StreamStops \/ CancelTask
        BY <3>1, <1>a, Control
        DEF OnBar, SignalExit, Post, ObsReply, NoTrade, StreamStops, CancelTask
      <3>2. CASE StreamFails
        BY <3>2, <1>a, Control, Moves DEF StreamFails
      <3>3. CASE StopReply \/ TakeProfitReply \/ ReplaceCancelReply
        BY <3>3, <1>a, <1>b, Control DEF StopReply, TakeProfitReply, ReplaceCancelReply
      <3> QED
        BY <1>2, <3>1, <3>2, <3>3
    <2> QED
      BY <2>1, <2>2
  <1>3. ASSUME NEW d \in {-1, 1}, TryEnter(d) PROVE Book /\ Entry
    BY <1>3
  <1>4. ASSUME NEW p \in Tasks,
               \/ SyncReply(p) \/ ExitBegin(p) \/ CancelReply(p) \/ ExitFill(p)
               \/ RecordReply(p) \/ StoreFails(p) \/ OrderRetry(p) \/ OrderFails(p)
        PROVE  Book /\ Entry
    <2>1. pos' = pos \/ pos' = 0
      BY <1>4 DEF SyncReply, ExitBegin, CancelReply, ExitFill, RecordReply, StoreFails,
                  OrderRetry, OrderFails, BookClose, bookVars
    <2>2. pc'[BarTask] # "entry" \/ pc'[BarTask] = pc[BarTask]
      <3>1. CASE SyncReply(p) \/ CancelReply(p) \/ ExitBegin(p)
        BY <3>1, <1>c DEF SyncReply, CancelReply, ExitBegin, AfterSync, AfterClose
      <3>2. CASE ExitFill(p) \/ RecordReply(p) \/ StoreFails(p)
        BY <3>2, <1>a, <1>b, <1>c, Moves
        DEF ExitFill, RecordReply, StoreFails, AfterClose, Returns
      <3>3. CASE OrderRetry(p)
        BY <3>3 DEF OrderRetry
      <3>4. CASE OrderFails(p)
        BY <3>4, <1>a, <1>b, <1>c, Moves DEF OrderFails, Returns
      <3> QED
        BY <1>4, <3>1, <3>2, <3>3, <3>4
    <2> QED
      BY <2>1, <2>2
  <1>5. ASSUME NEW k \in Killers, Flatten(k) PROVE Book /\ Entry
    <2>1. pos' = pos
      BY <1>5 DEF Flatten, bookVars
    <2>2. pc'[BarTask] = pc[BarTask]
      BY <1>5, <1>a, Control DEF Flatten
    <2> QED
      BY <2>1, <2>2
  <1>6. CASE Resume \/ Stop \/ NativeTrigger \/ UNCHANGED vars
             \/ \E k \in Killers : StrayReply(k) \/ StrayFails(k)
    BY <1>6 DEF Resume, Stop, NativeTrigger, StrayReply, StrayCancel, StrayFill, StrayFails,
                vars, taskVars, bookVars
  <1>7. CASE Crash \/ Start
    <2>1. pos' = pos \/ pos' = 0
      BY <1>7 DEF Crash, Start, bookVars
    <2>2. pc'[BarTask] # "entry"
      BY <1>7, <1>a DEF Crash, Start, TaskTypes
    <2> QED
      BY <2>1, <2>2
  <1> QED
    BY <1>1, <1>2, <1>3, <1>4, <1>5, <1>6, <1>7, <1>a DEF Next, BarStep, TaskStep, Fault

\* open_position never finds a position: no task opens one while an entry order
\* is in flight.
THEOREM EntrySafe == Spec => []EntryOnlyWhenFlat
  <1> DEFINE IInv == TypeOK /\ EntryOnlyWhenFlat
  <1>1. Init => IInv
    BY TypeInit, TasksAssumption DEF Init, EntryOnlyWhenFlat, HasPosition
  <1>2. IInv /\ [Next]_vars => IInv'
    <2> SUFFICES ASSUME TypeOK, EntryOnlyWhenFlat, [Next]_vars, pc'[BarTask] = "entry"
                 PROVE  pos' = 0
      BY TypeNext DEF EntryOnlyWhenFlat, HasPosition
    <2>1. CASE pc[BarTask] = "entry" /\ (pos' = pos \/ pos' = 0)
      BY <2>1 DEF EntryOnlyWhenFlat, HasPosition
    <2>2. ASSUME NEW d \in {-1, 1}, TryEnter(d) PROVE pos' = 0
      <3>1. TaskTypes /\ BarTask \in Tasks
        BY DEF TypeOK, Tasks
      <3>2. RealOrders
        BY <2>2, <3>1, Control, LabelsKnown DEF TryEnter
      <3> QED
        BY <2>2, <3>2 DEF TryEnter, CanEnter, HasPosition, bookVars
    <2> QED
      BY <2>1, <2>2, Openings
  <1> QED
    BY <1>1, <1>2, PTL DEF Spec

-----------------------------------------------------------------------------
(* Halts                                                                   *)

\* A flatten call has the exit of the position in hand.
ExitLabels == {"exit", "cancel", "exec"}
Exiting    == \E k \in Killers : pc[k] \in ExitLabels

\* What a halted engine holds, or has under way, was left to it or is being closed.
HaltInv ==
  halted /\ pc[BarTask] # "down" =>
    /\ pos # 0 => spared \/ Exiting
    /\ pc[BarTask] = "entry" => spared
    /\ pc[BarTask] = "boot" /\ adopt # 0 => spared

\* A step that neither halts, nor opens a position, nor gives up an exit.
LEMMA HaltFrame ==
  ASSUME HaltInv, UNCHANGED <<halted, adopt>>, spared => spared', pos' = pos \/ pos' = 0,
         Exiting => Exiting' \/ pos' = 0 \/ spared',
         \/ pc'[BarTask] = pc[BarTask]
         \/ pc[BarTask] # "down" /\ pc'[BarTask] \notin {"entry", "boot"}
  PROVE  HaltInv'
  BY DEF HaltInv

\* The same, for a step that moves task p to l.
LEMMA HaltMove ==
  ASSUME TypeOK, HaltInv, NEW p \in Tasks, NEW l \in Labels, Suspend(p, l) \/ Proceed(p, l),
         UNCHANGED <<halted, adopt>>, spared => spared', pos' = pos \/ pos' = 0,
         p = BarTask => pc[p] # "down" /\ l \notin {"entry", "boot"},
         p # BarTask /\ pc[p] \in ExitLabels => l \in ExitLabels \/ pos' = 0 \/ spared'
  PROVE  HaltInv'
  <1>a. TaskTypes /\ BarTask \in Tasks /\ Killers \subseteq Tasks /\ BarTask \notin Killers
    BY TasksAssumption DEF TypeOK, Tasks
  <1>1. pc'[p] = l /\ \A q \in Tasks \ {p} : pc'[q] = pc[q]
    BY <1>a, Control
  <1>2. \/ pc'[BarTask] = pc[BarTask]
        \/ pc[BarTask] # "down" /\ pc'[BarTask] \notin {"entry", "boot"}
    BY <1>1, <1>a
  <1>3. ASSUME Exiting PROVE Exiting' \/ pos' = 0 \/ spared'
    <2>1. PICK k \in Killers : pc[k] \in ExitLabels
      BY <1>3 DEF Exiting
    <2>2. CASE k = p
      BY <1>1, <1>a, <2>1, <2>2 DEF Exiting
    <2>3. CASE k # p
      <3>1. pc'[k] \in ExitLabels
        BY <1>1, <1>a, <2>1, <2>3
      <3> QED
        BY <3>1 DEF Exiting
    <2> QED
      BY <2>2, <2>3
  <1> QED
    BY <1>2, <1>3, HaltFrame

LEMMA HaltStep ==
  ASSUME TypeOK, HaltInv, [Next]_vars
  PROVE  HaltInv'
  <1>a. TaskTypes /\ BarTask \in Tasks /\ Killers \subseteq Tasks /\ BarTask \notin Killers
    BY TasksAssumption DEF TypeOK, Tasks
  <1>b. \A p \in Tasks : ret[p] \in {"post", "sync", "stream"}
    BY <1>a DEF TaskTypes, Returns
  <1> USE LabelsKnown DEF At, Awaiting, ExitLabels
  <1>1. CASE Boot \/ EntryFill
    <2>1. UNCHANGED <<halted, spared>> /\ pc'[BarTask] \notin {"entry", "boot"}
      BY <1>1, <1>a, Control, Moves DEF Boot, EntryFill, controlVars
    <2>2. pos' = pos \/ pc[BarTask] = "entry" \/ (pc[BarTask] = "boot" /\ adopt # 0)
      BY <1>1 DEF Boot, EntryFill, bookVars
    <2>3. \A k \in Killers : pc'[k] = pc[k]
      BY <1>1, <1>a, Control, Moves DEF Boot, EntryFill
    <2>4. pc[BarTask] # "down"
      BY <1>1 DEF Boot, EntryFill
    <2> QED
      BY <2>1, <2>2, <2>3, <2>4 DEF HaltInv, Exiting
  <1>2. CASE OnBar \/ SignalExit \/ Post \/ ObsReply \/ NoTrade \/ StreamStops \/ CancelTask
    <2>1. UNCHANGED <<halted, spared, adopt, pos>>
      BY <1>2 DEF OnBar, SignalExit, Post, ObsReply, NoTrade, StreamStops, CancelTask,
                  bookVars, controlVars
    <2>2. pc[BarTask] # "down"
      BY <1>2 DEF OnBar, SignalExit, Post, ObsReply, NoTrade, StreamStops, CancelTask,
                  StopTimesOut, Ended
    <2> QED
      BY <1>2, <1>a, <2>1, <2>2, HaltMove
      DEF OnBar, SignalExit, Post, ObsReply, NoTrade, StreamStops, CancelTask
  <1>3. CASE StreamFails \/ StopReply \/ TakeProfitReply \/ ReplaceCancelReply
    <2>1. UNCHANGED <<halted, spared, adopt, pos>> /\ pc[BarTask] # "down"
      BY <1>3 DEF StreamFails, StopReply, TakeProfitReply, ReplaceCancelReply,
                  bookVars, controlVars
    <2> QED
      BY <1>3, <1>a, <1>b, <2>1, HaltMove
      DEF StreamFails, StopReply, TakeProfitReply, ReplaceCancelReply, Raise
  <1>4. ASSUME NEW d \in {-1, 1}, TryEnter(d) PROVE HaltInv'
    <2>1. ~halted'
      BY <1>4 DEF TryEnter, CanEnter, controlVars
    <2> QED
      BY <2>1 DEF HaltInv
  <1>5. ASSUME NEW p \in Tasks, TaskStep(p) \/ StoreFails(p) PROVE HaltInv'
    <2>1. UNCHANGED <<halted, spared, adopt>> /\ (pos' = pos \/ pos' = 0)
      BY <1>5 DEF TaskStep, ExitBegin, CancelReply, ExitFill, RecordReply, SyncReply, StoreFails,
                  BookClose, bookVars, controlVars
    <2>2. CASE SyncReply(p)
      BY <1>5, <2>1, <2>2, HaltMove DEF SyncReply, AfterSync
    <2>3. CASE RecordReply(p)
      BY <1>b, <1>5, <2>1, <2>3, HaltMove DEF RecordReply, Return
    <2>4. CASE StoreFails(p)
      BY <1>5, <2>1, <2>4, HaltMove DEF StoreFails, Raise
    <2>5. CASE CancelReply(p)
      BY <1>5, <2>1, <2>5, HaltMove DEF CancelReply
    <2>6. CASE ExitBegin(p)
      BY <1>5, <2>1, <2>6, HaltMove DEF ExitBegin, AfterClose, BookClose
    <2>7. CASE ExitFill(p)
      <3>1. pos' = 0
        BY <2>7 DEF ExitFill, BookClose, HasPosition, bookVars
      <3> QED
        BY <1>5, <2>1, <2>7, <3>1, HaltMove DEF ExitFill, AfterClose, Raise
    <2> QED
      BY <1>5, <2>2, <2>3, <2>4, <2>5, <2>6, <2>7 DEF TaskStep
  <1>6. ASSUME NEW p \in Tasks, OrderFails(p) PROVE HaltInv'
    <2>1. UNCHANGED <<halted, adopt, pos>> /\ pc[p] # "down"
      BY <1>6 DEF OrderFails, bookVars
    <2>2. CASE pc[p] = "entry" /\ Suspend(p, "sync") /\ UNCHANGED spared
      BY <1>6, <2>1, <2>2, HaltMove
    <2>3. CASE pc[p] = "exec" /\ Return(p) /\ spared' = (spared \/ p \in Killers)
      <3>1. (spared => spared') /\ (p # BarTask => spared')
        BY <2>3 DEF Tasks
      <3> QED
        BY <1>b, <1>6, <2>1, <2>3, <3>1, HaltMove DEF Return
    <2> QED
      BY <1>6, <2>2, <2>3 DEF OrderFails
  <1>7. ASSUME NEW k \in Killers, Flatten(k) PROVE HaltInv'
    <2>1. UNCHANGED <<pos, adopt>> /\ spared' = Spares
      BY <1>7 DEF Flatten, bookVars
    <2>2. pc'[BarTask] = pc[BarTask] /\ (CanFlatten => pc'[k] = "exit")
      BY <1>7, <1>a, Control DEF Flatten
    <2>3. pos # 0 => Spares \/ Exiting'
      <3>1. CanFlatten => Exiting'
        BY <2>2 DEF Exiting
      <3>2. pos # 0 => Spares \/ CanFlatten
        BY DEF Spares, CanFlatten, HasPosition
      <3> QED
        BY <3>1, <3>2
    <2>4. (pc[BarTask] = "entry" => Spares) /\ (pc[BarTask] = "boot" /\ adopt # 0 => Spares)
      BY DEF Spares
    <2> QED
      BY <2>1, <2>2, <2>3, <2>4 DEF HaltInv
  <1>8. CASE Resume \/ Start \/ Crash
    <2>1. ~halted' \/ pc'[BarTask] = "down"
      BY <1>8, <1>a DEF Resume, Start, Crash
    <2> QED
      BY <2>1 DEF HaltInv
  <1>9. CASE \/ Stop \/ NativeTrigger \/ UNCHANGED vars \/ \E p \in Tasks : OrderRetry(p)
             \/ \E k \in Killers : StrayReply(k) \/ StrayFails(k)
    <2>1. UNCHANGED <<halted, spared, adopt, pos, pc>>
      BY <1>9 DEF Stop, NativeTrigger, OrderRetry, StrayReply, StrayCancel, StrayFill, StrayFails,
                  vars, taskVars, bookVars, controlVars
    <2> QED
      BY <2>1, HaltFrame DEF Exiting
  <1> QED
    BY <1>1, <1>2, <1>3, <1>4, <1>5, <1>6, <1>7, <1>8, <1>9 DEF Next, BarStep, Fault

\* However the flatten calls, the bars, resume, the faults and the restarts interleave,
\* a position of a halted engine is on its way out or was left to it.
THEOREM HaltHolds == Spec => []FlattenCloses
  <1>1. Init => HaltInv
    BY DEF Init, HaltInv
  <1>2. TypeOK /\ HaltInv /\ [Next]_vars => HaltInv'
    BY HaltStep
  <1>3. HaltInv => FlattenCloses
    BY DEF HaltInv, FlattenCloses, HasPosition, Exiting, ExitLabels
  <1> QED
    BY <1>1, <1>2, <1>3, TypeCorrect, PTL DEF Spec

-----------------------------------------------------------------------------
(* The books                                                               *)

\* The awaits that only a handler with real orders reaches.
RealAwaits == {"entry", "exec", "cancel", "pcancel", "pstop", "ptp"}

\* A paper handler never suspends inside an order, so nothing is ever in flight.
PaperInv ==
  /\ exPos = pos /\ adopt = 0 /\ exOrders = {} /\ stray = [k \in Killers |-> NoStray]
  /\ \A p \in Tasks : pc[p] \notin RealAwaits

\* Paper trading: the portfolio is the account, whatever flatten calls interleave
\* with the bar task and whatever fails.
THEOREM PaperBooksAgree ==
  ASSUME ~RealOrders
  PROVE  Spec => []BooksAgree
  <1>1. Init => PaperInv
    BY DEF Init, PaperInv, RealAwaits
  <1>2. TypeOK /\ PaperInv /\ [Next]_vars => PaperInv'
    <2> SUFFICES ASSUME TypeOK, PaperInv, [Next]_vars PROVE PaperInv'
      OBVIOUS
    <2>a. TaskTypes /\ BookTypes /\ BarTask \in Tasks /\ Killers \subseteq Tasks
      BY DEF TypeOK, Tasks
    <2>b. \A p \in Tasks : ret[p] \in {"post", "sync", "stream"}
      BY <2>a DEF TaskTypes, Returns
    <2>c. ASSUME NEW p \in Tasks, NEW l \in Labels \ RealAwaits,
                 Suspend(p, l) \/ Proceed(p, l)
          PROVE  \A q \in Tasks : pc'[q] \notin RealAwaits
      BY <2>a, <2>c, Control DEF PaperInv
    <2>d. /\ {"exit", "post", "decide", "stopped", "error", "down", "boot", "stream",
              "obs", "rec", "sync", "idle", "done"} \subseteq Labels \ RealAwaits
          /\ Returns \subseteq Labels \ RealAwaits
      BY LabelsKnown DEF RealAwaits, Returns
    <2>e. \A p \in Tasks : ~Awaiting(p, "entry") /\ ~Awaiting(p, "exec") /\ ~Awaiting(p, "cancel")
      BY DEF PaperInv, RealAwaits, Awaiting
    <2>1. CASE Boot
      BY <2>1, <2>a, <2>c, <2>d DEF Boot, PaperInv, bookVars, controlVars, exchangeVars
    <2>2. CASE OnBar
      BY <2>2, <2>a, <2>c, <2>d DEF OnBar, PaperInv, exchangeVars
    <2>3. CASE StreamStops \/ ObsReply \/ NoTrade \/ CancelTask \/ SignalExit \/ Post
      <3>1. \A q \in Tasks : pc'[q] \notin RealAwaits
        BY <2>3, <2>a, <2>c, <2>d
        DEF StreamStops, ObsReply, NoTrade, CancelTask, SignalExit, Post
      <3> QED
        BY <2>3, <3>1 DEF StreamStops, ObsReply, NoTrade, CancelTask, SignalExit, Post,
                          PaperInv, bookVars, controlVars, exchangeVars
    <2>4. CASE StreamFails
      <3>1. \A q \in Tasks : pc'[q] \notin RealAwaits
        BY <2>4, <2>a, <2>c, <2>d, Moves DEF StreamFails
      <3> QED
        BY <2>4, <3>1 DEF StreamFails, PaperInv, bookVars, controlVars, exchangeVars
    <2>5. ASSUME NEW d \in {-1, 1}, TryEnter(d) PROVE PaperInv'
      <3>1. \A q \in Tasks : pc'[q] \notin RealAwaits
        BY <2>5, <2>a, <2>c, <2>d DEF TryEnter
      <3>2. pos = 0 /\ pos' = d * Size /\ exPos' = exPos + d * Size
        BY <2>5 DEF TryEnter, CanEnter, HasPosition, BookOpen
      <3>3. exPos' = pos'
        BY <3>2, EntryTypes DEF PaperInv
      <3> QED
        BY <2>5, <3>1, <3>3 DEF TryEnter, PaperInv, controlVars
    <2>6. CASE EntryFill \/ ReplaceCancelReply \/ StopReply \/ TakeProfitReply
      BY <2>6, <2>a DEF EntryFill, ReplaceCancelReply, StopReply, TakeProfitReply,
                        Awaiting, PaperInv, RealAwaits
    <2>7. ASSUME NEW p \in Tasks, SyncReply(p) \/ RecordReply(p) \/ StoreFails(p)
          PROVE  PaperInv'
      <3>1. \A q \in Tasks : pc'[q] \notin RealAwaits
        BY <2>7, <2>a, <2>b, <2>c, <2>d, Moves
        DEF SyncReply, AfterSync, RecordReply, StoreFails
      <3> QED
        BY <2>7, <3>1 DEF SyncReply, RecordReply, StoreFails, PaperInv,
                          bookVars, controlVars, exchangeVars
    <2>8. ASSUME NEW p \in Tasks, ExitBegin(p) PROVE PaperInv'
      <3>1. \A q \in Tasks : pc'[q] \notin RealAwaits
        BY <2>8, <2>a, <2>c, <2>d DEF ExitBegin, AfterClose
      <3> QED
        BY <2>8, <3>1, <2>a
        DEF ExitBegin, ExitOrder, BookClose, BookTypes, PaperInv, controlVars
    <2>9. ASSUME NEW p \in Tasks,
                 CancelReply(p) \/ ExitFill(p) \/ OrderRetry(p) \/ OrderFails(p)
          PROVE  PaperInv'
      BY <2>9, <2>e DEF CancelReply, ExitFill, OrderRetry, OrderFails
    <2>10. ASSUME NEW k \in Killers, Flatten(k) PROVE PaperInv'
      <3>1. \A q \in Tasks : pc'[q] \notin RealAwaits
        BY <2>10, <2>a, <2>c, <2>d DEF Flatten
      <3> QED
        BY <2>10, <3>1 DEF Flatten, PaperInv, bookVars, exchangeVars
    <2>11. CASE Resume \/ Stop \/ UNCHANGED vars
      BY <2>11 DEF Resume, Stop, vars, PaperInv, taskVars, bookVars, controlVars, exchangeVars
    <2>12. CASE NativeTrigger
      BY <2>12 DEF NativeTrigger, PaperInv
    <2>13. CASE Crash
      <3>1. \A q \in Tasks : pc'[q] \notin RealAwaits
        BY <2>13 DEF Crash, RealAwaits
      <3> QED
        BY <2>13, <3>1 DEF Crash, PaperInv, bookVars, controlVars
    <2>14. CASE Start
      <3>1. \A q \in Tasks : pc'[q] \notin RealAwaits
        BY <2>14, <2>a DEF Start, TaskTypes, PaperInv, RealAwaits
      <3>2. \A k \in Killers : StrayOf(k) = NoStray
        BY <2>a DEF StrayOf, PaperInv, RealAwaits
      <3> QED
        BY <2>14, <3>1, <3>2 DEF Start, ReportedPosition, PaperInv
    <2>15. ASSUME NEW k \in Killers PROVE ~StrayReply(k) /\ ~StrayFails(k)
      <3>1. stray[k].order = 0 /\ stray[k].todo = << >>
        BY DEF PaperInv, NoStray
      <3> QED
        BY <3>1 DEF StrayReply, StrayCancel, StrayFill, StrayFails, StraySent
    <2> QED
      BY <2>1, <2>2, <2>3, <2>4, <2>5, <2>6, <2>7, <2>8, <2>9, <2>10, <2>11, <2>12,
         <2>13, <2>14, <2>15, <2>a DEF Next, BarStep, TaskStep, Fault
  <1>3. PaperInv => BooksAgree
    BY DEF PaperInv, BooksAgree
  <1> QED
    BY <1>1, <1>2, <1>3, TypeCorrect, PTL DEF Spec

\* What the bar task alone keeps between its account and its portfolio.
SoloInv ==
  LET at == pc[BarTask]
  IN  /\ at \notin Ended \cup {"boot"} => exPos = pos
      /\ at = "boot" => adopt = exPos /\ pos = 0
      /\ at \in {"exit", "cancel", "exec"} => HasPosition
      /\ at \in {"cancel", "exec"} => order[BarTask] = -pos
      /\ at = "entry" => ~HasPosition

\* Real orders without flatten calls, partial fills, lost answers and native
\* triggers, and with an account that can be read at every start: the
\* portfolio is the account through rejected orders, crashes and restarts that
\* adopt what the exchange reports.
THEOREM SoloBooksAgree ==
  ASSUME RealOrders, Adoption, ~PartialFills, ~LostAcks, ~LostReads, ~NativeTriggers,
         Killers = {}
  PROVE  Spec => []BooksAgree
  <1>1. Init => SoloInv
    BY DEF Init, SoloInv, Ended, Tasks
  <1>2. TypeOK /\ SoloInv /\ [Next]_vars => SoloInv'
    <2> SUFFICES ASSUME TypeOK, SoloInv, [Next]_vars PROVE SoloInv'
      OBVIOUS
    <2>a. /\ TaskTypes /\ BookTypes /\ ControlTypes /\ ExchangeTypes
          /\ Tasks = {BarTask} /\ BarTask \in Tasks
      BY DEF TypeOK, Tasks
    <2>b. ret[BarTask] \in {"post", "sync", "stream"} /\ order[BarTask] \in Int
      BY <2>a DEF TaskTypes, Returns
    <2>c. ASSUME NEW l \in Labels, Suspend(BarTask, l) \/ Proceed(BarTask, l)
          PROVE  pc'[BarTask] = l
      BY <2>a, <2>c, Control
    <2> USE LabelsKnown
    <2>1. CASE Boot
      <3>1. pc'[BarTask] \in {"stream", "pstop"}
        BY <2>1, <2>c DEF Boot
      <3>2. pos' = exPos
        <4>1. adopt = exPos /\ pos = 0
          BY <2>1 DEF Boot, Awaiting, SoloInv
        <4>2. CASE adopt = 0
          BY <2>1, <4>1, <4>2 DEF Boot, bookVars, Awaiting, SoloInv, BookOpen
        <4>3. CASE adopt # 0
          BY <2>1, <4>1, <4>3 DEF Boot, BookOpen
        <4> QED
          BY <4>2, <4>3
      <3>3. exPos' = exPos
        BY <2>1 DEF Boot, exchangeVars
      <3> QED
        BY <3>1, <3>2, <3>3 DEF SoloInv, Ended
    <2>2. CASE OnBar
      <3>1. pc'[BarTask] = "post" \/ (pc'[BarTask] = "exit" /\ HasPosition)
        BY <2>2, <2>c DEF OnBar
      <3>2. pos' = pos /\ exPos' = exPos /\ pos = exPos
        BY <2>2 DEF OnBar, exchangeVars, Awaiting, SoloInv, Ended
      <3> QED
        BY <3>1, <3>2 DEF SoloInv, Ended, HasPosition
    <2>3. CASE StreamStops \/ CancelTask \/ StreamFails
      <3>1. pc'[BarTask] \in {"stopped", "error"}
        BY <2>3, <2>c DEF StreamStops, CancelTask, StreamFails, Raise
      <3> QED
        BY <3>1 DEF SoloInv, Ended
    <2>4. CASE Post \/ ObsReply \/ NoTrade
      <3>1. pc'[BarTask] \in {"obs", "decide", "sync"}
        BY <2>4, <2>c DEF Post, ObsReply, NoTrade
      <3>2. pos' = pos /\ exPos' = exPos /\ pos = exPos
        BY <2>4 DEF Post, ObsReply, NoTrade, bookVars, exchangeVars, At, Awaiting,
                    SoloInv, Ended
      <3> QED
        BY <3>1, <3>2 DEF SoloInv, Ended
    <2>5. CASE SignalExit
      <3>1. pc'[BarTask] = "exit"
        BY <2>5, <2>c DEF SignalExit
      <3>2. pos' = pos /\ exPos' = exPos /\ pos = exPos /\ HasPosition
        BY <2>5 DEF SignalExit, bookVars, exchangeVars, At, SoloInv, Ended
      <3> QED
        BY <3>1, <3>2 DEF SoloInv, Ended, HasPosition
    <2>6. ASSUME NEW d \in {-1, 1}, TryEnter(d) PROVE SoloInv'
      <3>1. pc'[BarTask] = "entry" /\ pos' = pos /\ exPos' = exPos
        BY <2>6, <2>c DEF TryEnter, bookVars
      <3>2. pos = 0 /\ exPos = pos
        BY <2>6 DEF TryEnter, CanEnter, HasPosition, At, SoloInv, Ended
      <3> QED
        BY <3>1, <3>2 DEF SoloInv, Ended, HasPosition
    <2>7. CASE EntryFill
      <3>1. pos = 0 /\ exPos = 0
        BY <2>7 DEF EntryFill, Awaiting, SoloInv, HasPosition, Ended
      <3>2. pc'[BarTask] \in {"pstop", "pcancel"}
        BY <2>7, <2>c, <3>1 DEF EntryFill, HasPosition
      <3>0. Fills(order[BarTask]) = {order[BarTask]}
        BY <2>b, FillsTypes
      <3>3. pos' = order[BarTask]
        BY <2>7, <3>0, <3>1 DEF EntryFill, HasPosition, BookOpen
      <3>4. exPos' = order[BarTask]
        BY <2>7, <3>0, <3>1, <2>b DEF EntryFill
      <3> QED
        BY <3>2, <3>3, <3>4 DEF SoloInv, Ended
    <2>8. CASE ReplaceCancelReply \/ StopReply \/ TakeProfitReply
      <3>1. pc'[BarTask] \in {"pcancel", "pstop", "ptp", "post", "sync", "stream"}
        BY <2>8, <2>b, <2>c DEF ReplaceCancelReply, StopReply, TakeProfitReply
      <3>2. pos' = pos /\ exPos' = exPos /\ pos = exPos
        BY <2>8 DEF ReplaceCancelReply, StopReply, TakeProfitReply, bookVars, Awaiting,
                    SoloInv, Ended
      <3> QED
        BY <3>1, <3>2 DEF SoloInv, Ended
    <2>9. CASE ExitBegin(BarTask)
      <3>1. pc'[BarTask] \in {"exec", "cancel"}
        BY <2>9, <2>c DEF ExitBegin
      <3>2. pos' = pos /\ exPos' = exPos /\ pos = exPos /\ HasPosition
        BY <2>9 DEF ExitBegin, At, SoloInv, Ended
      <3>3. order'[BarTask] = -pos
        BY <2>9, <2>a DEF ExitBegin, ExitOrder, TaskTypes
      <3> QED
        BY <3>1, <3>2, <3>3 DEF SoloInv, Ended, HasPosition
    <2>10. CASE CancelReply(BarTask)
      <3>1. pc'[BarTask] \in {"exec", "cancel"}
        BY <2>10, <2>c DEF CancelReply
      <3>2. pos' = pos /\ exPos' = exPos /\ pos = exPos /\ HasPosition
            /\ order' = order /\ order[BarTask] = -pos
        BY <2>10 DEF CancelReply, bookVars, Awaiting, SoloInv, Ended
      <3> QED
        BY <3>1, <3>2 DEF SoloInv, Ended, HasPosition
    <2>11. CASE ExitFill(BarTask)
      <3>1. HasPosition /\ order[BarTask] = -pos /\ exPos = pos
        BY <2>11 DEF ExitFill, Awaiting, SoloInv, Ended
      <3>2. pc'[BarTask] = "rec"
        BY <2>11, <2>c, <3>1 DEF ExitFill, AfterClose
      <3>3. pos' = 0 /\ exPos' = 0
        BY <2>11, <3>1, <2>a, <2>b, FillsTypes DEF ExitFill, BookClose, BookTypes
      <3> QED
        BY <3>2, <3>3 DEF SoloInv, Ended
    <2>12. CASE RecordReply(BarTask) \/ SyncReply(BarTask)
      <3>1. pc'[BarTask] \in {"post", "sync", "stream"}
        BY <2>12, <2>b, <2>c DEF RecordReply, Return, SyncReply, AfterSync
      <3>2. pos' = pos /\ exPos' = exPos /\ pos = exPos
        BY <2>12 DEF RecordReply, SyncReply, bookVars, exchangeVars, Awaiting, SoloInv, Ended
      <3> QED
        BY <3>1, <3>2 DEF SoloInv, Ended
    <2>13. CASE StoreFails(BarTask)
      <3>1. pc'[BarTask] = "error"
        BY <2>13, <2>c DEF StoreFails, Raise
      <3> QED
        BY <3>1 DEF SoloInv, Ended
    <2>14. CASE OrderRetry(BarTask)
      BY <2>14 DEF OrderRetry, SoloInv, HasPosition, bookVars, controlVars
    <2>15. CASE OrderFails(BarTask)
      <3>1. pc'[BarTask] \in {"post", "sync", "stream"}
        BY <2>15, <2>b, <2>c DEF OrderFails, Return
      <3>2. pos' = pos /\ exPos' = exPos /\ pos = exPos
        BY <2>15 DEF OrderFails, bookVars, Awaiting, SoloInv, Ended
      <3> QED
        BY <3>1, <3>2 DEF SoloInv, Ended
    <2>16. CASE Resume \/ Stop \/ UNCHANGED vars
      BY <2>16 DEF Resume, Stop, vars, SoloInv, HasPosition, taskVars, bookVars,
                   controlVars, exchangeVars
    <2>17. ~NativeTrigger /\ \A k \in Killers : ~Flatten(k)
      BY DEF NativeTrigger
    <2>18. CASE Crash
      BY <2>18, <2>a DEF Crash, SoloInv, Ended
    <2>19. CASE Start
      <3>1. pc'[BarTask] = "boot"
        BY <2>19, <2>a DEF Start, TaskTypes
      <3>2. adopt' = exPos /\ exPos' = exPos /\ pos' = 0
        BY <2>19 DEF Start, ReportedPosition
      <3> QED
        BY <3>1, <3>2 DEF SoloInv, Ended
    <2> QED
      BY <2>1, <2>2, <2>3, <2>4, <2>5, <2>6, <2>7, <2>8, <2>9, <2>10, <2>11, <2>12,
         <2>13, <2>14, <2>15, <2>16, <2>17, <2>18, <2>19, <2>a
      DEF Next, BarStep, TaskStep, Fault
  <1>3. SoloInv => BooksAgree
    BY DEF SoloInv, BooksAgree
  <1> QED
    BY <1>1, <1>2, <1>3, TypeCorrect, PTL DEF Spec

=============================================================================
