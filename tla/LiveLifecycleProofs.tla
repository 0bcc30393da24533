------------------------- MODULE LiveLifecycleProofs -------------------------
(***************************************************************************)
(* LiveEngine implements PositionLifecycle, and what follows from the same *)
(* invariant: the cooldown and the time barrier; then what the engine owes *)
(* others: its trades to the store, protective orders to its position.     *)
(***************************************************************************)
EXTENDS LiveEngineProofs, FiniteSetTheorems

-----------------------------------------------------------------------------
(* Stretches                                                               *)

\* Inside a stretch the bar task holds the event loop, and a task about to exit has
\* a position to exit from.
StretchInv ==
  /\ pc[BarTask] \in InSync => running = BarTask
  /\ \A p \in Tasks : running = p /\ pc[p] = "exit" => pos # 0

LEMMA Known ==
  ASSUME TypeOK
  PROVE  /\ TaskTypes /\ BarTask \in Tasks /\ NoTask \notin Tasks
         /\ Killers \subseteq Tasks /\ BarTask \notin Killers
         /\ \A p \in Tasks : ret[p] \in {"post", "sync", "stream"}
  BY TasksAssumption DEF TypeOK, TaskTypes, Tasks, Returns

\* A task that has the loop, or takes it, and goes to a suspension or on.
LEMMA StretchMove ==
  ASSUME TypeOK, StretchInv, NEW p \in Tasks, NEW l \in Labels, running \in {NoTask, p},
         \/ Suspend(p, l) /\ l \notin InSync
         \/ Proceed(p, l) /\ (l = "exit" => pos' # 0)
  PROVE  StretchInv'
  <1>1. pc'[p] = l /\ (p # BarTask => pc'[BarTask] = pc[BarTask])
    BY Known, Control
  <1>2. running' \in {NoTask, p} /\ (l \in InSync => running' = p)
    BY DEF Suspend, Proceed
  <1>3. p # BarTask => pc[BarTask] \notin InSync
    BY Known DEF StretchInv
  <1>4. running' = p => (l = "exit" => pos' # 0)
    BY Known DEF Suspend, Proceed
  <1> QED
    BY <1>1, <1>2, <1>3, <1>4, Known DEF StretchInv

\* place_protective is never called on the way to the rest of a bar: it returns to
\* the stream or to the final sync.
Placing == {"pcancel", "pstop", "ptp"}
PlaceInv == pc[BarTask] \in Placing => ret[BarTask] # "post"

\* A move that is not into place_protective.
LEMMA PlaceMove ==
  ASSUME TypeOK, PlaceInv, NEW p \in Tasks, NEW l \in Labels \ Placing,
         Suspend(p, l) \/ Proceed(p, l), p # BarTask => ret'[BarTask] = ret[BarTask]
  PROVE  PlaceInv'
  BY Known, Control DEF PlaceInv

LEMMA PlaceInit == Init => PlaceInv
  BY DEF Init, PlaceInv, Placing, Tasks

LEMMA PlaceStep ==
  ASSUME TypeOK, PlaceInv, [Next]_vars
  PROVE  PlaceInv'
  <1> USE LabelsKnown DEF Placing
  <1>0. ASSUME NEW p \in Tasks, Raise(p) \/ Return(p), ret' = ret PROVE PlaceInv'
    BY <1>0, PlaceMove, Known DEF Raise, Return
  <1>1. CASE Boot \/ EntryFill
    <2>1. CASE Raise(BarTask) /\ ret' = ret
      BY <2>1, <1>0, Known
    <2>2. CASE Suspend(BarTask, "stream")
      BY <2>2, PlaceMove, Known
    <2>3. CASE \E r \in {"stream", "sync"} : ret' = [ret EXCEPT ![BarTask] = r]
      <3>1. ret'[BarTask] \in {"stream", "sync"}
        BY <2>3, Known DEF TaskTypes
      <3> QED
        BY <3>1 DEF PlaceInv
    <2> QED
      BY <1>1, <2>1, <2>2, <2>3 DEF Boot, EntryFill
  <1>2. CASE ReplaceCancelReply \/ StopReply
    BY <1>2 DEF ReplaceCancelReply, StopReply, Awaiting, PlaceInv
  <1>3. CASE OnBar \/ SignalExit \/ Post \/ ObsReply \/ NoTrade \/ StreamStops \/ CancelTask
    BY <1>3, PlaceMove, Known
    DEF OnBar, SignalExit, Post, ObsReply, NoTrade, StreamStops, CancelTask
  <1>4. ASSUME NEW d \in {-1, 1}, TryEnter(d) PROVE PlaceInv'
    BY <1>4, PlaceMove, Known DEF TryEnter
  <1>5. CASE TakeProfitReply \/ StreamFails
    BY <1>5, <1>0, PlaceMove, Known DEF TakeProfitReply, StreamFails
  <1>6. ASSUME NEW p \in Tasks, TaskStep(p) \/ StoreFails(p) \/ OrderFails(p)
        PROVE  PlaceInv'
    <2>1. CASE SyncReply(p)
      <3>1. p # BarTask => ret'[BarTask] = ret[BarTask]
        BY <2>1, Known DEF SyncReply, TaskTypes
      <3> QED
        BY <1>6, <2>1, <3>1, PlaceMove DEF SyncReply, AfterSync
    <2>2. CASE ExitBegin(p) \/ CancelReply(p)
      BY <1>6, <2>2, PlaceMove DEF ExitBegin, CancelReply, AfterClose
    <2>3. CASE ExitFill(p)
      BY <1>6, <2>3, <1>0, PlaceMove DEF ExitFill, AfterClose
    <2>4. CASE RecordReply(p) \/ StoreFails(p) \/ OrderFails(p)
      BY <1>6, <2>4, <1>0, PlaceMove DEF RecordReply, StoreFails, OrderFails
    <2> QED
      BY <1>6, <2>1, <2>2, <2>3, <2>4 DEF TaskStep
  <1>7. ASSUME NEW k \in Killers, Flatten(k) PROVE PlaceInv'
    BY <1>7, PlaceMove, Known DEF Flatten
  <1>8. CASE \/ Resume \/ Stop \/ NativeTrigger \/ UNCHANGED vars
             \/ \E p \in Tasks : OrderRetry(p)
             \/ \E k \in Killers : StrayReply(k) \/ StrayFails(k)
    BY <1>8, StrayFrame DEF Resume, Stop, NativeTrigger, OrderRetry, vars, taskVars, PlaceInv
  <1>9. CASE Crash \/ Start
    BY <1>9, Known DEF Crash, Start, PlaceInv, TaskTypes
  <1> QED
    BY <1>1, <1>2, <1>3, <1>4, <1>5, <1>6, <1>7, <1>8, <1>9 DEF Next, BarStep, Fault

LEMMA StretchInit == Init => StretchInv
  BY TasksAssumption DEF Init, StretchInv, InSync, Tasks

LEMMA StretchStep ==
  ASSUME TypeOK, StretchInv, PlaceInv, [Next]_vars
  PROVE  StretchInv'
  <1> USE LabelsKnown DEF InSync, At, Awaiting
  <1>1. CASE Boot \/ StreamStops \/ CancelTask \/ StreamFails \/ NoTrade \/ StopReply
             \/ ReplaceCancelReply
    BY <1>1, StretchMove, Known
    DEF Boot, StreamStops, CancelTask, StreamFails, NoTrade, StopReply, ReplaceCancelReply,
        Raise
  <1>2. CASE OnBar \/ SignalExit
    <2>1. pos' = pos
      BY <1>2 DEF OnBar, SignalExit, bookVars
    <2> QED
      BY <1>2, <2>1, StretchMove, Known DEF OnBar, SignalExit, HasPosition
  <1>3. CASE Post \/ ObsReply
    BY <1>3, StretchMove, Known DEF Post, ObsReply
  <1>4. ASSUME NEW d \in {-1, 1}, TryEnter(d) PROVE StretchInv'
    BY <1>4, StretchMove, Known DEF TryEnter
  <1>5. CASE EntryFill
    BY <1>5, StretchMove, Known DEF EntryFill, Raise
  <1>6. CASE TakeProfitReply
    <2>1. ret[BarTask] \in {"sync", "stream"}
      BY <1>6, Known DEF TakeProfitReply, PlaceInv, Placing
    <2> QED
      BY <1>6, <2>1, StretchMove, Known DEF TakeProfitReply
  <1>7. ASSUME NEW p \in Tasks, TaskStep(p) \/ StoreFails(p) \/ OrderFails(p)
        PROVE  StretchInv'
    <2>1. CASE SyncReply(p) \/ ExitBegin(p) \/ CancelReply(p)
      BY <1>7, <2>1, StretchMove DEF SyncReply, ExitBegin, CancelReply, AfterSync, AfterClose
    <2>2. CASE ExitFill(p) \/ StoreFails(p)
      BY <1>7, <2>2, StretchMove DEF ExitFill, StoreFails, Raise, AfterClose
    <2>3. ASSUME Return(p), running = NoTask PROVE StretchInv'
      BY <2>3, StretchMove, Known DEF Return
    <2> QED
      BY <1>7, <2>1, <2>2, <2>3, StretchMove DEF TaskStep, RecordReply, OrderFails
  <1>8. ASSUME NEW k \in Killers, Flatten(k) PROVE StretchInv'
    <2>1. pos' = pos
      BY <1>8 DEF Flatten, bookVars
    <2> QED
      BY <1>8, <2>1, StretchMove, Known DEF Flatten, CanFlatten, HasPosition
  <1>9. CASE \/ Resume \/ Stop \/ NativeTrigger \/ UNCHANGED vars
             \/ \E p \in Tasks : OrderRetry(p)
             \/ \E k \in Killers : StrayReply(k) \/ StrayFails(k)
    BY <1>9, StrayFrame
    DEF Resume, Stop, NativeTrigger, OrderRetry, vars, taskVars, bookVars, StretchInv
  <1>10. CASE Crash \/ Start
    BY <1>10, Known DEF Crash, Start, StretchInv, TaskTypes
  <1> QED
    BY <1>1, <1>2, <1>3, <1>4, <1>5, <1>6, <1>7, <1>8, <1>9, <1>10
    DEF Next, BarStep, Fault

-----------------------------------------------------------------------------
(* What a step does to the book and to the cooldown                        *)

\* The bar task does not move to a place where an entry may follow.
Elsewhere == pc'[BarTask] = pc[BarTask] \/ pc'[BarTask] \notin {"boot", "obs", "decide", "entry"}

\* A step that leaves the book and the cooldown alone ...
Idle == UNCHANGED <<pos, held, trades, sinceExit, seen, cooldown>> /\ Elsewhere

\* ... and one that closes the position, by the bar task or by a flatten.
Closing ==
  /\ pos # 0 /\ pos' = 0 /\ trades' = trades + 1 /\ sinceExit' = 0
  /\ UNCHANGED <<seen, cooldown>>
  /\ pc[BarTask] # "decide" /\ (pc'[BarTask] = pc[BarTask] \/ pc'[BarTask] = "rec")

LEMMA MoveElsewhere ==
  ASSUME TypeOK, NEW p \in Tasks, NEW l \in Labels, Suspend(p, l) \/ Proceed(p, l),
         p = BarTask => l \notin {"boot", "obs", "decide", "entry"}
  PROVE  Elsewhere
  BY Known, Control DEF Elsewhere

LEMMA Effects ==
  ASSUME TypeOK, StretchInv, [Next]_vars
  PROVE  \/ Idle \/ Closing
         \/ OnBar \/ Post \/ ObsReply \/ Boot \/ EntryFill \/ Start
         \/ \E d \in {-1, 1} : TryEnter(d)
  <1> USE LabelsKnown
  <1>0. ASSUME NEW p \in Tasks, Raise(p) \/ Return(p) PROVE Elsewhere
    BY <1>0, MoveElsewhere, Known DEF Raise, Return
  <1>1. CASE StreamStops \/ CancelTask \/ NoTrade \/ SignalExit \/ StopReply
             \/ ReplaceCancelReply
    <2>1. Elsewhere
      BY <1>1, MoveElsewhere, Known
      DEF StreamStops, CancelTask, NoTrade, SignalExit, StopReply, ReplaceCancelReply
    <2> QED
      BY <1>1, <2>1
      DEF StreamStops, CancelTask, NoTrade, SignalExit, StopReply, ReplaceCancelReply,
          bookVars, controlVars, Idle
  <1>2. CASE TakeProfitReply \/ StreamFails
    <2>1. Elsewhere
      BY <1>2, <1>0, MoveElsewhere, Known DEF TakeProfitReply, StreamFails
    <2> QED
      BY <1>2, <2>1 DEF TakeProfitReply, StreamFails, bookVars, controlVars, Idle
  <1>3. ASSUME NEW p \in Tasks, ExitBegin(p) PROVE Idle \/ Closing
    <2>1. Elsewhere
      BY <1>3, MoveElsewhere DEF ExitBegin, AfterClose
    <2>2. CASE RealOrders
      BY <1>3, <2>1, <2>2 DEF ExitBegin, Idle, controlVars
    <2>3. CASE ~RealOrders
      <3>1. pos # 0 /\ running = p /\ pc[p] = "exit"
        BY <1>3 DEF ExitBegin, At, StretchInv
      <3>2. pc[BarTask] # "decide"
        BY <3>1 DEF StretchInv, InSync
      <3>3. BookClose /\ Suspend(p, "rec") /\ UNCHANGED controlVars
        BY <1>3, <2>3 DEF ExitBegin, AfterClose
      <3>4. pc'[BarTask] = pc[BarTask] \/ pc'[BarTask] = "rec"
        BY <3>3, Known, Control
      <3> QED
        BY <3>1, <3>2, <3>3, <3>4 DEF BookClose, Closing, controlVars
    <2> QED
      BY <2>2, <2>3
  <1>4. ASSUME NEW p \in Tasks, ExitFill(p) PROVE Idle \/ Closing
    <2>1. CASE HasPosition
      <3>1. pos # 0 /\ running = NoTask
        BY <1>4, <2>1 DEF ExitFill, Awaiting, HasPosition
      <3>2. pc[BarTask] # "decide"
        BY <3>1, Known DEF StretchInv, InSync
      <3>3. BookClose /\ Suspend(p, "rec") /\ UNCHANGED controlVars
        BY <1>4, <2>1 DEF ExitFill, AfterClose
      <3>4. pc'[BarTask] = pc[BarTask] \/ pc'[BarTask] = "rec"
        BY <3>3, Known, Control
      <3> QED
        BY <3>1, <3>2, <3>3, <3>4 DEF BookClose, Closing, controlVars
    <2>2. CASE ~HasPosition
      BY <1>4, <2>2, <1>0 DEF ExitFill, Idle, bookVars, controlVars
    <2> QED
      BY <2>1, <2>2
  <1>5. ASSUME NEW p \in Tasks,
               \/ SyncReply(p) \/ CancelReply(p) \/ RecordReply(p) \/ StoreFails(p)
               \/ OrderRetry(p) \/ OrderFails(p)
        PROVE  Idle
    <2>1. Elsewhere
      <3>1. CASE SyncReply(p) \/ CancelReply(p)
        BY <3>1, MoveElsewhere DEF SyncReply, CancelReply, AfterSync
      <3>2. CASE RecordReply(p) \/ StoreFails(p)
        BY <3>2, <1>0 DEF RecordReply, StoreFails
      <3>3. CASE OrderRetry(p)
        BY <3>3 DEF OrderRetry, Elsewhere
      <3>4. CASE OrderFails(p)
        BY <3>4, <1>0, MoveElsewhere DEF OrderFails
      <3> QED
        BY <1>5, <3>1, <3>2, <3>3, <3>4
    <2> QED
      BY <1>5, <2>1
      DEF SyncReply, CancelReply, RecordReply, StoreFails, OrderRetry, OrderFails,
          bookVars, controlVars, Idle
  <1>6. ASSUME NEW k \in Killers, Flatten(k) PROVE Idle
    <2>1. Elsewhere
      BY <1>6, MoveElsewhere, Known DEF Flatten
    <2> QED
      BY <1>6, <2>1 DEF Flatten, bookVars, Idle
  <1>7. CASE Resume \/ Stop \/ NativeTrigger \/ Crash \/ UNCHANGED vars
             \/ \E k \in Killers : StrayReply(k) \/ StrayFails(k)
    <2>1. Elsewhere
      BY <1>7, Known, StrayFrame
      DEF Resume, Stop, NativeTrigger, Crash, vars, taskVars, TaskTypes, Elsewhere
    <2> QED
      BY <1>7, <2>1, StrayFrame
      DEF Resume, Stop, NativeTrigger, Crash, vars, bookVars, controlVars, Idle
  <1> QED
    BY <1>1, <1>2, <1>3, <1>4, <1>5, <1>6, <1>7 DEF Next, BarStep, TaskStep, Fault

-----------------------------------------------------------------------------
(* The cooldown, and the life of a position                                *)

\* When the last trade was seen, a flat book has rested or the cooldown covers the
\* bars still missing; an entry or an adoption is only on its way when it has rested.
RestInv ==
  /\ pc[BarTask] # "obs"
  /\ pc[BarTask] \in {"boot", "entry"} => pos = 0 /\ sinceExit = CooldownBars
  /\ pc[BarTask] = "decide" => seen = trades
  /\ seen <= trades
  /\ seen = trades /\ pos = 0 => cooldown + sinceExit >= CooldownBars

LiveInv == TypeOK /\ StretchInv /\ PlaceInv /\ RestInv

LEMMA RestInit == Init => RestInv
  BY NumberAssumption DEF Init, RestInv, Tasks

LEMMA Numbers ==
  ASSUME TypeOK
  PROVE  /\ cooldown \in 0..CooldownBars /\ sinceExit \in 0..CooldownBars
         /\ CooldownBars \in Nat /\ seen \in Nat /\ trades \in Nat /\ pos \in Int
         /\ held \in Nat /\ Horizon \in Nat
  BY NumberAssumption DEF TypeOK, BookTypes, ControlTypes

\* A decision to enter finds a book that has rested.
LEMMA Rested ==
  ASSUME LiveInv, NEW d \in {-1, 1}, TryEnter(d)
  PROVE  pos = 0 /\ sinceExit = CooldownBars
  BY Numbers DEF LiveInv, RestInv, TryEnter, At, CanEnter, HasPosition

LEMMA RestStep ==
  ASSUME ~UseRecorded, LiveInv, [Next]_vars
  PROVE  RestInv'
  <1> USE LabelsKnown
  <1>0. TypeOK /\ StretchInv /\ RestInv
    BY DEF LiveInv
  <1>1. CASE Idle
    BY <1>0, <1>1 DEF Idle, Elsewhere, RestInv
  <1>2. CASE Closing
    <2>1. pc'[BarTask] \notin {"obs", "boot", "entry", "decide"}
      BY <1>0, <1>2 DEF Closing, RestInv
    <2> QED
      BY <1>0, <1>2, <2>1, Numbers DEF Closing, RestInv
  <1>3. CASE OnBar
    <2>1. pc'[BarTask] \in {"exit", "post"}
      BY <1>0, <1>3, Known, Control DEF OnBar
    <2>2. /\ pos' = pos /\ trades' = trades /\ seen' = seen /\ cooldown' = Tick(cooldown)
          /\ sinceExit' = (IF sinceExit < CooldownBars THEN sinceExit + 1 ELSE sinceExit)
      BY <1>3 DEF OnBar
    <2> QED
      BY <1>0, <2>1, <2>2, Numbers DEF Tick, RestInv
  <1>4. CASE Post
    <2>1. pc'[BarTask] = "decide"
      BY <1>0, <1>4, Known, Control DEF Post
    <2>2. /\ UNCHANGED <<pos, trades, sinceExit>> /\ seen' = trades
          /\ cooldown' = IF trades > seen THEN CooldownBars ELSE cooldown
      BY <1>4 DEF Post, bookVars
    <2> QED
      BY <1>0, <2>1, <2>2, Numbers DEF RestInv
  <1>5. ~ObsReply
    BY <1>0 DEF ObsReply, Awaiting, RestInv
  <1>6. CASE Boot
    <2>1. pc'[BarTask] \in {"stream", "pstop"}
      BY <1>0, <1>6, Known, Control DEF Boot
    <2>2. UNCHANGED <<trades, sinceExit, seen, cooldown>> /\ pos = 0 /\ sinceExit = CooldownBars
      BY <1>0, <1>6 DEF Boot, Awaiting, RestInv, bookVars, controlVars, BookOpen
    <2> QED
      BY <1>0, <2>1, <2>2, Numbers DEF RestInv
  <1>7. CASE EntryFill
    <2>1. pc'[BarTask] \in {"pstop", "pcancel", "error"}
      <3>1. Raise(BarTask) => Suspend(BarTask, "error")
        BY DEF Raise
      <3> QED
        BY <1>0, <1>7, <3>1, Known, Control DEF EntryFill
    <2>2. UNCHANGED <<trades, sinceExit, seen, cooldown>> /\ sinceExit = CooldownBars
      BY <1>0, <1>7 DEF EntryFill, Awaiting, RestInv, bookVars, controlVars, BookOpen
    <2> QED
      BY <1>0, <2>1, <2>2, Numbers DEF RestInv
  <1>8. CASE Start
    <2>1. pc'[BarTask] = "boot"
      BY <1>0, <1>8, Known DEF Start, TaskTypes
    <2> QED
      BY <1>8, <2>1, Numbers, <1>0 DEF Start, RestInv
  <1>9. ASSUME NEW d \in {-1, 1}, TryEnter(d) PROVE RestInv'
    <2>1. pos = 0 /\ sinceExit = CooldownBars
      BY <1>9, Rested
    <2>2. UNCHANGED <<trades, sinceExit, seen, cooldown>>
      BY <1>9 DEF TryEnter, bookVars, controlVars, BookOpen
    <2>3. \/ pc'[BarTask] = "entry" /\ pos' = pos
          \/ pc'[BarTask] = "sync"
      BY <1>0, <1>9, Known, Control DEF TryEnter, bookVars
    <2> QED
      BY <1>0, <2>1, <2>2, <2>3, Numbers DEF RestInv
  <1> QED
    BY <1>0, <1>1, <1>2, <1>3, <1>4, <1>5, <1>6, <1>7, <1>8, <1>9, Effects

LEMMA LiveInvariant ==
  ASSUME ~UseRecorded
  PROVE  Spec => []LiveInv
  <1>1. Init => LiveInv
    BY TypeInit, StretchInit, PlaceInit, RestInit DEF LiveInv
  <1>2. LiveInv /\ [Next]_vars => LiveInv'
    BY TypeNext, StretchStep, PlaceStep, RestStep DEF LiveInv
  <1> QED
    BY <1>1, <1>2, PTL DEF Spec

\* What opening the book for q units after a rest is in the abstract life.
LEMMA OpeningEnters ==
  ASSUME pos = 0, sinceExit = CooldownBars, NEW q \in Int, BookOpen(q)
  PROVE  [Lifecycle!Next]_<<Direction, sinceExit>>
  BY DEF BookOpen, Direction, Lifecycle!Next, Lifecycle!Enter

\* The live engine implements the life of a position that the backtester implements:
\* with every interleaving of flatten calls, faults, restarts and native triggers, it
\* never stacks or reverses a position and rests CooldownBars bars between two.
THEOREM LiveLives ==
  ASSUME ~UseRecorded
  PROVE  Spec => ImplementsLifecycle
  <1>1. Init => Lifecycle!Init
    BY DEF Init, Lifecycle!Init, Direction
  <1>2. LiveInv /\ [Next]_vars => [Lifecycle!Next]_<<Direction, sinceExit>>
    <2> SUFFICES ASSUME LiveInv, [Next]_vars
                 PROVE  [Lifecycle!Next]_<<Direction, sinceExit>>
      OBVIOUS
    <2>0. TypeOK /\ StretchInv /\ RestInv
      BY DEF LiveInv
    <2>1. CASE Idle \/ Post \/ ObsReply
      BY <2>1 DEF Idle, Post, ObsReply, bookVars, Direction
    <2>2. CASE Closing
      BY <2>0, <2>2, Numbers DEF Closing, Direction, Lifecycle!Next, Lifecycle!Exit
    <2>3. CASE OnBar
      BY <2>3 DEF OnBar, Direction, Lifecycle!Next, Lifecycle!Bar
    <2>4. CASE Boot
      <3>1. pos = 0 /\ sinceExit = CooldownBars
        BY <2>0, <2>4 DEF Boot, Awaiting, RestInv
      <3>2. adopt \in Int
        BY <2>0 DEF TypeOK, ControlTypes
      <3>3. CASE UNCHANGED bookVars
        BY <3>3 DEF bookVars, Direction
      <3> QED
        BY <2>4, <3>1, <3>2, <3>3, OpeningEnters DEF Boot
    <2>5. CASE EntryFill
      <3>1. pos = 0 /\ sinceExit = CooldownBars
        BY <2>0, <2>5 DEF EntryFill, Awaiting, RestInv
      <3>2. order[BarTask] \in Int
        BY <2>0, Known DEF TaskTypes
      <3>3. PICK q \in Fills(order[BarTask]) : BookOpen(q)
        BY <2>5, <3>1 DEF EntryFill, HasPosition
      <3> QED
        BY <3>1, <3>2, <3>3, FillsTypes, OpeningEnters
    <2>6. CASE Start
      BY <2>6 DEF Start, Direction, Lifecycle!Next, Lifecycle!Restart
    <2>7. ASSUME NEW d \in {-1, 1}, TryEnter(d)
          PROVE  [Lifecycle!Next]_<<Direction, sinceExit>>
      <3>1. pos = 0 /\ sinceExit = CooldownBars
        BY <2>7, Rested
      <3>2. CASE UNCHANGED bookVars
        BY <3>2 DEF bookVars, Direction
      <3> QED
        BY <2>7, <3>1, <3>2, EntryTypes, OpeningEnters DEF TryEnter
    <2> QED
      BY <2>0, <2>1, <2>2, <2>3, <2>4, <2>5, <2>6, <2>7, Effects
  <1> QED
    BY <1>1, <1>2, LiveInvariant, PTL DEF Spec, ImplementsLifecycle, Lifecycle!Spec

\* CooldownBars bars pass between a close and the next entry, whoever closed.
THEOREM CooldownHolds ==
  ASSUME ~UseRecorded
  PROVE  Spec => CooldownRespected
  <1>1. LiveInv /\ [Next]_vars =>
          [~HasPosition /\ pos' # 0 /\ pc[BarTask] # "boot" => sinceExit >= CooldownBars]_vars
    <2> SUFFICES ASSUME LiveInv, [Next]_vars, pos = 0, pos' # 0, pc[BarTask] # "boot"
                 PROVE  sinceExit >= CooldownBars
      BY DEF HasPosition
    <2>1. TypeOK /\ RestInv /\ CooldownBars \in Nat
      BY Numbers DEF LiveInv
    <2>2. ~Boot
      BY DEF Boot, Awaiting
    <2>3. CASE EntryFill
      BY <2>1, <2>3 DEF EntryFill, Awaiting, RestInv
    <2>4. ASSUME NEW d \in {-1, 1}, TryEnter(d) PROVE sinceExit >= CooldownBars
      BY <2>1, <2>4, Rested
    <2> QED
      BY <2>1, <2>2, <2>3, <2>4, Openings
  <1> QED
    BY <1>1, LiveInvariant, PTL DEF Spec, CooldownRespected

-----------------------------------------------------------------------------
(* The time barrier                                                        *)

\* The bar task is in an exit, or over.
Leaving == {"exit", "cancel", "exec"} \cup Ended

\* Without failures, a position that has reached the horizon is on its way out.
AgeInv ==
  faults = 0 /\ Horizon > 0 /\ HasPosition /\ pc[BarTask] \notin Leaving => held < Horizon

\* Without a failure an exit ends with no position.
LEMMA LeavingStays ==
  ASSUME TypeOK, StretchInv, [Next]_vars, pc[BarTask] \in Leaving, faults' = 0
  PROVE  pc'[BarTask] \in Leaving \/ pos' = 0
  <1> DEFINE Goal == pc'[BarTask] \in Leaving \/ pos' = 0
  <1> USE LabelsKnown DEF Leaving, Ended
  <1>0. faults \in Nat /\ \A p \in Tasks : pc[p] \in Labels
    BY Known, NumberAssumption DEF TypeOK, BoundTypes, TaskTypes
  <1>1. ~Boot /\ ~OnBar /\ ~Post /\ ~ObsReply /\ ~SignalExit /\ ~NoTrade /\ ~EntryFill
          /\ ~ReplaceCancelReply /\ ~StopReply /\ ~TakeProfitReply /\ ~StreamStops
          /\ ~StreamFails /\ \A d \in {-1, 1} : ~TryEnter(d)
    BY DEF Boot, OnBar, Post, ObsReply, SignalExit, NoTrade, EntryFill, ReplaceCancelReply,
           StopReply, TakeProfitReply, StreamStops, StreamFails, TryEnter, At, Awaiting
  <1>2. CASE CancelTask
    BY <1>2, Known, Control DEF CancelTask
  <1>3. ASSUME NEW p \in Tasks, ExitBegin(p) \/ CancelReply(p) PROVE Goal
    <2>1. ExitBegin(p) /\ ~RealOrders => pos' = 0
      BY DEF ExitBegin, BookClose
    <2> QED
      BY <1>3, <2>1, Known, Control DEF ExitBegin, CancelReply
  <1>4. ASSUME NEW p \in Tasks, ExitFill(p) PROVE Goal
    BY <1>4 DEF ExitFill, BookClose, bookVars, HasPosition
  <1>5. ASSUME NEW p \in Tasks, SyncReply(p) \/ RecordReply(p) PROVE Goal
    <2>1. p # BarTask
      BY <1>5 DEF SyncReply, RecordReply, Awaiting
    <2>2. pc'[BarTask] = pc[BarTask]
      BY <1>5, <2>1, Known, Control, Moves DEF SyncReply, RecordReply, AfterSync
    <2> QED
      BY <2>2
  <1>6. \A p \in Tasks : ~StoreFails(p) /\ ~OrderRetry(p) /\ ~OrderFails(p)
    BY <1>0 DEF StoreFails, OrderRetry, OrderFails
  <1>7. ASSUME NEW k \in Killers, Flatten(k) PROVE Goal
    <2>1. pc'[BarTask] = pc[BarTask]
      BY <1>7, Known, Control DEF Flatten
    <2> QED
      BY <2>1
  <1>8. CASE Resume \/ Stop \/ NativeTrigger \/ UNCHANGED vars
             \/ \E k \in Killers : StrayReply(k) \/ StrayFails(k)
    BY <1>8, StrayFrame DEF Resume, Stop, NativeTrigger, vars, taskVars
  <1>9. CASE Crash \/ Start
    BY <1>9, Known DEF Crash, Start, TaskTypes
  <1> QED
    BY <1>1, <1>2, <1>3, <1>4, <1>5, <1>6, <1>7, <1>8, <1>9 DEF Next, BarStep, TaskStep, Fault

\* No failure is forgotten, and no start.
LEMMA BoundsGrow ==
  ASSUME TypeOK, [Next]_vars
  PROVE  /\ faults \in Nat /\ faults' \in Nat /\ faults <= faults'
         /\ starts \in Nat /\ starts' \in Nat /\ starts' = IF Start THEN starts + 1 ELSE starts
  <1>0. faults \in Nat /\ starts \in Nat
    BY NumberAssumption DEF TypeOK, BoundTypes
  <1>1. CASE Start
    BY <1>0, <1>1 DEF Start
  <1>2. CASE \/ UNCHANGED boundVars
             \/ faults' \in {faults, faults + 1} /\ UNCHANGED starts
    BY <1>0, <1>1, <1>2 DEF boundVars, Start
  <1>3. CASE BarStep
    BY <1>3, <1>2 DEF BarStep, Boot, Post, ObsReply, SignalExit, NoTrade, TryEnter, EntryFill,
      ReplaceCancelReply, StopReply, TakeProfitReply, CancelHead, Accepted, Refused, boundVars
  <1>4. ASSUME NEW p \in Tasks, TaskStep(p)
        PROVE  \/ UNCHANGED boundVars
               \/ faults' \in {faults, faults + 1} /\ UNCHANGED starts
    BY <1>4 DEF TaskStep, ExitBegin, CancelReply, ExitFill, RecordReply, SyncReply, CancelHead,
      boundVars
  <1>5. CASE Fault
    BY <1>5, <1>2 DEF Fault, StreamFails, StoreFails, OrderRetry, OrderFails, StrayFails
  <1>6. ASSUME NEW k \in Killers, StrayReply(k)
        PROVE  \/ UNCHANGED boundVars
               \/ faults' \in {faults, faults + 1} /\ UNCHANGED starts
    BY <1>6 DEF StrayReply, StrayCancel, StrayFill, boundVars
  <1>7. CASE \/ OnBar \/ StreamStops \/ CancelTask \/ Resume \/ Stop \/ NativeTrigger \/ Crash
             \/ UNCHANGED vars \/ \E k \in Killers : Flatten(k)
    BY <1>7, <1>2 DEF OnBar, StreamStops, CancelTask, Resume, Stop, NativeTrigger, Crash,
      Flatten, vars
  <1> QED
    BY <1>1, <1>2, <1>3, <1>4, <1>5, <1>6, <1>7 DEF Next

LEMMA AgeStep ==
  ASSUME TypeOK, StretchInv, AgeInv, [Next]_vars
  PROVE  AgeInv'
  <1> SUFFICES ASSUME faults' = 0, Horizon > 0, pos' # 0, pc'[BarTask] \notin Leaving
               PROVE  held' < Horizon
    BY DEF AgeInv, HasPosition
  <1>0. faults = 0 /\ pc[BarTask] \notin Leaving
    BY BoundsGrow, LeavingStays
  <1>1. CASE Idle
    BY <1>0, <1>1 DEF Idle, AgeInv, HasPosition
  <1>2. CASE OnBar
    <2>1. pos' = pos /\ held' = held + 1
      BY <1>2 DEF OnBar, HasPosition
    <2>2. ~TimeUp
      BY <1>2, <2>1, Known, Control, LabelsKnown DEF OnBar, HasPosition, Leaving
    <2> QED
      BY <2>1, <2>2, Numbers DEF TimeUp
  <1>3. CASE Post \/ ObsReply
    BY <1>0, <1>3 DEF Post, ObsReply, bookVars, AgeInv, HasPosition
  <1>4. ASSUME (\E q \in Int : BookOpen(q)) \/ UNCHANGED bookVars
        PROVE  held' < Horizon
    BY <1>0, <1>4, Numbers DEF BookOpen, bookVars, AgeInv, HasPosition
  <1>5. CASE Boot
    BY <1>4, <1>5 DEF Boot, TypeOK, ControlTypes
  <1>6. CASE EntryFill
    BY <1>4, <1>6, Known, FillsTypes DEF EntryFill, TaskTypes
  <1>7. ASSUME NEW d \in {-1, 1}, TryEnter(d) PROVE held' < Horizon
    BY <1>4, <1>7, EntryTypes DEF TryEnter
  <1> QED
    BY <1>1, <1>2, <1>3, <1>5, <1>6, <1>7, Effects DEF Closing, Start

\* Without failures no position outlives the horizon, however flatten calls, stops
\* and resumes interleave with the bars.
THEOREM HorizonHolds == Spec => []HorizonRespected
  <1>1. Init => AgeInv
    BY DEF Init, AgeInv, HasPosition
  <1>2. TypeOK /\ StretchInv /\ PlaceInv /\ AgeInv /\ [Next]_vars
          => (StretchInv /\ PlaceInv /\ AgeInv)'
    BY StretchStep, PlaceStep, AgeStep
  <1>3. AgeInv => HorizonRespected
    BY DEF AgeInv, HorizonRespected, Leaving, Ended
  <1> QED
    BY <1>1, <1>2, <1>3, StretchInit, PlaceInit, TypeCorrect, PTL DEF Spec

-----------------------------------------------------------------------------
(* The trades and the store                                                *)

\* The bar task ended before it could write what it closed: cancelled, or dead.
Over == {"stopped", "down"}

\* The tasks that are writing a closed trade.
Recording == {p \in Tasks : pc[p] = "rec"}

\* A task changes its place: how many are writing then.
LEMMA RecordingMoves ==
  ASSUME TypeOK, NEW p \in Tasks, NEW l \in Labels, Suspend(p, l) \/ Proceed(p, l)
  PROVE  /\ Cardinality(Recording) \in Nat /\ Cardinality(Recording') \in Nat
         /\ (pc[p] = "rec" <=> l = "rec") => Cardinality(Recording') = Cardinality(Recording)
         /\ pc[p] # "rec" /\ l = "rec" => Cardinality(Recording') = Cardinality(Recording) + 1
         /\ pc[p] = "rec" /\ l # "rec" => Cardinality(Recording') = Cardinality(Recording) - 1
  <1>1. pc'[p] = l /\ \A q \in Tasks \ {p} : pc'[q] = pc[q]
    BY Known, Control
  <1>2. IsFiniteSet(Recording)
    <2>1. IsFiniteSet(Killers \cup {BarTask})
      BY CallsAssumption, FS_AddElement
    <2>2. Recording \in SUBSET (Killers \cup {BarTask})
      BY DEF Recording, Tasks
    <2> QED
      BY <2>1, <2>2, FS_Subset
  <1>3. (pc[p] = "rec" <=> l = "rec") => Recording' = Recording
    BY <1>1 DEF Recording
  <1>4. pc[p] # "rec" /\ l = "rec" => Recording' = Recording \cup {p} /\ p \notin Recording
    BY <1>1 DEF Recording
  <1>5. pc[p] = "rec" /\ l # "rec" => Recording' = Recording \ {p} /\ p \in Recording
    BY <1>1 DEF Recording
  <1>6. Cardinality(Recording) \in Nat
    BY <1>2, FS_CardinalityType
  <1>7. CASE pc[p] = "rec" <=> l = "rec"
    BY <1>3, <1>6, <1>7
  <1>8. CASE pc[p] # "rec" /\ l = "rec"
    BY <1>2, <1>4, <1>6, <1>8, FS_AddElement
  <1>9. CASE pc[p] = "rec" /\ l # "rec"
    <2>1. IsFiniteSet(Recording') /\ Cardinality(Recording') = Cardinality(Recording) - 1
      BY <1>2, <1>5, <1>9, FS_RemoveElement
    <2>2. Cardinality(Recording') \in Nat
      BY <2>1, FS_CardinalityType
    <2> QED
      BY <1>6, <1>9, <2>1, <2>2
  <1> QED
    BY <1>7, <1>8, <1>9

\* The tasks that write a trade stay what they are, and so do the two counts.
Uncounted == UNCHANGED <<trades, saved>> /\ Recording' = Recording

LEMMA MoveUncounted ==
  ASSUME TypeOK, NEW p \in Tasks, NEW l \in Labels \ {"rec"}, Suspend(p, l) \/ Proceed(p, l),
         pc[p] # "rec", UNCHANGED <<trades, saved>>
  PROVE  Uncounted
  BY Known, Control DEF Uncounted, Recording

\* A step closes a trade and starts to write it, ends a write, loses one to a failure, or
\* counts nothing, unless it ends the bar task.
LEMMA Counts ==
  ASSUME TypeOK, [Next]_vars, pc'[BarTask] \notin Over, ~Start
  PROVE  \/ Uncounted
         \/ \E p \in Tasks :
              /\ pc[p] # "rec" /\ Suspend(p, "rec")
              /\ trades' = trades + 1 /\ saved' = saved
         \/ \E p \in Tasks, l \in Labels \ {"rec"} :
              /\ pc[p] = "rec" /\ (Suspend(p, l) \/ Proceed(p, l))
              /\ trades' = trades /\ saved' = saved + 1
         \/ \E p \in Tasks, l \in Labels \ {"rec"} :
              /\ pc[p] = "rec" /\ Suspend(p, l)
              /\ UNCHANGED <<trades, saved>> /\ faults' = faults + 1
  <1> USE LabelsKnown
  <1>0. faults \in Nat /\ "rec" \in Labels
    BY DEF TypeOK, BoundTypes
  <1>1. CASE Boot \/ StreamStops \/ CancelTask \/ NoTrade \/ SignalExit \/ ObsReply
             \/ ReplaceCancelReply
    <2>1. UNCHANGED <<trades, saved>>
      BY <1>1 DEF Boot, BookOpen, StreamStops, CancelTask, NoTrade, SignalExit, ObsReply,
                  ReplaceCancelReply, bookVars, controlVars
    <2>2. ~CancelTask
      BY Known, Control DEF CancelTask, Over
    <2> QED
      BY <1>1, <2>1, <2>2, Known, MoveUncounted
      DEF Boot, StreamStops, NoTrade, SignalExit, ObsReply, ReplaceCancelReply, At, Awaiting
  <1>2. CASE OnBar \/ Post
    <2>1. UNCHANGED <<trades, saved>>
      BY <1>2 DEF OnBar, Post, bookVars
    <2> QED
      BY <1>2, <2>1, Known, MoveUncounted DEF OnBar, Post, At, Awaiting
  <1>3. ASSUME NEW d \in {-1, 1}, TryEnter(d) PROVE Uncounted
    <2>1. UNCHANGED <<trades, saved>>
      BY <1>3 DEF TryEnter, BookOpen, bookVars, controlVars
    <2> QED
      BY <1>3, <2>1, Known, MoveUncounted DEF TryEnter, At
  <1>4. CASE EntryFill
    <2>1. UNCHANGED <<trades, saved>>
      BY <1>4 DEF EntryFill, BookOpen, bookVars, controlVars
    <2>2. PICK l \in {"error", "pstop", "pcancel"} : Suspend(BarTask, l)
      BY <1>4 DEF EntryFill, Raise
    <2> QED
      BY <1>4, <2>1, <2>2, Known, MoveUncounted DEF EntryFill, Awaiting
  <1>5. CASE StopReply
    <2>1. UNCHANGED <<trades, saved>>
      BY <1>5 DEF StopReply, bookVars, controlVars
    <2> QED
      BY <1>5, <2>1, Known, MoveUncounted DEF StopReply, Awaiting
  <1>6. CASE TakeProfitReply
    <2>1. UNCHANGED <<trades, saved>>
      BY <1>6 DEF TakeProfitReply, bookVars, controlVars
    <2> QED
      BY <1>6, <2>1, Known, MoveUncounted DEF TakeProfitReply, Awaiting
  <1>7. CASE StreamFails
    <2>1. UNCHANGED <<trades, saved>> /\ Suspend(BarTask, "error")
      BY <1>7 DEF StreamFails, Raise, bookVars, controlVars
    <2> QED
      BY <1>7, <2>1, Known, MoveUncounted DEF StreamFails, Awaiting
  <1>15. ASSUME NEW p \in Tasks, OrderFails(p) PROVE Uncounted
    <2>1. UNCHANGED <<trades, saved>> /\ pc[p] # "rec"
      BY <1>15 DEF OrderFails, Awaiting, bookVars
    <2>2. \E l \in {"post", "sync", "stream"} : Suspend(p, l) \/ Proceed(p, l)
      BY <1>15, Known DEF OrderFails, Return
    <2> QED
      BY <2>1, <2>2, MoveUncounted
  <1>16. ASSUME NEW p \in Tasks, OrderRetry(p) PROVE Uncounted
    BY <1>16 DEF OrderRetry, bookVars, controlVars, Uncounted, Recording
  <1>17. ASSUME NEW p \in Tasks, StoreFails(p)
         PROVE  \/ Uncounted
                \/ \E l \in Labels \ {"rec"} :
                     /\ pc[p] = "rec" /\ Suspend(p, l)
                     /\ UNCHANGED <<trades, saved>> /\ faults' = faults + 1
    <2>1. UNCHANGED <<trades, saved>> /\ faults' = faults + 1
      BY <1>17 DEF StoreFails, bookVars, controlVars
    <2>2. PICK l \in {"error", "done"} : Suspend(p, l)
      BY <1>17 DEF StoreFails, Raise
    <2>3. l \in Labels \ {"rec"}
      OBVIOUS
    <2> QED
      BY <2>1, <2>2, <2>3, MoveUncounted
  <1>8. ASSUME NEW p \in Tasks, SyncReply(p) \/ CancelReply(p) PROVE Uncounted
    <2>1. UNCHANGED <<trades, saved>>
      BY <1>8 DEF SyncReply, CancelReply, bookVars, controlVars
    <2>2. PICK l \in Labels \ {"rec"} : Suspend(p, l)
      BY <1>8 DEF SyncReply, CancelReply, AfterSync
    <2> QED
      BY <1>8, <2>1, <2>2, MoveUncounted DEF SyncReply, CancelReply, Awaiting
  <1>9. ASSUME NEW p \in Tasks, ExitBegin(p)
        PROVE  Uncounted \/ (pc[p] # "rec" /\ Suspend(p, "rec")
                              /\ trades' = trades + 1 /\ saved' = saved)
    <2>1. pc[p] # "rec" /\ saved' = saved
      BY <1>9 DEF ExitBegin, At, controlVars
    <2>2. CASE RealOrders
      <3>1. trades' = trades /\ \E l \in {"exec", "cancel"} : Suspend(p, l)
        BY <1>9, <2>2 DEF ExitBegin
      <3> QED
        BY <2>1, <3>1, MoveUncounted
    <2>3. CASE ~RealOrders
      BY <1>9, <2>1, <2>3 DEF ExitBegin, BookClose, AfterClose
    <2> QED
      BY <2>2, <2>3
  <1>10. ASSUME NEW p \in Tasks, ExitFill(p)
         PROVE  Uncounted \/ (pc[p] # "rec" /\ Suspend(p, "rec")
                               /\ trades' = trades + 1 /\ saved' = saved)
    <2>1. pc[p] # "rec" /\ saved' = saved
      BY <1>10 DEF ExitFill, Awaiting, controlVars
    <2>2. CASE HasPosition
      BY <1>10, <2>1, <2>2 DEF ExitFill, BookClose, AfterClose
    <2>3. CASE ~HasPosition
      <3>1. trades' = trades /\ \E l \in {"error", "done"} : Suspend(p, l)
        BY <1>10, <2>3 DEF ExitFill, Raise, bookVars
      <3> QED
        BY <2>1, <3>1, MoveUncounted
    <2> QED
      BY <2>2, <2>3
  <1>11. ASSUME NEW p \in Tasks, RecordReply(p)
         PROVE  \E l \in Labels \ {"rec"} :
                  /\ pc[p] = "rec" /\ (Suspend(p, l) \/ Proceed(p, l))
                  /\ trades' = trades /\ saved' = saved + 1
    <2>1. pc[p] = "rec" /\ trades' = trades /\ saved' = saved + 1
      BY <1>11 DEF RecordReply, Awaiting, bookVars
    <2>2. \E l \in {"post", "sync", "stream"} : Suspend(p, l) \/ Proceed(p, l)
      BY <1>11, Known DEF RecordReply, Return
    <2> QED
      BY <2>1, <2>2
  <1>12. ASSUME NEW k \in Killers, Flatten(k) PROVE Uncounted
    <2>1. UNCHANGED <<trades, saved>>
      BY <1>12 DEF Flatten, bookVars
    <2> QED
      BY <1>12, <2>1, Known, MoveUncounted DEF Flatten, Awaiting
  <1>13. CASE Resume \/ Stop \/ NativeTrigger \/ UNCHANGED vars
              \/ \E k \in Killers : StrayReply(k) \/ StrayFails(k)
    BY <1>13, StrayFrame DEF Resume, Stop, NativeTrigger, vars, taskVars, bookVars, controlVars,
                 Uncounted, Recording
  <1>14. ~Crash
    BY Known DEF Crash, Over
  <1> QED
    BY <1>1, <1>2, <1>3, <1>4, <1>5, <1>6, <1>7, <1>8, <1>9, <1>10, <1>11, <1>12, <1>13,
       <1>14, <1>15, <1>16, <1>17 DEF Next, BarStep, TaskStep, Fault

\* Once over, the bar task runs again only through a start.
LEMMA OverStays ==
  ASSUME TypeOK, [Next]_vars, pc[BarTask] \in Over, ~Start
  PROVE  pc'[BarTask] \in Over
  <1> USE LabelsKnown DEF Over, Ended
  <1>1. ~Boot /\ ~OnBar /\ ~Post /\ ~ObsReply /\ ~SignalExit /\ ~NoTrade /\ ~EntryFill
          /\ ~ReplaceCancelReply /\ ~StopReply /\ ~TakeProfitReply /\ ~StreamStops
          /\ ~StreamFails /\ ~CancelTask /\ \A d \in {-1, 1} : ~TryEnter(d)
    BY DEF Boot, OnBar, Post, ObsReply, SignalExit, NoTrade, EntryFill, ReplaceCancelReply,
           StopReply, TakeProfitReply, StreamStops, StreamFails, CancelTask, StopTimesOut,
           TryEnter, At, Awaiting
  <1>2. ASSUME NEW p \in Tasks, TaskStep(p) \/ StoreFails(p) \/ OrderRetry(p) \/ OrderFails(p)
        PROVE  pc'[BarTask] = pc[BarTask]
    <2>1. p # BarTask
      BY <1>2 DEF TaskStep, ExitBegin, CancelReply, ExitFill, RecordReply, SyncReply,
                  StoreFails, OrderRetry, OrderFails, At, Awaiting
    <2>2. OrderRetry(p) => pc' = pc
      BY DEF OrderRetry
    <2>3. CASE ExitBegin(p) \/ CancelReply(p) \/ ExitFill(p) \/ SyncReply(p)
      BY <2>1, <2>3, Known, Control, Moves
      DEF ExitBegin, CancelReply, ExitFill, SyncReply, AfterSync, AfterClose
    <2>4. CASE RecordReply(p) \/ StoreFails(p) \/ OrderFails(p)
      BY <2>1, <2>4, Known, Control, Moves DEF RecordReply, StoreFails, OrderFails
    <2> QED
      BY <1>2, <2>2, <2>3, <2>4 DEF TaskStep
  <1>3. ASSUME NEW k \in Killers, Flatten(k) PROVE pc'[BarTask] = pc[BarTask]
    BY <1>3, Known, Control DEF Flatten
  <1>4. CASE Resume \/ Stop \/ NativeTrigger \/ Crash \/ UNCHANGED vars
             \/ \E k \in Killers : StrayReply(k) \/ StrayFails(k)
    BY <1>4, Known, StrayFrame DEF Resume, Stop, NativeTrigger, Crash, vars, taskVars, TaskTypes
  <1> QED
    BY <1>1, <1>2, <1>3, <1>4 DEF Next, BarStep, Fault

\* Every closed trade reaches the store once: however exits of the bar task and flatten
\* calls interleave, what the portfolio counts and the store lacks is being written, or
\* a failure of the store lost it.
THEOREM TradesSaved == Spec => []TradesReachTheStore
  <1> DEFINE Between(n, m, c, f) == m + c <= n /\ n <= m + c + f
             Inv == pc[BarTask] \notin Over
                      => Between(trades, saved, Cardinality(Recording), faults)
  <1>1. Init => Inv
    <2> SUFFICES ASSUME Init PROVE Between(trades, saved, Cardinality(Recording), faults)
      OBVIOUS
    <2>1. Recording = {} /\ trades = 0 /\ saved = 0 /\ faults = 0
      BY DEF Init, Recording
    <2> QED
      BY <2>1, FS_EmptySet
  <1>2. TypeOK /\ Inv /\ [Next]_vars => Inv'
    <2> SUFFICES ASSUME TypeOK, Inv, [Next]_vars, pc'[BarTask] \notin Over
                 PROVE  Between(trades', saved', Cardinality(Recording'), faults')
      OBVIOUS
    <2>0. /\ trades \in Nat /\ saved \in Nat
          /\ faults \in Nat /\ faults' \in Nat /\ faults <= faults'
      BY BoundsGrow DEF TypeOK, BookTypes, ControlTypes
    <2>1. CASE Start
      <3>1. Recording' = {}
        BY <2>1, Known DEF Start, Recording, Tasks, TaskTypes
      <3>2. trades' = 0 /\ saved' = 0
        BY <2>1 DEF Start
      <3> QED
        BY <2>0, <3>1, <3>2, FS_EmptySet
    <2>2. CASE ~Start
      <3>0. Between(trades, saved, Cardinality(Recording), faults)
        BY <2>2, OverStays
      <3>a. Cardinality(Recording) \in Nat
        <4>1. IsFiniteSet(Killers \cup {BarTask})
          BY CallsAssumption, FS_AddElement
        <4>2. Recording \in SUBSET (Killers \cup {BarTask})
          BY DEF Recording, Tasks
        <4> QED
          BY <4>1, <4>2, FS_Subset, FS_CardinalityType
      <3>1. CASE Uncounted
        BY <2>0, <3>0, <3>1, <3>a DEF Uncounted
      <3>2. ASSUME NEW p \in Tasks, pc[p] # "rec", Suspend(p, "rec"),
                   trades' = trades + 1, saved' = saved
            PROVE  Between(trades', saved', Cardinality(Recording'), faults')
        BY <2>0, <3>0, <3>2, RecordingMoves, LabelsKnown
      <3>3. ASSUME NEW p \in Tasks, NEW l \in Labels \ {"rec"}, pc[p] = "rec",
                   Suspend(p, l) \/ Proceed(p, l), trades' = trades, saved' = saved + 1
            PROVE  Between(trades', saved', Cardinality(Recording'), faults')
        BY <2>0, <3>0, <3>3, RecordingMoves
      <3>4. ASSUME NEW p \in Tasks, NEW l \in Labels \ {"rec"}, pc[p] = "rec",
                   Suspend(p, l), UNCHANGED <<trades, saved>>, faults' = faults + 1
            PROVE  Between(trades', saved', Cardinality(Recording'), faults')
        BY <2>0, <3>0, <3>4, RecordingMoves
      <3> HIDE DEF Between
      <3> QED
        BY <2>2, <3>1, <3>2, <3>3, <3>4, Counts
    <2> QED
      BY <2>1, <2>2
  <1>3. TypeOK /\ Inv => TradesReachTheStore
    <2> SUFFICES ASSUME TypeOK, Inv, pc[BarTask] \notin Over
                 PROVE  trades \in (saved + Cardinality(Recording))
                                     ..(saved + Cardinality(Recording) + faults)
      BY DEF TradesReachTheStore, Recording, Over
    <2>1. Between(trades, saved, Cardinality(Recording), faults)
      OBVIOUS
    <2>2. Cardinality(Recording) \in Nat
      <3>1. IsFiniteSet(Killers \cup {BarTask})
        BY CallsAssumption, FS_AddElement
      <3>2. Recording \in SUBSET (Killers \cup {BarTask})
        BY DEF Recording, Tasks
      <3> QED
        BY <3>1, <3>2, FS_Subset, FS_CardinalityType
    <2>3. trades \in Nat /\ saved \in Nat /\ faults \in Nat
      BY NumberAssumption DEF TypeOK, BookTypes, ControlTypes, BoundTypes
    <2> QED
      BY <2>1, <2>2, <2>3
  <1> QED
    BY <1>1, <1>2, <1>3, TypeCorrect, PTL DEF Spec

-----------------------------------------------------------------------------
(* The protective orders                                                   *)

\* The exchange holds the two orders of the open position, the handler their ids.
Matched ==
  /\ {<<o.kind, o.qty>> : o \in exOrders}
       = IF HasPosition THEN {<<k, pos>> : k \in Kinds} ELSE {}
  /\ LiveIds = Range(protective)
Bare  == exOrders = {} /\ protective = << >>
Quiet == todo[BarTask] = << >> /\ placed = << >>

\* Where the bar task is decides how far the orders are from the position.
OrdersFit ==
  LET at == pc[BarTask] IN
  /\ at \notin {"cancel", "exec", "pstop", "ptp"} \cup Ended => Matched /\ Quiet
  /\ at \in {"boot", "rec", "entry", "exec", "pstop"} => Bare /\ Quiet
  /\ at \in {"boot", "rec"} => pos = 0
  /\ at = "boot" => adopt = 0
  /\ at = "cancel" => /\ LiveIds \subseteq Range(todo[BarTask])
                      /\ protective = << >> /\ placed = << >>
  /\ at \in {"entry", "pstop", "ptp"} => order[BarTask] # 0
  /\ at \in {"pstop", "ptp"} => pos = order[BarTask]
  /\ at = "ptp" => \E i \in OrderIds :
                     /\ exOrders = {[id |-> i, kind |-> "STOP", qty |-> pos]}
                     /\ placed = <<i>> /\ protective = << >> /\ todo[BarTask] = << >>
ProtectedInv == starts >= 1 /\ (faults = 0 /\ starts = 1 => OrdersFit)

\* Dropping the head of a list of ids loses that id alone.
LEMMA HeadAndTail ==
  ASSUME NEW s \in Seq(OrderIds), s # << >>
  PROVE  /\ Range(s) \subseteq {Head(s)} \cup Range(Tail(s))
         /\ Len(s) = 1 => Tail(s) = << >>
  <1>1. Len(s) \in Nat /\ Len(s) # 0 /\ DOMAIN s = 1..Len(s)
    OBVIOUS
  <1>2. ASSUME NEW i \in 1..Len(s), i # 1 PROVE s[i] \in Range(Tail(s))
    <2>1. i - 1 \in 1..Len(Tail(s)) /\ DOMAIN Tail(s) = 1..Len(Tail(s))
      BY <1>1, <1>2
    <2>2. Tail(s)[i - 1] = s[i]
      BY <1>1, <1>2
    <2> QED
      BY <2>1, <2>2 DEF Range
  <1>3. Range(s) \subseteq {Head(s)} \cup Range(Tail(s))
    BY <1>1, <1>2 DEF Range
  <1>4. Len(s) = 1 => Tail(s) = << >>
    <2>1. Tail(s) \in Seq(OrderIds) /\ Len(Tail(s)) = Len(s) - 1
      BY <1>1
    <2> DEFINE w == Tail(s)
    <2>2. w \in Seq(OrderIds) /\ Len(w) = Len(s) - 1
      BY <2>1
    <2> HIDE DEF w
    <2>3. Len(s) = 1 => w = << >>
      BY <1>1, <2>2
    <2> QED
      BY <2>3 DEF w
  <1> QED
    BY <1>3, <1>4

\* No id, no order.
LEMMA NothingLive ==
  ASSUME NEW s, s = << >>
  PROVE  Range(s) = {} /\ (LiveIds \subseteq Range(s) => exOrders = {})
  <1>1. Range(s) = {}
    BY DEF Range
  <1> QED
    BY <1>1 DEF LiveIds

\* A flat engine whose orders match has none.
LEMMA MatchedFlat ==
  ASSUME TypeOK, pos = 0
  PROVE  Matched <=> Bare
  <1>1. protective \in Seq(OrderIds) /\ (Range(protective) = {} <=> protective = << >>)
    <2>1. protective \in Seq(OrderIds)
      BY DEF TypeOK, ExchangeTypes
    <2>2. DOMAIN protective = 1..Len(protective) /\ Len(protective) \in Nat
      BY <2>1
    <2>3. Len(protective) = 0 <=> protective = << >>
      BY <2>1
    <2>4. protective # << >> => protective[1] \in Range(protective)
      BY <2>2, <2>3 DEF Range
    <2>5. protective = << >> => Range(protective) = {}
      BY <2>2, <2>3 DEF Range
    <2> QED
      BY <2>1, <2>4, <2>5
  <1>2. {<<o.kind, o.qty>> : o \in exOrders} = {} <=> exOrders = {}
    OBVIOUS
  <1>3. LiveIds = {} <=> exOrders = {}
    BY DEF LiveIds
  <1> QED
    BY <1>1, <1>2, <1>3 DEF Matched, Bare, HasPosition

\* The first start stays the only one until another.
LEMMA OneStart ==
  ASSUME TypeOK, starts >= 1, [Next]_vars
  PROVE  starts' >= 1 /\ (starts' = 1 => starts = 1 /\ ~Start)
  BY BoundsGrow

\* The order that is sent is never empty, and neither is what executes of it.
LEMMA FillsSomething ==
  ASSUME NEW q \in Int, q # 0, NEW r \in Fills(q)
  PROVE  r # 0 /\ r \in Int
  BY DEF Fills

\* What an unchanged order book keeps.
LEMMA OrdersFrame ==
  ASSUME UNCHANGED <<pos, exOrders, protective>>
  PROVE  Matched' = Matched /\ Bare' = Bare
  BY DEF Matched, Bare, HasPosition, LiveIds

\* The bar task alone keeps the protective orders in step with its position.
LEMMA ProtectedStep ==
  ASSUME RealOrders, ~NativeTriggers, Killers = {}, NEW one \in OrderIds, NEW two \in OrderIds,
         one # two, TypeOK, ProtectedInv, [Next]_vars
  PROVE  ProtectedInv'
  <1> SUFFICES ASSUME faults' = 0, starts' = 1 PROVE OrdersFit'
    BY OneStart DEF ProtectedInv
  <1>0. OrdersFit /\ ~Start /\ faults = 0
    BY OneStart, BoundsGrow DEF ProtectedInv
  <1>a. /\ TaskTypes /\ BookTypes /\ ExchangeTypes /\ Tasks = {BarTask} /\ BarTask \in Tasks
        /\ order[BarTask] \in Int /\ pos \in Int /\ todo[BarTask] \in Seq(OrderIds)
    BY DEF TypeOK, TaskTypes, BookTypes, Tasks
  <1>b. ASSUME NEW l \in Labels, Suspend(BarTask, l) \/ Proceed(BarTask, l)
        PROVE  pc'[BarTask] = l
    BY <1>a, <1>b, Control
  <1>c. /\ Matched' /\ Quiet' /\ pc'[BarTask] \in {"stream", "exit", "post", "obs", "decide", "sync"}
             => OrdersFit'
        /\ pc'[BarTask] \in Ended => OrdersFit'
    BY DEF OrdersFit, Ended
  <1> USE LabelsKnown DEF Ended
  <1>1. CASE Boot
    <2>1. adopt = 0 /\ Matched /\ Quiet
      BY <1>0, <1>1 DEF Boot, Awaiting, OrdersFit
    <2>2. pc'[BarTask] = "stream" /\ UNCHANGED <<pos, exOrders, protective, todo, placed>>
      BY <1>1, <1>b, <2>1 DEF Boot, bookVars, exchangeVars
    <2>3. Matched' /\ Quiet'
      BY <2>1, <2>2, OrdersFrame DEF Quiet
    <2> QED
      BY <1>c, <2>2, <2>3
  <1>2. CASE OnBar \/ SignalExit \/ Post \/ ObsReply \/ NoTrade
    <2>1. Matched /\ Quiet
      BY <1>0, <1>2 DEF OnBar, SignalExit, Post, ObsReply, NoTrade, At, Awaiting, OrdersFit
    <2>2. /\ pc'[BarTask] \in {"exit", "post", "obs", "decide", "sync"}
          /\ UNCHANGED <<pos, exOrders, protective, todo, placed>>
      BY <1>2, <1>b DEF OnBar, SignalExit, Post, ObsReply, NoTrade, bookVars, exchangeVars
    <2>3. Matched' /\ Quiet'
      BY <2>1, <2>2, OrdersFrame DEF Quiet
    <2> QED
      BY <1>c, <2>2, <2>3
  <1>3. CASE StreamStops \/ CancelTask
    BY <1>3, <1>b, <1>c DEF StreamStops, CancelTask
  <1>4. ASSUME NEW d \in {-1, 1}, TryEnter(d) PROVE OrdersFit'
    <2>1. Matched /\ Quiet /\ pos = 0
      BY <1>0, <1>4 DEF TryEnter, At, OrdersFit, CanEnter, HasPosition
    <2>2. /\ pc'[BarTask] = "entry"
          /\ UNCHANGED <<pos, exOrders, protective, todo, placed>>
      BY <1>4, <1>b DEF TryEnter, bookVars
    <2>3. d * Size # 0 /\ order'[BarTask] = d * Size
      BY <1>4, <1>a, NumberAssumption DEF TryEnter, TaskTypes
    <2>4. Matched' /\ Quiet' /\ Bare'
      BY <2>1, <2>2, MatchedFlat, OrdersFrame DEF Quiet
    <2> QED
      BY <2>2, <2>3, <2>4 DEF OrdersFit
  <1>5. CASE EntryFill
    <2>1. Bare /\ Quiet /\ order[BarTask] # 0
      BY <1>0, <1>5 DEF EntryFill, Awaiting, OrdersFit
    <2>2. CASE HasPosition
      BY <1>5, <1>b, <1>c, <2>2 DEF EntryFill, Raise
    <2>3. CASE ~HasPosition
      <3>1. PICK q \in Fills(order[BarTask]) :
              order' = [order EXCEPT ![BarTask] = q] /\ BookOpen(q)
        BY <1>5, <2>3 DEF EntryFill
      <3>2. q # 0 /\ order'[BarTask] = q /\ pos' = q
        BY <1>a, <2>1, <3>1, FillsSomething DEF BookOpen, TaskTypes
      <3>3. pc'[BarTask] = "pstop" /\ protective' = << >> /\ todo'[BarTask] = << >>
        BY <1>5, <1>a, <1>b, <2>1, <2>3 DEF EntryFill, Bare, TaskTypes
      <3>4. UNCHANGED <<exOrders, placed>>
        BY <1>5 DEF EntryFill
      <3> QED
        BY <2>1, <3>2, <3>3, <3>4 DEF OrdersFit, Bare, Quiet
    <2> QED
      BY <2>2, <2>3
  <1>6. CASE ReplaceCancelReply
    BY <1>0, <1>6 DEF ReplaceCancelReply, CancelHead, Awaiting, OrdersFit, Quiet
  <1>7. CASE StopReply
    <2>1. Bare /\ Quiet /\ pos = order[BarTask] /\ pos # 0
      BY <1>0, <1>7 DEF StopReply, Awaiting, OrdersFit
    <2>2. UsedIds = {}
      <3>1. LiveIds = {} /\ Range(protective) = {} /\ Range(placed) = {}
            /\ \A p \in Tasks : Range(todo[p]) = {}
        BY <1>a, <2>1 DEF Bare, Quiet, LiveIds, Range
      <3> QED
        BY <3>1 DEF UsedIds
    <2>3. NewId # {} /\ NewId \subseteq OrderIds
      BY <2>2 DEF NewId, FreeIds
    <2>4. ~Refused("STOP")
      BY <1>0, <2>3 DEF Refused, TypeOK, BoundTypes
    <2>5. PICK i \in OrderIds : Accepted(i, "STOP") /\ placed' = <<i>>
      BY <1>7, <2>3, <2>4 DEF StopReply
    <2>6. exOrders' = {[id |-> i, kind |-> "STOP", qty |-> pos]}
      BY <2>1, <2>5 DEF Accepted, Bare
    <2>7. /\ pc'[BarTask] = "ptp"
          /\ UNCHANGED <<order, todo, pos, protective>>
      BY <1>7, <1>b DEF StopReply, bookVars
    <2> QED
      BY <2>1, <2>5, <2>6, <2>7 DEF OrdersFit, Bare, Quiet
  <1>8. CASE TakeProfitReply
    <2>1. PICK i \in OrderIds :
            /\ exOrders = {[id |-> i, kind |-> "STOP", qty |-> pos]}
            /\ placed = <<i>> /\ protective = << >> /\ todo[BarTask] = << >>
      BY <1>0, <1>8 DEF TakeProfitReply, Awaiting, OrdersFit
    <2>2. pos = order[BarTask] /\ pos # 0
      BY <1>0, <1>8 DEF TakeProfitReply, Awaiting, OrdersFit
    <2>3. UsedIds = {i}
      <3>1. LiveIds = {i} /\ Range(protective) = {} /\ Range(placed) = {i}
            /\ \A p \in Tasks : Range(todo[p]) = {}
        BY <1>a, <2>1 DEF LiveIds, Range
      <3> QED
        BY <3>1 DEF UsedIds
    <2>4. NewId # {} /\ NewId \subseteq OrderIds \ {i}
      BY <2>3 DEF NewId, FreeIds
    <2>5. ~Refused("TP")
      BY <1>0, <2>4 DEF Refused, TypeOK, BoundTypes
    <2>6. PICK j \in OrderIds : j # i /\ Accepted(j, "TP") /\ protective' = <<i, j>>
      BY <1>8, <2>1, <2>4, <2>5 DEF TakeProfitReply, BothIds
    <2>7. exOrders' = {[id |-> i, kind |-> "STOP", qty |-> pos], [id |-> j, kind |-> "TP", qty |-> pos]}
      BY <2>1, <2>2, <2>6 DEF Accepted
    <2>8. /\ pc'[BarTask] \in {"post", "sync", "stream"} /\ placed' = << >>
          /\ UNCHANGED <<todo, pos>>
      BY <1>8, <1>a, <1>b DEF TakeProfitReply, bookVars, TaskTypes, Returns
    <2>9. LiveIds' = {i, j} /\ Range(protective') = {i, j}
      BY <2>6, <2>7 DEF LiveIds, Range
    <2>10. {<<o.kind, o.qty>> : o \in exOrders'} = {<<k, pos>> : k \in Kinds}
      BY <2>7 DEF Kinds
    <2>11. Matched' /\ Quiet'
      BY <2>1, <2>2, <2>8, <2>9, <2>10 DEF Matched, Quiet, HasPosition
    <2> QED
      BY <1>c, <2>8, <2>11
  <1>9. CASE ExitBegin(BarTask)
    <2>1. Matched /\ Quiet
      BY <1>0, <1>9 DEF ExitBegin, At, OrdersFit
    <2>2. /\ UNCHANGED <<pos, exOrders, placed>> /\ protective' = << >>
          /\ todo'[BarTask] = protective
          /\ pc'[BarTask] = IF protective = << >> THEN "exec" ELSE "cancel"
      BY <1>9, <1>a, <1>b DEF ExitBegin, TaskTypes
    <2>3. LiveIds' \subseteq Range(todo'[BarTask])
      BY <2>1, <2>2 DEF Matched, LiveIds
    <2>4. protective = << >> => exOrders' = {}
      <3>1. protective = << >> => exOrders = {}
        BY <2>1, NothingLive DEF Matched
      <3> QED
        BY <2>2, <3>1
    <2> QED
      BY <2>1, <2>2, <2>3, <2>4 DEF OrdersFit, Bare, Quiet
  <1>10. CASE CancelReply(BarTask)
    <2> DEFINE s == todo[BarTask]
    <2>1. LiveIds \subseteq Range(s) /\ protective = << >> /\ placed = << >>
      BY <1>0, <1>10 DEF CancelReply, Awaiting, OrdersFit
    <2>2. s # << >> /\ s \in Seq(OrderIds) /\ todo' = [todo EXCEPT ![BarTask] = Tail(s)]
      BY <1>10, <1>a DEF CancelReply, CancelHead
    <2>3. exOrders' = {o \in exOrders : o.id # Head(s)}
      BY <1>0, <1>10 DEF CancelReply, CancelHead, TypeOK, BoundTypes
    <2>4. todo'[BarTask] = Tail(s)
      BY <1>a, <2>2 DEF TaskTypes
    <2>5. LiveIds' \subseteq LiveIds \ {Head(s)}
      BY <2>3 DEF LiveIds
    <2>6. Range(s) \subseteq {Head(s)} \cup Range(Tail(s)) /\ (Len(s) = 1 => Tail(s) = << >>)
      BY <2>2, HeadAndTail
    <2>7. LiveIds' \subseteq Range(todo'[BarTask])
      BY <2>1, <2>4, <2>5, <2>6
    <2>8. pc'[BarTask] = IF Len(s) = 1 THEN "exec" ELSE "cancel"
      BY <1>10, <1>b DEF CancelReply
    <2>9. UNCHANGED <<protective, placed>>
      BY <1>10 DEF CancelReply
    <2>10. Len(s) = 1 => todo'[BarTask] = << >> /\ exOrders' = {}
      <3>1. todo'[BarTask] = << >> => exOrders' = {}
        <4> DEFINE w == todo'[BarTask]
        <4>1. Range(<< >>) = {}
          BY NothingLive
        <4>2. w = << >> => Range(w) = {}
          BY <4>1
        <4> QED
          BY <2>7, <4>2 DEF LiveIds
      <3> QED
        BY <2>4, <2>6, <3>1
    <2> HIDE DEF s
    <2> QED
      BY <2>1, <2>7, <2>8, <2>9, <2>10 DEF OrdersFit, Bare, Quiet
  <1>11. CASE ExitFill(BarTask)
    <2>1. Bare /\ Quiet
      BY <1>0, <1>11 DEF ExitFill, Awaiting, OrdersFit
    <2>2. CASE ~HasPosition
      BY <1>11, <1>b, <1>c, <2>2 DEF ExitFill, Raise
    <2>3. CASE HasPosition
      <3>1. pc'[BarTask] = "rec" /\ pos' = 0
        BY <1>11, <1>b, <2>3 DEF ExitFill, AfterClose, BookClose
      <3>2. Bare' /\ Quiet'
        BY <1>11, <2>1 DEF ExitFill, Bare, Quiet
      <3>3. Matched'
        BY <3>1, <3>2 DEF Matched, Bare, HasPosition, LiveIds, Range
      <3> QED
        BY <3>1, <3>2, <3>3 DEF OrdersFit
    <2> QED
      BY <2>2, <2>3
  <1>12. CASE RecordReply(BarTask) \/ SyncReply(BarTask)
    <2>1. Matched /\ Quiet
      BY <1>0, <1>12 DEF RecordReply, SyncReply, Awaiting, OrdersFit
    <2>2. /\ pc'[BarTask] \in {"post", "sync", "stream"}
          /\ UNCHANGED <<pos, exOrders, protective, todo, placed>>
      BY <1>12, <1>a, <1>b
      DEF RecordReply, SyncReply, Return, AfterSync, bookVars, exchangeVars, TaskTypes, Returns
    <2>3. Matched' /\ Quiet'
      BY <2>1, <2>2, OrdersFrame DEF Quiet
    <2> QED
      BY <1>c, <2>2, <2>3
  <1>13. ~StreamFails /\ ~StoreFails(BarTask) /\ ~OrderRetry(BarTask) /\ ~OrderFails(BarTask)
    BY <1>0 DEF StreamFails, StoreFails, OrderRetry, OrderFails, TypeOK, BoundTypes
  <1>14. CASE Resume \/ Stop \/ UNCHANGED vars
    <2>1. UNCHANGED <<pc, order, adopt, pos, exOrders, protective, todo, placed>>
      BY <1>14 DEF Resume, Stop, vars, taskVars, bookVars, controlVars, exchangeVars
    <2>2. Matched' = Matched /\ Bare' = Bare /\ Quiet' = Quiet
      BY <2>1, OrdersFrame DEF Quiet
    <2>3. LiveIds' = LiveIds
      BY <2>1 DEF LiveIds
    <2> QED
      BY <1>0, <2>1, <2>2, <2>3 DEF OrdersFit
  <1>15. ~NativeTrigger /\ \A k \in Killers : ~Flatten(k)
    BY DEF NativeTrigger
  <1>16. CASE Crash
    BY <1>16, <1>a, <1>c DEF Crash
  <1> QED
    BY <1>0, <1>1, <1>2, <1>3, <1>4, <1>5, <1>6, <1>7, <1>8, <1>9, <1>10, <1>11, <1>12,
       <1>13, <1>14, <1>15, <1>16, <1>a
    DEF Next, BarStep, TaskStep, Fault

\* Real orders on an exchange that takes two of them and triggers none by itself, without
\* flatten calls: between bars the exchange holds the stop and the take-profit of the open
\* position and nothing else, and the handler knows both, until a request fails or the
\* engine starts again.
THEOREM PositionProtected ==
  ASSUME RealOrders, ~NativeTriggers, Killers = {},
         \E one \in OrderIds, two \in OrderIds : one # two
  PROVE  Spec => []ProtectionMatches
  <1>1. Init => ProtectedInv
    <2> SUFFICES ASSUME Init PROVE OrdersFit /\ pc[BarTask] = "boot" /\ starts >= 1
      BY DEF ProtectedInv
    <2>1. Bare /\ Quiet /\ pos = 0 /\ adopt = 0 /\ pc[BarTask] = "boot" /\ starts >= 1
      BY DEF Init, Bare, Quiet, Tasks
    <2>2. Matched
      BY <2>1, TypeInit, MatchedFlat
    <2> QED
      BY <2>1, <2>2 DEF OrdersFit, Ended
  <1>2. PICK one \in OrderIds, two \in OrderIds : one # two
    OBVIOUS
  <1>3. TypeOK /\ ProtectedInv /\ [Next]_vars => ProtectedInv'
    BY <1>2, ProtectedStep
  <1>4. ProtectedInv => ProtectionMatches
    BY DEF ProtectedInv, OrdersFit, Matched, ProtectionMatches, Ended
  <1> QED
    BY <1>1, <1>3, <1>4, TypeCorrect, PTL DEF Spec
=============================================================================
