------------------------------ MODULE Controller ------------------------------
(***************************************************************************)
(* The engine controller (api/controller.py): start(), stop(),             *)
(* flatten_all() and resume(), the circuit breaker, and one engine per     *)
(* traded symbol.                                                          *)
(*                                                                         *)
(* Everything runs on one asyncio event loop, so an action is the stretch  *)
(* between two awaits.  start() and stop() hold a lock across their        *)
(* awaits; flatten_all() and resume() take none.  Engines are numbered in  *)
(* the order in which start() builds them.  An engine is abstracted to     *)
(* what the controller sees of it: LiveEngine has the rest.                *)
(*                                                                         *)
(* Money is a small integer: each engine starts with Each units, and one   *)
(* publication moves its equity by at most one.                            *)
(***************************************************************************)
EXTENDS Integers, FiniteSets, FiniteSetsExt, Functions

CONSTANTS
  N,             \* traded symbols
  Calls,         \* flatten_all() calls in flight at once, of the operator or the breaker
  Operator,      \* the operator may press the kill-switch
  Resumes,       \* the operator may resume
  Each,          \* equity a start gives to an engine
  MaxEquity,     \* bound: equity of an engine
  MaxDailyLoss,  \* risk.max_daily_loss_pct, in percent (0: off)
  MaxDrawdown,   \* risk.max_drawdown_pct, in percent (0: off)
  MaxSessions,   \* bound: calls of start()
  MaxDays,       \* bound: UTC days
  MaxFaults      \* bound: builds and exits that fail

ASSUME ControllerAssumption ==
  /\ N \in Nat \ {0} /\ Each \in Nat \ {0} /\ MaxEquity \in Nat /\ Each <= MaxEquity
  /\ MaxDailyLoss \in 0..100 /\ MaxDrawdown \in 0..100
  /\ {Operator, Resumes} \subseteq BOOLEAN
  /\ MaxSessions \in Nat /\ MaxDays \in Nat /\ MaxFaults \in Nat

VARIABLES
  \* the controller
  lock,          \* who holds _lock: "free", "start" (reconciling), "build", "stop"
  joined,        \* tasks that stop() has gone through
  session,       \* number of the current engine list
  built,         \* engines of the session built so far (= registered states)
  listed,        \* len(_engines): built, or 0 once stop() has emptied the lists
  halted, breakerActive, peak, dayStart,
  day,           \* _day
  today,         \* the UTC date
  call,          \* the flatten_all() calls
  \* the engines
  phase,         \* of the engine's task
  engineHalted,  \* LiveTradingEngine._halted
  entering,      \* engines whose entry order is in flight
  open,          \* has a position
  equity,        \* EngineState.equity
  \* bound
  faults,
  \* history
  account,       \* what the engines really hold together
  high,          \* highest account since the session began, or since resume()
  swept,         \* engines halted by a flatten_all() since the last resume()
  missed,        \* engines whose position the last sweep that reached them did not close: their
                 \* entry was in flight, or the exit failed
  overtaken,     \* engines halted by a sweep that went on after a resume()
  killed         \* flatten_all() was called, and neither resume() nor start() since

sessionVars == <<lock, joined, session, built, listed, phase>>
riskVars    == <<halted, breakerActive, peak, dayStart, day>>
historyVars == <<account, high, swept, missed, overtaken, killed>>
vars == <<sessionVars, riskVars, today, call, engineHalted, entering, open, equity, faults, historyVars>>

-----------------------------------------------------------------------------
Engines   == 1..N
Live      == {e \in Engines : phase[e] \in {"new", "run", "cancel"}}
\* A task whose cancellation was requested does nothing more but end.
Acting    == {e \in Engines : phase[e] \in {"new", "run"}}
NoCall    == [at |-> "idle", engine |-> 0, session |-> 0, resumed |-> FALSE]
InFlight  == {f \in Calls : call[f].at # "idle"}
IsRunning == listed # 0 /\ Live # {}
TotalOf(eq) == FoldFunctionOnSet(+, 0, eq, 1..built)

Init ==
  /\ lock = "free" /\ joined = 0 /\ session = 0 /\ built = 0 /\ listed = 0
  /\ halted = FALSE /\ breakerActive = FALSE /\ peak = 0 /\ dayStart = 0
  /\ day = 0 /\ today = 1
  /\ call = [f \in Calls |-> NoCall]
  /\ phase = [e \in Engines |-> "none"]
  /\ engineHalted = [e \in Engines |-> FALSE]
  /\ entering = {}
  /\ open = [e \in Engines |-> FALSE]
  /\ equity = [e \in Engines |-> 0]
  /\ faults = 0
  /\ account = 0 /\ high = 0 /\ swept = {} /\ missed = {} /\ overtaken = {} /\ killed = FALSE

-----------------------------------------------------------------------------
(* The circuit breaker                                                     *)

\* The day's baselines as a check at total eq leaves them: a new UTC day starts
\* both from eq.
NewDayKeepsPeak(eq) == [start |-> eq, peak |-> peak] \* mutant: only the daily baseline
NewDay(eq) == [start |-> eq, peak |-> eq]
Baselines(eq) ==
  LET b == IF day = today THEN [start |-> dayStart, peak |-> peak] ELSE NewDay(eq)
  IN  [b EXCEPT !.peak = IF @ > eq THEN @ ELSE eq]

Breach(base, eq, limit) == limit > 0 /\ base > 0 /\ (base - eq) * 100 >= limit * base

\* A halted controller, or one whose breaker is already active, is not checked.
Checked == ~halted /\ ~breakerActive

TripUnscheduled(c, f) == c \* mutant: no task is created
TripCall(c, f) == [c EXCEPT ![f] = [NoCall EXCEPT !.at = "scheduled"]]

\* _on_engine_update(): an engine publishes while the states hold the equities
\* eq; c are the flatten_all() calls as the same step leaves them.  (The bound
\* Calls delays an update that would trip while all of them are in flight.)
OnEngineUpdate(eq, c) ==
  LET total == TotalOf(eq)
      b     == Baselines(total)
      trip  == Breach(b.start, total, MaxDailyLoss) \/ Breach(b.peak, total, MaxDrawdown)
  IN  IF Checked /\ built > 0 /\ total > 0
        THEN /\ peak' = b.peak /\ dayStart' = b.start /\ day' = today
             /\ breakerActive' = trip
             /\ IF trip THEN \E f \in Calls : c[f].at = "idle" /\ call' = TripCall(c, f)
                        ELSE call' = c
        ELSE UNCHANGED <<peak, dayStart, day, breakerActive>> /\ call' = c

-----------------------------------------------------------------------------
(* start() and stop()                                                      *)

\* start() returns at once while engines run.
StartAnyway == lock = "free" \* mutant: is_running is not looked at
CanStart == lock = "free" /\ ~IsRunning

\* start() up to the reads of the exchange account (_reconcile_real).
StartBegin ==
  /\ CanStart /\ session < MaxSessions
  /\ lock' = "start" /\ killed' = FALSE
  /\ UNCHANGED <<joined, session, built, listed, phase, riskVars, today, call, engineHalted,
                 entering, open, equity, faults, account, high, swept, missed, overtaken>>

\* The account is read: empty lists, a new set of baselines, no halt.  (A cancelled task that
\* has not ended yet does so before a state is registered, and its publication checks nothing.)
StartReset ==
  /\ lock = "start"
  /\ lock' = "build" /\ session' = session + 1 /\ built' = 0 /\ listed' = 0
  /\ phase' = [e \in Engines |-> "none"]
  /\ engineHalted' = [e \in Engines |-> FALSE]
  /\ entering' = {}
  /\ open' = [e \in Engines |-> FALSE]
  /\ equity' = [e \in Engines |-> 0]
  /\ halted' = FALSE /\ breakerActive' = FALSE
  /\ peak' = N * Each /\ dayStart' = N * Each /\ day' = today
  /\ account' = N * Each /\ high' = N * Each /\ swept' = {} /\ missed' = {} /\ overtaken' = {}
  /\ UNCHANGED <<joined, today, call, faults, killed>>

\* start() is done with the engine being built.
LastOne == built + 1 = N

\* _start_one() after its awaits: register a state whose equity is still 0,
\* append the engine, create its task.  The last one releases the lock.
StartOne ==
  /\ lock = "build"
  /\ built' = built + 1 /\ listed' = listed + 1
  /\ phase' = [phase EXCEPT ![built + 1] = "new"]
  /\ lock' = IF LastOne THEN "free" ELSE "build"
  /\ UNCHANGED <<joined, session, riskVars, today, call, engineHalted, entering, open, equity,
                 faults, historyVars>>

\* _start_one() raises (an unreadable model or replay file): start() leaves the
\* engines built so far running.
StartFails ==
  /\ lock = "build" /\ faults < MaxFaults
  /\ faults' = faults + 1 /\ lock' = "free"
  /\ UNCHANGED <<joined, session, built, listed, phase, riskVars, today, call, engineHalted,
                 entering, open, equity, historyVars>>

\* stop() asks every engine to stop.
StopBegin ==
  /\ lock = "free"
  /\ lock' = "stop" /\ joined' = 0
  /\ UNCHANGED <<session, built, listed, phase, riskVars, today, call, engineHalted,
                 entering, open, equity, faults, historyVars>>

\* stop() goes through the tasks in order: the next one is done ...
StopNext ==
  /\ lock = "stop" /\ joined < listed /\ phase[joined + 1] = "ended"
  /\ joined' = joined + 1
  /\ UNCHANGED <<lock, session, built, listed, phase, riskVars, today, call, engineHalted,
                 entering, open, equity, faults, historyVars>>

\* ... or is not after 12 s ...
NoTimeout(e) == FALSE \* mutant: it waits for ever
TimesOut(e) == lock = "stop" /\ e = joined + 1 /\ e <= listed /\ phase[e] = "run"

\* ... and is cancelled.  stop() does not wait for it to end.
Abandoned == "run" \* mutant: a task that does not end in time is left alone
Cancelled == "cancel"

StopTimesOut(e) ==
  /\ TimesOut(e)
  /\ joined' = e /\ phase' = [phase EXCEPT ![e] = Cancelled]
  /\ UNCHANGED <<lock, session, built, listed, riskVars, today, call, engineHalted,
                 entering, open, equity, faults, historyVars>>

\* The lists are emptied, whether or not a cancelled task has ended.
StopDone ==
  /\ lock = "stop" /\ joined = listed
  /\ lock' = "free" /\ listed' = 0
  /\ UNCHANGED <<joined, session, built, phase, riskVars, today, call, engineHalted, entering,
                 open, equity, faults, historyVars>>

-----------------------------------------------------------------------------
(* The engines                                                             *)

\* The engine's task runs up to its first await: _init_state() gives the state its
\* equity.
EngineInit(e) ==
  /\ phase[e] = "new"
  /\ phase' = [phase EXCEPT ![e] = "run"]
  /\ equity' = [equity EXCEPT ![e] = Each]
  /\ UNCHANGED <<lock, joined, session, built, listed, riskVars, today, call, engineHalted,
                 entering, open, faults, historyVars>>

\* Equities after engine e published: a flat engine's does not move.  (A running
\* engine never reaches exactly 0, the equity of a state that is not initialised.)
Moves(e) ==
  {[equity EXCEPT ![e] = q] : q \in {x \in 1..MaxEquity :
     IF open[e] THEN x - equity[e] \in -1..1 ELSE x = equity[e]}}

\* What the account really did, for the properties.
Record(e, eq) ==
  /\ account' = account + eq[e] - equity[e]
  /\ high' = IF account' > high THEN account' ELSE high

\* A bar without an entry (or the publication before the first): the engine may close
\* the position it has, and publishes.
EngineStep(e) ==
  /\ phase[e] = "run" /\ e \notin entering
  /\ \E eq \in Moves(e), o \in {FALSE, open[e]} :
       /\ equity' = eq /\ open' = [open EXCEPT ![e] = o]
       /\ Record(e, eq) /\ OnEngineUpdate(eq, call)
  /\ UNCHANGED <<sessionVars, halted, today, engineHalted, entering, faults, swept, missed,
                 overtaken, killed>>

\* A bar with an entry: a flat engine that is not halted sends an order, and waits ...
EvenHalted(e) == TRUE \* mutant: the halt is not looked at
MayEnter(e) == ~engineHalted[e]

EngineEnters(e) ==
  /\ phase[e] = "run" /\ e \notin entering /\ ~open[e] /\ MayEnter(e)
  /\ entering' = entering \cup {e}
  /\ UNCHANGED <<sessionVars, riskVars, today, call, engineHalted, open, equity, faults,
                 historyVars>>

\* ... until it is filled or failed; the engine publishes.
EntryReply(e) ==
  /\ phase[e] = "run" /\ e \in entering
  /\ entering' = entering \ {e}
  /\ \E o \in BOOLEAN : open' = [open EXCEPT ![e] = o]
  /\ OnEngineUpdate(equity, call)
  /\ UNCHANGED <<sessionVars, halted, today, engineHalted, equity, faults, historyVars>>

\* The stream ends or fails, or stop() was seen: run() publishes a last time.
EngineEnds(e) ==
  /\ phase[e] = "run" /\ e \notin entering
  /\ phase' = [phase EXCEPT ![e] = "ended"]
  /\ OnEngineUpdate(equity, call)
  /\ UNCHANGED <<lock, joined, session, built, listed, halted, today, engineHalted, entering,
                 open, equity, faults, historyVars>>

\* The cancellation reaches the task wherever it waits: run() publishes a last time, and the
\* portfolio learns nothing of an order in flight.
CancelLands(e) ==
  /\ phase[e] = "cancel"
  /\ phase' = [phase EXCEPT ![e] = "ended"] /\ entering' = entering \ {e}
  /\ OnEngineUpdate(equity, call)
  /\ UNCHANGED <<lock, joined, session, built, listed, halted, today, engineHalted, open,
                 equity, faults, historyVars>>

-----------------------------------------------------------------------------
(* flatten_all() and resume()                                              *)

\* The engines a sweep halts before it suspends at engine e.
Reached(from, e) == from..e

\* The engines of the rest of the list that have a position to close.
AnyOpen(from, len, o) == {e \in 1..len : o[e]} \* mutant: until every engine is flat
ToClose(from, len, o) == {e \in from..len : o[e]}

\* Calls and halts after call f continues with engine `from` of a list of len
\* engines, whose positions are o: a flat engine is halted without suspending, one
\* with a position is halted and its exit awaited.
SweepFrom(f, from, len, o) ==
  LET waits == ToClose(from, len, o)
      stops == IF waits = {} THEN len ELSE Min(waits)
      newly == Reached(from, stops)
  IN  [call   |-> [call EXCEPT ![f] = IF waits = {} THEN NoCall
                                      ELSE [@ EXCEPT !.at = "exit", !.engine = stops,
                                                     !.session = session]],
       halted |-> [e \in Engines |-> engineHalted[e] \/ e \in newly],
       swept  |-> swept \cup (from..stops),
       missed |-> (missed \ (from..stops)) \cup ((from..stops) \cap entering),
       overtaken |-> IF call[f].resumed THEN overtaken \cup newly ELSE overtaken]

\* flatten_all() begins, called by the operator or as the task of the breaker.
FlattenAll(f) ==
  /\ call[f].at = "scheduled" \/ (Operator /\ call[f].at = "idle")
  /\ halted' = TRUE /\ killed' = TRUE
  /\ LET s == SweepFrom(f, 1, listed, open)
     IN  /\ call' = s.call /\ engineHalted' = s.halted
         /\ swept' = s.swept /\ missed' = s.missed /\ overtaken' = s.overtaken
  /\ UNCHANGED <<sessionVars, breakerActive, peak, dayStart, day, today, entering, open, equity,
                 faults, account, high>>

\* The exit of the engine call f waits for is over, done or failed; the engine
\* publishes and the sweep goes on through the list it iterates.  The engines of
\* an earlier session are no longer in sight.
ExitReply(f) ==
  LET e == call[f].engine
  IN  /\ call[f].at = "exit" /\ call[f].session = session
      /\ \E eq \in Moves(e), o \in {FALSE, open[e]} :
           LET s == SweepFrom(f, e + 1, built, [open EXCEPT ![e] = o])
           IN  /\ equity' = eq /\ open' = [open EXCEPT ![e] = o]
               /\ IF o THEN faults < MaxFaults /\ faults' = faults + 1 ELSE UNCHANGED faults
               /\ engineHalted' = s.halted /\ swept' = s.swept /\ overtaken' = s.overtaken
               /\ missed' = s.missed \cup (IF o THEN {e} ELSE {})
               /\ Record(e, eq) /\ OnEngineUpdate(eq, s.call)
      /\ UNCHANGED <<sessionVars, halted, today, entering, killed>>

OldExitReply(f) ==
  /\ call[f].at = "exit" /\ call[f].session # session
  /\ OnEngineUpdate(equity, [call EXCEPT ![f] = NoCall])
  /\ UNCHANGED <<sessionVars, halted, today, engineHalted, entering, open, equity, faults,
                 historyVars>>

\* The drawdown baseline that resume() leaves.
ResumeKeepsPeak == peak \* mutant: the peak before the loss stays
ResumePeak == IF TotalOf(equity) > 0 THEN TotalOf(equity) ELSE peak

\* The engines that resume() releases.
ResumeFirst == 1..(listed - 1) \* mutant: the last engine is forgotten
Released == 1..listed

Resume ==
  /\ Resumes
  /\ halted' = FALSE /\ breakerActive' = FALSE /\ peak' = ResumePeak
  /\ engineHalted' = [e \in Engines |-> engineHalted[e] /\ e \notin Released]
  /\ call' = [f \in Calls |-> [call[f] EXCEPT !.resumed = call[f].at = "exit"]]
  /\ high' = account /\ swept' = swept \ Released /\ overtaken' = overtaken \ Released
  /\ killed' = FALSE
  /\ UNCHANGED <<sessionVars, dayStart, day, today, entering, open, equity, faults, account,
                 missed>>

Midnight ==
  /\ today < MaxDays
  /\ today' = today + 1
  /\ UNCHANGED <<sessionVars, riskVars, call, engineHalted, entering, open, equity, faults,
                 historyVars>>

-----------------------------------------------------------------------------
EngineAction(e) ==
  \/ EngineInit(e) \/ EngineStep(e) \/ EngineEnters(e) \/ EntryReply(e) \/ EngineEnds(e)
  \/ StopTimesOut(e) \/ CancelLands(e)
CallAction(f) == FlattenAll(f) \/ ExitReply(f) \/ OldExitReply(f)

Next ==
  \/ StartBegin \/ StartReset \/ StartOne \/ StartFails \/ StopBegin \/ StopNext \/ StopDone
  \/ \E e \in Engines : EngineAction(e)
  \/ \E f \in Calls : CallAction(f)
  \/ Resume \/ Midnight

Spec == Init /\ [][Next]_vars

\* Awaited replies arrive, created tasks run, and stop() gives up waiting after
\* 12 s.  No fairness for the operator, the market and the calendar.
Fairness ==
  /\ WF_vars(StartReset) /\ WF_vars(StartOne) /\ WF_vars(StopNext) /\ WF_vars(StopDone)
  /\ \A e \in Engines : /\ WF_vars(EngineInit(e)) /\ WF_vars(EntryReply(e))
                        /\ WF_vars(StopTimesOut(e)) /\ WF_vars(CancelLands(e))
  /\ \A f \in Calls : /\ WF_vars(call[f].at = "scheduled" /\ FlattenAll(f))
                      /\ WF_vars(ExitReply(f) \/ OldExitReply(f))

FairSpec == Spec /\ Fairness
-----------------------------------------------------------------------------
(* Properties                                                              *)

SessionTypes ==
  /\ lock \in {"free", "start", "build", "stop"} /\ session \in Nat
  /\ built \in 0..N /\ listed \in {0, built} /\ (lock = "build" => built < N)
  /\ joined \in 0..N
  /\ phase \in [Engines -> {"none", "new", "run", "cancel", "ended"}]
  /\ \A e \in Engines : phase[e] = "none" <=> e > built
RiskTypes ==
  /\ halted \in BOOLEAN /\ breakerActive \in BOOLEAN /\ peak \in Int /\ dayStart \in Int
  /\ day \in Nat /\ today \in Nat
CallTypes ==
  call \in [Calls -> [at : {"idle", "scheduled", "exit"}, engine : 0..N,
                      session : Nat, resumed : BOOLEAN]]
EngineTypes ==
  /\ engineHalted \in [Engines -> BOOLEAN] /\ open \in [Engines -> BOOLEAN]
  /\ entering \subseteq Engines
  /\ equity \in [Engines -> 0..MaxEquity]
HistoryTypes ==
  /\ faults \in 0..MaxFaults /\ account \in Int /\ high \in Int
  /\ {swept, missed, overtaken} \subseteq SUBSET Engines /\ killed \in BOOLEAN

\* Every variable has its type; the engines built so far are 1..built.
TypeOK == SessionTypes /\ RiskTypes /\ CallTypes /\ EngineTypes /\ HistoryTypes

Quiet == lock = "free" /\ InFlight = {}

\* A start never replaces engines that still trade: whatever start, stop, crash and
\* half-finished start came before, no task of the lists it empties does anything more
\* (controller.py:79-81, 189-204).
OneSession == [][session' # session => Acting = {}]_vars

\* stop() loses no task that goes on: one the lists no longer hold is over or was cancelled,
\* although stop() gives up waiting and never sees a cancelled task end (controller.py:194-204).
NothingUntracked == listed = 0 => Acting = {}

\* Some call waits for the exit of engine e.
BeingClosed(e) == \E f \in Calls : call[f].at = "exit" /\ call[f].engine = e /\ call[f].session = session

\* controller.py:252, "Close every open position at market and halt new entries": an engine that
\* a flatten_all() has reached has no position until resume(), however sweeps, bars and entries in
\* flight interleave, but one that is being closed, one whose exit failed and one that came of an
\* order already in flight.
SweepCloses == \A e \in swept : open[e] => e \in missed \/ BeingClosed(e)

\* The first check of a UTC day never trips: yesterday's losses are not charged to
\* today (controller.py:227-230).
FreshDay == [][breakerActive' /\ ~breakerActive => day = today]_vars

\* config.py:232-233 (a loss since the start of the day, a drop from the session's
\* peak): the breaker trips only when the account is below its highest value since
\* the session began, or since resume().
TripIsALoss == [][breakerActive' /\ ~breakerActive => account' < high']_vars

\* controller.py:273, "Clear the halt so engines can take new entries again": when all calls are
\* over, a controller that is not halted has no halted engine, but those that a sweep halted which
\* was under way when resume() came.
ResumeClears == Quiet /\ ~halted => \A e \in Acting : engineHalted[e] => e \in overtaken

\* controller.py:254, "halt new entries": once a flatten_all() was called, and until
\* resume() or a later start(), every running engine is halted when all calls are
\* over.
KillCoversEngines == Quiet /\ killed => \A e \in Acting : engineHalted[e]

\* Every flatten_all() begins and ends ...
FlattenAllEnds ==
  \A f \in Calls, l \in {"scheduled", "exit"} : call[f].at = l ~> call[f].at # l
\* ... a trip of the breaker leads to a halt, unless resume() or start() clears it ...
TripHalts == breakerActive ~> halted \/ ~breakerActive
\* ... and start() and stop() give the lock back.
LockReturns == lock # "free" ~> lock = "free"
=============================================================================
